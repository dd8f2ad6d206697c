---------------------------- MODULE MCInterleave ----------------------------
\* The instance of Interleave that TLC checks.
EXTENDS Interleave

\* A module that runs twice, as under generate(), with an op in between.
MCForward == <<"l", "fn", "l">>
\* Enough for a read, an edit and a barrier against a barrier and a read.
MCMaxParks == <<2, 1>>
=============================================================================
