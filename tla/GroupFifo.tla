----------------------------- MODULE GroupFifo -----------------------------
(***************************************************************************)
(* What the request queue promises, without keys, ranks or a heap: two     *)
(* groups, the priority group always first, and inside a group whoever     *)
(* arrived first.  A request handed back by an evicted replica waits       *)
(* again at the place its first arrival gives it.                          *)
(***************************************************************************)
EXTENDS Integers

CONSTANTS Requests, Priority

VARIABLES
    arrival,    \* time of first arrival, 0 while the request is unknown
    waiting,    \* requests in line
    serving     \* requests handed to a replica

vars == <<arrival, waiting, serving>>

Init ==
    /\ arrival = [r \in Requests |-> 0]
    /\ waiting = {}
    /\ serving = {}

\* s has no right to be served before r.
MayPrecede(r, s) ==
    \/ r \in Priority /\ s \notin Priority
    \/ (r \in Priority <=> s \in Priority) /\ arrival[r] <= arrival[s]

\* A request arrives no earlier than everyone who arrived before it.
Arrive(r) ==
    /\ arrival[r] = 0
    /\ arrival' = [arrival EXCEPT ![r] = arrival'[r]]
    /\ arrival'[r] \in Nat \ {0}
    /\ \A s \in Requests : arrival[s] <= arrival'[r]
    /\ waiting' = waiting \cup {r}
    /\ UNCHANGED serving

Serve ==
    /\ \E r \in waiting :
          /\ \A s \in waiting : MayPrecede(r, s)
          /\ waiting' = waiting \ {r}
          /\ serving' = serving \cup {r}
    /\ UNCHANGED arrival

HandBack(r) ==
    /\ r \in serving
    /\ serving' = serving \ {r}
    /\ waiting' = waiting \cup {r}
    /\ UNCHANGED arrival

Answer(r) ==
    /\ r \in serving
    /\ serving' = serving \ {r}
    /\ UNCHANGED <<arrival, waiting>>

\* A kill takes one request out of the line, a purge all of them.
GiveUp(S) ==
    /\ waiting' = waiting \ S
    /\ UNCHANGED <<arrival, serving>>

Next ==
    \/ \E r \in Requests : Arrive(r) \/ HandBack(r) \/ Answer(r)
    \/ Serve
    \/ \E S \in SUBSET waiting : GiveUp(S)

Spec == Init /\ [][Next]_vars
=============================================================================
