---------------------------- MODULE MCDispatcher ----------------------------
(***************************************************************************)
(* Instances of Dispatcher for TLC.  A budget names the events of one      *)
(* scenario, all others are off; a run has one or several.                 *)
(***************************************************************************)
EXTENDS Dispatcher, TLC

CONSTANTS r1, r2, r3, a, b, s1, s2

\* n requests and nothing else.
Only(n) == [e \in Events |-> IF e = "request" THEN n ELSE 0]

\* One replica at a time: a kill, a demotion, a CUDA restart and a death
\* under a record that stays.  Or a second replica, by an operator.
ServeBudgets ==
    {"kill" :> 1 @@ "demote" :> 1 @@ "restart" :> 1 @@ "crash" :> 1 @@ Only(2),
     "deploy" :> 1 @@ "reconcile" :> 1 @@ "demote" :> 1 @@ Only(2)}

\* What purge() is for, with a kill and an eviction.
Purge(fault) == fault :> 1 @@ "evict" :> 1 @@ "kill" :> 1 @@ Only(2)

\* What can go wrong while the autoscaler or an operator adds a replica.
Scale(fault, n) == "scale" :> 1 @@ fault :> 1 @@ Only(n)
Adopt(fault, n) == "deploy" :> 1 @@ "reconcile" :> 1 @@ fault :> 1 @@ Only(n)

PurgeBudgets == {Purge("conn"), Purge("loadfail"), Purge("refuse")}
FaultBudgets ==
    PurgeBudgets \cup {Scale("conn", 1), Adopt("conn", 1)}
                 \cup {Scale("loadfail", 2), Adopt("loadfail", 2)}

\* For liveness: one of each of the events that interrupt a request.
LiveBudgets == {"demote" :> 1 @@ "evict" :> 1 @@ "restart" :> 1 @@ Only(2)}

\* The scenarios of section 6 of the README.  One broken connection.
ConnBudgets == {"conn" :> 1 @@ Only(3)}

\* A second replica, by the autoscaler.
ScaleBudgets == {"scale" :> 1 @@ "demote" :> 1 @@ Only(2)}

\* Two replicas of an idle model, both evicted later.
StrandBudgets == {"deploy" :> 2 @@ "evict" :> 2 @@ Only(2)}

RidSymmetry == Permutations({a, b})
=============================================================================
