---------------------------- MODULE MCController ----------------------------
(***************************************************************************)
(* Instances of Controller for TLC.                                        *)
(***************************************************************************)
EXTENDS Controller

CONSTANTS n1, half, whole, double

Cfg(m, size, gpus, pinned, n) ==
    [size |-> size, gpus |-> gpus, pinned |-> pinned, n |-> n, model |-> m]

\* How much of a GPU a model takes; the last one shards over two.
Sizes == half :> 1 @@ whole :> 2 @@ double :> 4
Ways == half :> 0 @@ whole :> 0 @@ double :> 2

\* Two replicas that fill the node; a pinned one that has to clear it.
Operators == {{Cfg(whole, 2, 0, FALSE, 2)}, {Cfg(double, 4, 0, TRUE, 1)}}

Quiet == [f \in Faults |-> 0]
Calls(n) == "call" :> n @@ Quiet
PlaceBudgets ==
    {"movefail" :> 1 @@ "loadfail" :> 1 @@ Calls(3), "death" :> 1 @@ Calls(3),
     "join" :> 1 @@ "leave" :> 1 @@ Calls(2), "restart" :> 1 @@ "movefail" :> 1 @@ Calls(3)}

\* For section 6 of the README: HOT, WARM, HOT on other GPUs, and then a restart.
ReloadBudgets == {"restart" :> 1 @@ Calls(4)}

\* The same: a model at two dtypes; calls before the task of a failed move.
Dtypes == {{Cfg(half, 1, 0, FALSE, 1)}, {Cfg(half, 2, 0, FALSE, 1)}}
LateBudgets == {"movefail" :> 1 @@ Calls(6)}
=============================================================================
