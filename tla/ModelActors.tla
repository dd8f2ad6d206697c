---------------------------- MODULE ModelActors ----------------------------
(***************************************************************************)
(* The controller and the model actors as the dispatcher's remote calls    *)
(* see them: a call is served in one step and its answer is used in a      *)
(* later one.                                                              *)
(***************************************************************************)
EXTENDS PoolState

\* get_deployment is answered with the ids that are HOT.
Listed(c) ==
    /\ co[c].pc = "get"
    /\ co' = [co EXCEPT ![c] = [Idle EXCEPT !.pc = "got", !.res = hot]]
    /\ UNCHANGED <<front, wk, connErr, env, answered, dropped, budget>>

\* scale adds a replica: a fresh id, or a WARM one that is promoted.
ScaleServed(c) ==
    /\ co[c].pc = "scale"
    /\ \E rid \in Rids :
          /\ actor[rid] \in {"none", "cached"}
          /\ actor' = [actor EXCEPT ![rid] = "loading"]
          /\ hot' = hot \cup {rid}
          /\ co' = [co EXCEPT ![c] =
                       [Idle EXCEPT !.pc = "scaled", !.res = {rid}]]
    /\ UNCHANGED <<front, wk, connErr, orphans, answered, dropped, budget>>

\* scale answers with an error (CANT_ACCOMMODATE, no such repository).
ScaleRefused(c) ==
    /\ co[c].pc = "scale"
    /\ \/ Spend("refuse")
       \/ /\ \A rid \in Rids : actor[rid] \notin {"none", "cached"}
          /\ UNCHANGED budget
    /\ co' = [co EXCEPT ![c] = [Idle EXCEPT !.pc = "scaled"]]
    /\ UNCHANGED <<front, wk, connErr, env, answered, dropped>>

-----------------------------------------------------------------------------
(* The actors *)

\* The workers waiting for an answer of the actor behind rid.
At(rid, pc) == {t \in Tasks : wk[t].pc = pc /\ wk[t].obj[1] = rid}

Becomes(S, pc) ==
    [t \in Tasks |-> IF t \in S THEN [wk[t] EXCEPT !.pc = pc] ELSE wk[t]]

NotOn(rid) == {x \in orphans : x[1] # rid}

\* run() reaches an actor that serves.
RunBegins(t) ==
    /\ wk[t].pc = "run" /\ actor[wk[t].obj[1]] = "ready"
    /\ wk' = Becomes({t}, "exec")
    /\ UNCHANGED <<front, co, connErr, env, answered, dropped, budget>>

\* run() reaches an actor that is WARM, gone, or restarting.
RunRejected(t) ==
    /\ wk[t].pc = "run"
    /\ \/ /\ actor[wk[t].obj[1]] \in Gone \cup {"cached"}
          /\ wk' = Becomes({t}, "evicted")
       \/ /\ actor[wk[t].obj[1]] = "restarting"
          /\ wk' = Becomes({t}, "unavail")
    /\ UNCHANGED <<front, co, connErr, env, answered, dropped, budget>>

\* run() answers the user itself and returns.
RunEnds(t) ==
    /\ wk[t].pc = "exec"
    /\ Publish(wk[t].req, "DONE")
    /\ wk' = Becomes({t}, "ok")
    /\ UNCHANGED <<front, co, connErr, env, dropped, budget>>

\* The connection breaks under the await; the actor goes on by itself.
RunDisconnected(t) ==
    /\ wk[t].pc \in {"run", "exec"}
    /\ Spend("conn")
    /\ wk' = Becomes({t}, "failed")
    /\ orphans' = orphans \cup {<<wk[t].obj[1], wk[t].req>>}
    /\ UNCHANGED <<front, co, connErr, hot, actor, answered, dropped>>

\* An actor whose caller is gone answers the user all the same.
OrphanEnds(x) ==
    /\ actor[x[1]] = "ready"
    /\ orphans' = orphans \ {x}
    /\ Publish(x[2], "DONE")
    /\ UNCHANGED <<front, wk, co, connErr, hot, actor, dropped, budget>>

\* The constructor, a restart or from_cache() finishes.
ActorLoads(rid) ==
    /\ actor[rid] \in {"loading", "restarting"}
    /\ actor' = [actor EXCEPT ![rid] = "ready"]
    /\ UNCHANGED <<front, wk, co, connErr, hot, orphans, answered, dropped,
                   budget>>

\* The load fails; the controller's monitor deletes the actor and the record.
ActorLoadFails(rid) ==
    /\ actor[rid] = "loading"
    /\ Spend("loadfail")
    /\ actor' = [actor EXCEPT ![rid] = "dead"]
    /\ hot' \in {hot, hot \ {rid}}
    /\ UNCHANGED <<front, wk, co, connErr, orphans, answered, dropped>>

\* HOT -> WARM: the request it runs is preempted with CachedActorError.
ActorDemoted(rid) ==
    /\ actor[rid] = "ready"
    /\ Spend("demote")
    /\ actor' = [actor EXCEPT ![rid] = "cached"]
    /\ hot' = hot \ {rid}
    /\ orphans' = NotOn(rid)
    /\ wk' = Becomes(At(rid, "exec"), "evicted")
    /\ UNCHANGED <<front, co, connErr, answered, dropped>>

\* The actor is killed by an eviction (and unlisted) or dies for good under a
\* record nobody reaps: ActorDiedError, also for an answer not yet returned.
ActorDies(rid) ==
    /\ actor[rid] \notin Gone
    /\ \/ Spend("evict") /\ hot' = hot \ {rid}
       \/ Spend("crash") /\ UNCHANGED hot
    /\ actor' = [actor EXCEPT ![rid] = "dead"]
    /\ orphans' = NotOn(rid)
    /\ \E lost \in SUBSET At(rid, "ok") :
          wk' = Becomes(At(rid, "exec") \cup lost, "evicted")
    /\ UNCHANGED <<front, co, connErr, answered, dropped>>

\* An unrecoverable CUDA fault: the user is told, the actor restarts itself.
ActorRestarts(t) ==
    /\ wk[t].pc = "exec"
    /\ Spend("restart")
    /\ Publish(wk[t].req, "DONE")
    /\ actor' = [actor EXCEPT ![wk[t].obj[1]] = "restarting"]
    /\ orphans' = NotOn(wk[t].obj[1])
    /\ wk' = Becomes(At(wk[t].obj[1], "exec"), "unavail")
    /\ UNCHANGED <<front, co, connErr, hot, dropped>>

\* ndif deploy: a replica nobody in the dispatcher asked for.
OperatorDeploys(rid) ==
    /\ actor[rid] = "none"
    /\ Spend("deploy")
    /\ actor' = [actor EXCEPT ![rid] = "loading"]
    /\ hot' = hot \cup {rid}
    /\ UNCHANGED <<front, wk, co, connErr, orphans, answered, dropped>>

ControllerStep(c) == Listed(c) \/ ScaleServed(c) \/ ScaleRefused(c)

RunStep(t) == RunBegins(t) \/ RunRejected(t) \/ RunEnds(t)
=============================================================================
