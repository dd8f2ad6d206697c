----------------------------- MODULE Processor -----------------------------
(***************************************************************************)
(* The coroutines that look after one model's pool: start() brings it up,  *)
(* scale_up() grows it, reconcile() and adopt() take over what an operator *)
(* deployed, purge() gives everything up                                   *)
(* (src/ndif/services/api/queue/processor.py).                             *)
(***************************************************************************)
EXTENDS PoolState

(* purge(), run by a failed start() or by the dispatcher: c is the caller. *)

\* The loop over list(self.replicas.values()): replicas with no request in
\* flight are cancelled without an await; the first busy one waits for its
\* ERROR.  At the end the pool is cleared.
PurgeReplicas(c, objs, w) ==
    \E S \in SUBSET {o \in objs : current[o] = None} :
        /\ wk' = Cancelled(w, S)
        /\ \/ /\ S = objs
              /\ pool' = EmptyPool
              /\ status' = "UNINITIALIZED"
              /\ co' = [co EXCEPT ![c] = Idle]
           \/ \E o \in objs \ S :
                /\ current[o] # None
                /\ co' = [co EXCEPT ![c] = [Idle EXCEPT
                            !.pc = "pcancel", !.objs = objs \ (S \cup {o}),
                            !.obj = o, !.req = current[o]]]
                /\ UNCHANGED <<pool, status>>

\* queue.clear(), then the replicas.
PurgeClear(c) ==
    /\ queue' = {}
    /\ dropped' = dropped \cup (Queued(queue) \ answered)
    /\ PurgeReplicas(c, PoolObjs, wk)
    /\ UNCHANGED <<stamp, task, current>>

\* The broadcast over the snapshot; nothing to await when it is empty.
PurgeBegin(c) ==
    IF queue = {}
    THEN PurgeClear(c)
    ELSE /\ co' = [co EXCEPT ![c] =
                      [Idle EXCEPT !.pc = "pbcast", !.todo = queue]]
         /\ UNCHANGED <<front, wk, dropped>>

PurgePublished(c) ==
    /\ co[c].pc = "pbcast" /\ co[c].todo = {}
    /\ PurgeClear(c)
    /\ UNCHANGED <<connErr, env, answered, budget>>

\* Replica.cancel() of a busy replica: its ERROR is out, cancel the task.
PurgeCancel(c) ==
    /\ co[c].pc = "pcancel"
    /\ Publish(co[c].req, "ERROR")
    /\ PurgeReplicas(c, co[c].objs, Cancelled(wk, {co[c].obj}))
    /\ UNCHANGED <<queue, stamp, task, current, connErr, env, dropped,
                   budget>>

-----------------------------------------------------------------------------
(* start() *)

\* reply() to everyone queued, or straight on when nobody is.
Serving == IF queue = {} THEN Idle
           ELSE [Idle EXCEPT !.pc = "serving", !.todo = queue]

\* The loop over list(self.replicas.values()), p being the pool.
WaitLoop(p) ==
    IF p = EmptyPool THEN Serving
    ELSE [Idle EXCEPT !.pc = "wait", !.objs = {p[rid] : rid \in Rids} \ {None}]

Deploying(p) == IF queue = {} THEN WaitLoop(p)
                ELSE [Idle EXCEPT !.pc = "deploying", !.todo = queue]

\* Register a Replica for each id in S, in the state DEPLOYING.
Register(s, S) ==
    /\ \A rid \in S : CanWrap(rid)
    /\ pool' = [rid \in Rids |->
                  IF rid \in S THEN NewReplica(rid) ELSE pool[rid]]
    /\ status' = "DEPLOYING"
    /\ co' = [co EXCEPT ![s] = Deploying(pool')]
    /\ UNCHANGED <<queue, stamp, task, current, wk, dropped>>

\* Mutant: the failed start reports and leaves everything as it is.
StartFails_LeavesSetup(s) ==
    /\ co' = [co EXCEPT ![s] = Idle]
    /\ UNCHANGED <<front, wk, dropped>>

\* The except branch: purge unless a replica is already serving.
StartFails(s) ==
    IF status = "READY"
    THEN /\ co' = [co EXCEPT ![s] = Idle]
         /\ UNCHANGED <<front, wk, dropped>>
    ELSE PurgeBegin(s)

\* get_deployment answered: adopt what is listed, else deploy one, unless the
\* key needs a trusted request and none is queued.
StartListed(s) ==
    /\ co[s].pc = "got"
    /\ IF co[s].res # {}
       THEN Register(s, co[s].res)
       ELSE IF TrustRemoteCode /\ Queued(queue) \cap Trusted = {}
       THEN StartFails(s)
       ELSE /\ co' = [co EXCEPT ![s] = [Idle EXCEPT !.pc = "scale"]]
            /\ UNCHANGED <<front, wk, dropped>>
    /\ UNCHANGED <<connErr, env, answered, budget>>

\* Replica.provision answered.
StartProvisioned(s) ==
    /\ co[s].pc = "scaled"
    /\ IF co[s].res # {} THEN Register(s, co[s].res) ELSE StartFails(s)
    /\ UNCHANGED <<connErr, env, answered, budget>>

\* One status update of a broadcast.
Broadcast(c) ==
    /\ co[c].pc \in {"deploying", "serving", "pbcast"}
    /\ \E e \in Foremost(co[c].todo) :
          /\ Publish(e.req, IF co[c].pc = "pbcast" THEN "ERROR" ELSE "LIVE")
          /\ co' = [co EXCEPT ![c].todo = @ \ {e}]
    /\ UNCHANGED <<front, wk, connErr, env, dropped, budget>>

Broadcasted(c) ==
    /\ co[c].pc \in {"deploying", "serving"}
    /\ co[c].todo = {}
    /\ co' = [co EXCEPT ![c] =
                 IF @.pc = "deploying" THEN WaitLoop(pool) ELSE Idle]
    /\ UNCHANGED <<front, wk, connErr, env, answered, dropped, budget>>

StartReady(s) ==
    /\ co[s].pc = "wait"
    /\ \E o \in co[s].objs :
          /\ Waited(o)
          /\ Spawn(o)
          /\ co' = [co EXCEPT ![s] =
                       IF co[s].objs = {o} THEN Serving
                       ELSE [Idle EXCEPT !.pc = "wait", !.objs = co[s].objs \ {o}]]
    /\ status' = "READY"
    /\ UNCHANGED <<queue, stamp, pool, current, connErr, env, answered,
                   dropped, budget>>

\* replica.wait() raises: the name no longer resolves.
StartWaitFails(s) ==
    /\ co[s].pc = "wait"
    /\ \E o \in co[s].objs : actor[o[1]] \in Gone
    /\ StartFails(s)
    /\ UNCHANGED <<connErr, env, answered, budget>>

\* A remote call of start() raises a connection error.
StartDisconnected(s) ==
    /\ co[s].pc \in {"get", "scale", "scaled", "wait"}
    /\ Spend("conn")
    /\ connErr' = TRUE
    /\ StartFails(s)
    /\ UNCHANGED <<env, answered>>

-----------------------------------------------------------------------------
(* autoscaling_loop: scale_up() -> Replica.deploy() *)

\* The tick: serving, someone has waited past the threshold, room to grow.
ScaleUp ==
    /\ co[Scaler].pc = "idle"
    /\ status = "READY"
    /\ queue # {}
    /\ Cardinality(PoolObjs) < MaxReplicas
    /\ Spend("scale")
    /\ co' = [co EXCEPT ![Scaler] = [Idle EXCEPT !.pc = "scale"]]
    /\ UNCHANGED <<front, wk, connErr, env, answered, dropped>>

\* provision() answered: registered before it is waited on.
ScaleProvisioned ==
    /\ co[Scaler].pc = "scaled"
    /\ IF co[Scaler].res = {}
       THEN /\ co' = [co EXCEPT ![Scaler] = Idle]
            /\ UNCHANGED pool
       ELSE \E rid \in co[Scaler].res :
            /\ CanWrap(rid)
            /\ pool' = [pool EXCEPT ![rid] = NewReplica(rid)]
            /\ co' = [co EXCEPT ![Scaler] = [Idle EXCEPT !.pc = "wait",
                                                !.obj = NewReplica(rid)]]
    /\ UNCHANGED <<queue, stamp, status, task, current, wk, connErr, env,
                   answered, dropped, budget>>

ScaleReady ==
    /\ co[Scaler].pc = "wait"
    /\ Waited(co[Scaler].obj)
    /\ Spawn(co[Scaler].obj)
    /\ co' = [co EXCEPT ![Scaler] = Idle]
    /\ UNCHANGED <<queue, stamp, status, pool, current, connErr, env,
                   answered, dropped, budget>>

\* wait() raises: deploy() de-registers by id, scale_up() reports; the status
\* is left alone and nobody is asked to re-provision.
ScaleFails ==
    /\ co[Scaler].pc = "wait"
    /\ actor[co[Scaler].obj[1]] \in Gone
    /\ pool' = [pool EXCEPT ![co[Scaler].obj[1]] = None]
    /\ co' = [co EXCEPT ![Scaler] = Idle]
    /\ UNCHANGED <<queue, stamp, status, task, current, wk, connErr, env,
                   answered, dropped, budget>>

ScaleDisconnected ==
    /\ co[Scaler].pc \in {"scale", "scaled", "wait"}
    /\ Spend("conn")
    /\ connErr' = TRUE
    /\ pool' = IF co[Scaler].pc = "wait"
               THEN [pool EXCEPT ![co[Scaler].obj[1]] = None] ELSE pool
    /\ co' = [co EXCEPT ![Scaler] = Idle]
    /\ UNCHANGED <<queue, stamp, status, task, current, wk, env, answered,
                   dropped>>

-----------------------------------------------------------------------------
(* reconcile() and adopt() *)

Reconcile ==
    /\ co[Ops].pc = "idle"
    /\ Spend("reconcile")
    /\ co' = [co EXCEPT ![Ops] = [Idle EXCEPT !.pc = "get"]]
    /\ UNCHANGED <<front, wk, connErr, env, answered, dropped>>

ReconcileDisconnected ==
    /\ co[Ops].pc = "get"
    /\ Spend("conn")
    /\ connErr' = TRUE
    /\ co' = [co EXCEPT ![Ops] = Idle]
    /\ UNCHANGED <<front, wk, env, answered, dropped>>

\* Adopt what the controller lists and the pool lacks, unless a start() is
\* under way; what the controller dropped is left alone.
Reconciled ==
    /\ co[Ops].pc = "got"
    /\ LET gained == IF status \in Setup THEN {}
                     ELSE {rid \in co[Ops].res : pool[rid] = None}
       IN  /\ \A rid \in gained : CanWrap(rid)
           /\ pool' = [rid \in Rids |->
                         IF rid \in gained THEN NewReplica(rid) ELSE pool[rid]]
           /\ co' = [c \in Coros |->
                       IF c = Ops THEN Idle
                       ELSE IF \E rid \in gained : c = NewReplica(rid)
                       THEN [Idle EXCEPT !.pc = "wait"]
                       ELSE co[c]]
    /\ UNCHANGED <<queue, stamp, status, task, current, wk, connErr, env,
                   answered, dropped, budget>>

AdoptReady(o) ==
    /\ co[o].pc = "wait"
    /\ Waited(o)
    /\ Spawn(o)
    /\ status' = "READY"
    /\ co' = [co EXCEPT ![o] = Serving]
    /\ UNCHANGED <<queue, stamp, pool, current, connErr, env, answered,
                   dropped, budget>>

AdoptFails(o) ==
    /\ co[o].pc = "wait"
    /\ actor[o[1]] \in Gone
    /\ pool' = [pool EXCEPT ![o[1]] = None]
    /\ co' = [co EXCEPT ![o] = Idle]
    /\ UNCHANGED <<queue, stamp, status, task, current, wk, connErr, env,
                   answered, dropped, budget>>

AdoptDisconnected(o) ==
    /\ co[o].pc = "wait"
    /\ Spend("conn")
    /\ connErr' = TRUE
    /\ pool' = [pool EXCEPT ![o[1]] = None]
    /\ co' = [co EXCEPT ![o] = Idle]
    /\ UNCHANGED <<queue, stamp, status, task, current, wk, env, answered,
                   dropped>>

-----------------------------------------------------------------------------

PurgeStep(c) == Broadcast(c) \/ PurgePublished(c) \/ PurgeCancel(c)

StartStep(s) ==
    \/ StartListed(s) \/ StartProvisioned(s) \/ StartReady(s)
    \/ StartWaitFails(s) \/ PurgeStep(s) \/ Broadcasted(s)

AdoptStep(o) ==
    \/ AdoptReady(o) \/ AdoptFails(o)
    \/ Broadcast(o) \/ Broadcasted(o)

ScalerStep == ScaleProvisioned \/ ScaleReady \/ ScaleFails
=============================================================================
