---------------------------- MODULE Dispatcher -----------------------------
(***************************************************************************)
(* The dispatcher process for one model: its loop, its events worker, the  *)
(* Processor and the Replicas, composed with the controller and the actors *)
(* (src/ndif/services/api/queue/dispatcher.py).                            *)
(***************************************************************************)
EXTENDS Processor, Replica, ModelActors

(* dispatch_worker: route a request, then drain the error queue. *)

\* Dispatcher.dispatch -> Processor.enqueue of a request popped from Redis.
Enqueue(r) ==
    /\ co[Disp].pc = "idle"
    /\ stamp[r] = 0
    /\ Spend("request")
    /\ stamp' = [stamp EXCEPT ![r] = Cardinality(Admitted) + 1]
    /\ queue' = queue \cup {Arrival(r, Cardinality(Admitted) + 1)}
    /\ CanStart(pool)
    /\ status' = StatusStarted(pool)
    /\ co' = Started(pool, [co EXCEPT ![Disp] =
                                [Idle EXCEPT !.pc = "ack", !.req = r]])
    /\ UNCHANGED <<pool, task, current, wk, connErr, env, answered, dropped>>

\* The acknowledgement of enqueue: QUEUED, PROVISIONING or DEPLOYING.
Acknowledge ==
    /\ co[Disp].pc = "ack"
    /\ Publish(co[Disp].req, "LIVE")
    /\ co' = [co EXCEPT ![Disp] = Idle]
    /\ UNCHANGED <<front, wk, connErr, env, dropped, budget>>

\* handle_errors: a connection error purges; connect() then blocks the loop
\* until Ray is back, so it ends in the purge's last step.
HandleErrors ==
    /\ co[Disp].pc = "idle"
    /\ connErr
    /\ connErr' = FALSE
    /\ PurgeBegin(Disp)
    /\ UNCHANGED <<env, answered, budget>>

-----------------------------------------------------------------------------
(* events_worker: kill *)

\* _kill: take the request out of the queue, or find who is running it.
Kill(r) ==
    /\ co[Ops].pc = "idle"
    /\ Spend("kill")
    /\ IF r \in Queued(queue)
       THEN /\ queue' = Remove(queue, r)
            /\ co' = [co EXCEPT ![Ops] =
                        [Idle EXCEPT !.pc = "kqueued", !.req = r]]
       ELSE \E o \in PoolObjs :
            /\ current[o] = r
            /\ co' = [co EXCEPT ![Ops] =
                        [Idle EXCEPT !.pc = "kpublish", !.obj = o, !.req = r]]
            /\ UNCHANGED queue
    /\ UNCHANGED <<stamp, status, pool, task, current, wk, connErr, env,
                   answered, dropped>>

\* The ERROR is out: done with a queued request; Replica.cancel(interrupt)
\* goes on to the actor.
KillTold ==
    /\ co[Ops].pc \in {"kqueued", "kpublish"}
    /\ Publish(co[Ops].req, "ERROR")
    /\ co' = [co EXCEPT ![Ops] = IF @.pc = "kqueued" THEN Idle
                                 ELSE [@ EXCEPT !.pc = "kactor"]]
    /\ UNCHANGED <<front, wk, connErr, env, dropped, budget>>

\* handle.cancel(): the actor stops whatever it is executing, maybe another
\* request by now, and tells that user ERROR; or nothing happens (it has not
\* reached execute(), the call fails or times out).
KillActor ==
    /\ co[Ops].pc = "kactor"
    /\ co' = [co EXCEPT ![Ops].pc = "kpoll"]
    /\ LET rid == co[Ops].obj[1]
       IN  \/ UNCHANGED <<wk, orphans, answered>>
           \/ \E t \in At(rid, "exec") :
                /\ Publish(wk[t].req, "DONE")
                /\ wk' = Becomes({t}, "ok")
                /\ UNCHANGED orphans
           \/ \E x \in orphans :
                /\ x[1] = rid
                /\ Publish(x[2], "DONE")
                /\ orphans' = orphans \ {x}
                /\ UNCHANGED wk
    /\ UNCHANGED <<front, connErr, hot, actor, dropped, budget>>

\* A poll sees another current_request, or it was the last one.
KillPolled ==
    /\ co[Ops].pc = "kpoll"
    /\ co' = [co EXCEPT ![Ops] = IF current[@.obj] # @.req THEN Idle
                                 ELSE [@ EXCEPT !.pc = "kcancel"]]
    /\ UNCHANGED <<front, wk, connErr, env, answered, dropped, budget>>

\* After the last sleep the task is cancelled, whatever it runs by now.
KillCancels ==
    /\ co[Ops].pc = "kcancel"
    /\ wk' = Cancelled(wk, {co[Ops].obj})
    /\ co' = [co EXCEPT ![Ops] = Idle]
    /\ UNCHANGED <<front, connErr, env, answered, dropped, budget>>

-----------------------------------------------------------------------------

DispStep == Acknowledge \/ HandleErrors \/ PurgeStep(Disp)

OpsStep == KillTold \/ KillActor \/ KillPolled \/ KillCancels \/ Reconciled

Commands ==
    \/ \E r \in Requests : Enqueue(r) \/ Kill(r)
    \/ Reconcile \/ ScaleUp

Disturbances ==
    \/ ReconcileDisconnected \/ ScaleDisconnected
    \/ \E s \in Starts : StartDisconnected(s)
    \/ \E o \in Objs : AdoptDisconnected(o)
    \/ \E t \in Tasks : RunDisconnected(t) \/ ActorRestarts(t)
    \/ \E rid \in Rids :
          ActorLoadFails(rid) \/ ActorDemoted(rid) \/ ActorDies(rid)
          \/ OperatorDeploys(rid)

Next ==
    \/ Commands
    \/ Disturbances
    \/ DispStep \/ OpsStep \/ ScalerStep
    \/ \E s \in Starts : StartStep(s)
    \/ \E o \in Objs : AdoptStep(o)
    \/ \E t \in Tasks : WorkerStep(t) \/ RunStep(t)
    \/ \E c \in Starts \cup {Ops, Scaler} : ControllerStep(c)
    \/ \E rid \in Rids : ActorLoads(rid)
    \/ \E x \in orphans : OrphanEnds(x)

Spec == Init /\ [][Next]_vars

\* The event loop runs every coroutine that can continue, the controller and
\* the actors answer, an actor that loads finishes loading.  Arrivals,
\* commands, disturbances and the autoscaler's clock are not fair.
Fairness ==
    /\ WF_vars(DispStep) /\ WF_vars(OpsStep) /\ WF_vars(ScalerStep)
    /\ \A s \in Starts : WF_vars(StartStep(s))
    /\ \A o \in Objs : WF_vars(AdoptStep(o))
    /\ \A t \in Tasks : WF_vars(WorkerStep(t)) /\ WF_vars(RunStep(t))
    /\ \A c \in Starts \cup {Ops, Scaler} : WF_vars(ControllerStep(c))
    /\ \A rid \in Rids : WF_vars(ActorLoads(rid))

FairSpec == Spec /\ Fairness

\* Next leaves open how soon the event loop runs a task that needs no I/O to
\* go on.  asyncio runs the callbacks that are ready before it polls again,
\* so every behaviour of PromptSpec, in which such a task goes first, is one
\* of the program's.
Ready(t) ==
    wk[t].pc = "new" \/ wk[t].cancel \/ (wk[t].pc = "get" /\ queue # {})

Prompt ==
    (\E t \in Tasks : Ready(t)) => \E t \in Tasks : Ready(t) /\ WorkerStep(t)

PromptSpec == Init /\ [][Next /\ Prompt]_vars

-----------------------------------------------------------------------------
(* Properties *)

\* The types of the state.
TypeOK ==
    /\ queue \subseteq Entries
    /\ stamp \in [Requests -> Nat]
    /\ status \in Statuses
    /\ pool \in [Rids -> Objs \cup {None}]
    /\ task \in [Objs -> Tasks \cup {None}]
    /\ current \in [Objs -> Requests \cup {None}]
    /\ wk \in [Tasks -> WorkerRecs]
    /\ co \in [Coros -> CoroRecs]
    /\ connErr \in BOOLEAN
    /\ hot \subseteq Rids
    /\ actor \in [Rids -> {"none", "loading", "ready", "restarting", "cached",
                           "dead"}]
    /\ orphans \subseteq Rids \X Requests
    /\ answered \subseteq Requests
    /\ dropped \subseteq Requests
    /\ budget \in [Events -> Nat]

\* Where the dispatcher is responsible for a request.
Holding == InDispatch \cup {"cancelling"}
Holds(t, r) == wk[t].pc \in Holding /\ wk[t].req = r
Killing(r) == co[Ops].pc = "kqueued" /\ co[Ops].req = r

\* No interleaving of evictions, cancels, kills, purges and restarts makes the
\* dispatcher forget a request: one that was admitted is queued, held by a
\* worker or the kill handler, answered, or was cleared by a purge that did
\* not tell it (processor.py:497-498, replica.py:280-281).
NoLostRequest ==
    \A r \in Admitted :
        \/ r \in Queued(queue)
        \/ \E t \in Tasks : Holds(t, r)
        \/ Killing(r)
        \/ r \in answered
        \/ r \in dropped

\* A request has one owner: the queue (once), one worker, or the kill handler.
\* An eviction's hand-back never leaves a request both queued and running
\* (replica.py:275-296).
OneOwner ==
    /\ \A e, f \in queue : e.req = f.req => e = f
    /\ \A t, u \in Tasks, r \in Requests : Holds(t, r) /\ Holds(u, r) => t = u
    /\ \A r \in Requests :
          /\ r \in Queued(queue) =>
                ~Killing(r) /\ \A t \in Tasks : ~Holds(t, r)
          /\ Killing(r) => \A t \in Tasks : ~Holds(t, r)

\* A block an actor goes on executing after its worker was cancelled or cut
\* off is never executed a second time (replica.py:231-255, 297-316).
NoSecondRun ==
    \A x \in orphans :
        /\ x[2] \notin Queued(queue)
        /\ \A t \in Tasks :
              Holds(t, x[2]) => wk[t].pc \in {"cancelling", "failed"}

\* start() is under way, its last broadcast excepted.
Starting(s) == co[s].pc \notin {"idle", "serving"}

\* While the status says that setup is under way, some start() is: otherwise
\* ensure_started() would refuse for ever (processor.py:155).
SetupHasStart ==
    status \in Setup => \E s \in Starts : Starting(s)

\* ensure_started() never lets two start() calls set the pool up at the same
\* time (processor.py:147-158).
OneStart ==
    \A s, u \in Starts : Starting(s) /\ Starting(u) => s = u

\* At most one worker task serves a replica id (processor.py:438-439).
OneWorkerPerReplica ==
    \A t, u \in Tasks :
        /\ wk[t].pc # "free" /\ wk[u].pc # "free"
        /\ wk[t].obj[1] = wk[u].obj[1]
        => t = u

\* All of them: one start() at a time sets the pool up while the status says
\* so, and the workers it spawned share no replica.
PoolSound == SetupHasStart /\ OneStart /\ OneWorkerPerReplica

\* Somebody will look at a queue that is not empty: a worker, a start(), or a
\* coroutine that is bringing a replica up (processor.py:12-15).
Attended ==
    queue # {} =>
        \/ \E t \in Tasks : wk[t].pc # "free"
        \/ \E c \in Starts \cup Objs : co[c].pc # "idle"
        \/ co[Scaler].pc = "wait"
        \/ co[Disp].pc \in {"pbcast", "pcancel"}

\* Every request that is admitted is answered in the end, unless a purge
\* cleared it (processor.py:170-180, replica.py:186-206).
EveryRequestAnswered ==
    \A r \in Requests : stamp[r] # 0 ~> r \in answered \cup dropped

\* purge() errors every request that it clears (processor.py:484).
PurgeTellsEveryone == dropped = {}
=============================================================================
