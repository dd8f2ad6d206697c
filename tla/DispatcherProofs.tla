-------------------------- MODULE DispatcherProofs -------------------------
(***************************************************************************)
(* The dispatcher is correctly typed, no request is lost, none has two     *)
(* owners and none is run twice, for any number of requests, replica ids,  *)
(* tasks and faults.  As long as no connection breaks and the pool is not  *)
(* scaled up, one start() at a time sets the pool up and no replica has    *)
(* two workers, and a queue that is not empty is attended to.              *)
(*                                                                         *)
(* TypeOK alone is not inductive: that a worker in dispatch() holds a      *)
(* request, and that a coroutine that is about to publish has somebody to  *)
(* publish to, depend on where each of them is.                            *)
(*                                                                         *)
(* Ownership moves in few ways: the dispatcher puts a new request in the   *)
(* queue, a worker takes one out, hands one back or is done with one, the  *)
(* kill handler takes one out and answers it, purge() clears the queue.    *)
(* There is a lemma for each; every action is one of them or moves         *)
(* nothing.                                                                *)
(*                                                                         *)
(* The pool is a matter of who is with each replica: its worker, the       *)
(* start() that set it up, or the adopt() that waits for it.  CInv says    *)
(* that these exclude each other; Watched, that there is always one.       *)
(***************************************************************************)
EXTENDS Dispatcher, FiniteSetTheorems, TLAPS

-----------------------------------------------------------------------------
(* Types *)

FrontTyped ==
    /\ queue \subseteq Entries
    /\ stamp \in [Requests -> Nat]
    /\ status \in Statuses
    /\ pool \in [Rids -> Objs \cup {None}]
    /\ task \in [Objs -> Tasks \cup {None}]
    /\ current \in [Objs -> Requests \cup {None}]

\* A worker has its object; one in dispatch() has its request.
WorkersTyped ==
    /\ wk \in [Tasks -> WorkerRecs]
    /\ \A t \in Tasks :
          /\ wk[t].pc # "free" => wk[t].obj \in Objs
          /\ wk[t].pc \in Holding \cup {"requeue"} => wk[t].req \in Requests

\* A coroutine about to publish knows for whom, the autoscaler what it waits
\* for.
CorosTyped ==
    /\ co \in [Coros -> CoroRecs]
    /\ \A c \in Coros :
          co[c].pc \in {"ack", "pcancel", "kqueued", "kpublish"}
              => co[c].req \in Requests
    /\ co[Scaler].pc = "wait" => co[Scaler].obj \in Objs

EnvTyped ==
    /\ connErr \in BOOLEAN
    /\ hot \subseteq Rids
    /\ actor \in [Rids -> {"none", "loading", "ready", "restarting", "cached",
                           "dead"}]
    /\ orphans \subseteq Rids \X Requests
    /\ answered \subseteq Requests
    /\ dropped \subseteq Requests
    /\ budget \in [Events -> Nat]

TInv == FrontTyped /\ WorkersTyped /\ CorosTyped /\ EnvTyped

-----------------------------------------------------------------------------
(* The helpers keep the types *)

\* The records a coroutine and a task start from.
LEMMA FreshRecords == Idle \in CoroRecs /\ FreeTask \in WorkerRecs
BY DEF Idle, CoroRecs, CPcs, FreeTask, WorkerRecs, WPcs

\* The entries enqueue() puts are entries of their request.
LEMMA NewEntries ==
    ASSUME NEW r \in Requests, NEW n \in Nat, stamp \in [Requests -> Nat]
    PROVE  /\ Arrival(r, n) \in Entries /\ Arrival(r, n).req = r
           /\ InFront(r) \in Entries /\ InFront(r).req = r
<1>1. CASE r \in Priority
  BY <1>1 DEF Arrival, InFront, Entry, Rank, Entries
<1>2. CASE r \notin Priority
  BY <1>2 DEF Arrival, InFront, Entry, Rank, Entries
<1> QED BY <1>1, <1>2

\* A Replica object made for an id is one of its objects.
LEMMA NewReplicaTyped ==
    ASSUME NEW rid \in Rids, CanWrap(rid)
    PROVE  NewReplica(rid) \in Objs
BY DEF CanWrap, NewReplica, Objs

\* The named coroutines are none of the start() ones.
LEMMA StartIsNotNamed ==
    /\ Scaler \notin Starts /\ Ops \notin Starts /\ Disp \notin Starts
    /\ Scaler \in Coros /\ Ops \in Coros /\ Disp \in Coros
BY ConstantsAssumption DEF Coros

\* start() changes one task, which was free.
LEMMA SpawnTyped ==
    ASSUME TInv, NEW o \in Objs, Spawn(o)
    PROVE  /\ task' \in [Objs -> Tasks \cup {None}]
           /\ WorkersTyped'
<1>1. NewTask \in Tasks
  BY DEF Spawn, CanSpawn, NewTask
<1>2. [FreeTask EXCEPT !.pc = "new", !.obj = o] \in WorkerRecs
  BY DEF FreeTask, WorkerRecs, WPcs
<1> QED
  BY <1>1, <1>2 DEF Spawn, TInv, FrontTyped, WorkersTyped, FreeTask, Holding, InDispatch

\* ensure_started() touches at most one coroutine, a start() that was idle.
LEMMA StartedTyped ==
    ASSUME NEW p, NEW c \in [Coros -> CoroRecs], CanStart(p), status \in Statuses
    PROVE  /\ StatusStarted(p) \in Statuses
           /\ Started(p, c) \in [Coros -> CoroRecs]
           /\ \A x \in Coros :
                 \/ Started(p, c)[x] = c[x]
                 \/ x \in Starts /\ Started(p, c)[x] = [Idle EXCEPT !.pc = "get"]
<1>1. StatusStarted(p) \in Statuses
  BY DEF StatusStarted, Statuses
<1>2. [Idle EXCEPT !.pc = "get"] \in CoroRecs
  BY DEF Idle, CoroRecs, CPcs
<1>3. CASE WillStart(p)
  <2>1. PICK s \in IdleStarts : s = CHOOSE x \in IdleStarts : TRUE
    BY <1>3 DEF CanStart
  <2>2. s \in Starts /\ s \in Coros
    BY DEF IdleStarts, Coros
  <2>3. Started(p, c) = [c EXCEPT ![s] = [Idle EXCEPT !.pc = "get"]]
    BY <1>3, <2>1 DEF Started
  <2> QED BY <1>1, <1>2, <2>2, <2>3
<1>4. CASE ~WillStart(p)
  BY <1>1, <1>4 DEF Started
<1> QED BY <1>3, <1>4

\* task.cancel() only raises a flag.
LEMMA CancelledTyped ==
    ASSUME NEW w \in [Tasks -> WorkerRecs], NEW S
    PROVE  /\ Cancelled(w, S) \in [Tasks -> WorkerRecs]
           /\ \A t \in Tasks : /\ Cancelled(w, S)[t].pc = w[t].pc
                               /\ Cancelled(w, S)[t].obj = w[t].obj
                               /\ Cancelled(w, S)[t].req = w[t].req
BY DEF Cancelled, WorkerRecs

\* One worker moves on to another await, perhaps with another request.
LEMMA MoveTyped ==
    ASSUME WorkersTyped, NEW t \in Tasks, wk[t].pc # "free", NEW pc \in WPcs,
           NEW r \in Requests \cup {None},
           pc \in Holding \cup {"requeue"} => r \in Requests,
           wk' = Moved(t, pc, r)
    PROVE  /\ WorkersTyped'
           /\ wk'[t].pc = pc /\ wk'[t].req = r
           /\ \A u \in Tasks \ {t} : wk'[u] = wk[u]
<1>1. PICK w : w = [pc |-> pc, obj |-> wk[t].obj, req |-> r, cancel |-> FALSE]
  OBVIOUS
<1>2. w \in WorkerRecs /\ w.pc = pc /\ w.req = r /\ w.obj = wk[t].obj
  BY <1>1 DEF WorkersTyped, WorkerRecs
<1>3. wk' \in [Tasks -> WorkerRecs] /\ wk'[t] = w
      /\ \A u \in Tasks \ {t} : wk'[u] = wk[u]
  BY <1>1, <1>2 DEF WorkersTyped, Moved
<1> QED BY <1>2, <1>3 DEF WorkersTyped

\* However a worker leaves its loop, takes or hands back, the types stay.
LEMMA ExitTyped ==
    ASSUME TInv, NEW t \in Tasks, NEW cur \in [Objs -> Requests \cup {None}],
           Exit(t, cur)
    PROVE  FrontTyped' /\ WorkersTyped' /\ CorosTyped'
<1>1. FrontTyped'
  BY StartedTyped DEF Exit, TInv, FrontTyped, CorosTyped, Statuses
<1>2. WorkersTyped'
  BY FreshRecords DEF Exit, TInv, WorkersTyped, FreeTask, Holding, InDispatch
<1>3. CorosTyped'
  <2>1. CASE queue = {}
    BY <2>1 DEF Exit, TInv, CorosTyped
  <2>2. CASE queue # {}
    <3>1. PICK p : CanStart(p) /\ co' = Started(p, co)
      BY <2>2 DEF Exit
    <3>2. /\ co' \in [Coros -> CoroRecs]
          /\ \A x \in Coros :
                co'[x] = co[x] \/ (x \in Starts /\ co'[x] = [Idle EXCEPT !.pc = "get"])
      BY <3>1, StartedTyped DEF TInv, FrontTyped, CorosTyped
    <3> QED BY <3>2, StartIsNotNamed DEF TInv, CorosTyped, Idle
  <2> QED BY <2>1, <2>2
<1> QED BY <1>1, <1>2, <1>3

\* Handing a request back keeps the types.
LEMMA HandBackTyped ==
    ASSUME TInv, NEW t \in Tasks, NEW r \in Requests, NEW q \in SUBSET queue,
           wk[t].pc # "free", HandBack(t, r, q)
    PROVE  FrontTyped' /\ WorkersTyped' /\ CorosTyped'
<1>1. FrontTyped'
  BY StartedTyped, NewEntries DEF HandBack, TInv, FrontTyped, CorosTyped
<1>2. WorkersTyped'
  BY MoveTyped DEF HandBack, TInv, WPcs
<1>3. CorosTyped'
  <2>1. /\ co' \in [Coros -> CoroRecs]
        /\ \A x \in Coros :
              co'[x] = co[x] \/ (x \in Starts /\ co'[x] = [Idle EXCEPT !.pc = "get"])
    BY StartedTyped DEF HandBack, TInv, FrontTyped, CorosTyped
  <2> QED BY <2>1, StartIsNotNamed DEF TInv, CorosTyped, Idle
<1> QED BY <1>1, <1>2, <1>3

\* Taking the foremost entry keeps the types, also when it is handed back at once.
LEMMA TakeTyped ==
    ASSUME TInv, NEW t \in Tasks, wk[t].pc # "free", Take(t)
    PROVE  FrontTyped' /\ WorkersTyped' /\ CorosTyped'
<1>1. PICK e \in Foremost(queue) :
        \/ HandBack(t, e.req, queue \ {e})
        \/ /\ queue' = queue \ {e}
           /\ current' = [current EXCEPT ![wk[t].obj] = e.req]
           /\ wk' = Moved(t, "disp", e.req)
           /\ UNCHANGED <<stamp, status, pool, task, co>>
  BY DEF Take
<1>2. e \in queue /\ e.req \in Requests
  BY DEF Foremost, TInv, FrontTyped, Entries
<1>3. CASE HandBack(t, e.req, queue \ {e})
  BY <1>2, <1>3, HandBackTyped
<1>4. CASE /\ queue' = queue \ {e}
           /\ current' = [current EXCEPT ![wk[t].obj] = e.req]
           /\ wk' = Moved(t, "disp", e.req)
           /\ UNCHANGED <<stamp, status, pool, task, co>>
  <2>1. FrontTyped' /\ CorosTyped'
    BY <1>2, <1>4 DEF TInv, FrontTyped, CorosTyped
  <2>2. WorkersTyped'
    BY <1>2, <1>4, MoveTyped DEF TInv, WPcs
  <2> QED BY <2>1, <2>2
<1> QED BY <1>1, <1>3, <1>4

\* One turn of the worker loop keeps the types.
LEMMA LoopTyped ==
    ASSUME TInv, NEW t \in Tasks, NEW cur \in [Objs -> Requests \cup {None}],
           wk[t].pc # "free", Loop(t, cur)
    PROVE  FrontTyped' /\ WorkersTyped' /\ CorosTyped'
<1>1. CASE Exit(t, cur)
  BY <1>1, ExitTyped
<1>2. CASE Take(t)
  BY <1>2, TakeTyped
<1>3. CASE /\ current' = cur
           /\ wk' = Moved(t, "get", None)
           /\ UNCHANGED <<queue, stamp, status, pool, task, co>>
  <2>1. FrontTyped' /\ CorosTyped'
    BY <1>3 DEF TInv, FrontTyped, CorosTyped
  <2>2. WorkersTyped'
    BY <1>3, MoveTyped DEF TInv, WPcs, Holding, InDispatch
  <2> QED BY <2>1, <2>2
<1> QED BY <1>1, <1>2, <1>3 DEF Loop

\* A status that is published goes to a request.
LEMMA PublishTyped ==
    ASSUME EnvTyped, NEW r \in Requests, NEW st, Publish(r, st)
    PROVE  answered' \subseteq Requests
BY DEF EnvTyped, Publish

\* What the actors do to the workers that wait for them.
LEMMA BecomesTyped ==
    ASSUME WorkersTyped, NEW S \in SUBSET Tasks, NEW pc \in InDispatch,
           \A t \in S : wk[t].pc \in InDispatch,
           wk' = Becomes(S, pc)
    PROVE  /\ WorkersTyped'
           /\ \A t \in Tasks : /\ wk'[t].pc = IF t \in S THEN pc ELSE wk[t].pc
                               /\ wk'[t].req = wk[t].req
                               /\ wk'[t].obj = wk[t].obj
<1>1. wk' \in [Tasks -> WorkerRecs]
  BY DEF WorkersTyped, Becomes, WorkerRecs, WPcs, InDispatch
<1>2. \A t \in Tasks : /\ wk'[t].pc = IF t \in S THEN pc ELSE wk[t].pc
                       /\ wk'[t].req = wk[t].req
                       /\ wk'[t].obj = wk[t].obj
  BY DEF WorkersTyped, Becomes, WorkerRecs
<1> QED
  BY <1>1, <1>2 DEF WorkersTyped, InDispatch, Holding

-----------------------------------------------------------------------------
(* The actions *)

\* The worker's own steps.
LEMMA WorkerStepTyped ==
    ASSUME TInv, NEW t \in Tasks, WorkerStep(t)
    PROVE  TInv'
<1> USE DEF TInv
<1>c. /\ current \in [Objs -> Requests \cup {None}]
      /\ Cleared(t) \in [Objs -> Requests \cup {None}]
  BY DEF FrontTyped, Cleared
<1>1. CASE WorkerBegins(t)
  BY <1>1, <1>c, LoopTyped DEF WorkerBegins, Runnable, EnvTyped, env
<1>2. CASE WorkerWakes(t)
  BY <1>2, TakeTyped DEF WorkerWakes, Runnable, EnvTyped, env
<1>3. CASE Dispatched(t)
  <2>1. wk[t].pc = "disp" /\ wk[t].req \in Requests
    BY <1>3 DEF Dispatched, Runnable, WorkersTyped, Holding, InDispatch
  <2>2. WorkersTyped'
    BY <1>3, <2>1, MoveTyped DEF Dispatched, WPcs
  <2>3. FrontTyped' /\ CorosTyped'
    BY <1>3 DEF Dispatched, front, FrontTyped, CorosTyped
  <2> QED BY <1>3, <2>1, <2>2, <2>3, PublishTyped DEF Dispatched, EnvTyped, env
<1>4. CASE WorkerDone(t)
  BY <1>4, <1>c, LoopTyped DEF WorkerDone, Runnable, EnvTyped, env
<1>5. CASE WorkerEvicted(t)
  <2>1. wk[t].pc = "evicted" /\ wk[t].req \in Requests
    BY <1>5 DEF WorkerEvicted, Runnable, WorkersTyped, Holding, InDispatch
  <2> QED BY <1>5, <2>1, HandBackTyped DEF WorkerEvicted, EnvTyped, env
<1>6. CASE WorkerHandedBack(t)
  <2>1. wk[t].pc = "requeue" /\ wk[t].req \in Requests
    BY <1>6 DEF WorkerHandedBack, Runnable, WorkersTyped
  <2> QED
    BY <1>6, <2>1, <1>c, LoopTyped, PublishTyped
    DEF WorkerHandedBack, EnvTyped, env
<1>7. CASE WorkerFailed(t)
  <2>1. wk[t].pc = "failed" /\ wk[t].req \in Requests
    BY <1>7 DEF WorkerFailed, Runnable, WorkersTyped, Holding, InDispatch
  <2> QED
    BY <1>7, <2>1, <1>c, LoopTyped, PublishTyped DEF WorkerFailed, EnvTyped, env
<1>8. CASE WorkerParks(t)
  <2>1. wk[t].pc = "unavail" /\ wk[t].req \in Requests
    BY <1>8 DEF WorkerParks, Runnable, WorkersTyped, Holding, InDispatch
  <2>2. WorkersTyped'
    BY <1>8, <2>1, MoveTyped DEF WorkerParks, WPcs
  <2>3. FrontTyped' /\ CorosTyped'
    BY <1>8 DEF WorkerParks, front, FrontTyped, CorosTyped
  <2> QED BY <1>8, <2>1, <2>2, <2>3, PublishTyped DEF WorkerParks, EnvTyped, env
<1>9. CASE WorkerUnparks(t)
  BY <1>9, <1>c, LoopTyped, ExitTyped DEF WorkerUnparks, Runnable, EnvTyped, env
<1>10. CASE CancelledUnstarted(t)
  <2>1. FrontTyped' /\ CorosTyped'
    BY <1>10 DEF CancelledUnstarted, FrontTyped, CorosTyped
  <2>2. WorkersTyped'
    BY <1>10, FreshRecords
    DEF CancelledUnstarted, WorkersTyped, FreeTask, Holding, InDispatch
  <2> QED BY <1>10, <2>1, <2>2 DEF CancelledUnstarted, EnvTyped, env
<1>11. CASE CancelledWaiting(t)
  BY <1>11, <1>c, ExitTyped DEF CancelledWaiting, EnvTyped, env
<1>12. CASE CancelledDispatch(t)
  <2>1. /\ wk[t].pc \in InDispatch /\ wk[t].pc # "free"
        /\ wk[t].req \in Requests /\ wk[t].obj \in Objs
    BY <1>12 DEF CancelledDispatch, WorkersTyped, Holding, InDispatch
  <2>2. WorkersTyped'
    BY <1>12, <2>1, MoveTyped DEF CancelledDispatch, WPcs
  <2>3. FrontTyped' /\ CorosTyped'
    BY <1>12 DEF CancelledDispatch, front, FrontTyped, CorosTyped
  <2>4. EnvTyped'
    BY <1>12, <2>1 DEF CancelledDispatch, EnvTyped, Objs
  <2> QED BY <2>2, <2>3, <2>4
<1>13. CASE WorkerCancelling(t)
  <2>1. wk[t].pc = "cancelling" /\ wk[t].req \in Requests
    BY <1>13 DEF WorkerCancelling, WorkersTyped, Holding
  <2> QED
    BY <1>13, <2>1, <1>c, ExitTyped, PublishTyped
    DEF WorkerCancelling, EnvTyped, env
<1> QED
  BY <1>1, <1>2, <1>3, <1>4, <1>5, <1>6, <1>7, <1>8, <1>9, <1>10, <1>11, <1>12,
     <1>13
  DEF WorkerStep

\* One coroutine goes on with another record.
LEMMA CoroTyped ==
    ASSUME CorosTyped, NEW c \in Coros, NEW rec \in CoroRecs,
           rec.pc \in {"ack", "pcancel", "kqueued", "kpublish"}
               => rec.req \in Requests,
           c = Scaler /\ rec.pc = "wait" => rec.obj \in Objs,
           co' = [co EXCEPT ![c] = rec]
    PROVE  CorosTyped'
BY DEF CorosTyped

\* The controller's answers.
LEMMA ControllerStepTyped ==
    ASSUME TInv, NEW c \in Starts \cup {Ops, Scaler}, ControllerStep(c)
    PROVE  TInv'
<1> USE DEF TInv
<1>c. c \in Coros
  BY DEF Coros
<1>1. CASE Listed(c)
  <2>1. PICK rec : rec = [Idle EXCEPT !.pc = "got", !.res = hot]
    OBVIOUS
  <2>2. rec \in CoroRecs /\ rec.pc = "got"
    BY <2>1 DEF Idle, CoroRecs, CPcs, EnvTyped
  <2>3. CorosTyped'
    BY <1>1, <1>c, <2>1, <2>2, CoroTyped DEF Listed
  <2> QED
    BY <1>1, <2>3 DEF Listed, front, env, FrontTyped, WorkersTyped, EnvTyped
<1>2. CASE ScaleServed(c)
  <2>1. PICK rid \in Rids :
          /\ actor' = [actor EXCEPT ![rid] = "loading"]
          /\ hot' = hot \cup {rid}
          /\ co' = [co EXCEPT ![c] = [Idle EXCEPT !.pc = "scaled", !.res = {rid}]]
    BY <1>2 DEF ScaleServed
  <2>2. PICK rec : rec = [Idle EXCEPT !.pc = "scaled", !.res = {rid}]
    OBVIOUS
  <2>3. rec \in CoroRecs /\ rec.pc = "scaled"
    BY <2>2 DEF Idle, CoroRecs, CPcs
  <2>4. CorosTyped'
    BY <1>c, <2>1, <2>2, <2>3, CoroTyped
  <2> QED
    BY <1>2, <2>1, <2>4 DEF ScaleServed, front, FrontTyped, WorkersTyped, EnvTyped
<1>3. CASE ScaleRefused(c)
  <2>1. PICK rec : rec = [Idle EXCEPT !.pc = "scaled"]
    OBVIOUS
  <2>2. rec \in CoroRecs /\ rec.pc = "scaled"
    BY <2>1 DEF Idle, CoroRecs, CPcs
  <2>3. CorosTyped'
    BY <1>3, <1>c, <2>1, <2>2, CoroTyped DEF ScaleRefused
  <2> QED
    BY <1>3, <2>3
    DEF ScaleRefused, Spend, front, env, FrontTyped, WorkersTyped, EnvTyped
<1> QED BY <1>1, <1>2, <1>3 DEF ControllerStep

\* Workers that wait for an actor are in dispatch().
LEMMA WaitingForActor ==
    ASSUME WorkersTyped, NEW t \in Tasks, wk[t].pc \in InDispatch
    PROVE  wk[t].req \in Requests /\ wk[t].obj \in Objs /\ wk[t].obj[1] \in Rids
BY DEF WorkersTyped, InDispatch, Holding, Objs

\* A fault is taken from the budget.
LEMMA SpendTyped ==
    ASSUME EnvTyped, NEW f \in Events, Spend(f)
    PROVE  budget' \in [Events -> Nat]
<1>1. budget[f] \in Nat /\ budget[f] > 0 /\ budget[f] - 1 \in Nat
  BY DEF EnvTyped, Spend
<1> QED BY <1>1 DEF EnvTyped, Spend

\* The workers waiting for an actor at one await.
LEMMA AtTyped ==
    ASSUME NEW rid, NEW pc \in InDispatch
    PROVE  /\ At(rid, pc) \in SUBSET Tasks
           /\ \A t \in At(rid, pc) : wk[t].pc \in InDispatch
BY DEF At

\* What an actor does with a run() it was sent.
LEMMA RunStepTyped ==
    ASSUME TInv, NEW t \in Tasks, RunStep(t)
    PROVE  TInv'
<1> USE DEF TInv
<1>1. wk[t].pc \in {"run", "exec"} /\ wk[t].pc \in InDispatch
  BY DEF RunStep, RunBegins, RunRejected, RunEnds, InDispatch
<1>2. PICK pc \in InDispatch : wk' = Becomes({t}, pc)
  BY DEF RunStep, RunBegins, RunRejected, RunEnds, InDispatch
<1>3. WorkersTyped'
  BY <1>1, <1>2, BecomesTyped
<1>4. answered' \subseteq Requests
  <2>1. CASE RunEnds(t)
    BY <2>1, <1>1, WaitingForActor, PublishTyped DEF RunEnds
  <2> QED BY <2>1 DEF RunStep, RunBegins, RunRejected, EnvTyped
<1> QED
  BY <1>3, <1>4
  DEF RunStep, RunBegins, RunRejected, RunEnds, front, env, FrontTyped,
      CorosTyped, EnvTyped

\* Actors by themselves, and what disturbs them.
LEMMA ActorsTyped ==
    ASSUME TInv,
           \/ \E t \in Tasks : RunDisconnected(t) \/ ActorRestarts(t)
           \/ \E rid \in Rids : \/ ActorLoads(rid) \/ ActorLoadFails(rid)
                                \/ ActorDemoted(rid) \/ ActorDies(rid)
                                \/ OperatorDeploys(rid)
           \/ \E x \in orphans : OrphanEnds(x)
    PROVE  TInv'
<1> USE DEF TInv
<1>1. ASSUME NEW t \in Tasks, RunDisconnected(t) PROVE TInv'
  <2>1. wk[t].pc \in InDispatch
    BY <1>1 DEF RunDisconnected, InDispatch
  <2>2. WorkersTyped'
    BY <1>1, <2>1, BecomesTyped DEF RunDisconnected, InDispatch
  <2>3. EnvTyped'
    BY <1>1, <2>1, WaitingForActor, SpendTyped DEF RunDisconnected, EnvTyped, Events
  <2> QED BY <1>1, <2>2, <2>3 DEF RunDisconnected, front, FrontTyped, CorosTyped
<1>2. ASSUME NEW t \in Tasks, ActorRestarts(t) PROVE TInv'
  <2>1. wk[t].pc \in InDispatch
    BY <1>2 DEF ActorRestarts, InDispatch
  <2>2. WorkersTyped'
    BY <1>2, BecomesTyped, AtTyped DEF ActorRestarts, InDispatch
  <2>3. answered' \subseteq Requests
    BY <1>2, <2>1, WaitingForActor, PublishTyped DEF ActorRestarts
  <2>4. EnvTyped'
    BY <1>2, <2>3, SpendTyped DEF ActorRestarts, NotOn, EnvTyped, Events
  <2> QED BY <1>2, <2>2, <2>4 DEF ActorRestarts, front, FrontTyped, CorosTyped
<1>3. ASSUME NEW rid \in Rids, ActorLoads(rid) PROVE TInv'
  BY <1>3 DEF ActorLoads, front, FrontTyped, WorkersTyped, CorosTyped, EnvTyped
<1>4. ASSUME NEW rid \in Rids, ActorLoadFails(rid) PROVE TInv'
  <2>1. EnvTyped'
    BY <1>4, SpendTyped DEF ActorLoadFails, EnvTyped, Events
  <2> QED
    BY <1>4, <2>1 DEF ActorLoadFails, front, FrontTyped, WorkersTyped, CorosTyped
<1>5. ASSUME NEW rid \in Rids, ActorDemoted(rid) PROVE TInv'
  <2>1. WorkersTyped'
    BY <1>5, BecomesTyped, AtTyped DEF ActorDemoted, InDispatch
  <2>2. EnvTyped'
    BY <1>5, SpendTyped DEF ActorDemoted, NotOn, EnvTyped, Events
  <2> QED BY <1>5, <2>1, <2>2 DEF ActorDemoted, front, FrontTyped, CorosTyped
<1>6. ASSUME NEW rid \in Rids, ActorDies(rid) PROVE TInv'
  <2>1. PICK lost \in SUBSET At(rid, "ok") :
            wk' = Becomes(At(rid, "exec") \cup lost, "evicted")
    BY <1>6 DEF ActorDies
  <2>2. WorkersTyped'
    BY <2>1, BecomesTyped DEF At, InDispatch
  <2>3. EnvTyped'
    BY <1>6, SpendTyped DEF ActorDies, NotOn, EnvTyped, Events
  <2> QED BY <1>6, <2>2, <2>3 DEF ActorDies, front, FrontTyped, CorosTyped
<1>7. ASSUME NEW rid \in Rids, OperatorDeploys(rid) PROVE TInv'
  <2>1. EnvTyped'
    BY <1>7, SpendTyped DEF OperatorDeploys, EnvTyped, Events
  <2> QED
    BY <1>7, <2>1 DEF OperatorDeploys, front, FrontTyped, WorkersTyped, CorosTyped
<1>8. ASSUME NEW x \in orphans, OrphanEnds(x) PROVE TInv'
  <2>1. x[2] \in Requests
    BY DEF EnvTyped
  <2>2. answered' \subseteq Requests
    BY <1>8, <2>1, PublishTyped DEF OrphanEnds
  <2> QED
    BY <1>8, <2>2
    DEF OrphanEnds, front, FrontTyped, WorkersTyped, CorosTyped, EnvTyped
<1> QED BY <1>1, <1>2, <1>3, <1>4, <1>5, <1>6, <1>7, <1>8

\* purge() from the clear on: c cancels idle replicas, waits for a busy one, or
\* ends.
LEMMA PurgeReplicasTyped ==
    ASSUME TInv, NEW c \in Coros, NEW objs \in SUBSET Objs,
           NEW w \in [Tasks -> WorkerRecs],
           \A t \in Tasks : /\ w[t].pc = wk[t].pc /\ w[t].req = wk[t].req
                            /\ w[t].obj = wk[t].obj,
           PurgeReplicas(c, objs, w)
    PROVE  /\ WorkersTyped' /\ CorosTyped'
           /\ pool' \in [Rids -> Objs \cup {None}] /\ status' \in Statuses
           /\ \A t \in Tasks : wk'[t].pc = wk[t].pc /\ wk'[t].req = wk[t].req
           /\ \A x \in Coros \ {c} : co'[x] = co[x]
           /\ co'[c].pc \in {"idle", "pcancel"}
<1> USE DEF TInv
<1>1. PICK S \in SUBSET {o \in objs : current[o] = None} :
        /\ wk' = Cancelled(w, S)
        /\ \/ /\ S = objs
              /\ pool' = EmptyPool
              /\ status' = "UNINITIALIZED"
              /\ co' = [co EXCEPT ![c] = Idle]
           \/ \E o \in objs \ S :
                /\ current[o] # None
                /\ co' = [co EXCEPT ![c] = [Idle EXCEPT
                            !.pc = "pcancel", !.objs = objs \ (S \cup {o}),
                            !.obj = o, !.req = current[o]]]
                /\ UNCHANGED <<pool, status>>
  BY DEF PurgeReplicas
<1>2. WorkersTyped' /\ \A t \in Tasks : wk'[t].pc = wk[t].pc /\ wk'[t].req = wk[t].req
  <2>1. wk' = Cancelled(w, S)
    BY <1>1
  <2>2. /\ wk' \in [Tasks -> WorkerRecs]
        /\ \A t \in Tasks : /\ wk'[t].pc = w[t].pc
                            /\ wk'[t].obj = w[t].obj
                            /\ wk'[t].req = w[t].req
    BY <2>1, CancelledTyped
  <2>3. \A t \in Tasks : /\ wk'[t].pc = wk[t].pc
                         /\ wk'[t].obj = wk[t].obj
                         /\ wk'[t].req = wk[t].req
    BY <2>2
  <2> QED BY <2>2, <2>3 DEF WorkersTyped
<1>3. pool' \in [Rids -> Objs \cup {None}] /\ status' \in Statuses
  BY <1>1 DEF EmptyPool, FrontTyped, Statuses
<1>4. PICK rec \in CoroRecs :
        /\ rec.pc \in {"idle", "pcancel"}
        /\ rec.pc = "pcancel" => rec.req \in Requests
        /\ co' = [co EXCEPT ![c] = rec]
  <2>1. CASE co' = [co EXCEPT ![c] = Idle]
    BY <2>1, FreshRecords DEF Idle
  <2>2. ASSUME NEW o \in objs \ S, current[o] # None,
               co' = [co EXCEPT ![c] = [Idle EXCEPT
                            !.pc = "pcancel", !.objs = objs \ (S \cup {o}),
                            !.obj = o, !.req = current[o]]]
        PROVE  \E rec \in CoroRecs :
                 /\ rec.pc \in {"idle", "pcancel"}
                 /\ rec.pc = "pcancel" => rec.req \in Requests
                 /\ co' = [co EXCEPT ![c] = rec]
    <3>1. PICK rec : rec = [Idle EXCEPT !.pc = "pcancel",
                              !.objs = objs \ (S \cup {o}),
                              !.obj = o, !.req = current[o]]
      OBVIOUS
    <3>2. o \in Objs /\ current[o] \in Requests
      BY <2>2 DEF FrontTyped
    <3>3. rec \in CoroRecs /\ rec.pc = "pcancel" /\ rec.req = current[o]
      BY <3>1, <3>2 DEF Idle, CoroRecs, CPcs
    <3> QED BY <2>2, <3>1, <3>2, <3>3
  <2> QED BY <1>1, <2>1, <2>2
<1>5. /\ CorosTyped'
      /\ \A x \in Coros \ {c} : co'[x] = co[x]
      /\ co'[c].pc \in {"idle", "pcancel"}
  BY <1>4, CoroTyped DEF CorosTyped
<1> QED BY <1>2, <1>3, <1>5

\* The queue is cleared; whoever was in it and not answered is dropped.
LEMMA PurgeClearTyped ==
    ASSUME TInv, NEW c \in Coros, PurgeClear(c)
    PROVE  /\ FrontTyped' /\ WorkersTyped' /\ CorosTyped'
           /\ dropped' \subseteq Requests
           /\ \A t \in Tasks : wk'[t].pc = wk[t].pc /\ wk'[t].req = wk[t].req
           /\ \A x \in Coros \ {c} : co'[x] = co[x]
           /\ co'[c].pc \in {"idle", "pcancel"}
<1>1. PoolObjs \in SUBSET Objs
  BY DEF TInv, FrontTyped, PoolObjs
<1>2. wk \in [Tasks -> WorkerRecs]
  BY DEF TInv, WorkersTyped
<1>3. /\ WorkersTyped' /\ CorosTyped'
      /\ pool' \in [Rids -> Objs \cup {None}] /\ status' \in Statuses
      /\ \A t \in Tasks : wk'[t].pc = wk[t].pc /\ wk'[t].req = wk[t].req
      /\ \A x \in Coros \ {c} : co'[x] = co[x]
      /\ co'[c].pc \in {"idle", "pcancel"}
  BY <1>1, <1>2, PurgeReplicasTyped DEF PurgeClear
<1>4. FrontTyped' /\ dropped' \subseteq Requests
  BY <1>3 DEF TInv, FrontTyped, EnvTyped, PurgeClear, Queued, Entries
<1> QED BY <1>3, <1>4

\* The beginning of purge(), with or without somebody to tell.
LEMMA PurgeBeginTyped ==
    ASSUME TInv, NEW c \in Coros, PurgeBegin(c)
    PROVE  /\ FrontTyped' /\ WorkersTyped' /\ CorosTyped'
           /\ dropped' \subseteq Requests
<1>1. CASE queue = {}
  BY <1>1, PurgeClearTyped DEF PurgeBegin
<1>2. CASE queue # {}
  <2>1. PICK rec : rec = [Idle EXCEPT !.pc = "pbcast", !.todo = queue]
    OBVIOUS
  <2>2. rec \in CoroRecs /\ rec.pc = "pbcast"
    BY <2>1 DEF Idle, CoroRecs, CPcs, TInv, FrontTyped
  <2>3. CorosTyped'
    BY <1>2, <2>1, <2>2, CoroTyped DEF PurgeBegin, TInv
  <2> QED
    BY <1>2, <2>3
    DEF PurgeBegin, front, TInv, FrontTyped, WorkersTyped, EnvTyped
<1> QED BY <1>1, <1>2

\* The except branch of start().
LEMMA StartFailsTyped ==
    ASSUME TInv, NEW s \in Starts, StartFails(s)
    PROVE  /\ FrontTyped' /\ WorkersTyped' /\ CorosTyped'
           /\ dropped' \subseteq Requests
<1>0. s \in Coros
  BY DEF Coros
<1>1. CASE status = "READY"
  <2>1. CorosTyped'
    BY <1>0, <1>1, FreshRecords, CoroTyped DEF StartFails, TInv, Idle
  <2> QED
    BY <1>1, <2>1
    DEF StartFails, front, TInv, FrontTyped, WorkersTyped, EnvTyped
<1>2. CASE status # "READY"
  BY <1>0, <1>2, PurgeBeginTyped DEF StartFails
<1> QED BY <1>1, <1>2

\* What start() does next, given the queue and a pool.
LEMMA NextPhaseTyped ==
    ASSUME TInv, NEW p \in [Rids -> Objs \cup {None}]
    PROVE  /\ Serving \in CoroRecs /\ Serving.pc \in {"idle", "serving"}
           /\ WaitLoop(p) \in CoroRecs
           /\ WaitLoop(p).pc \in {"idle", "serving", "wait"}
           /\ Deploying(p) \in CoroRecs
           /\ Deploying(p).pc \in {"idle", "serving", "wait", "deploying"}
<1>1. Serving \in CoroRecs /\ Serving.pc \in {"idle", "serving"}
  <2>1. CASE queue = {}
    BY <2>1, FreshRecords DEF Serving, Idle
  <2>2. CASE queue # {}
    BY <2>2 DEF Serving, Idle, CoroRecs, CPcs, TInv, FrontTyped
  <2> QED BY <2>1, <2>2
<1>2. WaitLoop(p) \in CoroRecs /\ WaitLoop(p).pc \in {"idle", "serving", "wait"}
  <2>1. CASE p = EmptyPool
    BY <2>1, <1>1 DEF WaitLoop
  <2>2. CASE p # EmptyPool
    BY <2>2 DEF WaitLoop, Idle, CoroRecs, CPcs
  <2> QED BY <2>1, <2>2
<1>3. /\ Deploying(p) \in CoroRecs
      /\ Deploying(p).pc \in {"idle", "serving", "wait", "deploying"}
  <2>1. CASE queue = {}
    BY <2>1, <1>2 DEF Deploying
  <2>2. CASE queue # {}
    BY <2>2 DEF Deploying, Idle, CoroRecs, CPcs, TInv, FrontTyped
  <2> QED BY <2>1, <2>2
<1> QED BY <1>1, <1>2, <1>3

\* start() registers replicas and goes on to its broadcast.
LEMMA RegisterTyped ==
    ASSUME TInv, NEW s \in Starts, NEW S \in SUBSET Rids, Register(s, S)
    PROVE  /\ FrontTyped' /\ WorkersTyped' /\ CorosTyped'
           /\ dropped' \subseteq Requests
<1>0. s \in Coros /\ s # Scaler
  BY StartIsNotNamed DEF Coros
<1>1. pool' \in [Rids -> Objs \cup {None}]
  BY NewReplicaTyped DEF Register, TInv, FrontTyped
<1>2. PICK rec : rec = Deploying(pool')
  OBVIOUS
<1>3. rec \in CoroRecs /\ rec.pc \in {"idle", "serving", "wait", "deploying"}
  BY <1>1, <1>2, NextPhaseTyped
<1>4. CorosTyped'
  BY <1>0, <1>2, <1>3, CoroTyped DEF Register, TInv
<1> QED
  BY <1>1, <1>4
  DEF Register, TInv, FrontTyped, WorkersTyped, EnvTyped, Statuses

\* The steps of a broadcast and of purge(), whoever runs them.
LEMMA PurgeStepTyped ==
    ASSUME TInv, NEW c \in Coros, PurgeStep(c)
    PROVE  TInv'
<1> USE DEF TInv
<1>1. CASE Broadcast(c)
  <2>1. PICK e \in Foremost(co[c].todo) :
          /\ Publish(e.req, IF co[c].pc = "pbcast" THEN "ERROR" ELSE "LIVE")
          /\ co' = [co EXCEPT ![c].todo = @ \ {e}]
    BY <1>1 DEF Broadcast
  <2>2. co[c] \in CoroRecs
    BY DEF CorosTyped
  <2>3. e.req \in Requests
    BY <2>1, <2>2 DEF Foremost, CoroRecs, Entries
  <2>4. answered' \subseteq Requests
    BY <2>1, <2>3, PublishTyped
  <2>5. PICK rec : rec = [co[c] EXCEPT !.todo = @ \ {e}]
    OBVIOUS
  <2>6. rec \in CoroRecs /\ rec.pc = co[c].pc
    BY <2>2, <2>5 DEF CoroRecs
  <2>7. co' = [co EXCEPT ![c] = rec]
    BY <2>1, <2>5
  <2>8. CorosTyped'
    BY <1>1, <2>6, <2>7, CoroTyped DEF Broadcast
  <2> QED
    BY <1>1, <2>4, <2>8
    DEF Broadcast, front, env, FrontTyped, WorkersTyped, EnvTyped
<1>2. CASE PurgePublished(c)
  BY <1>2, PurgeClearTyped DEF PurgePublished, EnvTyped, env
<1>3. CASE PurgeCancel(c)
  <2>1. co[c].req \in Requests /\ co[c].objs \in SUBSET Objs
    BY <1>3 DEF PurgeCancel, CorosTyped, CoroRecs
  <2>2. answered' \subseteq Requests
    BY <1>3, <2>1, PublishTyped DEF PurgeCancel
  <2>3. PICK w : w = Cancelled(wk, {co[c].obj})
    OBVIOUS
  <2>4. /\ w \in [Tasks -> WorkerRecs]
        /\ \A t \in Tasks : /\ w[t].pc = wk[t].pc /\ w[t].req = wk[t].req
                            /\ w[t].obj = wk[t].obj
    BY <2>3, CancelledTyped DEF WorkersTyped
  <2>5. PurgeReplicas(c, co[c].objs, w)
    BY <1>3, <2>3 DEF PurgeCancel
  <2>6. /\ WorkersTyped' /\ CorosTyped'
        /\ pool' \in [Rids -> Objs \cup {None}] /\ status' \in Statuses
    BY <2>1, <2>4, <2>5, PurgeReplicasTyped
  <2> QED
    BY <1>3, <2>2, <2>6 DEF PurgeCancel, FrontTyped, EnvTyped, env
<1> QED BY <1>1, <1>2, <1>3 DEF PurgeStep

\* The end of a broadcast, by a start() or an adopt().
LEMMA BroadcastedTyped ==
    ASSUME TInv, NEW c \in Coros, c # Scaler, Broadcasted(c)
    PROVE  TInv'
<1> USE DEF TInv
<1>1. PICK rec \in CoroRecs : /\ rec.pc \in {"idle", "serving", "wait"}
                              /\ co' = [co EXCEPT ![c] = rec]
  <2>1. WaitLoop(pool) \in CoroRecs /\ WaitLoop(pool).pc \in {"idle", "serving", "wait"}
    BY NextPhaseTyped DEF FrontTyped
  <2>2. Idle \in CoroRecs /\ Idle.pc = "idle"
    BY FreshRecords DEF Idle
  <2> QED BY <2>1, <2>2 DEF Broadcasted
<1>2. CorosTyped'
  BY <1>1, CoroTyped
<1> QED
  BY <1>2 DEF Broadcasted, front, env, FrontTyped, WorkersTyped, EnvTyped

\* start()
LEMMA StartStepTyped ==
    ASSUME TInv, NEW s \in Starts, StartStep(s) \/ StartDisconnected(s)
    PROVE  TInv'
<1> USE DEF TInv
<1>0. s \in Coros /\ s # Scaler
  BY StartIsNotNamed DEF Coros
<1>r. co[s].res \in SUBSET Rids /\ co[s].objs \in SUBSET Objs /\ co[s] \in CoroRecs
  BY <1>0 DEF CorosTyped, CoroRecs
<1>1. CASE StartListed(s)
  <2>1. CASE Register(s, co[s].res)
    BY <1>1, <1>r, <2>1, RegisterTyped DEF StartListed, EnvTyped, env
  <2>2. CASE StartFails(s)
    BY <1>1, <2>2, StartFailsTyped DEF StartListed, EnvTyped, env
  <2>3. CASE /\ co' = [co EXCEPT ![s] = [Idle EXCEPT !.pc = "scale"]]
             /\ UNCHANGED <<front, wk, dropped>>
    <3>1. PICK rec : rec = [Idle EXCEPT !.pc = "scale"]
      OBVIOUS
    <3>2. rec \in CoroRecs /\ rec.pc = "scale"
      BY <3>1 DEF Idle, CoroRecs, CPcs
    <3>3. CorosTyped'
      BY <1>0, <2>3, <3>1, <3>2, CoroTyped
    <3> QED
      BY <1>1, <2>3, <3>3
      DEF StartListed, front, env, FrontTyped, WorkersTyped, EnvTyped
  <2> QED BY <1>1, <2>1, <2>2, <2>3 DEF StartListed
<1>2. CASE StartProvisioned(s)
  BY <1>2, <1>r, RegisterTyped, StartFailsTyped DEF StartProvisioned, EnvTyped, env
<1>3. CASE StartReady(s)
  <2>1. PICK o \in co[s].objs :
          /\ Spawn(o)
          /\ co' = [co EXCEPT ![s] =
                       IF co[s].objs = {o} THEN Serving
                       ELSE [Idle EXCEPT !.pc = "wait", !.objs = co[s].objs \ {o}]]
    BY <1>3 DEF StartReady
  <2>2. o \in Objs
    BY <1>r
  <2>3. task' \in [Objs -> Tasks \cup {None}] /\ WorkersTyped'
    BY <2>1, <2>2, SpawnTyped
  <2>4. PICK rec : rec = IF co[s].objs = {o} THEN Serving
                         ELSE [Idle EXCEPT !.pc = "wait", !.objs = co[s].objs \ {o}]
    OBVIOUS
  <2>5. /\ rec \in CoroRecs
        /\ rec.pc \in {"idle", "serving", "wait"}
    <3>1. CASE co[s].objs = {o}
      BY <2>4, <3>1, NextPhaseTyped DEF FrontTyped
    <3>2. CASE co[s].objs # {o}
      BY <1>r, <2>4, <3>2 DEF Idle, CoroRecs, CPcs
    <3> QED BY <3>1, <3>2
  <2>6. co' = [co EXCEPT ![s] = rec]
    BY <2>1, <2>4
  <2>7. CorosTyped'
    BY <1>0, <2>5, <2>6, CoroTyped
  <2>8. FrontTyped'
    BY <1>3, <2>3 DEF StartReady, FrontTyped, Statuses
  <2> QED
    BY <1>3, <2>3, <2>7, <2>8 DEF StartReady, EnvTyped, env
<1>4. CASE StartWaitFails(s)
  BY <1>4, StartFailsTyped DEF StartWaitFails, EnvTyped, env
<1>5. CASE PurgeStep(s)
  BY <1>0, <1>5, PurgeStepTyped
<1>6. CASE Broadcasted(s)
  BY <1>0, <1>6, BroadcastedTyped
<1>7. CASE StartDisconnected(s)
  BY <1>7, StartFailsTyped, SpendTyped DEF StartDisconnected, EnvTyped, env, Events
<1> QED BY <1>1, <1>2, <1>3, <1>4, <1>5, <1>6, <1>7 DEF StartStep

\* The autoscaler.
LEMMA ScalerTyped ==
    ASSUME TInv, ScaleUp \/ ScalerStep \/ ScaleDisconnected
    PROVE  TInv'
<1> USE DEF TInv
<1>0. Scaler \in Coros
  BY StartIsNotNamed
<1>i. Idle \in CoroRecs /\ Idle.pc = "idle"
  BY FreshRecords DEF Idle
<1>1. CASE ScaleUp
  <2>1. PICK rec : rec = [Idle EXCEPT !.pc = "scale"]
    OBVIOUS
  <2>2. rec \in CoroRecs /\ rec.pc = "scale"
    BY <2>1 DEF Idle, CoroRecs, CPcs
  <2>3. CorosTyped'
    BY <1>0, <1>1, <2>1, <2>2, CoroTyped DEF ScaleUp
  <2>4. EnvTyped'
    BY <1>1, SpendTyped DEF ScaleUp, EnvTyped, env, Events
  <2> QED BY <1>1, <2>3, <2>4 DEF ScaleUp, front, FrontTyped, WorkersTyped
<1>2. CASE ScaleProvisioned
  <2>1. CASE co[Scaler].res = {}
    <3>1. CorosTyped'
      BY <1>0, <1>i, <1>2, <2>1, CoroTyped DEF ScaleProvisioned
    <3> QED
      BY <1>2, <2>1, <3>1
      DEF ScaleProvisioned, env, FrontTyped, WorkersTyped, EnvTyped
  <2>2. CASE co[Scaler].res # {}
    <3>1. PICK rid \in co[Scaler].res :
            /\ CanWrap(rid)
            /\ pool' = [pool EXCEPT ![rid] = NewReplica(rid)]
            /\ co' = [co EXCEPT ![Scaler] = [Idle EXCEPT !.pc = "wait",
                                                !.obj = NewReplica(rid)]]
      BY <1>2, <2>2 DEF ScaleProvisioned
    <3>2. rid \in Rids
      BY <1>0 DEF CorosTyped, CoroRecs
    <3>3. PICK o \in Objs : o = NewReplica(rid)
      BY <3>1, <3>2, NewReplicaTyped
    <3>4. PICK rec : rec = [Idle EXCEPT !.pc = "wait", !.obj = o]
      OBVIOUS
    <3>5. rec \in CoroRecs /\ rec.pc = "wait" /\ rec.obj = o
      BY <3>4 DEF Idle, CoroRecs, CPcs
    <3>6. CorosTyped'
      BY <1>0, <3>1, <3>3, <3>4, <3>5, CoroTyped
    <3>7. FrontTyped'
      BY <1>2, <3>1, <3>3 DEF ScaleProvisioned, FrontTyped
    <3> QED
      BY <1>2, <3>6, <3>7 DEF ScaleProvisioned, env, WorkersTyped, EnvTyped
  <2> QED BY <2>1, <2>2
<1>3. CASE ScaleReady
  <2>1. co[Scaler].obj \in Objs
    BY <1>3 DEF ScaleReady, CorosTyped
  <2>2. task' \in [Objs -> Tasks \cup {None}] /\ WorkersTyped'
    BY <1>3, <2>1, SpawnTyped DEF ScaleReady
  <2>3. CorosTyped'
    BY <1>0, <1>i, <1>3, CoroTyped DEF ScaleReady
  <2>4. FrontTyped'
    BY <1>3, <2>2 DEF ScaleReady, FrontTyped
  <2> QED BY <1>3, <2>2, <2>3, <2>4 DEF ScaleReady, EnvTyped, env
<1>4. CASE ScaleFails \/ ScaleDisconnected
  <2>1. CorosTyped'
    BY <1>0, <1>i, <1>4, CoroTyped DEF ScaleFails, ScaleDisconnected
  <2>2. FrontTyped'
    BY <1>4 DEF ScaleFails, ScaleDisconnected, FrontTyped
  <2>3. EnvTyped'
    BY <1>4, SpendTyped DEF ScaleFails, ScaleDisconnected, EnvTyped, env, Events
  <2> QED
    BY <1>4, <2>1, <2>2, <2>3 DEF ScaleFails, ScaleDisconnected, WorkersTyped
<1> QED BY <1>1, <1>2, <1>3, <1>4 DEF ScalerStep

\* reconcile()
LEMMA ReconcileTyped ==
    ASSUME TInv, Reconcile \/ ReconcileDisconnected \/ Reconciled
    PROVE  TInv'
<1> USE DEF TInv
<1>0. Ops \in Coros /\ Ops # Scaler /\ Scaler \notin Objs
  BY StartIsNotNamed, ConstantsAssumption
<1>i. Idle \in CoroRecs /\ Idle.pc = "idle"
  BY FreshRecords DEF Idle
<1>1. CASE Reconcile
  <2>1. PICK rec : rec = [Idle EXCEPT !.pc = "get"]
    OBVIOUS
  <2>2. rec \in CoroRecs /\ rec.pc = "get"
    BY <2>1 DEF Idle, CoroRecs, CPcs
  <2>3. CorosTyped'
    BY <1>0, <1>1, <2>1, <2>2, CoroTyped DEF Reconcile
  <2>4. EnvTyped'
    BY <1>1, SpendTyped DEF Reconcile, EnvTyped, env, Events
  <2> QED BY <1>1, <2>3, <2>4 DEF Reconcile, front, FrontTyped, WorkersTyped
<1>2. CASE ReconcileDisconnected
  <2>1. CorosTyped'
    BY <1>0, <1>i, <1>2, CoroTyped DEF ReconcileDisconnected
  <2>2. EnvTyped'
    BY <1>2, SpendTyped DEF ReconcileDisconnected, EnvTyped, env, Events
  <2> QED
    BY <1>2, <2>1, <2>2
    DEF ReconcileDisconnected, front, FrontTyped, WorkersTyped
<1>3. CASE Reconciled
  <2>1. PICK gained \in SUBSET Rids :
          /\ \A rid \in gained : CanWrap(rid)
          /\ pool' = [rid \in Rids |->
                        IF rid \in gained THEN NewReplica(rid) ELSE pool[rid]]
          /\ co' = [c \in Coros |->
                      IF c = Ops THEN Idle
                      ELSE IF \E rid \in gained : c = NewReplica(rid)
                      THEN [Idle EXCEPT !.pc = "wait"]
                      ELSE co[c]]
    <3>1. co[Ops].res \in SUBSET Rids
      BY <1>0 DEF CorosTyped, CoroRecs
    <3>2. PICK gained : gained = IF status \in Setup THEN {}
                                 ELSE {rid \in co[Ops].res : pool[rid] = None}
      OBVIOUS
    <3>3. gained \in SUBSET Rids
      BY <3>1, <3>2
    <3> QED BY <1>3, <3>2, <3>3 DEF Reconciled
  <2>2. \A rid \in gained : NewReplica(rid) \in Objs
    BY <2>1, NewReplicaTyped
  <2>3. PICK rec : rec = [Idle EXCEPT !.pc = "wait"]
    OBVIOUS
  <2>4. rec \in CoroRecs /\ rec.pc = "wait"
    BY <2>3 DEF Idle, CoroRecs, CPcs
  <2>5. /\ co' \in [Coros -> CoroRecs]
        /\ \A c \in Coros : \/ co'[c] = Idle \/ co'[c] = co[c]
                            \/ c \in Objs /\ co'[c] = rec
    BY <1>i, <2>1, <2>2, <2>3, <2>4 DEF CorosTyped
  <2>6. CorosTyped'
    BY <1>0, <1>i, <2>4, <2>5, StartIsNotNamed DEF CorosTyped
  <2>7. pool' \in [Rids -> Objs \cup {None}]
    BY <2>1, <2>2 DEF FrontTyped
  <2>8. FrontTyped'
    BY <1>3, <2>7 DEF Reconciled, FrontTyped
  <2> QED BY <1>3, <2>6, <2>8 DEF Reconciled, env, WorkersTyped, EnvTyped
<1> QED BY <1>1, <1>2, <1>3

\* adopt()
LEMMA AdoptTyped ==
    ASSUME TInv, NEW o \in Objs, AdoptStep(o) \/ AdoptDisconnected(o)
    PROVE  TInv'
<1> USE DEF TInv
<1>0. o \in Coros /\ o # Scaler
  BY ConstantsAssumption DEF Coros
<1>i. Idle \in CoroRecs /\ Idle.pc = "idle"
  BY FreshRecords DEF Idle
<1>1. CASE AdoptReady(o)
  <2>1. task' \in [Objs -> Tasks \cup {None}] /\ WorkersTyped'
    BY <1>1, SpawnTyped DEF AdoptReady
  <2>2. PICK rec \in CoroRecs : rec = Serving /\ rec.pc \in {"idle", "serving"}
    BY NextPhaseTyped DEF FrontTyped
  <2>3. CorosTyped'
    BY <1>0, <1>1, <2>2, CoroTyped DEF AdoptReady
  <2>4. FrontTyped'
    BY <1>1, <2>1 DEF AdoptReady, FrontTyped, Statuses
  <2> QED BY <1>1, <2>1, <2>3, <2>4 DEF AdoptReady, EnvTyped, env
<1>2. CASE AdoptFails(o) \/ AdoptDisconnected(o)
  <2>1. CorosTyped'
    BY <1>0, <1>i, <1>2, CoroTyped DEF AdoptFails, AdoptDisconnected
  <2>2. FrontTyped'
    BY <1>2 DEF AdoptFails, AdoptDisconnected, FrontTyped
  <2>3. EnvTyped'
    BY <1>2, SpendTyped DEF AdoptFails, AdoptDisconnected, EnvTyped, env, Events
  <2> QED
    BY <1>2, <2>1, <2>2, <2>3 DEF AdoptFails, AdoptDisconnected, WorkersTyped
<1>3. CASE Broadcast(o)
  BY <1>0, <1>3, PurgeStepTyped DEF PurgeStep
<1>4. CASE Broadcasted(o)
  BY <1>0, <1>4, BroadcastedTyped
<1> QED BY <1>1, <1>2, <1>3, <1>4 DEF AdoptStep

\* The dispatch loop.
LEMMA DispTyped ==
    ASSUME TInv, DispStep \/ \E r \in Requests : Enqueue(r)
    PROVE  TInv'
<1> USE DEF TInv
<1>0. Disp \in Coros /\ Disp # Scaler
  BY StartIsNotNamed, ConstantsAssumption
<1>i. Idle \in CoroRecs /\ Idle.pc = "idle"
  BY FreshRecords DEF Idle
<1>1. ASSUME NEW r \in Requests, Enqueue(r) PROVE TInv'
  <2>1. Cardinality(Admitted) + 1 \in Nat
    <3>1. IsFiniteSet(Admitted)
      BY ConstantsAssumption, FS_Subset DEF Admitted
    <3> QED BY <3>1, FS_CardinalityType
  <2>2. PICK n \in Nat : n = Cardinality(Admitted) + 1
    BY <2>1
  <2>3. Arrival(r, n) \in Entries
    BY NewEntries DEF FrontTyped
  <2>4. PICK rec : rec = [Idle EXCEPT !.pc = "ack", !.req = r]
    OBVIOUS
  <2>5. rec \in CoroRecs /\ rec.pc = "ack" /\ rec.req = r
    BY <2>4 DEF Idle, CoroRecs, CPcs
  <2>6. PICK cc : cc = [co EXCEPT ![Disp] = rec]
    OBVIOUS
  <2>7. /\ cc \in [Coros -> CoroRecs] /\ cc[Disp] = rec
        /\ \A x \in Coros \ {Disp} : cc[x] = co[x]
    BY <1>0, <2>5, <2>6 DEF CorosTyped
  <2>8. CanStart(pool) /\ co' = Started(pool, cc) /\ status' = StatusStarted(pool)
    BY <1>1, <2>4, <2>6 DEF Enqueue
  <2>9. /\ status' \in Statuses /\ co' \in [Coros -> CoroRecs]
        /\ \A x \in Coros : \/ co'[x] = cc[x]
                            \/ x \in Starts /\ co'[x] = [Idle EXCEPT !.pc = "get"]
    BY <2>7, <2>8, StartedTyped DEF FrontTyped
  <2>10. CorosTyped'
    BY <1>0, <2>5, <2>7, <2>9, StartIsNotNamed DEF CorosTyped, Idle
  <2>11. FrontTyped'
    BY <1>1, <2>2, <2>3, <2>9 DEF Enqueue, FrontTyped
  <2>12. EnvTyped'
    BY <1>1, SpendTyped DEF Enqueue, EnvTyped, env, Events
  <2> QED
    BY <1>1, <2>10, <2>11, <2>12 DEF Enqueue, WorkersTyped
<1>2. CASE Acknowledge
  <2>1. answered' \subseteq Requests
    BY <1>0, <1>2, PublishTyped DEF Acknowledge, CorosTyped
  <2>2. CorosTyped'
    BY <1>0, <1>i, <1>2, CoroTyped DEF Acknowledge
  <2> QED
    BY <1>2, <2>1, <2>2
    DEF Acknowledge, front, env, FrontTyped, WorkersTyped, EnvTyped
<1>3. CASE HandleErrors
  BY <1>0, <1>3, PurgeBeginTyped DEF HandleErrors, EnvTyped, env
<1>4. CASE PurgeStep(Disp)
  BY <1>0, <1>4, PurgeStepTyped
<1> QED BY <1>1, <1>2, <1>3, <1>4 DEF DispStep

\* The events worker's kill.
LEMMA KillTyped ==
    ASSUME TInv,
           \/ \E r \in Requests : Kill(r)
           \/ KillTold \/ KillActor \/ KillPolled \/ KillCancels
    PROVE  TInv'
<1> USE DEF TInv
<1>0. Ops \in Coros /\ Ops # Scaler /\ co[Ops] \in CoroRecs
  BY StartIsNotNamed, ConstantsAssumption DEF CorosTyped
<1>i. Idle \in CoroRecs /\ Idle.pc = "idle"
  BY FreshRecords DEF Idle
<1>p. ASSUME NEW pc \in {"kactor", "kpoll", "kcancel"}
      PROVE  /\ [co[Ops] EXCEPT !.pc = pc] \in CoroRecs
             /\ [co[Ops] EXCEPT !.pc = pc].pc = pc
  BY <1>0 DEF CoroRecs, CPcs
<1>1. ASSUME NEW r \in Requests, Kill(r) PROVE TInv'
  <2>1. EnvTyped'
    BY <1>1, SpendTyped DEF Kill, EnvTyped, env, Events
  <2>2. FrontTyped'
    BY <1>1 DEF Kill, Remove, FrontTyped
  <2>3. CASE r \in Queued(queue)
    <3>1. PICK rec : rec = [Idle EXCEPT !.pc = "kqueued", !.req = r]
      OBVIOUS
    <3>2. rec \in CoroRecs /\ rec.pc = "kqueued" /\ rec.req = r
      BY <3>1 DEF Idle, CoroRecs, CPcs
    <3>3. CorosTyped'
      BY <1>0, <1>1, <2>3, <3>1, <3>2, CoroTyped DEF Kill
    <3> QED BY <1>1, <2>1, <2>2, <3>3 DEF Kill, WorkersTyped
  <2>4. CASE r \notin Queued(queue)
    <3>1. PICK o \in PoolObjs :
            co' = [co EXCEPT ![Ops] =
                     [Idle EXCEPT !.pc = "kpublish", !.obj = o, !.req = r]]
      BY <1>1, <2>4 DEF Kill
    <3>2. o \in Objs
      BY DEF PoolObjs, FrontTyped
    <3>3. PICK rec : rec = [Idle EXCEPT !.pc = "kpublish", !.obj = o, !.req = r]
      OBVIOUS
    <3>4. rec \in CoroRecs /\ rec.pc = "kpublish" /\ rec.req = r
      BY <3>2, <3>3 DEF Idle, CoroRecs, CPcs
    <3>5. CorosTyped'
      BY <1>0, <3>1, <3>3, <3>4, CoroTyped
    <3> QED BY <1>1, <2>1, <2>2, <3>5 DEF Kill, WorkersTyped
  <2> QED BY <2>3, <2>4
<1>2. CASE KillTold
  <2>1. answered' \subseteq Requests
    BY <1>0, <1>2, PublishTyped DEF KillTold, CorosTyped
  <2>2. PICK rec \in CoroRecs : /\ rec.pc \in {"idle", "kactor"}
                                /\ co' = [co EXCEPT ![Ops] = rec]
    BY <1>i, <1>p, <1>2 DEF KillTold
  <2>3. CorosTyped'
    BY <1>0, <2>2, CoroTyped
  <2> QED
    BY <1>2, <2>1, <2>3
    DEF KillTold, front, env, FrontTyped, WorkersTyped, EnvTyped
<1>3. CASE KillActor
  <2>1. PICK rec : rec = [co[Ops] EXCEPT !.pc = "kpoll"]
    OBVIOUS
  <2>2. rec \in CoroRecs /\ rec.pc = "kpoll"
    BY <1>p, <2>1
  <2>3. co' = [co EXCEPT ![Ops] = rec]
    BY <1>3, <2>1 DEF KillActor
  <2>4. CorosTyped'
    BY <1>0, <2>2, <2>3, CoroTyped
  <2>5. WorkersTyped' /\ answered' \subseteq Requests /\ orphans' \subseteq orphans
    <3>1. CASE UNCHANGED <<wk, orphans, answered>>
      BY <3>1 DEF WorkersTyped, EnvTyped
    <3>2. ASSUME NEW rid, NEW t \in At(rid, "exec"), Publish(wk[t].req, "DONE"),
                 wk' = Becomes({t}, "ok"), UNCHANGED orphans
          PROVE  WorkersTyped' /\ answered' \subseteq Requests
                 /\ orphans' \subseteq orphans
      <4>1. t \in Tasks /\ wk[t].pc \in InDispatch
        BY AtTyped DEF InDispatch
      <4>2. WorkersTyped'
        BY <3>2, <4>1, BecomesTyped DEF InDispatch
      <4> QED BY <3>2, <4>1, <4>2, WaitingForActor, PublishTyped
    <3>3. ASSUME NEW x \in orphans, Publish(x[2], "DONE"),
                 orphans' = orphans \ {x}, UNCHANGED wk
          PROVE  WorkersTyped' /\ answered' \subseteq Requests
                 /\ orphans' \subseteq orphans
      <4>1. x[2] \in Requests
        BY DEF EnvTyped
      <4> QED BY <3>3, <4>1, PublishTyped DEF WorkersTyped
    <3> QED BY <1>3, <3>1, <3>2, <3>3 DEF KillActor
  <2> QED
    BY <1>3, <2>4, <2>5 DEF KillActor, front, FrontTyped, EnvTyped
<1>4. CASE KillPolled
  <2>1. PICK rec \in CoroRecs : /\ rec.pc \in {"idle", "kcancel"}
                                /\ co' = [co EXCEPT ![Ops] = rec]
    BY <1>i, <1>p, <1>4 DEF KillPolled
  <2>2. CorosTyped'
    BY <1>0, <2>1, CoroTyped
  <2> QED
    BY <1>4, <2>2 DEF KillPolled, front, env, FrontTyped, WorkersTyped, EnvTyped
<1>5. CASE KillCancels
  <2>1. CorosTyped'
    BY <1>0, <1>i, <1>5, CoroTyped DEF KillCancels
  <2>2. WorkersTyped'
    BY <1>5, CancelledTyped DEF KillCancels, WorkersTyped
  <2> QED
    BY <1>5, <2>1, <2>2 DEF KillCancels, front, env, FrontTyped, EnvTyped
<1> QED BY <1>1, <1>2, <1>3, <1>4, <1>5

-----------------------------------------------------------------------------

\* A Processor just made is typed.
LEMMA TInvInit == Init => TInv
<1> SUFFICES ASSUME Init PROVE TInv
  OBVIOUS
<1>1. FrontTyped
  BY DEF Init, FrontTyped, EmptyPool, Statuses
<1>2. WorkersTyped
  BY FreshRecords DEF Init, WorkersTyped, FreeTask, Holding, InDispatch
<1>3. CorosTyped
  BY FreshRecords, StartIsNotNamed DEF Init, CorosTyped, Idle
<1>4. EnvTyped
  BY ConstantsAssumption DEF Init, EnvTyped
<1> QED BY <1>1, <1>2, <1>3, <1>4 DEF TInv

\* Every step of the dispatcher keeps the types.
LEMMA TInvNext == TInv /\ [Next]_vars => TInv'
<1> SUFFICES ASSUME TInv, [Next]_vars PROVE TInv'
  OBVIOUS
<1>1. CASE UNCHANGED vars
  BY <1>1 DEF vars, TInv, FrontTyped, WorkersTyped, CorosTyped, EnvTyped
<1>2. CASE Next
  BY <1>2, DispTyped, KillTyped, ReconcileTyped, ScalerTyped, StartStepTyped,
     AdoptTyped, ActorsTyped, WorkerStepTyped, RunStepTyped, ControllerStepTyped
  DEF Next, Commands, Disturbances, OpsStep
<1> QED BY <1>1, <1>2

\* The dispatcher's state keeps its types, for any number of requests,
\* replicas, tasks and faults.
THEOREM DispatcherTyped == Spec => []TypeOK
<1>1. Spec => []TInv
  BY TInvInit, TInvNext, PTL DEF Spec
<1>2. TInv => TypeOK
  BY DEF TInv, FrontTyped, WorkersTyped, CorosTyped, EnvTyped, TypeOK
<1> QED BY <1>1, <1>2, PTL

-----------------------------------------------------------------------------
(* Who owns a request *)

\* run() returns only after the actor has answered the user.
OkAnswered == \A t \in Tasks : wk[t].pc = "ok" => wk[t].req \in answered

\* Whoever owns a request owns one that was admitted.
OwnersAdmitted ==
    /\ \A e \in queue : stamp[e.req] # 0
    /\ \A t \in Tasks : wk[t].pc \in Holding => stamp[wk[t].req] # 0
    /\ co[Ops].pc = "kqueued" => stamp[co[Ops].req] # 0

OInv == TInv /\ NoLostRequest /\ OneOwner /\ OkAnswered /\ OwnersAdmitted

-----------------------------------------------------------------------------
(* How ownership moves *)

\* The worker has nothing it would still have to answer.
Settled(t) == wk[t].pc \in Holding => wk[t].req \in answered'

\* What a step that moves no request may change.
KillerKept ==
    /\ co'[Ops].pc = "kqueued" <=> co[Ops].pc = "kqueued"
    /\ co[Ops].pc = "kqueued" => co'[Ops].req = co[Ops].req

OthersKept(t) == \A u \in Tasks \ {t} : wk'[u] = wk[u]

AnswersKept == answered \subseteq answered' /\ dropped \subseteq dropped'

\* Nothing moves.
LEMMA NothingMoves ==
    ASSUME OInv, TInv', AnswersKept, KillerKept,
           queue' = queue, stamp' = stamp,
           \A t \in Tasks :
              /\ wk'[t].pc \in Holding <=> wk[t].pc \in Holding
              /\ wk[t].pc \in Holding => wk'[t].req = wk[t].req
              /\ wk'[t].pc = "ok" => wk[t].pc = "ok" \/ wk[t].req \in answered'
    PROVE  OInv'
<1>1. \A t \in Tasks, r \in Requests : Holds(t, r)' <=> Holds(t, r)
  BY DEF Holds
<1>2. \A r \in Requests : Killing(r)' <=> Killing(r)
  BY DEF Killing, KillerKept
<1>3. NoLostRequest'
  <2>1. ASSUME NEW r \in Requests, stamp'[r] # 0
        PROVE  \/ r \in Queued(queue')
               \/ \E t \in Tasks : Holds(t, r)'
               \/ Killing(r)'
               \/ r \in answered'
               \/ r \in dropped'
    BY <1>1, <1>2, <2>1 DEF OInv, NoLostRequest, Admitted, AnswersKept
  <2> QED BY <2>1 DEF NoLostRequest, Admitted
<1>4. OneOwner'
  BY <1>1, <1>2 DEF OInv, OneOwner
<1>5. OkAnswered'
  BY DEF OInv, OkAnswered, AnswersKept, Holding, InDispatch
<1>6. OwnersAdmitted'
  BY DEF OInv, OwnersAdmitted, KillerKept
<1> QED BY <1>3, <1>4, <1>5, <1>6 DEF OInv

\* A worker is done with what it held.
LEMMA WorkerLetsGo ==
    ASSUME OInv, TInv', NEW t \in Tasks, Settled(t), AnswersKept, KillerKept,
           OthersKept(t), queue' = queue, stamp' = stamp,
           wk'[t].pc \notin Holding
    PROVE  OInv'
<1>1. /\ \A u \in Tasks \ {t}, r \in Requests : Holds(u, r)' <=> Holds(u, r)
      /\ \A r \in Requests : ~Holds(t, r)'
  BY DEF Holds, OthersKept
<1>2. \A r \in Requests : Killing(r)' <=> Killing(r)
  BY DEF Killing, KillerKept
<1>3. NoLostRequest'
  <2>1. ASSUME NEW r \in Requests, stamp'[r] # 0
        PROVE  \/ r \in Queued(queue')
               \/ \E u \in Tasks : Holds(u, r)'
               \/ Killing(r)'
               \/ r \in answered'
               \/ r \in dropped'
    <3>1. Holds(t, r) => r \in answered'
      BY DEF Settled, Holds
    <3> QED
      BY <1>1, <1>2, <2>1, <3>1 DEF OInv, NoLostRequest, Admitted, AnswersKept
  <2> QED BY <2>1 DEF NoLostRequest, Admitted
<1>4. OneOwner'
  BY <1>1, <1>2 DEF OInv, OneOwner
<1>5. OkAnswered'
  BY DEF OInv, OkAnswered, AnswersKept, OthersKept, Holding, InDispatch
<1>6. OwnersAdmitted'
  BY DEF OInv, OwnersAdmitted, KillerKept, OthersKept
<1> QED BY <1>3, <1>4, <1>5, <1>6 DEF OInv

\* A worker takes an entry from the queue.
LEMMA WorkerTakes ==
    ASSUME OInv, TInv', NEW t \in Tasks, Settled(t), AnswersKept, KillerKept,
           OthersKept(t), NEW e \in queue, queue' = queue \ {e}, stamp' = stamp,
           wk'[t].pc = "disp", wk'[t].req = e.req
    PROVE  OInv'
<1>0. e.req \in Requests /\ Queued(queue') = Queued(queue) \ {e.req}
      /\ e.req \in Queued(queue)
  BY DEF OInv, TInv, FrontTyped, Entries, OneOwner, Queued
<1>1. /\ \A u \in Tasks \ {t}, r \in Requests : Holds(u, r)' <=> Holds(u, r)
      /\ \A r \in Requests : Holds(t, r)' <=> r = e.req
  BY DEF Holds, OthersKept, Holding, InDispatch
<1>2. \A r \in Requests : Killing(r)' <=> Killing(r)
  BY DEF Killing, KillerKept
<1>3. NoLostRequest'
  <2>1. ASSUME NEW r \in Requests, stamp'[r] # 0
        PROVE  \/ r \in Queued(queue')
               \/ \E u \in Tasks : Holds(u, r)'
               \/ Killing(r)'
               \/ r \in answered'
               \/ r \in dropped'
    <3>1. Holds(t, r) => r \in answered'
      BY DEF Settled, Holds
    <3> QED
      BY <1>0, <1>1, <1>2, <2>1, <3>1
      DEF OInv, NoLostRequest, Admitted, AnswersKept
  <2> QED BY <2>1 DEF NoLostRequest, Admitted
<1>4. OneOwner'
  BY <1>0, <1>1, <1>2 DEF OInv, OneOwner
<1>5. OkAnswered'
  BY DEF OInv, OkAnswered, AnswersKept, OthersKept
<1>6. OwnersAdmitted'
  BY DEF OInv, OwnersAdmitted, KillerKept, OthersKept
<1> QED BY <1>3, <1>4, <1>5, <1>6 DEF OInv

\* A worker puts a request that it alone had, or has just taken, in the queue.
LEMMA WorkerHandsBack ==
    ASSUME OInv, TInv', NEW t \in Tasks, AnswersKept, KillerKept, OthersKept(t),
           NEW r \in Requests, stamp[r] # 0, ~Killing(r),
           \A u \in Tasks \ {t} : ~Holds(u, r),
           NEW q, Queued(q) = Queued(queue) \ {r}, q \subseteq queue,
           wk[t].pc \in Holding => wk[t].req = r \/ wk[t].req \in answered',
           queue' = q \cup {InFront(r)}, stamp' = stamp,
           wk'[t].pc \notin Holding
    PROVE  OInv'
<1>0. InFront(r).req = r /\ Queued(queue') = Queued(queue) \cup {r}
      /\ \A e \in q : e.req # r
  <2>1. InFront(r).req = r
    BY NewEntries DEF OInv, TInv, FrontTyped
  <2> QED BY <2>1 DEF Queued
<1>1. /\ \A u \in Tasks \ {t}, x \in Requests : Holds(u, x)' <=> Holds(u, x)
      /\ \A x \in Requests : ~Holds(t, x)'
  BY DEF Holds, OthersKept
<1>2. \A x \in Requests : Killing(x)' <=> Killing(x)
  BY DEF Killing, KillerKept
<1>3. NoLostRequest'
  <2>1. ASSUME NEW x \in Requests, stamp'[x] # 0
        PROVE  \/ x \in Queued(queue')
               \/ \E u \in Tasks : Holds(u, x)'
               \/ Killing(x)'
               \/ x \in answered'
               \/ x \in dropped'
    <3>1. Holds(t, x) => x = r \/ x \in answered'
      BY DEF Holds
    <3> QED
      BY <1>0, <1>1, <1>2, <2>1, <3>1
      DEF OInv, NoLostRequest, Admitted, AnswersKept
  <2> QED BY <2>1 DEF NoLostRequest, Admitted
<1>4. OneOwner'
  <2>1. \A e, f \in queue' : e.req = f.req => e = f
    BY <1>0 DEF OInv, OneOwner
  <2>2. \A u, v \in Tasks, x \in Requests : Holds(u, x)' /\ Holds(v, x)' => u = v
    BY <1>1 DEF OInv, OneOwner
  <2>3. \A x \in Requests : x \in Queued(queue') =>
            ~Killing(x)' /\ \A u \in Tasks : ~Holds(u, x)'
    BY <1>0, <1>1, <1>2 DEF OInv, OneOwner
  <2>4. \A x \in Requests : Killing(x)' => \A u \in Tasks : ~Holds(u, x)'
    BY <1>1, <1>2 DEF OInv, OneOwner
  <2> QED BY <2>1, <2>2, <2>3, <2>4 DEF OneOwner
<1>5. OkAnswered'
  BY DEF OInv, OkAnswered, AnswersKept, OthersKept, Holding, InDispatch
<1>6. OwnersAdmitted'
  BY <1>0 DEF OInv, OwnersAdmitted, KillerKept, OthersKept
<1> QED BY <1>3, <1>4, <1>5, <1>6 DEF OInv

-----------------------------------------------------------------------------
(* The workers *)

\* ensure_started() is none of the kill handler's business.
LEMMA StartedKeepsKiller ==
    ASSUME TInv, NEW p, CanStart(p), co' = Started(p, co)
    PROVE  KillerKept
<1>1. co'[Ops] = co[Ops]
  BY StartedTyped, StartIsNotNamed DEF TInv, FrontTyped, CorosTyped
<1> QED BY <1>1 DEF KillerKept

\* A worker leaves.
LEMMA ExitOwners ==
    ASSUME OInv, TInv', NEW t \in Tasks, NEW cur, Exit(t, cur), Settled(t),
           AnswersKept
    PROVE  OInv'
<1>1. OthersKept(t) /\ wk'[t].pc \notin Holding
  BY DEF Exit, OthersKept, OInv, TInv, WorkersTyped, FreeTask, Holding, InDispatch
<1>2. KillerKept
  <2>1. CASE queue = {}
    BY <2>1 DEF Exit, KillerKept
  <2>2. CASE queue # {}
    <3>1. PICK p : CanStart(p) /\ co' = Started(p, co)
      BY <2>2 DEF Exit
    <3> QED BY <3>1, StartedKeepsKiller DEF OInv
  <2> QED BY <2>1, <2>2
<1> QED BY <1>1, <1>2, WorkerLetsGo DEF Exit

\* A worker hands back what it held, or an entry it has just taken.
LEMMA HandBackOwners ==
    ASSUME OInv, TInv', NEW t \in Tasks, wk[t].pc # "free", AnswersKept,
           NEW r \in Requests, NEW q, HandBack(t, r, q),
           \/ q = queue /\ Holds(t, r)
           \/ Settled(t) /\ \E e \in queue : e.req = r /\ q = queue \ {e}
    PROVE  OInv'
<1>1. OthersKept(t) /\ wk'[t].pc \notin Holding
  BY MoveTyped DEF HandBack, OthersKept, OInv, TInv, WPcs, Holding, InDispatch
<1>2. KillerKept
  BY StartedKeepsKiller DEF HandBack, OInv
<1>3. /\ stamp[r] # 0 /\ ~Killing(r)
      /\ \A u \in Tasks \ {t} : ~Holds(u, r)
      /\ Queued(q) = Queued(queue) \ {r} /\ q \subseteq queue
      /\ wk[t].pc \in Holding => wk[t].req = r \/ wk[t].req \in answered'
  <2>1. CASE q = queue /\ Holds(t, r)
    <3>1. r \notin Queued(queue)
      BY <2>1 DEF OInv, OneOwner
    <3> QED BY <2>1, <3>1 DEF OInv, OneOwner, OwnersAdmitted, Holds
  <2>2. ASSUME Settled(t), NEW e \in queue, e.req = r, q = queue \ {e}
        PROVE  /\ stamp[r] # 0 /\ ~Killing(r)
               /\ \A u \in Tasks \ {t} : ~Holds(u, r)
               /\ Queued(q) = Queued(queue) \ {r} /\ q \subseteq queue
               /\ wk[t].pc \in Holding => wk[t].req = r \/ wk[t].req \in answered'
    <3>1. r \in Queued(queue) /\ Queued(q) = Queued(queue) \ {r}
      BY <2>2 DEF OInv, OneOwner, Queued
    <3> QED BY <2>2, <3>1 DEF OInv, OneOwner, OwnersAdmitted, Settled
  <2> QED BY <2>1, <2>2
<1> QED BY <1>1, <1>2, <1>3, WorkerHandsBack DEF HandBack

\* A worker takes a request, perhaps only to hand it back.
LEMMA TakeOwners ==
    ASSUME OInv, TInv', NEW t \in Tasks, wk[t].pc # "free", Take(t), Settled(t),
           AnswersKept
    PROVE  OInv'
<1>1. PICK e \in Foremost(queue) :
        \/ HandBack(t, e.req, queue \ {e})
        \/ /\ queue' = queue \ {e}
           /\ wk' = Moved(t, "disp", e.req)
           /\ UNCHANGED <<stamp, status, pool, task, co>>
  BY DEF Take
<1>2. e \in queue /\ e.req \in Requests
  BY DEF Foremost, OInv, TInv, FrontTyped, Entries
<1>3. CASE HandBack(t, e.req, queue \ {e})
  BY <1>2, <1>3, HandBackOwners
<1>4. CASE /\ queue' = queue \ {e}
           /\ wk' = Moved(t, "disp", e.req)
           /\ UNCHANGED <<stamp, status, pool, task, co>>
  <2>1. wk'[t].pc = "disp" /\ wk'[t].req = e.req /\ OthersKept(t)
    BY <1>2, <1>4, MoveTyped DEF OInv, TInv, WPcs, OthersKept
  <2>2. KillerKept
    BY <1>4 DEF KillerKept
  <2> QED BY <1>2, <1>4, <2>1, <2>2, WorkerTakes
<1> QED BY <1>1, <1>3, <1>4

\* One turn of the worker loop.
LEMMA LoopOwners ==
    ASSUME OInv, TInv', NEW t \in Tasks, wk[t].pc # "free", NEW cur, Loop(t, cur),
           Settled(t), AnswersKept
    PROVE  OInv'
<1>1. CASE Exit(t, cur)
  BY <1>1, ExitOwners
<1>2. CASE Take(t)
  BY <1>2, TakeOwners
<1>3. CASE /\ wk' = Moved(t, "get", None)
           /\ UNCHANGED <<queue, stamp, status, pool, task, co>>
  <2>1. wk'[t].pc = "get" /\ OthersKept(t)
    BY <1>3, MoveTyped DEF OInv, TInv, WPcs, OthersKept, Holding, InDispatch
  <2> QED
    BY <1>3, <2>1, WorkerLetsGo DEF KillerKept, Holding, InDispatch
<1> QED BY <1>1, <1>2, <1>3 DEF Loop

\* Publishing keeps the answers there were.
LEMMA PublishKeeps ==
    ASSUME NEW r, NEW st, Publish(r, st), dropped' = dropped
    PROVE  AnswersKept /\ (st \in {"DONE", "ERROR"} => r \in answered')
BY DEF Publish, Final, AnswersKept

\* One worker moves on with the request it holds.
LEMMA WorkerGoesOn ==
    ASSUME OInv, TInv', NEW t \in Tasks, wk[t].pc \in Holding,
           NEW pc \in Holding \ {"ok"}, wk' = Moved(t, pc, wk[t].req),
           AnswersKept, UNCHANGED <<queue, stamp, co>>
    PROVE  OInv'
<1>0. WorkersTyped
  BY DEF OInv, TInv
<1>h. pc \in WPcs /\ wk[t].pc # "free"
  BY DEF WPcs, Holding, InDispatch
<1>r. wk[t].req \in Requests
  BY <1>0 DEF WorkersTyped
<1>1. wk'[t].pc = pc /\ wk'[t].req = wk[t].req /\ OthersKept(t)
  BY <1>0, <1>h, <1>r, MoveTyped DEF OthersKept
<1>2. \A u \in Tasks :
        /\ wk'[u].pc \in Holding <=> wk[u].pc \in Holding
        /\ wk[u].pc \in Holding => wk'[u].req = wk[u].req
        /\ wk'[u].pc = "ok" => wk[u].pc = "ok" \/ wk[u].req \in answered'
  BY <1>1 DEF OthersKept
<1> QED BY <1>2, NothingMoves DEF KillerKept

\* The worker's own steps.
LEMMA WorkerStepOwners ==
    ASSUME OInv, TInv', NEW t \in Tasks, WorkerStep(t)
    PROVE  OInv'
<1>1. CASE WorkerBegins(t)
  BY <1>1, LoopOwners
  DEF WorkerBegins, Runnable, Settled, AnswersKept, Holding, InDispatch
<1>2. CASE WorkerWakes(t)
  BY <1>2, TakeOwners
  DEF WorkerWakes, Runnable, Settled, AnswersKept, Holding, InDispatch
<1>3. CASE Dispatched(t)
  <2>1. AnswersKept
    BY <1>3, PublishKeeps DEF Dispatched
  <2> QED
    BY <1>3, <2>1, WorkerGoesOn DEF Dispatched, Runnable, front, Holding, InDispatch
<1>4. CASE WorkerDone(t)
  <2>1. AnswersKept /\ Settled(t)
    BY <1>4 DEF WorkerDone, Runnable, AnswersKept, Settled, OInv, OkAnswered
  <2> QED BY <1>4, <2>1, LoopOwners DEF WorkerDone, Runnable
<1>5. CASE WorkerEvicted(t)
  <2>1. wk[t].req \in Requests /\ Holds(t, wk[t].req) /\ wk[t].pc = "evicted"
    BY <1>5
    DEF WorkerEvicted, Runnable, OInv, TInv, WorkersTyped, Holds, Holding, InDispatch
  <2> QED BY <1>5, <2>1, HandBackOwners DEF WorkerEvicted, AnswersKept
<1>6. CASE WorkerHandedBack(t)
  <2>1. AnswersKept
    BY <1>6, PublishKeeps DEF WorkerHandedBack
  <2>2. wk[t].pc = "requeue" /\ Settled(t)
    BY <1>6 DEF WorkerHandedBack, Runnable, Settled, Holding, InDispatch
  <2> QED BY <1>6, <2>1, <2>2, LoopOwners DEF WorkerHandedBack
<1>7. CASE WorkerFailed(t)
  <2>1. AnswersKept /\ wk[t].req \in answered'
    BY <1>7, PublishKeeps DEF WorkerFailed
  <2> QED
    BY <1>7, <2>1, LoopOwners DEF WorkerFailed, Runnable, Settled
<1>8. CASE WorkerParks(t)
  <2>1. AnswersKept /\ wk[t].req \in answered'
    BY <1>8, PublishKeeps DEF WorkerParks
  <2>2. wk[t].req \in Requests /\ wk[t].pc = "unavail"
    BY <1>8
    DEF WorkerParks, Runnable, OInv, TInv, WorkersTyped, Holding, InDispatch
  <2>3. OthersKept(t) /\ wk'[t].pc = "park"
    BY <1>8, <2>2, MoveTyped DEF WorkerParks, OInv, TInv, WPcs, OthersKept
  <2> QED
    BY <1>8, <2>1, <2>3, WorkerLetsGo
    DEF WorkerParks, front, Settled, KillerKept, Holding, InDispatch
<1>9. CASE WorkerUnparks(t)
  <2>1. wk[t].pc = "park" /\ Settled(t) /\ AnswersKept
    BY <1>9
    DEF WorkerUnparks, Runnable, Settled, AnswersKept, Holding, InDispatch
  <2> QED BY <1>9, <2>1, LoopOwners, ExitOwners DEF WorkerUnparks
<1>10. CASE CancelledUnstarted(t)
  <2>1. OthersKept(t) /\ wk'[t].pc = "free"
    BY <1>10 DEF CancelledUnstarted, OthersKept, OInv, TInv, WorkersTyped, FreeTask
  <2>2. Settled(t) /\ AnswersKept /\ KillerKept
    BY <1>10
    DEF CancelledUnstarted, Settled, AnswersKept, KillerKept, Holding, InDispatch
  <2> QED
    BY <1>10, <2>1, <2>2, WorkerLetsGo DEF CancelledUnstarted, Holding, InDispatch
<1>11. CASE CancelledWaiting(t)
  <2>1. Settled(t) /\ AnswersKept
    BY <1>11 DEF CancelledWaiting, Settled, AnswersKept, Holding, InDispatch
  <2> QED BY <1>11, <2>1, ExitOwners DEF CancelledWaiting
<1>12. CASE CancelledDispatch(t)
  <2>1. AnswersKept /\ wk[t].pc \in Holding /\ "cancelling" \in Holding \ {"ok"}
    BY <1>12 DEF CancelledDispatch, AnswersKept, Holding
  <2> QED BY <1>12, <2>1, WorkerGoesOn DEF CancelledDispatch, front
<1>13. CASE WorkerCancelling(t)
  <2>1. AnswersKept /\ Settled(t)
    BY <1>13, PublishKeeps DEF WorkerCancelling, Settled
  <2> QED BY <1>13, <2>1, ExitOwners DEF WorkerCancelling
<1> QED
  BY <1>1, <1>2, <1>3, <1>4, <1>5, <1>6, <1>7, <1>8, <1>9, <1>10, <1>11, <1>12,
     <1>13
  DEF WorkerStep

-----------------------------------------------------------------------------
(* The actors, the coroutines *)

\* No worker changes its await or its request.
LEMMA WorkersStay ==
    ASSUME OInv, TInv', AnswersKept, KillerKept, queue' = queue, stamp' = stamp,
           \A t \in Tasks : wk'[t].pc = wk[t].pc /\ wk'[t].req = wk[t].req
    PROVE  OInv'
BY NothingMoves

\* Actors change what their workers see, not what they hold.
LEMMA ActorMoves ==
    ASSUME OInv, TInv', AnswersKept, KillerKept, queue' = queue, stamp' = stamp,
           NEW S \in SUBSET Tasks, \A t \in S : wk[t].pc \in InDispatch,
           NEW pc \in InDispatch, wk' = Becomes(S, pc),
           pc = "ok" => \A t \in S : wk[t].req \in answered'
    PROVE  OInv'
<1>1. \A t \in Tasks : /\ wk'[t].pc = IF t \in S THEN pc ELSE wk[t].pc
                       /\ wk'[t].req = wk[t].req
  BY BecomesTyped DEF OInv, TInv
<1>2. \A t \in Tasks :
        /\ wk'[t].pc \in Holding <=> wk[t].pc \in Holding
        /\ wk[t].pc \in Holding => wk'[t].req = wk[t].req
        /\ wk'[t].pc = "ok" => wk[t].pc = "ok" \/ wk[t].req \in answered'
  BY <1>1 DEF Holding
<1> QED BY <1>2, NothingMoves

\* What an actor does with a run() it was sent.
LEMMA RunStepOwners ==
    ASSUME OInv, TInv', NEW t \in Tasks, RunStep(t)
    PROVE  OInv'
<1>1. wk[t].pc \in InDispatch /\ KillerKept /\ queue' = queue /\ stamp' = stamp
  BY DEF RunStep, RunBegins, RunRejected, RunEnds, InDispatch, KillerKept, front
<1>2. CASE RunEnds(t)
  <2>1. AnswersKept /\ wk[t].req \in answered'
    BY <1>2, PublishKeeps DEF RunEnds
  <2> QED BY <1>1, <1>2, <2>1, ActorMoves DEF RunEnds, InDispatch
<1>3. CASE RunBegins(t) \/ RunRejected(t)
  <2>1. AnswersKept
    BY <1>3 DEF RunBegins, RunRejected, AnswersKept
  <2>2. PICK pc \in InDispatch \ {"ok"} : wk' = Becomes({t}, pc)
    BY <1>3 DEF RunBegins, RunRejected, InDispatch
  <2> QED BY <1>1, <2>1, <2>2, ActorMoves
<1> QED BY <1>2, <1>3 DEF RunStep

\* Actors by themselves, and what disturbs them.
LEMMA ActorsOwners ==
    ASSUME OInv, TInv',
           \/ \E t \in Tasks : RunDisconnected(t) \/ ActorRestarts(t)
           \/ \E rid \in Rids : \/ ActorLoads(rid) \/ ActorLoadFails(rid)
                                \/ ActorDemoted(rid) \/ ActorDies(rid)
                                \/ OperatorDeploys(rid)
           \/ \E x \in orphans : OrphanEnds(x)
    PROVE  OInv'
<1>0. queue' = queue /\ stamp' = stamp /\ KillerKept
  BY DEF RunDisconnected, ActorRestarts, ActorLoads, ActorLoadFails, ActorDemoted,
         ActorDies, OperatorDeploys, OrphanEnds, front, KillerKept
<1>1. ASSUME NEW t \in Tasks, RunDisconnected(t) PROVE OInv'
  <2>1. AnswersKept /\ wk[t].pc \in InDispatch
    BY <1>1 DEF RunDisconnected, AnswersKept, InDispatch
  <2> QED BY <1>0, <1>1, <2>1, ActorMoves DEF RunDisconnected, InDispatch
<1>2. ASSUME NEW t \in Tasks, ActorRestarts(t) PROVE OInv'
  <2>1. AnswersKept
    BY <1>2, PublishKeeps DEF ActorRestarts
  <2>2. PICK rid : wk' = Becomes(At(rid, "exec"), "unavail")
    BY <1>2 DEF ActorRestarts
  <2> QED BY <1>0, <2>1, <2>2, AtTyped, ActorMoves DEF InDispatch
<1>3. ASSUME NEW rid \in Rids,
             ActorLoads(rid) \/ ActorLoadFails(rid) \/ OperatorDeploys(rid)
      PROVE  OInv'
  BY <1>0, <1>3, WorkersStay
  DEF ActorLoads, ActorLoadFails, OperatorDeploys, AnswersKept
<1>4. ASSUME NEW rid \in Rids, ActorDemoted(rid) PROVE OInv'
  BY <1>0, <1>4, AtTyped, ActorMoves DEF ActorDemoted, AnswersKept, InDispatch
<1>5. ASSUME NEW rid \in Rids, ActorDies(rid) PROVE OInv'
  <2>1. PICK lost \in SUBSET At(rid, "ok") :
            wk' = Becomes(At(rid, "exec") \cup lost, "evicted")
    BY <1>5 DEF ActorDies
  <2>2. /\ At(rid, "exec") \cup lost \in SUBSET Tasks
        /\ \A t \in At(rid, "exec") \cup lost : wk[t].pc \in InDispatch
    BY DEF At, InDispatch
  <2> QED BY <1>0, <1>5, <2>1, <2>2, ActorMoves DEF ActorDies, AnswersKept, InDispatch
<1>6. ASSUME NEW x \in orphans, OrphanEnds(x) PROVE OInv'
  BY <1>0, <1>6, PublishKeeps, WorkersStay DEF OrphanEnds
<1> QED BY <1>1, <1>2, <1>3, <1>4, <1>5, <1>6

\* The controller's answers.
LEMMA ControllerOwners ==
    ASSUME OInv, TInv', NEW c \in Starts \cup {Ops, Scaler}, ControllerStep(c)
    PROVE  OInv'
<1>0. c \in Coros /\ Ops \in Coros
  BY DEF Coros
<1>1. PICK rec : /\ co' = [co EXCEPT ![c] = rec]
                 /\ rec.pc \in {"got", "scaled"} /\ co[c].pc \in {"get", "scale"}
  <2>1. CASE Listed(c)
    BY <2>1 DEF Listed, Idle
  <2>2. CASE ScaleServed(c)
    <3>1. PICK rid \in Rids :
            co' = [co EXCEPT ![c] = [Idle EXCEPT !.pc = "scaled", !.res = {rid}]]
      BY <2>2 DEF ScaleServed
    <3> QED BY <2>2, <3>1 DEF ScaleServed, Idle
  <2>3. CASE ScaleRefused(c)
    BY <2>3 DEF ScaleRefused, Idle
  <2> QED BY <2>1, <2>2, <2>3 DEF ControllerStep
<1>2. KillerKept
  BY <1>0, <1>1 DEF KillerKept, OInv, TInv, CorosTyped
<1> QED
  BY <1>2, WorkersStay
  DEF ControllerStep, Listed, ScaleServed, ScaleRefused, front, AnswersKept

\* The other coroutines are none of the kill handler's business.
LEMMA OtherCoro ==
    ASSUME TInv, NEW c \in Coros \ {Ops}, NEW rec, co' = [co EXCEPT ![c] = rec]
    PROVE  KillerKept
BY StartIsNotNamed DEF TInv, CorosTyped, KillerKept

\* A worker that begins holds nothing yet.
LEMMA SpawnOwners ==
    ASSUME OInv, TInv', NEW o \in Objs, Spawn(o), AnswersKept, KillerKept,
           queue' = queue, stamp' = stamp
    PROVE  OInv'
<1>1. PICK n \in Tasks :
        wk[n].pc = "free" /\ wk' = [wk EXCEPT ![n] =
                                      [FreeTask EXCEPT !.pc = "new", !.obj = o]]
  BY DEF Spawn, CanSpawn, NewTask
<1>2. wk'[n].pc = "new" /\ OthersKept(n)
  BY <1>1 DEF OInv, TInv, WorkersTyped, OthersKept, FreeTask
<1>3. Settled(n)
  BY <1>1 DEF Settled, Holding, InDispatch
<1> QED BY <1>2, <1>3, WorkerLetsGo DEF Holding, InDispatch

\* purge() clears the queue; those it had not told are dropped.
LEMMA PurgeClearOwners ==
    ASSUME OInv, TInv', NEW c \in Coros \ {Ops}, PurgeClear(c),
           answered' = answered
    PROVE  OInv'
<1>1. /\ \A t \in Tasks : wk'[t].pc = wk[t].pc /\ wk'[t].req = wk[t].req
      /\ co'[Ops] = co[Ops]
  BY PurgeClearTyped, StartIsNotNamed DEF OInv
<1>2. /\ queue' = {} /\ stamp' = stamp
      /\ dropped' = dropped \cup (Queued(queue) \ answered)
  BY DEF PurgeClear
<1>3. \A t \in Tasks, r \in Requests : Holds(t, r)' <=> Holds(t, r)
  BY <1>1 DEF Holds
<1>4. \A r \in Requests : Killing(r)' <=> Killing(r)
  BY <1>1 DEF Killing
<1>5. NoLostRequest'
  <2>1. ASSUME NEW r \in Requests, stamp'[r] # 0
        PROVE  \/ \E t \in Tasks : Holds(t, r)'
               \/ Killing(r)'
               \/ r \in answered'
               \/ r \in dropped'
    BY <1>2, <1>3, <1>4, <2>1 DEF OInv, NoLostRequest, Admitted
  <2> QED BY <2>1 DEF NoLostRequest, Admitted
<1>6. OneOwner'
  BY <1>2, <1>3, <1>4 DEF OInv, OneOwner, Queued
<1>7. OkAnswered' /\ OwnersAdmitted'
  BY <1>1, <1>2 DEF OInv, OkAnswered, OwnersAdmitted
<1> QED BY <1>5, <1>6, <1>7 DEF OInv

\* The beginning of purge().
LEMMA PurgeBeginOwners ==
    ASSUME OInv, TInv', NEW c \in Coros \ {Ops}, PurgeBegin(c),
           answered' = answered
    PROVE  OInv'
<1>1. CASE queue = {}
  BY <1>1, PurgeClearOwners DEF PurgeBegin
<1>2. CASE queue # {}
  <2>1. KillerKept
    BY <1>2, OtherCoro DEF PurgeBegin, OInv
  <2> QED BY <1>2, <2>1, WorkersStay DEF PurgeBegin, front, AnswersKept
<1> QED BY <1>1, <1>2

\* The steps of a broadcast and of purge(), whoever runs them.
LEMMA PurgeStepOwners ==
    ASSUME OInv, TInv', NEW c \in Coros \ {Ops}, PurgeStep(c)
    PROVE  OInv'
<1>1. CASE Broadcast(c)
  <2>1. PICK e \in Foremost(co[c].todo) :
          /\ Publish(e.req, IF co[c].pc = "pbcast" THEN "ERROR" ELSE "LIVE")
          /\ co' = [co EXCEPT ![c].todo = @ \ {e}]
    BY <1>1 DEF Broadcast
  <2>2. AnswersKept
    BY <1>1, <2>1, PublishKeeps DEF Broadcast
  <2>3. KillerKept
    BY <2>1, StartIsNotNamed DEF OInv, TInv, CorosTyped, KillerKept
  <2> QED BY <1>1, <2>2, <2>3, WorkersStay DEF Broadcast, front
<1>2. CASE PurgePublished(c)
  BY <1>2, PurgeClearOwners DEF PurgePublished
<1>3. CASE PurgeCancel(c)
  <2>1. PICK w : w = Cancelled(wk, {co[c].obj})
    OBVIOUS
  <2>2. /\ w \in [Tasks -> WorkerRecs]
        /\ \A t \in Tasks : /\ w[t].pc = wk[t].pc /\ w[t].req = wk[t].req
                            /\ w[t].obj = wk[t].obj
    BY <2>1, CancelledTyped DEF OInv, TInv, WorkersTyped
  <2>3. PurgeReplicas(c, co[c].objs, w) /\ co[c].objs \in SUBSET Objs
    BY <1>3, <2>1 DEF PurgeCancel, OInv, TInv, CorosTyped, CoroRecs
  <2>4. /\ \A t \in Tasks : wk'[t].pc = wk[t].pc /\ wk'[t].req = wk[t].req
        /\ co'[Ops] = co[Ops]
    BY <2>2, <2>3, PurgeReplicasTyped, StartIsNotNamed DEF OInv
  <2>5. AnswersKept
    BY <1>3, PublishKeeps DEF PurgeCancel
  <2> QED BY <1>3, <2>4, <2>5, WorkersStay DEF PurgeCancel, KillerKept
<1> QED BY <1>1, <1>2, <1>3 DEF PurgeStep

\* The end of a broadcast.
LEMMA BroadcastedOwners ==
    ASSUME OInv, TInv', NEW c \in Coros \ {Ops}, Broadcasted(c)
    PROVE  OInv'
<1>1. PICK rec : co' = [co EXCEPT ![c] = rec]
  BY DEF Broadcasted
<1>2. KillerKept
  BY <1>1, OtherCoro DEF OInv
<1> QED BY <1>2, WorkersStay DEF Broadcasted, front, AnswersKept

\* start()
LEMMA StartStepOwners ==
    ASSUME OInv, TInv', NEW s \in Starts, StartStep(s) \/ StartDisconnected(s)
    PROVE  OInv'
<1>0. s \in Coros \ {Ops}
  BY StartIsNotNamed DEF Coros
<1>1. ASSUME StartFails(s), answered' = answered PROVE OInv'
  <2>1. CASE status = "READY"
    <3>1. KillerKept
      BY <1>0, <1>1, <2>1, OtherCoro DEF StartFails, OInv
    <3> QED BY <1>1, <2>1, <3>1, WorkersStay DEF StartFails, front, AnswersKept
  <2> QED BY <1>0, <1>1, <2>1, PurgeBeginOwners DEF StartFails
<1>2. ASSUME NEW S, Register(s, S), answered' = answered PROVE OInv'
  <2>1. PICK rec : co' = [co EXCEPT ![s] = rec]
    BY <1>2 DEF Register
  <2>2. KillerKept
    BY <1>0, <2>1, OtherCoro DEF OInv
  <2> QED BY <1>2, <2>2, WorkersStay DEF Register, AnswersKept
<1>3. CASE StartListed(s)
  <2>1. CASE /\ co' = [co EXCEPT ![s] = [Idle EXCEPT !.pc = "scale"]]
             /\ UNCHANGED <<front, wk, dropped>>
    <3>1. KillerKept
      BY <1>0, <2>1, OtherCoro DEF OInv
    <3> QED BY <1>3, <2>1, <3>1, WorkersStay DEF StartListed, front, AnswersKept
  <2> QED BY <1>1, <1>2, <1>3, <2>1 DEF StartListed
<1>4. CASE StartProvisioned(s)
  BY <1>1, <1>2, <1>4 DEF StartProvisioned
<1>5. CASE StartReady(s)
  <2>1. PICK o \in co[s].objs : Spawn(o) /\ \E rec : co' = [co EXCEPT ![s] = rec]
    BY <1>5 DEF StartReady
  <2>2. o \in Objs
    BY <1>0 DEF OInv, TInv, CorosTyped, CoroRecs
  <2>3. KillerKept
    BY <1>0, <2>1, OtherCoro DEF OInv
  <2> QED BY <1>5, <2>1, <2>2, <2>3, SpawnOwners DEF StartReady, AnswersKept
<1>6. CASE StartWaitFails(s)
  BY <1>1, <1>6 DEF StartWaitFails
<1>7. CASE PurgeStep(s)
  BY <1>0, <1>7, PurgeStepOwners
<1>8. CASE Broadcasted(s)
  BY <1>0, <1>8, BroadcastedOwners
<1>9. CASE StartDisconnected(s)
  BY <1>1, <1>9 DEF StartDisconnected
<1> QED BY <1>3, <1>4, <1>5, <1>6, <1>7, <1>8, <1>9 DEF StartStep

\* The autoscaler.
LEMMA ScalerOwners ==
    ASSUME OInv, TInv', ScaleUp \/ ScalerStep \/ ScaleDisconnected
    PROVE  OInv'
<1>0. Scaler \in Coros \ {Ops}
  BY StartIsNotNamed, ConstantsAssumption
<1>1. PICK rec : co' = [co EXCEPT ![Scaler] = rec]
  BY DEF ScaleUp, ScalerStep, ScaleProvisioned, ScaleReady, ScaleFails,
         ScaleDisconnected
<1>2. KillerKept
  BY <1>0, <1>1, OtherCoro DEF OInv
<1>3. CASE ScaleReady
  <2>1. co[Scaler].obj \in Objs
    BY <1>3 DEF ScaleReady, OInv, TInv, CorosTyped
  <2> QED BY <1>2, <1>3, <2>1, SpawnOwners DEF ScaleReady, AnswersKept
<1>4. CASE ScaleUp \/ ScaleProvisioned \/ ScaleFails \/ ScaleDisconnected
  BY <1>2, <1>4, WorkersStay
  DEF ScaleUp, ScaleProvisioned, ScaleFails, ScaleDisconnected, front, AnswersKept
<1> QED BY <1>3, <1>4 DEF ScalerStep

\* reconcile(): it runs in the kill handler's coroutine, never during a kill.
LEMMA ReconcileOwners ==
    ASSUME OInv, TInv', Reconcile \/ ReconcileDisconnected \/ Reconciled
    PROVE  OInv'
<1>0. Ops \in Coros
  BY StartIsNotNamed
<1>1. co[Ops].pc # "kqueued"
  BY DEF Reconcile, ReconcileDisconnected, Reconciled
<1>2. co'[Ops].pc # "kqueued"
  <2>1. CASE Reconcile
    BY <1>0, <2>1 DEF Reconcile, Idle, OInv, TInv, CorosTyped
  <2>2. CASE ReconcileDisconnected
    BY <1>0, <2>2 DEF ReconcileDisconnected, Idle, OInv, TInv, CorosTyped
  <2>3. CASE Reconciled
    BY <1>0, <2>3 DEF Reconciled, Idle
  <2> QED BY <2>1, <2>2, <2>3
<1> QED
  BY <1>1, <1>2, WorkersStay
  DEF Reconcile, ReconcileDisconnected, Reconciled, front, AnswersKept, KillerKept

\* adopt()
LEMMA AdoptOwners ==
    ASSUME OInv, TInv', NEW o \in Objs, AdoptStep(o) \/ AdoptDisconnected(o)
    PROVE  OInv'
<1>0. o \in Coros \ {Ops}
  BY ConstantsAssumption DEF Coros
<1>1. CASE AdoptReady(o)
  <2>1. KillerKept
    BY <1>0, <1>1, OtherCoro DEF AdoptReady, OInv
  <2> QED BY <1>1, <2>1, SpawnOwners DEF AdoptReady, AnswersKept
<1>2. CASE AdoptFails(o) \/ AdoptDisconnected(o)
  <2>1. KillerKept
    BY <1>0, <1>2, OtherCoro DEF AdoptFails, AdoptDisconnected, OInv
  <2> QED
    BY <1>2, <2>1, WorkersStay DEF AdoptFails, AdoptDisconnected, AnswersKept
<1>3. CASE Broadcast(o)
  BY <1>0, <1>3, PurgeStepOwners DEF PurgeStep
<1>4. CASE Broadcasted(o)
  BY <1>0, <1>4, BroadcastedOwners
<1> QED BY <1>1, <1>2, <1>3, <1>4 DEF AdoptStep

\* The dispatch loop: a request that is admitted goes in the queue.
LEMMA DispOwners ==
    ASSUME OInv, TInv', DispStep \/ \E r \in Requests : Enqueue(r)
    PROVE  OInv'
<1>0. Disp \in Coros \ {Ops} /\ Ops \in Coros
  BY StartIsNotNamed, ConstantsAssumption
<1>1. ASSUME NEW r \in Requests, Enqueue(r) PROVE OInv'
  <2>1. PICK n \in Nat \ {0} : n = Cardinality(Admitted) + 1
    <3>1. IsFiniteSet(Admitted)
      BY ConstantsAssumption, FS_Subset DEF Admitted
    <3>2. Cardinality(Admitted) \in Nat
      BY <3>1, FS_CardinalityType
    <3> QED BY <3>2
  <2>2. /\ stamp[r] = 0 /\ stamp' = [stamp EXCEPT ![r] = n]
        /\ queue' = queue \cup {Arrival(r, n)}
        /\ wk' = wk /\ answered' = answered /\ dropped' = dropped
    BY <1>1, <2>1 DEF Enqueue
  <2>3. /\ stamp'[r] # 0
        /\ \A x \in Requests : x # r => stamp'[x] = stamp[x]
    BY <2>2, <2>1 DEF OInv, TInv, FrontTyped
  <2>4. Arrival(r, n).req = r
    BY NewEntries DEF OInv, TInv, FrontTyped
  <2>5. Queued(queue') = Queued(queue) \cup {r}
    BY <2>2, <2>4 DEF Queued
  <2>6. co'[Ops] = co[Ops]
    <3>1. PICK rec : rec = [Idle EXCEPT !.pc = "ack", !.req = r]
      OBVIOUS
    <3>2. rec \in CoroRecs
      BY <3>1 DEF Idle, CoroRecs, CPcs
    <3>3. PICK cc : cc = [co EXCEPT ![Disp] = rec]
      OBVIOUS
    <3>4. cc \in [Coros -> CoroRecs] /\ cc[Ops] = co[Ops]
      BY <1>0, <3>2, <3>3 DEF OInv, TInv, CorosTyped
    <3>5. CanStart(pool) /\ co' = Started(pool, cc)
      BY <1>1, <3>1, <3>3 DEF Enqueue
    <3> QED BY <1>0, <3>4, <3>5, StartedTyped, StartIsNotNamed DEF OInv, TInv, FrontTyped
  <2>7. /\ r \notin Queued(queue) /\ ~Killing(r)
        /\ \A t \in Tasks : ~Holds(t, r)
    BY <2>2 DEF OInv, OwnersAdmitted, Queued, Killing, Holds
  <2>8. /\ \A t \in Tasks, x \in Requests : Holds(t, x)' <=> Holds(t, x)
        /\ \A x \in Requests : Killing(x)' <=> Killing(x)
    BY <2>2, <2>6 DEF Holds, Killing
  <2>9. NoLostRequest'
    <3>1. ASSUME NEW x \in Requests, stamp'[x] # 0
          PROVE  \/ x \in Queued(queue')
                 \/ \E t \in Tasks : Holds(t, x)'
                 \/ Killing(x)'
                 \/ x \in answered'
                 \/ x \in dropped'
      BY <2>2, <2>3, <2>5, <2>8, <3>1 DEF OInv, NoLostRequest, Admitted
    <3> QED BY <3>1 DEF NoLostRequest, Admitted
  <2>10. OneOwner'
    <3>1. \A e, f \in queue' : e.req = f.req => e = f
      BY <2>2, <2>4, <2>7 DEF OInv, OneOwner, Queued
    <3> QED BY <2>5, <2>7, <2>8, <3>1 DEF OInv, OneOwner
  <2>11. OwnersAdmitted'
    <3>1. /\ \A t \in Tasks : wk[t].pc \in Holding => wk[t].req \in Requests
          /\ \A e \in queue : e.req \in Requests
          /\ co[Ops].pc = "kqueued" => co[Ops].req \in Requests
      BY <1>0 DEF OInv, TInv, WorkersTyped, FrontTyped, Entries, CorosTyped
    <3> QED BY <2>2, <2>3, <2>4, <2>6, <3>1 DEF OInv, OwnersAdmitted
  <2> QED BY <2>2, <2>9, <2>10, <2>11 DEF OInv, OkAnswered
<1>2. CASE Acknowledge
  <2>1. AnswersKept
    BY <1>2, PublishKeeps DEF Acknowledge
  <2>2. KillerKept
    BY <1>0, <1>2, OtherCoro DEF Acknowledge, OInv
  <2> QED BY <1>2, <2>1, <2>2, WorkersStay DEF Acknowledge, front
<1>3. CASE HandleErrors
  BY <1>0, <1>3, PurgeBeginOwners DEF HandleErrors
<1>4. CASE PurgeStep(Disp)
  BY <1>0, <1>4, PurgeStepOwners
<1> QED BY <1>1, <1>2, <1>3, <1>4 DEF DispStep

\* The kill handler takes a request out of the queue and answers it.
LEMMA KillOwners ==
    ASSUME OInv, TInv',
           \/ \E r \in Requests : Kill(r)
           \/ KillTold \/ KillActor \/ KillPolled \/ KillCancels
    PROVE  OInv'
<1>0. Ops \in Coros /\ co \in [Coros -> CoroRecs]
  BY StartIsNotNamed DEF OInv, TInv, CorosTyped
<1>1. ASSUME NEW r \in Requests, Kill(r), r \in Queued(queue) PROVE OInv'
  <2>1. PICK rec : rec = [Idle EXCEPT !.pc = "kqueued", !.req = r]
    OBVIOUS
  <2>2. /\ queue' = Remove(queue, r) /\ co' = [co EXCEPT ![Ops] = rec]
        /\ co[Ops].pc = "idle" /\ stamp' = stamp /\ wk' = wk
        /\ answered' = answered /\ dropped' = dropped
    BY <1>1, <2>1 DEF Kill
  <2>3. co'[Ops].pc = "kqueued" /\ co'[Ops].req = r
    BY <1>0, <2>1, <2>2 DEF Idle
  <2>4. Queued(queue') = Queued(queue) \ {r} /\ queue' \subseteq queue
    BY <2>2 DEF Queued, Remove
  <2>5. /\ \A t \in Tasks, x \in Requests : Holds(t, x)' <=> Holds(t, x)
        /\ \A x \in Requests : Killing(x)' <=> x = r
        /\ \A x \in Requests : ~Killing(x)
    BY <2>2, <2>3 DEF Holds, Killing
  <2>6. NoLostRequest'
    <3>1. ASSUME NEW x \in Requests, stamp'[x] # 0
          PROVE  \/ x \in Queued(queue')
                 \/ \E t \in Tasks : Holds(t, x)'
                 \/ Killing(x)'
                 \/ x \in answered'
                 \/ x \in dropped'
      BY <2>2, <2>4, <2>5, <3>1 DEF OInv, NoLostRequest, Admitted
    <3> QED BY <3>1 DEF NoLostRequest, Admitted
  <2>7. OneOwner'
    BY <1>1, <2>4, <2>5 DEF OInv, OneOwner
  <2>8. OwnersAdmitted'
    BY <1>1, <2>2, <2>3, <2>4 DEF OInv, OwnersAdmitted, Queued
  <2> QED BY <2>2, <2>6, <2>7, <2>8 DEF OInv, OkAnswered
<1>2. ASSUME NEW r \in Requests, Kill(r), r \notin Queued(queue) PROVE OInv'
  <2>1. PICK o : co' = [co EXCEPT ![Ops] =
                          [Idle EXCEPT !.pc = "kpublish", !.obj = o, !.req = r]]
    BY <1>2 DEF Kill
  <2>2. co'[Ops].pc = "kpublish" /\ co[Ops].pc = "idle"
    BY <1>0, <1>2, <2>1 DEF Kill, Idle
  <2> QED BY <1>2, <2>2, WorkersStay DEF Kill, KillerKept, AnswersKept
<1>3. CASE KillTold
  <2>1. AnswersKept /\ co[Ops].req \in answered'
    BY <1>3, PublishKeeps DEF KillTold
  <2>2. co'[Ops].pc \in {"idle", "kactor"}
    BY <1>0, <1>3 DEF KillTold, Idle, CoroRecs
  <2>3. queue' = queue /\ stamp' = stamp /\ wk' = wk
    BY <1>3 DEF KillTold, front
  <2>4. /\ \A t \in Tasks, x \in Requests : Holds(t, x)' <=> Holds(t, x)
        /\ \A x \in Requests : ~Killing(x)' /\ (Killing(x) => x \in answered')
    BY <2>1, <2>2, <2>3 DEF Holds, Killing
  <2>5. NoLostRequest'
    <3>1. ASSUME NEW x \in Requests, stamp'[x] # 0
          PROVE  \/ x \in Queued(queue')
                 \/ \E t \in Tasks : Holds(t, x)'
                 \/ x \in answered'
                 \/ x \in dropped'
      BY <2>1, <2>3, <2>4, <3>1 DEF OInv, NoLostRequest, Admitted, AnswersKept
    <3> QED BY <3>1 DEF NoLostRequest, Admitted
  <2>6. OneOwner'
    BY <2>3, <2>4 DEF OInv, OneOwner
  <2> QED
    BY <2>1, <2>2, <2>3, <2>5, <2>6 DEF OInv, OkAnswered, OwnersAdmitted, AnswersKept
<1>4. CASE KillActor
  <2>1. KillerKept /\ queue' = queue /\ stamp' = stamp /\ dropped' = dropped
    BY <1>0, <1>4 DEF KillActor, KillerKept, CoroRecs, front
  <2>2. CASE UNCHANGED <<wk, orphans, answered>>
    BY <2>1, <2>2, WorkersStay DEF AnswersKept
  <2>3. ASSUME NEW rid, NEW t \in At(rid, "exec"), Publish(wk[t].req, "DONE"),
               wk' = Becomes({t}, "ok")
        PROVE  OInv'
    <3>1. t \in Tasks /\ wk[t].pc \in InDispatch
      BY AtTyped DEF InDispatch
    <3>2. AnswersKept /\ wk[t].req \in answered'
      BY <2>1, <2>3, PublishKeeps
    <3> QED BY <2>1, <2>3, <3>1, <3>2, ActorMoves DEF InDispatch
  <2>4. ASSUME NEW x \in orphans, Publish(x[2], "DONE"), UNCHANGED wk
        PROVE  OInv'
    BY <2>1, <2>4, PublishKeeps, WorkersStay
  <2> QED BY <1>4, <2>2, <2>3, <2>4 DEF KillActor
<1>5. CASE KillPolled
  <2>1. co'[Ops].pc \in {"idle", "kcancel"} /\ co[Ops].pc = "kpoll"
    BY <1>0, <1>5 DEF KillPolled, Idle, CoroRecs
  <2> QED BY <1>5, <2>1, WorkersStay DEF KillPolled, front, KillerKept, AnswersKept
<1>6. CASE KillCancels
  <2>1. co'[Ops].pc = "idle" /\ co[Ops].pc = "kcancel"
    BY <1>0, <1>6 DEF KillCancels, Idle
  <2>2. \A t \in Tasks : wk'[t].pc = wk[t].pc /\ wk'[t].req = wk[t].req
    BY <1>6, CancelledTyped DEF KillCancels, OInv, TInv, WorkersTyped
  <2> QED
    BY <1>6, <2>1, <2>2, WorkersStay DEF KillCancels, front, KillerKept, AnswersKept
<1> QED BY <1>1, <1>2, <1>3, <1>4, <1>5, <1>6

-----------------------------------------------------------------------------
(* The theorems *)

\* A Processor just made owns nothing.
LEMMA OInvInit == Init => OInv
<1> SUFFICES ASSUME Init PROVE OInv
  OBVIOUS
<1>1. NoLostRequest
  BY DEF Init, NoLostRequest, Admitted
<1>2. OneOwner /\ OkAnswered /\ OwnersAdmitted
  BY StartIsNotNamed
  DEF Init, OneOwner, Queued, Holds, Killing, OkAnswered, OwnersAdmitted, FreeTask,
      Idle, Holding, InDispatch
<1> QED BY <1>1, <1>2, TInvInit DEF OInv

\* Every step of the dispatcher keeps the ownership invariant.
LEMMA OInvNext == OInv /\ [Next]_vars => OInv'
<1> SUFFICES ASSUME OInv, [Next]_vars PROVE OInv'
  OBVIOUS
<1>t. TInv'
  BY TInvNext DEF OInv
<1>1. CASE UNCHANGED vars
  BY <1>1, <1>t, WorkersStay DEF vars, KillerKept, AnswersKept
<1>2. CASE Next
  BY <1>2, <1>t, DispOwners, KillOwners, ReconcileOwners, ScalerOwners,
     StartStepOwners, AdoptOwners, ActorsOwners, WorkerStepOwners, RunStepOwners,
     ControllerOwners
  DEF Next, Commands, Disturbances, OpsStep
<1> QED BY <1>1, <1>2

\* The ownership invariant holds throughout.
LEMMA OwnersThroughout == Spec => []OInv
BY OInvInit, OInvNext, PTL DEF Spec

\* Whatever evictions, cancels, kills, purges and restarts interleave, a
\* request that was admitted is queued, held, answered, or was cleared by a
\* purge: Replica.dispatch, Replica.worker and Processor.purge drop nothing
\* else.
THEOREM RequestsNeverLost == Spec => []NoLostRequest
<1>1. OInv => NoLostRequest
  BY DEF OInv
<1> QED BY <1>1, OwnersThroughout, PTL

\* A request is never queued twice, nor both queued and held by a worker of
\* Replica.dispatch or by the kill handler, nor held by two of them.
THEOREM RequestsHaveOneOwner == Spec => []OneOwner
<1>1. OInv => OneOwner
  BY DEF OInv
<1> QED BY <1>1, OwnersThroughout, PTL

-----------------------------------------------------------------------------
(* What was left to an actor never comes back *)

\* The awaits of dispatch() after which the request may still reach an actor.
Unsettled == InDispatch \ {"failed"}

\* The request is queued, or a worker has yet to see what becomes of it.
Lives(r) ==
    \/ r \in Queued(queue)
    \/ \E t \in Tasks : wk[t].pc \in Unsettled /\ wk[t].req = r

\* A request that was admitted and lives no more stays that way.
NoneRevives == \A r \in Requests : stamp[r] # 0 /\ Lives(r)' => Lives(r)

\* What an actor runs with no worker waiting was admitted and lives no more.
Abandoned == \A x \in orphans : stamp[x[2]] # 0 /\ ~Lives(x[2])

RInv == OInv /\ Abandoned

\* NoSecondRun says the same of a worker by what it may still hold.
LEMMA AbandonedRunsOnce == RInv => NoSecondRun
<1> SUFFICES ASSUME RInv, NEW x \in orphans
             PROVE  /\ x[2] \notin Queued(queue)
                    /\ \A t \in Tasks :
                         Holds(t, x[2]) => wk[t].pc \in {"cancelling", "failed"}
  BY DEF NoSecondRun
<1> QED BY DEF RInv, Abandoned, Lives, Holds, Holding, Unsettled

\* Nobody takes a request up again: the queue only shrinks, and no worker
\* comes to wait for an actor.
LEMMA NothingTakenUp ==
    ASSUME queue' \subseteq queue,
           \A t \in Tasks : wk'[t].pc \in Unsettled =>
                wk[t].pc \in Unsettled /\ wk'[t].req = wk[t].req
    PROVE  NoneRevives
BY DEF NoneRevives, Lives, Queued

\* The workers keep what they hold.
LEMMA WorkersHoldStill ==
    ASSUME queue' \subseteq queue,
           \A t \in Tasks : wk'[t].pc = wk[t].pc /\ wk'[t].req = wk[t].req
    PROVE  NoneRevives
BY NothingTakenUp

\* One worker moves on, with what lived before.
LEMMA OneTakesUp ==
    ASSUME NEW t \in Tasks, OthersKept(t),
           \A r \in Queued(queue') : Lives(r),
           wk'[t].pc \in Unsettled => Lives(wk'[t].req)
    PROVE  NoneRevives
BY DEF NoneRevives, Lives, OthersKept

\* An exit gives nobody a second life.
LEMMA ExitRevives ==
    ASSUME TInv, NEW t \in Tasks, NEW cur, Exit(t, cur)
    PROVE  NoneRevives
<1>1. OthersKept(t) /\ wk'[t].pc \notin Unsettled /\ queue' = queue
  BY DEF Exit, OthersKept, TInv, WorkersTyped, FreeTask, Unsettled, InDispatch
<1> QED BY <1>1, OneTakesUp DEF Lives

\* A request that is handed back lived: the worker had it or had just taken it.
LEMMA HandBackRevives ==
    ASSUME TInv, NEW t \in Tasks, wk[t].pc # "free", NEW r \in Requests,
           NEW q \in SUBSET queue, HandBack(t, r, q), Lives(r)
    PROVE  NoneRevives
<1>1. OthersKept(t) /\ wk'[t].pc \notin Unsettled
  BY MoveTyped DEF HandBack, OthersKept, TInv, WPcs, Unsettled, InDispatch
<1>2. InFront(r).req = r /\ queue' = q \cup {InFront(r)}
  BY NewEntries DEF HandBack, TInv, FrontTyped
<1>3. \A x \in Queued(queue') : Lives(x)
  BY <1>2 DEF Queued, Lives
<1> QED BY <1>1, <1>3, OneTakesUp

\* Nor does taking what a worker collected.
LEMMA TakeRevives ==
    ASSUME TInv, NEW t \in Tasks, wk[t].pc # "free", Take(t)
    PROVE  NoneRevives
<1>1. PICK e \in Foremost(queue) :
        \/ HandBack(t, e.req, queue \ {e})
        \/ queue' = queue \ {e} /\ wk' = Moved(t, "disp", e.req)
  BY DEF Take
<1>2. e \in queue /\ e.req \in Requests /\ Lives(e.req)
  BY DEF Foremost, TInv, FrontTyped, Entries, Lives, Queued
<1>3. CASE HandBack(t, e.req, queue \ {e})
  BY <1>2, <1>3, HandBackRevives
<1>4. CASE queue' = queue \ {e} /\ wk' = Moved(t, "disp", e.req)
  <2>1. wk'[t].req = e.req /\ OthersKept(t)
    BY <1>2, <1>4, MoveTyped DEF TInv, WPcs, OthersKept
  <2>2. \A x \in Queued(queue') : Lives(x)
    BY <1>4 DEF Queued, Lives
  <2> QED BY <1>2, <2>1, <2>2, OneTakesUp
<1> QED BY <1>1, <1>3, <1>4

\* Nor does a step of the loop.
LEMMA LoopRevives ==
    ASSUME TInv, NEW t \in Tasks, wk[t].pc # "free", NEW cur, Loop(t, cur)
    PROVE  NoneRevives
<1>1. CASE Exit(t, cur)
  BY <1>1, ExitRevives
<1>2. CASE Take(t)
  BY <1>2, TakeRevives
<1>3. CASE wk' = Moved(t, "get", None) /\ queue' = queue
  <2>1. wk'[t].pc = "get" /\ OthersKept(t)
    BY <1>3, MoveTyped DEF TInv, WPcs, OthersKept, Holding, InDispatch
  <2> QED BY <1>3, <2>1, OneTakesUp DEF Unsettled, InDispatch, Lives
<1> QED BY <1>1, <1>2, <1>3 DEF Loop

\* Of the worker's own steps only the hand-back puts a request in the queue.
LEMMA WorkerStepRevives ==
    ASSUME TInv, NEW t \in Tasks, WorkerStep(t)
    PROVE  NoneRevives
<1>1. CASE WorkerBegins(t) \/ WorkerDone(t) \/ WorkerHandedBack(t)
           \/ WorkerFailed(t)
  <2>1. wk[t].pc # "free" /\ \E cur : Loop(t, cur)
    BY <1>1
    DEF WorkerBegins, WorkerDone, WorkerHandedBack, WorkerFailed, Runnable
  <2> QED BY <2>1, LoopRevives
<1>2. CASE WorkerWakes(t)
  BY <1>2, TakeRevives DEF WorkerWakes, Runnable
<1>3. CASE WorkerEvicted(t)
  <2>1. wk[t].req \in Requests /\ wk[t].pc = "evicted" /\ Lives(wk[t].req)
    BY <1>3 DEF WorkerEvicted, Runnable, TInv, WorkersTyped, Lives, Holding,
                InDispatch, Unsettled
  <2> QED BY <1>3, <2>1, HandBackRevives DEF WorkerEvicted
<1>4. CASE WorkerUnparks(t)
  BY <1>4, LoopRevives, ExitRevives DEF WorkerUnparks, Runnable
<1>5. CASE CancelledWaiting(t) \/ WorkerCancelling(t)
  BY <1>5, ExitRevives DEF CancelledWaiting, WorkerCancelling
<1>6. CASE CancelledUnstarted(t)
  <2>1. OthersKept(t) /\ wk'[t].pc = "free"
    BY <1>6 DEF CancelledUnstarted, OthersKept, TInv, WorkersTyped, FreeTask
  <2> QED
    BY <1>6, <2>1, OneTakesUp
    DEF CancelledUnstarted, Unsettled, InDispatch, Lives
<1>7. CASE Dispatched(t) \/ WorkerParks(t) \/ CancelledDispatch(t)
  <2>1. PICK pc \in WPcs : wk' = Moved(t, pc, wk[t].req)
    BY <1>7 DEF Dispatched, WorkerParks, CancelledDispatch, WPcs
  <2>2. wk[t].pc \in InDispatch /\ wk[t].pc # "free" /\ wk[t].req \in Requests
    BY <1>7 DEF Dispatched, WorkerParks, CancelledDispatch, Runnable, InDispatch,
                TInv, WorkersTyped, Holding
  <2>3. wk'[t].pc = pc /\ wk'[t].req = wk[t].req /\ OthersKept(t)
    BY <2>1, <2>2, MoveTyped DEF TInv, OthersKept
  <2>4. queue' = queue /\ (pc \in Unsettled => wk[t].pc \in Unsettled)
    <3>1. CASE Dispatched(t)
      BY <3>1 DEF Dispatched, Runnable, front, Unsettled, InDispatch
    <3>2. CASE WorkerParks(t)
      BY <3>2 DEF WorkerParks, Runnable, front, Unsettled, InDispatch
    <3>3. CASE CancelledDispatch(t)
      <4>1. wk' = Moved(t, "cancelling", wk[t].req) /\ queue' = queue
        BY <3>3 DEF CancelledDispatch, front
      <4>2. wk'[t].pc = "cancelling"
        BY <4>1, <2>2, MoveTyped DEF TInv, WPcs
      <4> QED BY <4>1, <4>2, <2>3 DEF Unsettled, InDispatch
    <3> QED BY <1>7, <3>1, <3>2, <3>3
  <2> QED BY <2>3, <2>4, OneTakesUp DEF Lives
<1> QED
  BY <1>1, <1>2, <1>3, <1>4, <1>5, <1>6, <1>7 DEF WorkerStep

\* An actor's answer, and the loss of one, leave a live request alive at most.
LEMMA ActorRevives ==
    ASSUME TInv, NEW S \in SUBSET Tasks, \A t \in S : wk[t].pc \in Unsettled,
           NEW pc \in InDispatch, wk' = Becomes(S, pc), queue' = queue
    PROVE  NoneRevives
<1>1. \A t \in Tasks : /\ wk'[t].pc = IF t \in S THEN pc ELSE wk[t].pc
                       /\ wk'[t].req = wk[t].req
  BY BecomesTyped DEF TInv, Unsettled
<1> QED BY <1>1, NothingTakenUp

\* Spawning a worker takes nothing up.
LEMMA SpawnRevives ==
    ASSUME TInv, NEW o \in Objs, Spawn(o), queue' = queue
    PROVE  NoneRevives
<1>1. PICK n \in Tasks :
        wk[n].pc = "free" /\ wk' = [wk EXCEPT ![n] =
                                      [FreeTask EXCEPT !.pc = "new", !.obj = o]]
  BY DEF Spawn, CanSpawn, NewTask
<1>2. wk'[n].pc = "new" /\ OthersKept(n)
  BY <1>1 DEF TInv, WorkersTyped, OthersKept, FreeTask
<1> QED BY <1>2, OneTakesUp DEF Unsettled, InDispatch, Lives

\* purge() only raises flags, and empties the queue.
LEMMA PurgeRevives ==
    ASSUME OInv, NEW c \in Coros \ {Ops}, PurgeBegin(c) \/ PurgeStep(c)
    PROVE  NoneRevives
<1>1. CASE PurgeClear(c)
  BY <1>1, PurgeClearTyped, WorkersHoldStill DEF OInv, PurgeClear
<1>2. CASE PurgeCancel(c)
  <2>1. PICK w : w = Cancelled(wk, {co[c].obj})
    OBVIOUS
  <2>2. /\ w \in [Tasks -> WorkerRecs]
        /\ \A t \in Tasks : /\ w[t].pc = wk[t].pc /\ w[t].req = wk[t].req
                            /\ w[t].obj = wk[t].obj
    BY <2>1, CancelledTyped DEF OInv, TInv, WorkersTyped
  <2>3. PurgeReplicas(c, co[c].objs, w) /\ co[c].objs \in SUBSET Objs
    BY <1>2, <2>1 DEF PurgeCancel, OInv, TInv, CorosTyped, CoroRecs
  <2>4. \A t \in Tasks : wk'[t].pc = wk[t].pc /\ wk'[t].req = wk[t].req
    BY <2>2, <2>3, PurgeReplicasTyped DEF OInv
  <2> QED BY <1>2, <2>4, WorkersHoldStill DEF PurgeCancel
<1>3. CASE Broadcast(c) \/ (PurgeBegin(c) /\ queue # {})
  BY <1>3, WorkersHoldStill DEF Broadcast, PurgeBegin, front
<1> QED BY <1>1, <1>2, <1>3 DEF PurgeStep, PurgePublished, PurgeBegin

-----------------------------------------------------------------------------
(* The orphans *)

StampsKept == \A r \in Requests : stamp[r] # 0 => stamp'[r] # 0

\* No step but the two below adds to what the actors run by themselves.
LEMMA NothingAbandoned ==
    ASSUME RInv, OInv', NoneRevives, StampsKept, orphans' \subseteq orphans
    PROVE  RInv'
BY DEF RInv, Abandoned, NoneRevives, StampsKept, OInv, TInv, EnvTyped

\* A worker leaves its run() to the actor: nobody else has the request.
LEMMA RunAbandoned ==
    ASSUME RInv, OInv', NEW t \in Tasks, wk[t].pc \in {"run", "exec"},
           OthersKept(t), wk'[t].pc \in {"cancelling", "failed"},
           queue' = queue, stamp' = stamp, NEW rid,
           orphans' = orphans \cup {<<rid, wk[t].req>>}
    PROVE  RInv'
<1>1. PICK r \in Requests : r = wk[t].req /\ Holds(t, r) /\ stamp[r] # 0
  BY DEF RInv, OInv, TInv, WorkersTyped, Holds, Holding, InDispatch, OwnersAdmitted
<1>2. ~Lives(r)'
  <2>1. r \notin Queued(queue')
    BY <1>1 DEF RInv, OInv, OneOwner
  <2>2. ASSUME NEW u \in Tasks, wk'[u].pc \in Unsettled, wk'[u].req = r
        PROVE  FALSE
    <3>1. u # t
      BY <2>2 DEF Unsettled, InDispatch
    <3>2. Holds(u, r)
      BY <2>2, <3>1 DEF OthersKept, Holds, Holding, Unsettled
    <3> QED BY <1>1, <3>1, <3>2 DEF RInv, OInv, OneOwner
  <2> QED BY <2>1, <2>2 DEF Lives
<1>3. NoneRevives
  BY OneTakesUp DEF Unsettled, InDispatch, Lives
<1>4. \A x \in orphans : stamp'[x[2]] # 0 /\ ~Lives(x[2])'
  BY <1>3 DEF RInv, Abandoned, NoneRevives, OInv, TInv, EnvTyped
<1>5. ASSUME NEW x \in orphans' PROVE stamp'[x[2]] # 0 /\ ~Lives(x[2])'
  <2>1. CASE x \in orphans
    BY <1>4, <2>1
  <2>2. CASE x = <<rid, wk[t].req>>
    <3>1. x[2] = r
      BY <1>1, <2>2
    <3> QED BY <1>1, <1>2, <3>1
  <2> QED BY <2>1, <2>2
<1> QED BY <1>5 DEF RInv, Abandoned

\* The worker's own steps.
LEMMA WorkerStepAbandons ==
    ASSUME RInv, OInv', NEW t \in Tasks, WorkerStep(t)
    PROVE  RInv'
<1>1. CASE CancelledDispatch(t) /\ wk[t].pc \in {"run", "exec"}
  <2>1. /\ wk' = Moved(t, "cancelling", wk[t].req)
        /\ orphans' = orphans \cup {<<wk[t].obj[1], wk[t].req>>}
        /\ queue' = queue /\ stamp' = stamp
    BY <1>1 DEF CancelledDispatch, front
  <2>2. wk[t].req \in Requests
    BY <1>1 DEF RInv, OInv, TInv, WorkersTyped, Holding, InDispatch
  <2>3. wk'[t].pc = "cancelling" /\ OthersKept(t)
    BY <1>1, <2>1, <2>2, MoveTyped DEF RInv, OInv, TInv, WPcs, OthersKept
  <2> QED BY <1>1, <2>1, <2>3, RunAbandoned
<1>2. CASE ~(CancelledDispatch(t) /\ wk[t].pc \in {"run", "exec"})
  <2>1. orphans' = orphans
    BY <1>2
    DEF WorkerStep, WorkerBegins, WorkerWakes, Dispatched, WorkerDone, WorkerEvicted,
        WorkerHandedBack, WorkerFailed, WorkerParks, WorkerUnparks,
        CancelledUnstarted, CancelledWaiting, CancelledDispatch, WorkerCancelling,
        env
  <2>2. stamp' = stamp
    BY DEF WorkerStep, WorkerBegins, WorkerWakes, Dispatched, WorkerDone,
           WorkerEvicted, WorkerHandedBack, WorkerFailed, WorkerParks, WorkerUnparks,
           CancelledUnstarted, CancelledWaiting, CancelledDispatch,
           WorkerCancelling, front, Loop, Take, Exit, HandBack
  <2> QED
    BY <2>1, <2>2, WorkerStepRevives, NothingAbandoned DEF RInv, OInv, StampsKept
<1> QED BY <1>1, <1>2

\* What the actors do, with their workers and without.
LEMMA ActorsAbandon ==
    ASSUME RInv, OInv',
           \/ \E t \in Tasks : RunStep(t) \/ RunDisconnected(t) \/ ActorRestarts(t)
           \/ \E rid \in Rids : \/ ActorLoads(rid) \/ ActorLoadFails(rid)
                                \/ ActorDemoted(rid) \/ ActorDies(rid)
                                \/ OperatorDeploys(rid)
           \/ \E x \in orphans : OrphanEnds(x)
    PROVE  RInv'
<1>0. queue' = queue /\ stamp' = stamp /\ StampsKept
  BY DEF RunStep, RunBegins, RunRejected, RunEnds, RunDisconnected, ActorRestarts,
         ActorLoads, ActorLoadFails, ActorDemoted, ActorDies, OperatorDeploys,
         OrphanEnds, front, StampsKept
<1>1. ASSUME NEW t \in Tasks, RunStep(t) PROVE RInv'
  <2>1. PICK pc \in InDispatch : wk' = Becomes({t}, pc)
    BY <1>1 DEF RunStep, RunBegins, RunRejected, RunEnds, InDispatch
  <2>2. wk[t].pc \in Unsettled /\ orphans' = orphans
    BY <1>1 DEF RunStep, RunBegins, RunRejected, RunEnds, InDispatch, Unsettled, env
  <2> QED BY <1>0, <2>1, <2>2, ActorRevives, NothingAbandoned DEF RInv, OInv
<1>2. ASSUME NEW t \in Tasks, RunDisconnected(t) PROVE RInv'
  <2>1. wk' = Becomes({t}, "failed") /\ wk[t].pc \in {"run", "exec"}
        /\ orphans' = orphans \cup {<<wk[t].obj[1], wk[t].req>>}
    BY <1>2 DEF RunDisconnected
  <2>2. wk'[t].pc = "failed" /\ OthersKept(t)
    BY <2>1 DEF Becomes, OthersKept, RInv, OInv, TInv, WorkersTyped, WorkerRecs
  <2> QED BY <1>0, <2>1, <2>2, RunAbandoned
<1>3. ASSUME NEW S \in SUBSET Tasks, NEW pc \in InDispatch, wk' = Becomes(S, pc),
             \A u \in S : wk[u].pc \in {"exec", "ok"}, NEW rid,
             orphans' = NotOn(rid)
      PROVE  RInv'
  <2>1. \A u \in S : wk[u].pc \in Unsettled
    BY <1>3 DEF Unsettled, InDispatch
  <2>2. orphans' \subseteq orphans
    BY <1>3 DEF NotOn
  <2> QED BY <1>0, <1>3, <2>1, <2>2, ActorRevives, NothingAbandoned DEF RInv, OInv
<1>4. ASSUME NEW t \in Tasks, ActorRestarts(t) PROVE RInv'
  <2>1. PICK rid : /\ wk' = Becomes(At(rid, "exec"), "unavail")
                   /\ orphans' = NotOn(rid)
    BY <1>4 DEF ActorRestarts
  <2>2. /\ At(rid, "exec") \in SUBSET Tasks
        /\ \A u \in At(rid, "exec") : wk[u].pc \in {"exec", "ok"}
    BY DEF At
  <2> QED BY <1>3, <2>1, <2>2 DEF InDispatch
<1>5. ASSUME NEW rid \in Rids, ActorDemoted(rid) PROVE RInv'
  <2>1. /\ At(rid, "exec") \in SUBSET Tasks
        /\ \A u \in At(rid, "exec") : wk[u].pc \in {"exec", "ok"}
    BY DEF At
  <2> QED BY <1>3, <1>5, <2>1 DEF ActorDemoted, InDispatch
<1>6. ASSUME NEW rid \in Rids, ActorDies(rid) PROVE RInv'
  <2>1. PICK lost \in SUBSET At(rid, "ok") :
            wk' = Becomes(At(rid, "exec") \cup lost, "evicted")
    BY <1>6 DEF ActorDies
  <2>2. /\ At(rid, "exec") \cup lost \in SUBSET Tasks
        /\ \A u \in At(rid, "exec") \cup lost : wk[u].pc \in {"exec", "ok"}
    BY DEF At
  <2> QED BY <1>3, <1>6, <2>1, <2>2 DEF ActorDies, InDispatch
<1>7. ASSUME NEW rid \in Rids,
             ActorLoads(rid) \/ ActorLoadFails(rid) \/ OperatorDeploys(rid)
      PROVE  RInv'
  <2>1. wk' = wk /\ orphans' = orphans
    BY <1>7 DEF ActorLoads, ActorLoadFails, OperatorDeploys
  <2> QED BY <1>0, <2>1, WorkersHoldStill, NothingAbandoned
<1>8. ASSUME NEW x \in orphans, OrphanEnds(x) PROVE RInv'
  <2>1. wk' = wk /\ orphans' \subseteq orphans
    BY <1>8 DEF OrphanEnds
  <2> QED BY <1>0, <2>1, WorkersHoldStill, NothingAbandoned
<1> QED BY <1>1, <1>2, <1>4, <1>5, <1>6, <1>7, <1>8

\* The coroutines: a request that arrives is new, nobody else puts one in the
\* queue.
LEMMA CoroutinesAbandon ==
    ASSUME RInv, OInv',
           \/ Commands \/ DispStep \/ OpsStep \/ ScalerStep
           \/ ReconcileDisconnected \/ ScaleDisconnected
           \/ \E s \in Starts : StartStep(s) \/ StartDisconnected(s)
           \/ \E o \in Objs : AdoptStep(o) \/ AdoptDisconnected(o)
           \/ \E c \in Starts \cup {Ops, Scaler} : ControllerStep(c)
    PROVE  RInv'
<1>t. TInv
  BY DEF RInv, OInv
<1>q. ASSUME orphans' = orphans, queue' \subseteq queue, stamp' = stamp,
             \A t \in Tasks : wk'[t].pc = wk[t].pc /\ wk'[t].req = wk[t].req
      PROVE  RInv'
  BY <1>q, WorkersHoldStill, NothingAbandoned DEF StampsKept
<1>s. ASSUME NEW o \in Objs, Spawn(o), queue' = queue, stamp' = stamp,
             orphans' = orphans
      PROVE  RInv'
  BY <1>s, <1>t, SpawnRevives, NothingAbandoned DEF StampsKept
<1>p. ASSUME NEW c \in Coros \ {Ops}, PurgeBegin(c) \/ PurgeStep(c),
             orphans' = orphans
      PROVE  RInv'
  <2>1. stamp' = stamp
    BY <1>p DEF PurgeBegin, PurgeStep, PurgeClear, Broadcast, PurgePublished,
                PurgeCancel, front
  <2> QED BY <1>p, <2>1, PurgeRevives, NothingAbandoned DEF RInv, StampsKept
<1>c. /\ Disp \in Coros \ {Ops} /\ Scaler \in Coros \ {Ops} /\ Ops \in Coros
      /\ \A x \in Starts \cup Objs : x \in Coros \ {Ops}
  BY StartIsNotNamed, ConstantsAssumption DEF Coros
<1>1. ASSUME NEW r \in Requests, Enqueue(r) PROVE RInv'
  <2>1. PICK n \in Nat \ {0} : n = Cardinality(Admitted) + 1
    <3>1. IsFiniteSet(Admitted)
      BY ConstantsAssumption, FS_Subset DEF Admitted
    <3>2. Cardinality(Admitted) \in Nat
      BY <3>1, FS_CardinalityType
    <3> QED BY <3>2
  <2>2. /\ stamp[r] = 0 /\ stamp' = [stamp EXCEPT ![r] = n]
        /\ queue' = queue \cup {Arrival(r, n)} /\ wk' = wk /\ orphans' = orphans
    BY <1>1, <2>1 DEF Enqueue, env
  <2>3. Arrival(r, n).req = r
    BY <1>t, NewEntries DEF TInv, FrontTyped
  <2>4. NoneRevives
    BY <2>2, <2>3 DEF NoneRevives, Lives, Queued
  <2>5. StampsKept
    BY <2>1, <2>2, <1>t DEF TInv, FrontTyped, StampsKept
  <2> QED BY <2>2, <2>4, <2>5, NothingAbandoned
<1>2. ASSUME NEW r \in Requests, Kill(r) PROVE RInv'
  BY <1>2, <1>q DEF Kill, env, Remove
<1>3. CASE Reconcile \/ ReconcileDisconnected \/ Reconciled
           \/ ScaleUp \/ ScaleDisconnected \/ ScaleProvisioned \/ ScaleFails
  BY <1>3, <1>q DEF Reconcile, ReconcileDisconnected, Reconciled, ScaleUp,
     ScaleDisconnected, ScaleProvisioned, ScaleFails, front, env
<1>4. CASE ScaleReady
  <2>1. co[Scaler].obj \in Objs
    BY <1>4, <1>t DEF ScaleReady, TInv, CorosTyped
  <2> QED BY <1>4, <2>1, <1>s DEF ScaleReady, env
<1>5. CASE DispStep
  <2>1. CASE Acknowledge
    BY <2>1, <1>q DEF Acknowledge, front, env
  <2>2. CASE HandleErrors
    BY <2>2, <1>c, <1>p DEF HandleErrors, env
  <2>3. CASE PurgeStep(Disp)
    BY <2>3, <1>c, <1>p DEF PurgeStep, Broadcast, PurgePublished, PurgeCancel, env
  <2> QED BY <1>5, <2>1, <2>2, <2>3 DEF DispStep
<1>6. CASE KillTold \/ KillPolled
  BY <1>6, <1>q DEF KillTold, KillPolled, front, env
<1>7. CASE KillCancels
  <2>1. wk' = Cancelled(wk, {co[Ops].obj})
    BY <1>7 DEF KillCancels
  <2>2. \A t \in Tasks : wk'[t].pc = wk[t].pc /\ wk'[t].req = wk[t].req
    BY <2>1, <1>t, CancelledTyped DEF TInv, WorkersTyped
  <2> QED BY <1>7, <2>2, <1>q DEF KillCancels, front, env
<1>8. CASE KillActor
  <2>1. queue' = queue /\ stamp' = stamp
    BY <1>8 DEF KillActor, front
  <2>2. CASE UNCHANGED <<wk, orphans, answered>>
    BY <2>1, <2>2, <1>q
  <2>3. ASSUME NEW rid, NEW t \in At(rid, "exec"), wk' = Becomes({t}, "ok"),
               UNCHANGED orphans
        PROVE  RInv'
    <3>1. t \in Tasks /\ wk[t].pc \in Unsettled
      BY DEF At, Unsettled, InDispatch
    <3>2. NoneRevives
      BY <2>1, <2>3, <3>1, <1>t, ActorRevives DEF InDispatch
    <3> QED BY <2>1, <2>3, <3>2, NothingAbandoned DEF StampsKept
  <2>4. ASSUME NEW x \in orphans, orphans' = orphans \ {x}, UNCHANGED wk
        PROVE  RInv'
    <3>1. NoneRevives
      BY <2>1, <2>4, WorkersHoldStill
    <3> QED BY <2>1, <2>4, <3>1, NothingAbandoned DEF StampsKept
  <2> QED BY <1>8, <2>2, <2>3, <2>4 DEF KillActor
<1>9. ASSUME NEW c \in Coros \ {Ops}, PurgeStep(c) PROVE RInv'
  BY <1>9, <1>p DEF PurgeStep, Broadcast, PurgePublished, PurgeCancel, env
<1>10. ASSUME NEW c \in Coros, Broadcasted(c) PROVE RInv'
  BY <1>10, <1>q DEF Broadcasted, front, env
<1>11. ASSUME NEW s \in Starts, StartFails(s), orphans' = orphans PROVE RInv'
  <2>1. CASE status = "READY"
    BY <1>11, <2>1, <1>q DEF StartFails, front
  <2>2. CASE status # "READY"
    BY <1>11, <2>2, <1>p, <1>c DEF StartFails
  <2> QED BY <2>1, <2>2
<1>12. ASSUME NEW s \in Starts, NEW S, Register(s, S), orphans' = orphans
       PROVE  RInv'
  BY <1>12, <1>q DEF Register
<1>13. ASSUME NEW s \in Starts, StartListed(s) PROVE RInv'
  <2>1. CASE UNCHANGED <<front, wk>>
    BY <1>13, <2>1, <1>q DEF StartListed, front, env
  <2> QED BY <1>13, <2>1, <1>11, <1>12 DEF StartListed, env
<1>14. ASSUME NEW s \in Starts,
              StartProvisioned(s) \/ StartWaitFails(s) \/ StartDisconnected(s)
       PROVE  RInv'
  BY <1>14, <1>11, <1>12
  DEF StartProvisioned, StartWaitFails, StartDisconnected, env
<1>15. ASSUME NEW s \in Starts, StartReady(s) PROVE RInv'
  <2>1. PICK o \in co[s].objs : Spawn(o)
    BY <1>15 DEF StartReady
  <2>2. o \in Objs
    BY <1>c, <1>t DEF TInv, CorosTyped, CoroRecs
  <2> QED BY <1>15, <2>1, <2>2, <1>s DEF StartReady, env
<1>16. ASSUME NEW o \in Objs, AdoptReady(o) PROVE RInv'
  BY <1>16, <1>s DEF AdoptReady, env
<1>17. ASSUME NEW o \in Objs, AdoptFails(o) \/ AdoptDisconnected(o) PROVE RInv'
  BY <1>17, <1>q DEF AdoptFails, AdoptDisconnected, env
<1>18. ASSUME NEW o \in Objs, Broadcast(o) PROVE RInv'
  BY <1>18, <1>c, <1>9 DEF PurgeStep
<1>19. ASSUME NEW c, ControllerStep(c) PROVE RInv'
  BY <1>19, <1>q DEF ControllerStep, Listed, ScaleServed, ScaleRefused, front, env
<1>20. ASSUME NEW s \in Starts, StartStep(s) PROVE RInv'
  BY <1>20, <1>c, <1>9, <1>10, <1>13, <1>14, <1>15 DEF StartStep
<1>21. ASSUME NEW o \in Objs, AdoptStep(o) PROVE RInv'
  BY <1>21, <1>c, <1>10, <1>16, <1>17, <1>18 DEF AdoptStep
<1>22. CASE Commands
  BY <1>1, <1>2, <1>3, <1>22 DEF Commands
<1>23. CASE OpsStep \/ ScalerStep
  BY <1>3, <1>4, <1>6, <1>7, <1>8, <1>23 DEF OpsStep, ScalerStep
<1> QED
  BY <1>3, <1>5, <1>14, <1>17, <1>19, <1>20, <1>21, <1>22, <1>23

\* Every step of the dispatcher keeps it so.
LEMMA RInvNext == RInv /\ OInv' /\ [Next]_vars => RInv'
<1> SUFFICES ASSUME RInv, OInv', [Next]_vars PROVE RInv'
  OBVIOUS
<1>1. CASE UNCHANGED vars
  BY <1>1, WorkersHoldStill, NothingAbandoned DEF vars, StampsKept
<1>2. CASE \E t \in Tasks : WorkerStep(t)
  BY <1>2, WorkerStepAbandons
<1>3. CASE \/ \E t \in Tasks : RunStep(t)
           \/ \E rid \in Rids : ActorLoads(rid)
           \/ \E x \in orphans : OrphanEnds(x)
  BY <1>3, ActorsAbandon
<1>4. CASE Disturbances
  BY <1>4, ActorsAbandon, CoroutinesAbandon DEF Disturbances
<1> QED
  BY <1>1, <1>2, <1>3, <1>4, CoroutinesAbandon DEF Next

\* What an actor goes on executing after its worker was cancelled or cut off
\* is not queued and nobody else is about to run it: the cancelled and the
\* failed branch of Replica.dispatch are final, the evicted one is never taken
\* by a request that is still running.
THEOREM NothingRunsTwice == Spec => []NoSecondRun
<1>1. Init /\ OInv => RInv
  BY DEF Init, RInv, Abandoned
<1>2. OInv /\ OInv' /\ RInv /\ [Next]_vars => RInv'
  BY RInvNext
<1> QED BY <1>1, <1>2, OwnersThroughout, AbandonedRunsOnce, PTL DEF Spec

-----------------------------------------------------------------------------
(* The pool of a calm dispatcher *)

\* No connection breaks and the autoscaler does not grow the pool: with either,
\* PoolSound and Attended are refuted (section 6 of the README).
Calm == \A b \in Budgets : b["conn"] = 0 /\ b["scale"] = 0

\* Where a coroutine may be when nothing broke.
Places(c) ==
    CASE c \in Starts -> {"idle", "get", "got", "scale", "scaled", "deploying",
                          "wait", "serving", "pbcast", "pcancel"}
      [] c \in Objs   -> {"idle", "wait", "serving"}
      [] c = Disp     -> {"idle", "ack"}
      [] c = Ops      -> {"idle", "get", "got", "kqueued", "kpublish", "kactor",
                          "kpoll", "kcancel"}
      [] c = Scaler   -> {"idle"}

Quiet ==
    /\ budget["conn"] = 0 /\ budget["scale"] = 0
    /\ ~connErr
    /\ \A t \in Tasks : wk[t].pc # "failed"
    /\ \A c \in Coros : co[c].pc \in Places(c)

\* What a coroutine's place is, by its name.
LEMMA PlacesByName ==
    /\ \A s \in Starts : Places(s) = {"idle", "get", "got", "scale", "scaled",
                            "deploying", "wait", "serving", "pbcast", "pcancel"}
    /\ \A o \in Objs : Places(o) = {"idle", "wait", "serving"}
    /\ Places(Disp) = {"idle", "ack"}
    /\ Places(Ops) = {"idle", "get", "got", "kqueued", "kpublish", "kactor",
                      "kpoll", "kcancel"}
    /\ Places(Scaler) = {"idle"}
BY ConstantsAssumption DEF Places

\* The actions that are left.
CalmSteps ==
    \/ UNCHANGED vars
    \/ \E r \in Requests : Enqueue(r) \/ Kill(r)
    \/ Acknowledge \/ KillTold \/ KillActor \/ KillPolled \/ KillCancels
    \/ Reconcile \/ Reconciled
    \/ \E t \in Tasks : ActorRestarts(t) \/ RunStep(t) \/ WorkerStep(t)
    \/ \E rid \in Rids : \/ ActorLoads(rid) \/ ActorLoadFails(rid)
                         \/ ActorDemoted(rid) \/ ActorDies(rid)
                         \/ OperatorDeploys(rid)
    \/ \E x \in orphans : OrphanEnds(x)
    \/ \E s \in Starts : StartStep(s)
    \/ \E o \in Objs : AdoptStep(o)
    \/ \E c \in Starts \cup {Ops} : ControllerStep(c)

\* With no connection to break, nothing else happens.
LEMMA OnlyCalmSteps ==
    ASSUME Quiet, [Next]_vars
    PROVE  CalmSteps
<1>1. ~Spend("conn") /\ ~Spend("scale") /\ ~connErr
  BY DEF Quiet, Spend
<1>2. /\ ~ReconcileDisconnected /\ ~ScaleDisconnected /\ ~ScaleUp
      /\ \A s \in Starts : ~StartDisconnected(s)
      /\ \A o \in Objs : ~AdoptDisconnected(o)
      /\ \A t \in Tasks : ~RunDisconnected(t)
      /\ ~HandleErrors
  BY <1>1 DEF ReconcileDisconnected, ScaleDisconnected, ScaleUp, StartDisconnected,
              AdoptDisconnected, RunDisconnected, HandleErrors
<1>3. co[Disp].pc \in {"idle", "ack"} /\ co[Scaler].pc = "idle"
  BY PlacesByName, StartIsNotNamed DEF Quiet
<1>4. ~PurgeStep(Disp)
  BY <1>3 DEF PurgeStep, Broadcast, PurgePublished, PurgeCancel
<1>5. ~ScalerStep /\ ~ControllerStep(Scaler)
  BY <1>3 DEF ScalerStep, ScaleProvisioned, ScaleReady, ScaleFails, ControllerStep,
              Listed, ScaleServed, ScaleRefused
<1>6. CASE Next
  BY <1>2, <1>4, <1>5, <1>6
  DEF Next, Commands, Disturbances, DispStep, OpsStep, CalmSteps
<1> QED BY <1>6 DEF CalmSteps

\* The budget for what disturbs the calm stays spent.
LEMMA SpendsOther ==
    ASSUME EnvTyped, Quiet,
           \/ budget' = budget
           \/ \E f \in Events \ {"conn", "scale"} : Spend(f)
    PROVE  budget'["conn"] = 0 /\ budget'["scale"] = 0
BY DEF EnvTyped, Quiet, Spend, Events

\* A step that moves one coroutine within its places.
LEMMA OneCoroMoves ==
    ASSUME Quiet, NEW c \in Coros, co'[c].pc \in Places(c),
           \A x \in Coros \ {c} : co'[x] = co[x]
    PROVE  \A x \in Coros : co'[x].pc \in Places(x)
BY DEF Quiet

\* ensure_started() does, too.
LEMMA StartedMoves ==
    ASSUME TInv, NEW c \in [Coros -> CoroRecs], NEW p, CanStart(p),
           \A x \in Coros : c[x].pc \in Places(x),
           co' = Started(p, c)
    PROVE  \A x \in Coros : co'[x].pc \in Places(x)
<1>1. \A x \in Coros : \/ co'[x] = c[x]
                       \/ x \in Starts /\ co'[x] = [Idle EXCEPT !.pc = "get"]
  BY StartedTyped DEF TInv, FrontTyped
<1> QED BY <1>1, PlacesByName DEF Idle

\* What one turn of the worker loop moves: the worker, perhaps a start().
LEMMA LoopMoves ==
    ASSUME TInv, NEW t \in Tasks, wk[t].pc # "free", NEW cur,
           \/ Loop(t, cur) \/ Exit(t, cur)
           \/ \E r \in Requests : \E q : HandBack(t, r, q)
    PROVE  /\ OthersKept(t)
           /\ wk'[t].pc \in {"free", "requeue", "disp", "get"}
           /\ \/ co' = co
              \/ \E p : CanStart(p) /\ co' = Started(p, co)
<1> USE DEF TInv, OthersKept
<1>1. CASE Exit(t, cur)
  <2>1. wk' = [wk EXCEPT ![t] = FreeTask]
    BY <1>1 DEF Exit
  <2>2. OthersKept(t) /\ wk'[t].pc = "free"
    BY <2>1 DEF WorkersTyped, FreeTask
  <2> QED BY <1>1, <2>2 DEF Exit
<1>2. ASSUME NEW r \in Requests, NEW q, HandBack(t, r, q)
      PROVE  /\ OthersKept(t) /\ wk'[t].pc = "requeue"
             /\ \E p : CanStart(p) /\ co' = Started(p, co)
  <2>1. OthersKept(t) /\ wk'[t].pc = "requeue"
    BY <1>2, MoveTyped DEF HandBack, WPcs
  <2> QED BY <1>2, <2>1 DEF HandBack
<1>3. CASE Take(t)
  <2>1. PICK e \in Foremost(queue) :
          \/ HandBack(t, e.req, queue \ {e})
          \/ wk' = Moved(t, "disp", e.req) /\ co' = co
    BY <1>3 DEF Take
  <2>2. e.req \in Requests
    BY DEF Foremost, FrontTyped, Entries
  <2>3. CASE wk' = Moved(t, "disp", e.req) /\ co' = co
    BY <2>2, <2>3, MoveTyped DEF WPcs
  <2> QED BY <1>2, <2>1, <2>2, <2>3
<1>4. CASE wk' = Moved(t, "get", None) /\ co' = co
  BY <1>4, MoveTyped DEF WPcs, Holding, InDispatch
<1> QED BY <1>1, <1>2, <1>3, <1>4 DEF Loop

\* No worker fails by a step of its own.
LEMMA WorkerStepQuiet ==
    ASSUME TInv, Quiet, NEW t \in Tasks, WorkerStep(t)
    PROVE  Quiet'
<1>w. wk \in [Tasks -> WorkerRecs]
  BY DEF TInv, WorkersTyped
<1>1. ~WorkerFailed(t) /\ connErr' = connErr /\ budget' = budget
  BY DEF Quiet, WorkerFailed, Runnable, WorkerStep, WorkerBegins, WorkerWakes,
         Dispatched, WorkerDone, WorkerEvicted, WorkerHandedBack, WorkerParks,
         WorkerUnparks, CancelledUnstarted, CancelledWaiting, CancelledDispatch,
         WorkerCancelling
<1>2. /\ OthersKept(t) /\ wk'[t].pc # "failed"
      /\ \/ co' = co
         \/ \E p : CanStart(p) /\ co' = Started(p, co)
  <2>1. CASE WorkerBegins(t) \/ WorkerDone(t) \/ WorkerHandedBack(t)
    <3>1. wk[t].pc # "free" /\ \E cur : Loop(t, cur)
      BY <2>1 DEF WorkerBegins, WorkerDone, WorkerHandedBack, Runnable
    <3> QED BY <3>1, LoopMoves
  <2>2. CASE WorkerWakes(t)
    <3>1. wk[t].pc = "get" /\ Take(t)
      BY <2>2 DEF WorkerWakes, Runnable
    <3>2. PICK e \in Foremost(queue) :
            \/ HandBack(t, e.req, queue \ {e})
            \/ wk' = Moved(t, "disp", e.req) /\ co' = co
      BY <3>1 DEF Take
    <3>3. e.req \in Requests
      BY DEF Foremost, TInv, FrontTyped, Entries
    <3>4. CASE wk' = Moved(t, "disp", e.req) /\ co' = co
      BY <3>1, <3>3, <3>4, MoveTyped DEF WPcs, OthersKept, TInv
    <3> QED BY <3>1, <3>2, <3>3, <3>4, LoopMoves
  <2>3. CASE WorkerEvicted(t)
    <3>1. wk[t].pc # "free" /\ HandBack(t, wk[t].req, queue) /\ wk[t].req \in Requests
      BY <2>3 DEF WorkerEvicted, Runnable, TInv, WorkersTyped, Holding, InDispatch
    <3> QED BY <3>1, LoopMoves
  <2>4. CASE WorkerUnparks(t) \/ CancelledWaiting(t) \/ WorkerCancelling(t)
    <3>1. wk[t].pc # "free" /\ \E cur : Loop(t, cur) \/ Exit(t, cur)
      BY <2>4 DEF WorkerUnparks, CancelledWaiting, WorkerCancelling, Runnable
    <3> QED BY <3>1, LoopMoves
  <2>5. CASE Dispatched(t) \/ WorkerParks(t) \/ CancelledDispatch(t)
    <3>1. PICK pc \in {"run", "park", "cancelling"} : wk' = Moved(t, pc, wk[t].req)
      BY <2>5 DEF Dispatched, WorkerParks, CancelledDispatch
    <3>2. wk'[t].pc = pc /\ OthersKept(t)
      BY <1>w, <3>1 DEF Moved, OthersKept, WorkerRecs
    <3>3. co' = co
      BY <2>5 DEF Dispatched, WorkerParks, CancelledDispatch, front
    <3> QED BY <3>1, <3>2, <3>3
  <2>6. CASE CancelledUnstarted(t)
    BY <1>w, <2>6 DEF CancelledUnstarted, OthersKept, FreeTask
  <2> QED BY <1>1, <2>1, <2>2, <2>3, <2>4, <2>5, <2>6 DEF WorkerStep
<1>3. \A x \in Coros : co'[x].pc \in Places(x)
  <2>1. ASSUME NEW p, CanStart(p), co' = Started(p, co)
        PROVE  \A x \in Coros : co'[x].pc \in Places(x)
    BY <2>1, StartedMoves DEF TInv, CorosTyped, Quiet
  <2> QED BY <1>2, <2>1 DEF Quiet
<1>4. \A u \in Tasks : wk'[u].pc # "failed"
  BY <1>2 DEF OthersKept, Quiet
<1> QED BY <1>1, <1>3, <1>4 DEF Quiet

\* Nor by what an actor does.
LEMMA ActorsQuiet ==
    ASSUME TInv, Quiet,
           \/ \E t \in Tasks : ActorRestarts(t) \/ RunStep(t)
           \/ \E rid \in Rids : \/ ActorLoads(rid) \/ ActorLoadFails(rid)
                                \/ ActorDemoted(rid) \/ ActorDies(rid)
                                \/ OperatorDeploys(rid)
           \/ \E x \in orphans : OrphanEnds(x)
    PROVE  Quiet'
<1>1. connErr' = connErr /\ co' = co
  BY DEF ActorRestarts, RunStep, RunBegins, RunRejected, RunEnds, ActorLoads,
         ActorLoadFails, ActorDemoted, ActorDies, OperatorDeploys, OrphanEnds
<1>2. \/ budget' = budget
      \/ \E f \in Events \ {"conn", "scale"} : Spend(f)
  BY DEF ActorRestarts, RunStep, RunBegins, RunRejected, RunEnds, ActorLoads,
         ActorLoadFails, ActorDemoted, ActorDies, OperatorDeploys, OrphanEnds, Events
<1>3. \/ wk' = wk
      \/ \E S, pc : pc # "failed" /\ wk' = Becomes(S, pc)
  BY DEF ActorRestarts, RunStep, RunBegins, RunRejected, RunEnds, ActorLoads,
         ActorLoadFails, ActorDemoted, ActorDies, OperatorDeploys, OrphanEnds
<1>4. \A t \in Tasks : wk'[t].pc # "failed"
  BY <1>3 DEF Becomes, Quiet, TInv, WorkersTyped, WorkerRecs
<1>5. budget'["conn"] = 0 /\ budget'["scale"] = 0
  BY <1>2, SpendsOther DEF TInv
<1> QED BY <1>1, <1>4, <1>5 DEF Quiet

\* task.cancel() and a spawned task leave nobody failed.
LEMMA CancelQuiet ==
    ASSUME TInv, Quiet, NEW w, NEW S,
           \/ w = wk
           \/ \E R : w = Cancelled(wk, R),
           wk' = w \/ wk' = Cancelled(w, S)
    PROVE  \A t \in Tasks : wk'[t].pc # "failed"
<1>1. w \in [Tasks -> WorkerRecs] /\ \A t \in Tasks : w[t].pc = wk[t].pc
  BY CancelledTyped DEF TInv, WorkersTyped
<1> QED BY <1>1, CancelledTyped DEF Quiet

\* The dispatch loop and the kill handler.
LEMMA OpsQuiet ==
    ASSUME TInv, TInv', Quiet,
           \/ \E r \in Requests : Enqueue(r) \/ Kill(r)
           \/ Acknowledge \/ KillTold \/ KillActor \/ KillPolled \/ KillCancels
           \/ Reconcile \/ Reconciled
    PROVE  Quiet'
<1> USE DEF TInv
<1>c. co \in [Coros -> CoroRecs] /\ co' \in [Coros -> CoroRecs]
  BY DEF CorosTyped
<1>n. Disp \in Coros /\ Ops \in Coros
  BY StartIsNotNamed
<1>1. connErr' = connErr
  BY DEF Enqueue, Kill, Acknowledge, KillTold, KillActor, KillPolled, KillCancels,
         Reconcile, Reconciled
<1>2. \/ budget' = budget
      \/ \E f \in Events \ {"conn", "scale"} : Spend(f)
  BY DEF Enqueue, Kill, Acknowledge, KillTold, KillActor, KillPolled, KillCancels,
         Reconcile, Reconciled, Events
<1>3. \A t \in Tasks : wk'[t].pc # "failed"
  <2>1. \/ wk' = wk
        \/ \E S : wk' = Cancelled(wk, S)
        \/ \E S : wk' = Becomes(S, "ok")
    BY DEF Enqueue, Kill, Acknowledge, KillTold, KillActor, KillPolled,
           KillCancels, Reconcile, Reconciled
  <2>2. ASSUME NEW S, wk' = Becomes(S, "ok")
        PROVE  \A t \in Tasks : wk'[t].pc # "failed"
    BY <2>2 DEF Becomes, Quiet, WorkersTyped, WorkerRecs
  <2> QED BY <2>1, <2>2, CancelQuiet DEF Quiet
<1>4. \A x \in Coros : co'[x].pc \in Places(x)
  <2>1. ASSUME NEW r \in Requests, Enqueue(r)
        PROVE  \A x \in Coros : co'[x].pc \in Places(x)
    <3>1. PICK rec : rec = [Idle EXCEPT !.pc = "ack", !.req = r]
      OBVIOUS
    <3>2. rec \in CoroRecs /\ rec.pc = "ack"
      BY <3>1 DEF Idle, CoroRecs, CPcs
    <3>3. PICK cc : cc = [co EXCEPT ![Disp] = rec]
      OBVIOUS
    <3>4. cc \in [Coros -> CoroRecs] /\ \A x \in Coros : cc[x].pc \in Places(x)
      BY <1>c, <1>n, <3>2, <3>3, PlacesByName DEF Quiet
    <3>5. CanStart(pool) /\ co' = Started(pool, cc)
      BY <2>1, <3>1, <3>3 DEF Enqueue
    <3> QED BY <3>4, <3>5, StartedMoves
  <2>2. ASSUME NEW r \in Requests, Kill(r)
        PROVE  \A x \in Coros : co'[x].pc \in Places(x)
    <3>1. /\ co'[Ops].pc \in {"kqueued", "kpublish"}
          /\ \A x \in Coros \ {Ops} : co'[x] = co[x]
      <4>1. CASE r \in Queued(queue)
        BY <1>c, <1>n, <2>2, <4>1 DEF Kill, Idle
      <4>2. CASE r \notin Queued(queue)
        <5>1. PICK o \in PoolObjs :
               co' = [co EXCEPT ![Ops] =
                        [Idle EXCEPT !.pc = "kpublish", !.obj = o, !.req = r]]
          BY <2>2, <4>2 DEF Kill
        <5> QED BY <1>c, <1>n, <5>1 DEF Idle
      <4> QED BY <4>1, <4>2
    <3> QED BY <1>n, <3>1, PlacesByName, OneCoroMoves
  <2>3. CASE Acknowledge
    <3>1. co'[Disp].pc = "idle" /\ \A x \in Coros \ {Disp} : co'[x] = co[x]
      BY <1>c, <1>n, <2>3 DEF Acknowledge, Idle
    <3> QED BY <1>n, <3>1, PlacesByName, OneCoroMoves
  <2>4. CASE KillTold \/ KillActor \/ KillPolled \/ KillCancels \/ Reconcile
    <3>1. /\ co'[Ops].pc \in {"idle", "get", "kactor", "kpoll", "kcancel"}
          /\ \A x \in Coros \ {Ops} : co'[x] = co[x]
      <4>1. CASE KillTold
        BY <1>c, <1>n, <4>1 DEF KillTold, Idle, CoroRecs
      <4>2. CASE KillActor
        BY <1>c, <1>n, <4>2 DEF KillActor, CoroRecs
      <4>3. CASE KillPolled
        BY <1>c, <1>n, <4>3 DEF KillPolled, Idle, CoroRecs
      <4>4. CASE KillCancels \/ Reconcile
        BY <1>c, <1>n, <4>4 DEF KillCancels, Reconcile, Idle
      <4> QED BY <2>4, <4>1, <4>2, <4>3, <4>4
    <3> QED BY <1>n, <3>1, PlacesByName, OneCoroMoves
  <2>5. CASE Reconciled
    <3>1. \A x \in Coros : \/ co'[x] = co[x] \/ co'[x] = Idle
                           \/ /\ co'[x] = [Idle EXCEPT !.pc = "wait"]
                              /\ \E rid \in Rids : CanWrap(rid) /\ x = NewReplica(rid)
      <4>1. PICK gained : 
              /\ gained \subseteq co[Ops].res
              /\ \A rid \in gained : CanWrap(rid)
              /\ co' = [c \in Coros |->
                          IF c = Ops THEN Idle
                          ELSE IF \E rid \in gained : c = NewReplica(rid)
                          THEN [Idle EXCEPT !.pc = "wait"]
                          ELSE co[c]]
        <5>1. PICK gained : gained = IF status \in Setup THEN {}
                                     ELSE {rid \in co[Ops].res : pool[rid] = None}
          OBVIOUS
        <5>2. gained \subseteq co[Ops].res
          BY <5>1
        <5> QED BY <2>5, <5>1, <5>2 DEF Reconciled
      <4>2. co[Ops].res \subseteq Rids
        BY <1>c, <1>n DEF CoroRecs
      <4> QED BY <4>1, <4>2
    <3>2. \A x \in Coros : "idle" \in Places(x)
      BY PlacesByName DEF Coros
    <3>3. \A rid \in Rids : CanWrap(rid) => "wait" \in Places(NewReplica(rid))
      BY PlacesByName, NewReplicaTyped
    <3> QED BY <3>1, <3>2, <3>3 DEF Quiet, Idle
  <2> QED BY <2>1, <2>2, <2>3, <2>4, <2>5
<1>5. budget'["conn"] = 0 /\ budget'["scale"] = 0
  BY <1>2, SpendsOther
<1> QED BY <1>1, <1>3, <1>4, <1>5 DEF Quiet

\* A worker task that is spawned leaves the others alone.
LEMMA SpawnMoves ==
    ASSUME TInv, NEW o \in Objs, Spawn(o)
    PROVE  \E n \in Tasks :
             /\ wk[n].pc = "free" /\ wk'[n].pc = "new" /\ wk'[n].obj = o
             /\ ~wk'[n].cancel
             /\ task' = [task EXCEPT ![o] = n]
             /\ OthersKept(n)
<1>1. PICK n \in Tasks :
        /\ wk[n].pc = "free" /\ task' = [task EXCEPT ![o] = n]
        /\ wk' = [wk EXCEPT ![n] = [FreeTask EXCEPT !.pc = "new", !.obj = o]]
  BY DEF Spawn, CanSpawn, NewTask
<1>2. /\ wk'[n].pc = "new" /\ wk'[n].obj = o /\ ~wk'[n].cancel
      /\ OthersKept(n)
  BY <1>1 DEF TInv, WorkersTyped, OthersKept, FreeTask
<1> QED BY <1>1, <1>2

\* A start() stays within its places.
LEMMA StartStepQuiet ==
    ASSUME TInv, TInv', Quiet, NEW s \in Starts, StartStep(s)
    PROVE  Quiet'
<1> USE DEF TInv
<1>c. /\ co \in [Coros -> CoroRecs] /\ co' \in [Coros -> CoroRecs] /\ s \in Coros
      /\ Idle.pc = "idle"
  BY DEF CorosTyped, Coros, Idle
<1>f. ASSUME StartFails(s)
      PROVE  /\ co'[s].pc \in {"idle", "pbcast", "pcancel"}
             /\ \A x \in Coros \ {s} : co'[x] = co[x]
             /\ \A t \in Tasks : wk'[t].pc = wk[t].pc
  <2>1. CASE status = "READY"
    BY <1>c, <1>f, <2>1 DEF StartFails
  <2>2. CASE status # "READY" /\ queue # {}
    BY <1>c, <1>f, <2>2 DEF StartFails, PurgeBegin, Idle
  <2>3. CASE status # "READY" /\ queue = {}
    BY <1>c, <1>f, <2>3, PurgeClearTyped DEF StartFails, PurgeBegin
  <2> QED BY <2>1, <2>2, <2>3
<1>r. ASSUME NEW S \in SUBSET Rids, Register(s, S)
      PROVE  /\ co'[s].pc \in {"idle", "serving", "wait", "deploying"}
             /\ \A x \in Coros \ {s} : co'[x] = co[x]
             /\ \A t \in Tasks : wk'[t].pc = wk[t].pc
  BY <1>c, <1>r, NextPhaseTyped DEF Register, FrontTyped
<1>1. /\ connErr' = connErr /\ budget' = budget
  BY DEF StartStep, StartListed, StartProvisioned, StartReady, StartWaitFails,
         PurgeStep, Broadcast, PurgePublished, PurgeCancel, Broadcasted
<1>2. /\ co'[s].pc \in Places(s)
      /\ \A x \in Coros \ {s} : co'[x] = co[x]
      /\ \A t \in Tasks : wk'[t].pc # "failed"
  <2>p. Places(s) = {"idle", "get", "got", "scale", "scaled", "deploying", "wait",
                     "serving", "pbcast", "pcancel"}
        /\ co[s].pc \in Places(s)
    BY <1>c, PlacesByName DEF Quiet
  <2>1. CASE StartListed(s)
    <3>1. co[s].res \in SUBSET Rids
      BY <1>c DEF CoroRecs
    <3>2. CASE /\ co' = [co EXCEPT ![s] = [Idle EXCEPT !.pc = "scale"]]
               /\ UNCHANGED <<front, wk, dropped>>
      BY <1>c, <2>p, <3>2 DEF Idle, Quiet
    <3> QED BY <1>f, <1>r, <2>1, <2>p, <3>1, <3>2 DEF StartListed, Quiet
  <2>2. CASE StartProvisioned(s)
    <3>1. co[s].res \in SUBSET Rids
      BY <1>c DEF CoroRecs
    <3> QED BY <1>f, <1>r, <2>2, <2>p, <3>1 DEF StartProvisioned, Quiet
  <2>3. CASE StartReady(s)
    <3>1. PICK o \in co[s].objs :
            /\ Spawn(o)
            /\ co' = [co EXCEPT ![s] =
                         IF co[s].objs = {o} THEN Serving
                         ELSE [Idle EXCEPT !.pc = "wait", !.objs = co[s].objs \ {o}]]
      BY <2>3 DEF StartReady
    <3>2. o \in Objs
      BY <1>c DEF CoroRecs
    <3>3. \A t \in Tasks : wk'[t].pc # "failed"
      BY <3>1, <3>2, SpawnMoves DEF Quiet, OthersKept
    <3>4. Serving.pc \in {"idle", "serving"}
      BY NextPhaseTyped DEF FrontTyped
    <3> QED BY <1>c, <2>p, <3>1, <3>3, <3>4 DEF Idle
  <2>4. CASE StartWaitFails(s)
    BY <1>f, <2>4, <2>p DEF StartWaitFails, Quiet
  <2>5. CASE Broadcast(s)
    <3>1. PICK e : co' = [co EXCEPT ![s].todo = @ \ {e}] /\ wk' = wk
      BY <2>5 DEF Broadcast
    <3> QED BY <1>c, <2>p, <3>1 DEF CoroRecs, Quiet
  <2>6. CASE PurgePublished(s)
    BY <1>c, <2>6, <2>p, PurgeClearTyped DEF PurgePublished, Quiet
  <2>7. CASE PurgeCancel(s)
    <3>1. PICK w : w = Cancelled(wk, {co[s].obj})
      OBVIOUS
    <3>2. /\ w \in [Tasks -> WorkerRecs]
          /\ \A t \in Tasks : /\ w[t].pc = wk[t].pc /\ w[t].req = wk[t].req
                              /\ w[t].obj = wk[t].obj
      BY <3>1, CancelledTyped DEF WorkersTyped
    <3>3. PurgeReplicas(s, co[s].objs, w) /\ co[s].objs \in SUBSET Objs
      BY <1>c, <2>7, <3>1 DEF PurgeCancel, CoroRecs
    <3>4. /\ \A t \in Tasks : wk'[t].pc = wk[t].pc
          /\ \A x \in Coros \ {s} : co'[x] = co[x]
          /\ co'[s].pc \in {"idle", "pcancel"}
      BY <1>c, <3>2, <3>3, PurgeReplicasTyped
    <3> QED BY <2>p, <3>4 DEF Quiet
  <2>8. CASE Broadcasted(s)
    <3>1. WaitLoop(pool).pc \in {"idle", "serving", "wait"}
      BY NextPhaseTyped DEF FrontTyped
    <3> QED BY <1>c, <2>8, <2>p, <3>1 DEF Broadcasted, Quiet
  <2> QED BY <2>1, <2>2, <2>3, <2>4, <2>5, <2>6, <2>7, <2>8 DEF StartStep, PurgeStep
<1>3. \A x \in Coros : co'[x].pc \in Places(x)
  BY <1>c, <1>2, OneCoroMoves
<1> QED BY <1>1, <1>2, <1>3 DEF Quiet

\* So do an adoption and the controller's answers.
LEMMA OthersQuiet ==
    ASSUME TInv, TInv', Quiet,
           \/ \E o \in Objs : AdoptStep(o)
           \/ \E c \in Starts \cup {Ops} : ControllerStep(c)
    PROVE  Quiet'
<1> USE DEF TInv
<1>c. /\ co \in [Coros -> CoroRecs] /\ co' \in [Coros -> CoroRecs]
      /\ Idle.pc = "idle"
  BY DEF CorosTyped, Idle
<1>1. ASSUME NEW o \in Objs, AdoptStep(o) PROVE Quiet'
  <2>c. o \in Coros /\ Places(o) = {"idle", "wait", "serving"} /\ co[o].pc \in Places(o)
    BY <1>c, PlacesByName DEF Coros, Quiet
  <2>1. connErr' = connErr /\ budget' = budget
    BY <1>1 DEF AdoptStep, AdoptReady, AdoptFails, Broadcast, Broadcasted
  <2>2. /\ co'[o].pc \in Places(o)
        /\ \A x \in Coros \ {o} : co'[x] = co[x]
    <3>1. CASE AdoptReady(o)
      <4>1. Serving.pc \in {"idle", "serving"}
        BY NextPhaseTyped DEF FrontTyped
      <4> QED BY <1>c, <2>c, <3>1, <4>1 DEF AdoptReady
    <3>2. CASE AdoptFails(o)
      BY <1>c, <2>c, <3>2 DEF AdoptFails
    <3>3. CASE Broadcast(o)
      <4>1. PICK e : co' = [co EXCEPT ![o].todo = @ \ {e}]
        BY <3>3 DEF Broadcast
      <4> QED BY <1>c, <2>c, <4>1 DEF CoroRecs
    <3>4. CASE Broadcasted(o)
      BY <1>c, <2>c, <3>4 DEF Broadcasted
    <3> QED BY <1>1, <3>1, <3>2, <3>3, <3>4 DEF AdoptStep
  <2>3. \A t \in Tasks : wk'[t].pc # "failed"
    <3>1. CASE AdoptReady(o)
      BY <3>1, SpawnMoves DEF AdoptReady, Quiet, OthersKept
    <3>2. CASE wk' = wk
      BY <3>2 DEF Quiet
    <3> QED BY <1>1, <3>1, <3>2 DEF AdoptStep, AdoptFails, Broadcast, Broadcasted
  <2>4. \A x \in Coros : co'[x].pc \in Places(x)
    BY <2>c, <2>2, OneCoroMoves
  <2> QED BY <2>1, <2>3, <2>4 DEF Quiet
<1>2. ASSUME NEW c \in Starts \cup {Ops}, ControllerStep(c) PROVE Quiet'
  <2>c. c \in Coros /\ Ops \in Coros
    BY StartIsNotNamed DEF Coros
  <2>1. /\ connErr' = connErr /\ wk' = wk
        /\ \/ budget' = budget
           \/ \E f \in Events \ {"conn", "scale"} : Spend(f)
    BY <1>2 DEF ControllerStep, Listed, ScaleServed, ScaleRefused, Events
  <2>2. /\ co'[c].pc \in Places(c)
        /\ \A x \in Coros \ {c} : co'[x] = co[x]
    <3>1. CASE Listed(c)
      BY <1>c, <2>c, <3>1, PlacesByName DEF Listed, Idle
    <3>2. CASE ScaleServed(c)
      <4>1. PICK rid : co' = [co EXCEPT ![c] = [Idle EXCEPT !.pc = "scaled", !.res = {rid}]]
        BY <3>2 DEF ScaleServed
      <4>2. c \in Starts
        BY <2>c, <3>2, PlacesByName DEF ScaleServed, Quiet
      <4> QED BY <1>c, <2>c, <4>1, <4>2, PlacesByName DEF Idle
    <3>3. CASE ScaleRefused(c)
      <4>1. c \in Starts
        BY <2>c, <3>3, PlacesByName DEF ScaleRefused, Quiet
      <4> QED BY <1>c, <2>c, <3>3, <4>1, PlacesByName DEF ScaleRefused, Idle
    <3> QED BY <1>2, <3>1, <3>2, <3>3 DEF ControllerStep
  <2>3. budget'["conn"] = 0 /\ budget'["scale"] = 0
    BY <2>1, SpendsOther
  <2>4. \A x \in Coros : co'[x].pc \in Places(x)
    BY <2>c, <2>2, OneCoroMoves
  <2> QED BY <2>1, <2>3, <2>4 DEF Quiet
<1> QED BY <1>1, <1>2

\* The calm lasts.
LEMMA QuietNext ==
    ASSUME TInv, TInv', Quiet, [Next]_vars
    PROVE  Quiet'
<1>1. CASE UNCHANGED vars
  BY <1>1 DEF vars, Quiet
<1> QED
  BY <1>1, OnlyCalmSteps, WorkerStepQuiet, ActorsQuiet, OpsQuiet, StartStepQuiet,
     OthersQuiet DEF CalmSteps

-----------------------------------------------------------------------------
(* Who is responsible for a replica *)

\* A worker task is on the replica; nobody is.
Serves(t, o) == wk[t].pc # "free" /\ wk[t].obj = o
Unserved(o) == \A t \in Tasks : ~Serves(t, o)

\* A start() has still to wait for the replica.
Awaits(s, o) == co[s].pc = "wait" /\ o \in co[s].objs

\* A worker's replica is registered and nobody else's.
Registered ==
    \A t \in Tasks, o \in Objs :
        Serves(t, o) => pool[o[1]] = o /\ \A u \in Tasks : Serves(u, o) => u = t

\* Replicas are registered under their own id.
Wrapped == \A rid \in Rids : pool[rid] # None => pool[rid][1] = rid

\* Replica.task and Replica.current_request are those of its worker.
Employed == \A t \in Tasks, o \in Objs : task[o] = t => Serves(t, o)
Occupied ==
    \A o \in Objs : current[o] # None =>
        \E t \in Tasks : Serves(t, o) /\ wk[t].pc \notin {"new", "get"}

\* Whoever waits for a replica waits for one that is registered, that has no
\* worker yet and that nobody else waits for.
StartsAwait ==
    \A s \in Starts : co[s].pc = "wait" =>
        /\ co[s].objs # {}
        /\ \A o \in co[s].objs : pool[o[1]] = o /\ Unserved(o)
AdoptionsAwait ==
    \A o \in Objs : co[o].pc = "wait" =>
        /\ pool[o[1]] = o /\ Unserved(o)
        /\ \A s \in Starts : ~Awaits(s, o)

\* What a start() finds at each of its awaits.
Early == {"get", "got", "scale", "scaled"}
Phases ==
    \A s \in Starts :
        /\ co[s].pc \in Early => status = "PROVISIONING" /\ pool = EmptyPool
        /\ co[s].pc = "deploying" => status = "DEPLOYING" /\ pool # EmptyPool
        /\ co[s].pc = "wait" => status \in {"DEPLOYING", "READY"}
        /\ co[s].pc = "pbcast" => status \in Setup
        /\ co[s].pc # "pcancel"

\* Setup has the pool to itself.
SetupAlone ==
    status \in Setup =>
        /\ \A t \in Tasks : wk[t].pc = "free"
        /\ \A o \in Objs : co[o].pc # "wait"

Served == Registered /\ Employed /\ Occupied
CInv ==
    /\ Quiet /\ Served /\ Wrapped /\ StartsAwait /\ AdoptionsAwait /\ Phases
    /\ SetupAlone /\ SetupHasStart /\ OneStart

\* Registration and one task per replica make one worker per id.
LEMMA OneWorkerEach ==
    ASSUME TInv, Registered
    PROVE  OneWorkerPerReplica
<1> SUFFICES ASSUME NEW t \in Tasks, NEW u \in Tasks,
                    wk[t].pc # "free", wk[u].pc # "free",
                    wk[t].obj[1] = wk[u].obj[1]
             PROVE  t = u
  BY DEF OneWorkerPerReplica
<1>1. wk[t].obj \in Objs /\ wk[u].obj \in Objs
  BY DEF TInv, WorkersTyped
<1> QED BY <1>1 DEF Registered, Serves

\* Outside setup a start() that is under way waits for a replica.
LEMMA StartingWaits ==
    ASSUME TInv, CInv, status \notin Setup, NEW s \in Starts, Starting(s)
    PROVE  /\ co[s].pc = "wait" /\ status = "READY"
           /\ \E o \in co[s].objs : o \in Objs /\ pool[o[1]] = o /\ Unserved(o)
<1>1. s \in Coros /\ co[s].objs \subseteq Objs
  BY DEF Coros, TInv, CorosTyped, CoroRecs
<1>2. co[s].pc = "wait"
  BY <1>1, PlacesByName DEF CInv, Quiet, Phases, Starting, Early, Setup
<1> QED BY <1>1, <1>2 DEF CInv, Phases, StartsAwait, Setup

\* A pool that holds a replica is not empty.
LEMMA NotEmpty ==
    ASSUME NEW o \in Objs, pool[o[1]] = o
    PROVE  pool # EmptyPool
<1>1. o[1] \in Rids /\ o # None
  BY ConstantsAssumption DEF Objs
<1> QED BY <1>1 DEF EmptyPool

\* A call of start() or reconcile() goes on without touching the pool.
SameCall(s) ==
    \/ co'[s].pc = co[s].pc /\ co'[s].objs = co[s].objs
    \/ co[s].pc \in Early /\ co'[s].pc \in Early
    \/ co[s].pc = "serving" /\ co'[s].pc = "idle"

\* Replicas leave the pool, none that somebody waits for.
Shrinks ==
    /\ \A t \in Tasks, o \in Objs : Serves(t, o)' => Serves(t, o)
    /\ \A rid \in Rids : pool'[rid] \in {pool[rid], None}
    /\ \A o \in Objs :
          co'[o].pc = "wait" \/ (\E s \in Starts : Awaits(s, o)) => pool'[o[1]] = o
    /\ status \in Setup => pool' = pool
    /\ \A o \in Objs : co'[o].pc = "wait" => co[o].pc = "wait"

\* A step that leaves the calls of start() as they are.
LEMMA PoolKept ==
    ASSUME TInv, TInv', CInv, Quiet', Served', Shrinks,
           \A s \in Starts : SameCall(s),
           \/ status' = status
           \/ status \notin Setup /\ status' = "UNINITIALIZED" /\ pool' = EmptyPool
    PROVE  CInv'
<1>0. \A s \in Starts : s \in Coros /\ co[s].objs \subseteq Objs
                        /\ co'[s].objs \subseteq Objs
  BY DEF Coros, TInv, CorosTyped, CoroRecs
<1>1. \A s \in Starts : co'[s].pc = "wait" => co[s].pc = "wait" /\ co'[s].objs = co[s].objs
  BY DEF SameCall, Early
<1>2. \A s \in Starts : Starting(s)' <=> Starting(s)
  BY DEF SameCall, Starting, Early
<1>3. Wrapped'
  BY DEF CInv, Wrapped, Shrinks
<1>4. StartsAwait'
  BY <1>0, <1>1 DEF CInv, StartsAwait, Shrinks, Awaits, Unserved
<1>5. AdoptionsAwait'
  BY <1>1 DEF CInv, AdoptionsAwait, Shrinks, Awaits, Unserved
<1>6. status' \in Setup => status' = status /\ pool' = pool
  BY DEF Setup, Shrinks
<1>7. SetupAlone'
  <2> SUFFICES ASSUME status' \in Setup PROVE SetupAlone'
    BY DEF SetupAlone
  <2>1. \A t \in Tasks : wk'[t].pc = "free"
    <3>1. ASSUME NEW t \in Tasks, wk'[t].pc # "free" PROVE FALSE
      <4>1. PICK o \in Objs : Serves(t, o)'
        BY <3>1 DEF TInv, WorkersTyped, Serves
      <4>2. Serves(t, o)
        BY <4>1 DEF Shrinks
      <4> QED BY <1>6, <4>2 DEF CInv, SetupAlone, Serves
    <3> QED BY <3>1
  <2> QED BY <1>6, <2>1 DEF CInv, SetupAlone, Shrinks
<1>8. SetupHasStart' /\ OneStart'
  BY <1>2, <1>6 DEF CInv, SetupHasStart, OneStart
<1>9. Phases'
  <2> SUFFICES ASSUME NEW s \in Starts
               PROVE  /\ co'[s].pc \in Early => status' = "PROVISIONING" /\ pool' = EmptyPool
                      /\ co'[s].pc = "deploying" => status' = "DEPLOYING" /\ pool' # EmptyPool
                      /\ co'[s].pc = "wait" => status' \in {"DEPLOYING", "READY"}
                      /\ co'[s].pc = "pbcast" => status' \in Setup
                      /\ co'[s].pc # "pcancel"
    BY DEF Phases
  <2>1. CASE status \in Setup
    <3>1. status' = status /\ pool' = pool
      BY <2>1 DEF Shrinks
    <3> QED BY <3>1 DEF SameCall, CInv, Phases, Early
  <2>2. CASE status \notin Setup /\ ~Starting(s)
    BY <1>2, <2>2 DEF Starting, Early
  <2>3. CASE status \notin Setup /\ Starting(s)
    <3>1. /\ co[s].pc = "wait" /\ status = "READY"
          /\ \E o \in Objs : Awaits(s, o)
      BY <2>3, StartingWaits DEF Awaits
    <3>2. pool' # EmptyPool
      <4>1. PICK o \in Objs : pool'[o[1]] = o
        BY <3>1 DEF Shrinks
      <4>2. o[1] \in Rids /\ o # None
        BY ConstantsAssumption DEF Objs
      <4> QED BY <4>1, <4>2 DEF EmptyPool
    <3> QED BY <3>1, <3>2 DEF SameCall, Early
  <2> QED BY <2>1, <2>2, <2>3
<1> QED BY <1>3, <1>4, <1>5, <1>7, <1>8, <1>9 DEF CInv

\* ensure_started() on what is left of the pool.
LEMMA StartBegins ==
    ASSUME TInv, TInv', CInv, Quiet', Served', Shrinks,
           NEW c \in [Coros -> CoroRecs],
           \A x \in Starts \cup Objs : c[x] = co[x],
           CanStart(pool'), co' = Started(pool', c), status' = StatusStarted(pool')
    PROVE  CInv'
<1>n. \A s \in Starts : s \in Coros
  BY DEF Coros
<1>1. CASE ~WillStart(pool')
  <2>1. co' = c /\ status' = status
    BY <1>1 DEF Started, StatusStarted
  <2>2. \A s \in Starts : SameCall(s)
    BY <2>1 DEF SameCall
  <2> QED BY <2>1, <2>2, PoolKept
<1>2. CASE WillStart(pool')
  <2>1. pool' = EmptyPool /\ status \notin Setup /\ status' = "PROVISIONING"
    BY <1>2 DEF WillStart, StatusStarted
  <2>2. PICK s \in Starts : /\ co[s].pc = "idle"
                            /\ co' = [c EXCEPT ![s] = [Idle EXCEPT !.pc = "get"]]
    <3>1. PICK s \in IdleStarts : s = CHOOSE x \in IdleStarts : TRUE
      BY <1>2 DEF CanStart
    <3> QED BY <1>2, <3>1 DEF Started, IdleStarts
  <2>3. /\ co'[s].pc = "get"
        /\ \A u \in Starts \ {s} : co'[u] = co[u]
    BY <1>n, <2>2 DEF Idle
  <2>4. \A o \in Objs : pool'[o[1]] # o
    <3>1. \A o \in Objs : o[1] \in Rids /\ o # None
      BY ConstantsAssumption DEF Objs
    <3> QED BY <2>1, <3>1 DEF EmptyPool
  <2>5. \A u \in Starts : ~Starting(u)
    <3>1. ASSUME NEW u \in Starts, Starting(u) PROVE FALSE
      <4>1. \E o \in Objs : Awaits(u, o)
        BY <2>1, <3>1, StartingWaits DEF Awaits
      <4> QED BY <2>4, <4>1 DEF Shrinks
    <3> QED BY <3>1
  <2>6. \A u \in Starts \ {s} : ~Starting(u)'
    BY <2>3, <2>5 DEF Starting
  <2>7. Wrapped' /\ AdoptionsAwait'
    BY <2>1, <2>4 DEF Wrapped, EmptyPool, Shrinks, AdoptionsAwait
  <2>8. SetupAlone'
    <3>1. \A t \in Tasks : wk'[t].pc = "free"
      <4>1. ASSUME NEW t \in Tasks, wk'[t].pc # "free" PROVE FALSE
        <5>1. PICK o \in Objs : Serves(t, o)'
          BY <4>1 DEF TInv, WorkersTyped, Serves
        <5> QED BY <2>4, <5>1 DEF Served, Registered
      <4> QED BY <4>1
    <3> QED BY <2>4, <3>1 DEF SetupAlone, Shrinks
  <2>9. SetupHasStart' /\ OneStart'
    BY <2>3, <2>6 DEF SetupHasStart, OneStart, Starting
  <2>10. StartsAwait' /\ Phases'
    BY <2>1, <2>3, <2>6 DEF StartsAwait, Phases, Starting
  <2> QED BY <2>7, <2>8, <2>9, <2>10 DEF CInv
<1> QED BY <1>1, <1>2

\* The workers that are not touched and one that goes on serve as before.
LEMMA WorkersServe ==
    ASSUME CInv, task' = task, current' = current,
           \A t \in Tasks :
              /\ wk'[t].pc = "free" <=> wk[t].pc = "free"
              /\ wk'[t].obj = wk[t].obj
              /\ wk[t].pc \notin {"free", "new", "get"} =>
                     wk'[t].pc \notin {"free", "new", "get"},
           pool' = pool
    PROVE  /\ Served'
           /\ \A t \in Tasks, o \in Objs : Serves(t, o)' <=> Serves(t, o)
<1>1. \A t \in Tasks, o \in Objs : Serves(t, o)' <=> Serves(t, o)
  BY DEF Serves
<1>2. Registered' /\ Employed'
  BY <1>1 DEF CInv, Served, Registered, Employed
<1>3. Occupied'
  BY <1>1 DEF CInv, Served, Occupied, Serves
<1> QED BY <1>1, <1>2, <1>3 DEF Served

\* Whoever waits keeps what it waits for.
LEMMA WaitedFor ==
    ASSUME TInv, CInv, NEW o \in Objs,
           co[o].pc = "wait" \/ \E s \in Starts : Awaits(s, o)
    PROVE  pool[o[1]] = o /\ Unserved(o)
BY DEF CInv, StartsAwait, AdoptionsAwait, Awaits

\* ensure_started() leaves the adoptions alone.
LEMMA StartedSparesAdoptions ==
    ASSUME TInv, NEW p, CanStart(p), co' = Started(p, co)
    PROVE  \A o \in Objs : co'[o] = co[o]
<1>1. \A x \in Coros : co'[x] = co[x] \/ x \in Starts
  BY StartedTyped DEF TInv, CorosTyped, FrontTyped
<1> QED BY <1>1, ConstantsAssumption DEF Coros

\* A worker leaves: its replica leaves the pool.
LEMMA ExitServes ==
    ASSUME TInv, TInv', CInv, Quiet', NEW t \in Tasks, wk[t].pc # "free", NEW cur,
           Exit(t, cur),
           \A o \in Objs : cur[o] # None => current[o] # None /\ o # wk[t].obj
    PROVE  CInv'
<1>o. wk[t].obj \in Objs /\ Serves(t, wk[t].obj) /\ \A o \in Objs : o[1] \in Rids
  BY DEF TInv, WorkersTyped, Serves, Objs
<1>1. OthersKept(t) /\ wk'[t].pc = "free"
  BY DEF Exit, OthersKept, TInv, WorkersTyped, FreeTask
<1>2. /\ pool' = [pool EXCEPT ![wk[t].obj[1]] = None]
      /\ \A o \in Objs : task'[o] = IF task[o] = t THEN None ELSE task[o]
      /\ current' = cur
  BY DEF Exit
<1>3. \A u \in Tasks, o \in Objs : Serves(u, o)' <=> Serves(u, o) /\ u # t
  BY <1>1 DEF Serves, OthersKept
<1>4. \A o \in Objs : o # wk[t].obj /\ pool[o[1]] = o => pool'[o[1]] = o
  BY <1>o, <1>2 DEF CInv, Served, Registered, TInv, FrontTyped
<1>5. Registered'
  BY <1>o, <1>3, <1>4 DEF CInv, Served, Registered
<1>6. Employed'
  <2> SUFFICES ASSUME NEW u \in Tasks, NEW o \in Objs, task'[o] = u
               PROVE  Serves(u, o)'
    BY DEF Employed
  <2>1. u # None
    BY ConstantsAssumption
  <2>2. task[o] = u /\ u # t
    BY <1>2, <2>1
  <2> QED BY <1>3, <2>2 DEF CInv, Served, Employed
<1>7. Occupied'
  BY <1>1, <1>2, <1>3 DEF CInv, Served, Occupied, Serves, OthersKept
<1>8. status \notin Setup
  BY DEF CInv, SetupAlone
<1>9. \A x \in Objs : co'[x] = co[x]
  <2>1. CASE queue = {}
    BY <2>1 DEF Exit
  <2>2. CASE queue # {}
    <3>1. PICK p : CanStart(p) /\ co' = Started(p, co)
      BY <2>2 DEF Exit
    <3> QED BY <3>1, StartedSparesAdoptions
  <2> QED BY <2>1, <2>2
<1>10. Shrinks
  <2>1. ASSUME NEW o \in Objs,
               co'[o].pc = "wait" \/ \E s \in Starts : Awaits(s, o)
        PROVE  pool'[o[1]] = o
    BY <1>o, <1>4, <1>9, <2>1, WaitedFor DEF Unserved
  <2>2. \A rid \in Rids : pool'[rid] \in {pool[rid], None}
    BY <1>2 DEF TInv, FrontTyped
  <2> QED BY <1>3, <1>8, <1>9, <2>1, <2>2 DEF Shrinks
<1>11. Served'
  BY <1>5, <1>6, <1>7 DEF Served
<1>12. CASE queue = {}
  <2>1. /\ co' = co
        /\ status' = IF pool' = EmptyPool THEN "UNINITIALIZED" ELSE status
    BY <1>2, <1>12 DEF Exit
  <2> QED BY <1>8, <1>10, <1>11, <2>1, PoolKept DEF SameCall
<1>13. CASE queue # {}
  <2>1. /\ CanStart(pool') /\ co' = Started(pool', co)
        /\ status' = StatusStarted(pool')
    BY <1>2, <1>13 DEF Exit
  <2> QED BY <1>10, <1>11, <2>1, StartBegins DEF TInv, CorosTyped
<1> QED BY <1>12, <1>13

\* A step that leaves the pool, the workers' replicas and all waits alone.
LEMMA NothingLeaves ==
    ASSUME TInv, CInv, pool' = pool,
           \A t \in Tasks, o \in Objs : Serves(t, o)' => Serves(t, o),
           \A o \in Objs : co'[o].pc = "wait" => co[o].pc = "wait"
    PROVE  Shrinks
BY WaitedFor DEF Shrinks

\* A worker gives up its task and stays until it has told the user.
LEMMA HandBackServes ==
    ASSUME TInv, TInv', CInv, Quiet', NEW t \in Tasks, wk[t].pc # "free",
           NEW r \in Requests, NEW q, HandBack(t, r, q)
    PROVE  CInv'
<1>o. wk[t].obj \in Objs /\ Serves(t, wk[t].obj)
  BY DEF TInv, WorkersTyped, Serves
<1>1. /\ OthersKept(t) /\ wk'[t].pc = "requeue" /\ wk'[t].obj = wk[t].obj
      /\ pool' = pool
  BY MoveTyped DEF HandBack, OthersKept, TInv, WPcs, Moved, WorkersTyped
<1>2. \A u \in Tasks, o \in Objs : Serves(u, o)' <=> Serves(u, o)
  BY <1>1 DEF Serves, OthersKept
<1>3. Registered'
  BY <1>1, <1>2 DEF CInv, Served, Registered
<1>4. Employed'
  <2> SUFFICES ASSUME NEW u \in Tasks, NEW o \in Objs, task'[o] = u
               PROVE  Serves(u, o)'
    BY DEF Employed
  <2>1. u # None
    BY ConstantsAssumption
  <2>2. task[o] = u
    BY <2>1 DEF HandBack, TInv, FrontTyped
  <2> QED BY <1>2, <2>2 DEF CInv, Served, Employed
<1>5. Occupied'
  <2>1. \A o \in Objs : o # wk[t].obj => current'[o] = current[o]
    BY DEF HandBack, TInv, FrontTyped
  <2> QED
    BY <1>o, <1>1, <1>2, <2>1 DEF CInv, Served, Occupied, Serves, OthersKept
<1>6. CanStart(pool') /\ co' = Started(pool', co) /\ status' = StatusStarted(pool')
  BY <1>1 DEF HandBack
<1>7. \A x \in Objs : co'[x] = co[x]
  BY <1>6, StartedSparesAdoptions
<1>8. Shrinks
  BY <1>1, <1>2, <1>7, NothingLeaves
<1> QED
  BY <1>3, <1>4, <1>5, <1>6, <1>8, StartBegins DEF Served, TInv, CorosTyped

\* A worker goes on with its replica, perhaps with another request.
LEMMA WorkerKeepsOn ==
    ASSUME TInv, TInv', CInv, Quiet', NEW t \in Tasks, wk[t].pc # "free",
           NEW pc \in WPcs \ {"free"}, NEW r, wk' = Moved(t, pc, r),
           UNCHANGED <<pool, task, status, co>>,
           \A o \in Objs : current'[o] # None =>
              \/ o = wk[t].obj /\ pc \notin {"new", "get"}
              \/ o # wk[t].obj /\ current[o] # None
    PROVE  CInv'
<1>o. wk[t].obj \in Objs /\ Serves(t, wk[t].obj)
  BY DEF TInv, WorkersTyped, Serves
<1>1. OthersKept(t) /\ wk'[t].pc = pc /\ wk'[t].obj = wk[t].obj
  BY DEF OthersKept, TInv, Moved, WorkersTyped
<1>2. \A u \in Tasks, o \in Objs : Serves(u, o)' <=> Serves(u, o)
  BY <1>1 DEF Serves, OthersKept
<1>3. Registered' /\ Employed'
  BY <1>2 DEF CInv, Served, Registered, Employed
<1>4. Occupied'
  BY <1>o, <1>1, <1>2 DEF CInv, Served, Occupied, Serves, OthersKept
<1>5. Shrinks
  BY <1>2, NothingLeaves
<1> QED BY <1>3, <1>4, <1>5, PoolKept DEF Served, SameCall

\* A worker takes a request, perhaps only to hand it back.
LEMMA TakeServes ==
    ASSUME TInv, TInv', CInv, Quiet', NEW t \in Tasks, wk[t].pc # "free", Take(t)
    PROVE  CInv'
<1>1. PICK e \in Foremost(queue) :
        \/ HandBack(t, e.req, queue \ {e})
        \/ /\ current' = [current EXCEPT ![wk[t].obj] = e.req]
           /\ wk' = Moved(t, "disp", e.req)
           /\ UNCHANGED <<stamp, status, pool, task, co>>
  BY DEF Take
<1>2. e.req \in Requests
  BY DEF Foremost, TInv, FrontTyped, Entries
<1>3. CASE HandBack(t, e.req, queue \ {e})
  BY <1>2, <1>3, HandBackServes
<1>4. CASE /\ current' = [current EXCEPT ![wk[t].obj] = e.req]
           /\ wk' = Moved(t, "disp", e.req)
           /\ UNCHANGED <<stamp, status, pool, task, co>>
  <2>1. \A o \in Objs : o # wk[t].obj => current'[o] = current[o]
    BY <1>4 DEF TInv, FrontTyped
  <2> QED BY <1>4, <2>1, WorkerKeepsOn DEF WPcs
<1> QED BY <1>1, <1>3, <1>4

\* One turn of the worker loop.
LEMMA LoopServes ==
    ASSUME TInv, TInv', CInv, Quiet', NEW t \in Tasks, wk[t].pc # "free", NEW cur,
           Loop(t, cur),
           \A o \in Objs : cur[o] # None => current[o] # None /\ o # wk[t].obj
    PROVE  CInv'
<1>1. CASE Exit(t, cur)
  BY <1>1, ExitServes
<1>2. CASE Take(t)
  BY <1>2, TakeServes
<1>3. CASE current' = cur /\ wk' = Moved(t, "get", None)
           /\ UNCHANGED <<queue, stamp, status, pool, task, co>>
  BY <1>3, WorkerKeepsOn DEF WPcs
<1> QED BY <1>1, <1>2, <1>3 DEF Loop

\* The worker's own steps.
LEMMA WorkerStepServes ==
    ASSUME TInv, TInv', CInv, Quiet', NEW t \in Tasks, WorkerStep(t)
    PROVE  CInv'
<1>b. wk[t].pc # "free"
  BY DEF WorkerStep, WorkerBegins, WorkerWakes, Dispatched, WorkerDone,
         WorkerEvicted, WorkerHandedBack, WorkerFailed, WorkerParks, WorkerUnparks,
         CancelledUnstarted, CancelledWaiting, CancelledDispatch, WorkerCancelling,
         Runnable, InDispatch
<1>o. wk[t].obj \in Objs /\ Serves(t, wk[t].obj)
  BY <1>b DEF TInv, WorkersTyped, Serves
<1>c. \A o \in Objs : Cleared(t)[o] # None => current[o] # None /\ o # wk[t].obj
  BY DEF Cleared, TInv, FrontTyped
<1>i. wk[t].pc \in {"new", "get"} => current[wk[t].obj] = None
  BY <1>o DEF CInv, Served, Registered, Occupied
<1>1. CASE WorkerBegins(t)
  BY <1>i, <1>1, LoopServes DEF WorkerBegins, Runnable
<1>2. CASE WorkerWakes(t)
  BY <1>b, <1>2, TakeServes DEF WorkerWakes
<1>3. CASE Dispatched(t) \/ WorkerParks(t) \/ CancelledDispatch(t)
  <2>1. PICK pc \in {"run", "park", "cancelling"} : wk' = Moved(t, pc, wk[t].req)
    BY <1>3 DEF Dispatched, WorkerParks, CancelledDispatch
  <2>2. UNCHANGED <<pool, task, status, co, current>>
    BY <1>3 DEF Dispatched, WorkerParks, CancelledDispatch, front
  <2> QED BY <1>b, <2>1, <2>2, WorkerKeepsOn DEF WPcs
<1>4. CASE WorkerDone(t) \/ WorkerHandedBack(t) \/ WorkerFailed(t)
  <2>1. Loop(t, Cleared(t))
    BY <1>4 DEF WorkerDone, WorkerHandedBack, WorkerFailed
  <2> QED BY <1>b, <1>c, <2>1, LoopServes
<1>5. CASE WorkerEvicted(t)
  <2>1. HandBack(t, wk[t].req, queue) /\ wk[t].req \in Requests
    BY <1>5 DEF WorkerEvicted, Runnable, TInv, WorkersTyped, Holding, InDispatch
  <2> QED BY <1>b, <2>1, HandBackServes
<1>6. CASE WorkerUnparks(t)
  BY <1>b, <1>c, <1>6, LoopServes, ExitServes DEF WorkerUnparks
<1>7. CASE CancelledWaiting(t)
  <2>1. Exit(t, Cleared(t)) \/ (wk[t].pc = "get" /\ Exit(t, current))
    BY <1>7 DEF CancelledWaiting
  <2> QED BY <1>b, <1>c, <1>i, <2>1, ExitServes
<1>8. CASE WorkerCancelling(t)
  BY <1>b, <1>c, <1>8, ExitServes DEF WorkerCancelling
<1>9. CASE CancelledUnstarted(t)
  <2>1. /\ OthersKept(t) /\ wk'[t].pc = "free" /\ wk[t].pc = "new"
        /\ \A o \in Objs : task'[o] = IF task[o] = t THEN None ELSE task[o]
        /\ UNCHANGED <<pool, current, status, co>>
    BY <1>9 DEF CancelledUnstarted, OthersKept, FreeTask, TInv, WorkersTyped
  <2>2. \A u \in Tasks, o \in Objs : Serves(u, o)' <=> Serves(u, o) /\ u # t
    BY <2>1 DEF Serves, OthersKept
  <2>3. Registered'
    BY <2>1, <2>2 DEF CInv, Served, Registered
  <2>4. Employed'
    <3> SUFFICES ASSUME NEW u \in Tasks, NEW o \in Objs, task'[o] = u
                 PROVE  Serves(u, o)'
      BY DEF Employed
    <3>1. u # None
      BY ConstantsAssumption
    <3>2. task[o] = u /\ u # t
      BY <2>1, <3>1
    <3> QED BY <2>2, <3>2 DEF CInv, Served, Employed
  <2>5. Occupied'
    BY <2>1, <2>2 DEF CInv, Served, Occupied, Serves, OthersKept
  <2>6. Shrinks
    BY <2>1, <2>2, NothingLeaves
  <2> QED BY <2>1, <2>3, <2>4, <2>5, <2>6, PoolKept DEF Served, SameCall
<1> QED
  BY <1>1, <1>2, <1>3, <1>4, <1>5, <1>6, <1>7, <1>8, <1>9 DEF WorkerStep

\* What an actor does to its workers: some of those that wait for it go on.
LEMMA ActorsBecome ==
    ASSUME \/ \E t \in Tasks : ActorRestarts(t) \/ RunStep(t)
           \/ \E rid \in Rids : \/ ActorLoads(rid) \/ ActorLoadFails(rid)
                                \/ ActorDemoted(rid) \/ ActorDies(rid)
                                \/ OperatorDeploys(rid)
           \/ \E x \in orphans : OrphanEnds(x)
    PROVE  \/ wk' = wk
           \/ \E S : \E pc \in InDispatch :
                 /\ wk' = Becomes(S, pc)
                 /\ \A t \in S : t \in Tasks => wk[t].pc \in InDispatch
<1>1. ASSUME NEW t \in Tasks, RunStep(t)
      PROVE  \E pc \in InDispatch : wk' = Becomes({t}, pc) /\ wk[t].pc \in InDispatch
  BY <1>1 DEF RunStep, RunBegins, RunRejected, RunEnds, InDispatch
<1>2. ASSUME NEW t \in Tasks, ActorRestarts(t)
      PROVE  \E rid : wk' = Becomes(At(rid, "exec"), "unavail")
  BY <1>2 DEF ActorRestarts
<1>3. ASSUME NEW rid \in Rids, ActorDies(rid)
      PROVE  \E lost \in SUBSET At(rid, "ok") :
                wk' = Becomes(At(rid, "exec") \cup lost, "evicted")
  BY <1>3 DEF ActorDies
<1>4. ASSUME NEW rid \in Rids, ActorDemoted(rid)
      PROVE  wk' = Becomes(At(rid, "exec"), "evicted")
  BY <1>4 DEF ActorDemoted
<1>5. ASSUME NEW rid \in Rids, ActorLoads(rid) \/ ActorLoadFails(rid)
                               \/ OperatorDeploys(rid)
      PROVE  wk' = wk
  BY <1>5 DEF ActorLoads, ActorLoadFails, OperatorDeploys
<1>6. ASSUME NEW x \in orphans, OrphanEnds(x) PROVE wk' = wk
  BY <1>6 DEF OrphanEnds
<1>11. \A rid : \A t \in At(rid, "exec") \cup At(rid, "ok") : wk[t].pc \in InDispatch
  BY DEF At, InDispatch
<1>12. {"unavail", "evicted"} \subseteq InDispatch
  BY DEF InDispatch
<1>13. CASE \E t \in Tasks : RunStep(t)
  <2>1. PICK t \in Tasks : \E pc \in InDispatch :
            wk' = Becomes({t}, pc) /\ wk[t].pc \in InDispatch
    BY <1>1, <1>13
  <2>2. \A u \in {t} : wk[u].pc \in InDispatch
    BY <2>1
  <2> QED BY <2>1, <2>2
<1>14. CASE \E t \in Tasks : ActorRestarts(t)
  BY <1>2, <1>11, <1>12, <1>14
<1>15. ASSUME NEW rid \in Rids, ActorDies(rid)
      PROVE  \E S : /\ wk' = Becomes(S, "evicted")
                    /\ \A t \in S : wk[t].pc \in InDispatch
  <2>1. PICK lost \in SUBSET At(rid, "ok") :
              wk' = Becomes(At(rid, "exec") \cup lost, "evicted")
    BY <1>3, <1>15
  <2>2. \A t \in At(rid, "exec") \cup lost : wk[t].pc \in InDispatch
    BY <1>11
  <2> QED BY <2>1, <2>2
<1>16. ASSUME NEW rid \in Rids, ActorDemoted(rid)
      PROVE  \E S : /\ wk' = Becomes(S, "evicted")
                    /\ \A t \in S : wk[t].pc \in InDispatch
  BY <1>4, <1>11, <1>16
<1> QED BY <1>5, <1>6, <1>12, <1>13, <1>14, <1>15, <1>16

\* What an actor does to its workers leaves them with their replica.
LEMMA ActorsServe ==
    ASSUME TInv, TInv', CInv, Quiet',
           \/ \E t \in Tasks : ActorRestarts(t) \/ RunStep(t)
           \/ \E rid \in Rids : \/ ActorLoads(rid) \/ ActorLoadFails(rid)
                                \/ ActorDemoted(rid) \/ ActorDies(rid)
                                \/ OperatorDeploys(rid)
           \/ \E x \in orphans : OrphanEnds(x)
    PROVE  CInv'
<1>1. UNCHANGED <<pool, task, current, status, co>>
  BY DEF ActorRestarts, RunStep, RunBegins, RunRejected, RunEnds, ActorLoads,
         ActorLoadFails, ActorDemoted, ActorDies, OperatorDeploys, OrphanEnds, front
<1>2. ASSUME NEW S, NEW pc \in InDispatch, wk' = Becomes(S, pc),
             \A t \in S : t \in Tasks => wk[t].pc \in InDispatch
      PROVE  \A t \in Tasks :
                /\ wk'[t].pc = "free" <=> wk[t].pc = "free"
                /\ wk'[t].obj = wk[t].obj
                /\ wk[t].pc \notin {"free", "new", "get"} =>
                       wk'[t].pc \notin {"free", "new", "get"}
  BY <1>2 DEF Becomes, InDispatch, TInv, WorkersTyped, WorkerRecs
<1>3. \A t \in Tasks :
        /\ wk'[t].pc = "free" <=> wk[t].pc = "free"
        /\ wk'[t].obj = wk[t].obj
        /\ wk[t].pc \notin {"free", "new", "get"} =>
               wk'[t].pc \notin {"free", "new", "get"}
  BY <1>2, ActorsBecome
<1>4. Served' /\ \A t \in Tasks, o \in Objs : Serves(t, o)' <=> Serves(t, o)
  BY <1>1, <1>3, WorkersServe
<1>5. Shrinks
  BY <1>1, <1>4, NothingLeaves
<1> QED BY <1>1, <1>4, <1>5, PoolKept DEF SameCall

\* A step of the kill handler or the dispatch loop that moves no request.
LEMMA BystandersServe ==
    ASSUME TInv, TInv', CInv, Quiet',
           UNCHANGED <<pool, task, current, status>>,
           \A t \in Tasks :
              /\ wk'[t].pc = "free" <=> wk[t].pc = "free"
              /\ wk'[t].obj = wk[t].obj
              /\ wk[t].pc \notin {"free", "new", "get"} =>
                     wk'[t].pc \notin {"free", "new", "get"},
           \A s \in Starts : SameCall(s),
           \A o \in Objs : co'[o].pc = "wait" => co[o].pc = "wait"
    PROVE  CInv'
<1>1. Served' /\ \A t \in Tasks, o \in Objs : Serves(t, o)' <=> Serves(t, o)
  BY WorkersServe
<1>2. Shrinks
  BY <1>1, NothingLeaves
<1> QED BY <1>1, <1>2, PoolKept

\* The dispatch loop and the kill handler.
LEMMA OpsServe ==
    ASSUME TInv, TInv', CInv, Quiet',
           \/ \E r \in Requests : Enqueue(r) \/ Kill(r)
           \/ Acknowledge \/ KillTold \/ KillActor \/ KillPolled \/ KillCancels
           \/ Reconcile
    PROVE  CInv'
<1>n. /\ co \in [Coros -> CoroRecs] /\ Disp \in Coros /\ Ops \in Coros
      /\ \A x \in Starts \cup Objs : x \in Coros /\ x # Disp /\ x # Ops
  BY ConstantsAssumption DEF TInv, CorosTyped, Coros
<1>1. ASSUME NEW r \in Requests, Enqueue(r) PROVE CInv'
  <2>1. PICK rec : rec = [Idle EXCEPT !.pc = "ack", !.req = r]
    OBVIOUS
  <2>2. rec \in CoroRecs
    BY <2>1 DEF Idle, CoroRecs, CPcs
  <2>3. PICK cc : cc = [co EXCEPT ![Disp] = rec]
    OBVIOUS
  <2>4. cc \in [Coros -> CoroRecs] /\ \A x \in Starts \cup Objs : cc[x] = co[x]
    BY <1>n, <2>2, <2>3
  <2>5. /\ CanStart(pool') /\ co' = Started(pool', cc)
        /\ status' = StatusStarted(pool')
        /\ UNCHANGED <<pool, task, current, wk>>
    BY <1>1, <2>1, <2>3 DEF Enqueue
  <2>6. Served' /\ \A t \in Tasks, o \in Objs : Serves(t, o)' <=> Serves(t, o)
    BY <2>5, WorkersServe
  <2>7. \A o \in Objs : co'[o].pc = "wait" => co[o].pc = "wait"
    <3>1. \A x \in Coros : co'[x] = cc[x] \/ x \in Starts
      BY <2>4, <2>5, StartedTyped DEF TInv, FrontTyped
    <3> QED BY <1>n, <2>4, <3>1, ConstantsAssumption
  <2>8. Shrinks
    BY <2>5, <2>6, <2>7, NothingLeaves
  <2> QED BY <2>4, <2>5, <2>6, <2>8, StartBegins
<1>2. CASE \/ \E r \in Requests : Kill(r)
           \/ Acknowledge \/ KillTold \/ KillActor \/ KillPolled \/ KillCancels
           \/ Reconcile
  <2>1. UNCHANGED <<pool, task, current, status>>
    BY <1>2 DEF Kill, Acknowledge, KillTold, KillActor, KillPolled, KillCancels,
                Reconcile, front
  <2>2. \A x \in Starts \cup Objs : co'[x] = co[x]
    <3>1. ASSUME NEW r \in Requests, Kill(r)
          PROVE  \A x \in Starts \cup Objs : co'[x] = co[x]
      <4>1. \E rec : co' = [co EXCEPT ![Ops] = rec]
        BY <3>1 DEF Kill
      <4> QED BY <1>n, <4>1
    <3>2. CASE Acknowledge
      BY <1>n, <3>2 DEF Acknowledge
    <3>3. CASE KillTold \/ KillActor \/ KillPolled \/ KillCancels \/ Reconcile
      BY <1>n, <3>3 DEF KillTold, KillActor, KillPolled, KillCancels, Reconcile
    <3> QED BY <1>2, <3>1, <3>2, <3>3
  <2>3. \A t \in Tasks :
          /\ wk'[t].pc = "free" <=> wk[t].pc = "free"
          /\ wk'[t].obj = wk[t].obj
          /\ wk[t].pc \notin {"free", "new", "get"} =>
                 wk'[t].pc \notin {"free", "new", "get"}
    <3>1. \/ wk' = wk
          \/ \E S : wk' = Cancelled(wk, S)
          \/ \E rid : \E t \in At(rid, "exec") : wk' = Becomes({t}, "ok")
      BY <1>2 DEF Kill, Acknowledge, KillTold, KillActor, KillPolled, KillCancels,
                  Reconcile
    <3>2. ASSUME NEW S, wk' = Cancelled(wk, S)
          PROVE  \A t \in Tasks : wk'[t].pc = wk[t].pc /\ wk'[t].obj = wk[t].obj
      BY <3>2, CancelledTyped DEF TInv, WorkersTyped
    <3>3. ASSUME NEW rid, NEW t \in At(rid, "exec"), wk' = Becomes({t}, "ok")
          PROVE  \A u \in Tasks :
                   /\ wk'[u].obj = wk[u].obj
                   /\ wk'[u].pc = IF u = t THEN "ok" ELSE wk[u].pc
      BY <3>3 DEF Becomes, TInv, WorkersTyped, WorkerRecs
    <3>4. \A rid : \A t \in At(rid, "exec") : wk[t].pc = "exec"
      BY DEF At
    <3> QED BY <3>1, <3>2, <3>3, <3>4
  <2> QED BY <2>1, <2>2, <2>3, BystandersServe DEF SameCall
<1> QED BY <1>1, <1>2

\* The controller answers start() or reconcile().
LEMMA ControllerServes ==
    ASSUME TInv, TInv', CInv, Quiet',
           \E c \in Starts \cup {Ops} : ControllerStep(c)
    PROVE  CInv'
<1>1. PICK c \in Starts \cup {Ops} : ControllerStep(c)
  OBVIOUS
<1>2. /\ UNCHANGED <<pool, task, current, status, wk>>
      /\ co[c].pc \in Early /\ co'[c].pc \in Early
      /\ \A x \in Coros \ {c} : co'[x] = co[x]
  <2>1. c \in Coros /\ co \in [Coros -> CoroRecs]
    BY StartIsNotNamed DEF Coros, TInv, CorosTyped
  <2>2. CASE ScaleServed(c)
    <3>1. PICK rid : co' = [co EXCEPT ![c] = [Idle EXCEPT !.pc = "scaled", !.res = {rid}]]
      BY <2>2 DEF ScaleServed
    <3> QED BY <2>1, <2>2, <3>1 DEF ScaleServed, Early, Idle, front
  <2> QED
    BY <1>1, <2>1, <2>2
    DEF ControllerStep, Listed, ScaleRefused, Early, Idle, front
<1>3. \A s \in Starts : SameCall(s)
  BY <1>2 DEF SameCall, Coros
<1>4. \A o \in Objs : co'[o] = co[o]
  BY <1>2, ConstantsAssumption DEF Coros
<1> QED BY <1>2, <1>3, <1>4, BystandersServe

\* reconcile() registers what the pool lacks and waits for it.
LEMMA ReconciledServes ==
    ASSUME TInv, TInv', CInv, Quiet', Reconciled
    PROVE  CInv'
<1>n. /\ co \in [Coros -> CoroRecs] /\ Ops \in Coros
      /\ \A x \in Starts \cup Objs : x \in Coros /\ x # Ops
      /\ Starts \cap Objs = {}
      /\ \A o \in Objs : o[1] \in Rids /\ o # None
  BY ConstantsAssumption DEF TInv, CorosTyped, Coros, Objs
<1>0. UNCHANGED <<wk, task, current, status>>
  BY DEF Reconciled
<1>1. PICK gained :
        /\ gained = IF status \in Setup THEN {}
                    ELSE {rid \in co[Ops].res : pool[rid] = None}
        /\ \A rid \in gained : CanWrap(rid)
        /\ pool' = [rid \in Rids |->
                      IF rid \in gained THEN NewReplica(rid) ELSE pool[rid]]
        /\ co' = [c \in Coros |->
                    IF c = Ops THEN Idle
                    ELSE IF \E rid \in gained : c = NewReplica(rid)
                    THEN [Idle EXCEPT !.pc = "wait"]
                    ELSE co[c]]
  <2>1. PICK gained : gained = IF status \in Setup THEN {}
                               ELSE {rid \in co[Ops].res : pool[rid] = None}
    OBVIOUS
  <2> QED BY <2>1 DEF Reconciled
<1>2. /\ gained \subseteq Rids /\ \A rid \in gained : pool[rid] = None
      /\ gained # {} => status \notin Setup
  BY <1>n, <1>1 DEF CoroRecs
<1>3. \A rid \in gained :
        /\ NewReplica(rid) \in Objs /\ NewReplica(rid)[1] = rid
        /\ Unused(NewReplica(rid))
  <2> SUFFICES ASSUME NEW rid \in gained
               PROVE  /\ NewReplica(rid) \in Objs /\ NewReplica(rid)[1] = rid
                      /\ Unused(NewReplica(rid))
    OBVIOUS
  <2>1. \E g \in Gens : Unused(<<rid, g>>)
    BY <1>1 DEF CanWrap
  <2>2. PICK h \in Gens : h = CHOOSE g \in Gens : Unused(<<rid, g>>)
    BY <2>1
  <2>3. Unused(<<rid, h>>)
    BY <2>1, <2>2
  <2>4. NewReplica(rid) = <<rid, h>> /\ rid \in Rids
    BY <1>2, <2>2 DEF NewReplica
  <2> QED BY <2>3, <2>4 DEF Objs
<1>4. \A s \in Starts : co'[s] = co[s]
  BY <1>n, <1>1, <1>3
<1>5. ASSUME NEW o \in Objs
      PROVE  \/ co'[o] = co[o] /\ (pool[o[1]] = o => pool'[o[1]] = o)
             \/ /\ \E rid \in gained : o = NewReplica(rid)
                /\ pool'[o[1]] = o /\ co'[o].pc = "wait"
                /\ Unserved(o) /\ \A s \in Starts : o \notin co[s].objs
  <2>1. CASE \E rid \in gained : o = NewReplica(rid)
    <3>1. PICK rid \in gained : o = NewReplica(rid)
      BY <2>1
    <3>2. /\ Unserved(o) /\ \A s \in Starts : o \notin co[s].objs
      BY <1>n, <1>3, <3>1 DEF Unused, Unserved, Serves
    <3> QED BY <1>n, <1>1, <1>2, <1>3, <3>1, <3>2 DEF Idle
  <2>2. CASE ~\E rid \in gained : o = NewReplica(rid)
    <3>1. pool[o[1]] = o => o[1] \notin gained
      BY <1>n, <1>2
    <3> QED BY <1>n, <1>1, <2>2, <3>1
  <2> QED BY <2>1, <2>2
<1>6. \A t \in Tasks, o \in Objs : Serves(t, o)' <=> Serves(t, o)
  BY <1>0 DEF Serves
<1>7. Served'
  <2>1. Registered'
    BY <1>5, <1>6 DEF CInv, Served, Registered, Unserved
  <2>2. Employed' /\ Occupied'
    BY <1>0, <1>6 DEF CInv, Served, Employed, Occupied
  <2> QED BY <2>1, <2>2 DEF Served
<1>8. CASE status \in Setup
  <2>1. pool' = pool /\ \A o \in Objs : co'[o] = co[o]
    BY <1>n, <1>1, <1>8 DEF TInv, FrontTyped
  <2> QED BY <1>0, <1>4, <2>1, BystandersServe DEF SameCall
<1>9. CASE status \notin Setup
  <2>1. Wrapped'
    BY <1>1, <1>3 DEF Wrapped, CInv
  <2>2. \A s \in Starts : Starting(s) => co[s].pc = "wait" /\ status = "READY"
    BY <1>9, StartingWaits
  <2>3. StartsAwait'
    <3>1. \A s \in Starts : co[s].objs \subseteq Objs
      BY <1>n DEF CoroRecs
    <3> QED BY <1>4, <1>5, <1>6, <3>1 DEF CInv, StartsAwait, Unserved
  <2>4. AdoptionsAwait'
    <3> SUFFICES ASSUME NEW o \in Objs, co'[o].pc = "wait"
                 PROVE  /\ pool'[o[1]] = o /\ Unserved(o)'
                        /\ \A s \in Starts : ~Awaits(s, o)'
      BY DEF AdoptionsAwait
    <3> QED BY <1>4, <1>5, <1>6 DEF CInv, AdoptionsAwait, Unserved, Awaits
  <2>5. Phases'
    BY <1>0, <1>4, <2>2 DEF Phases, Starting, Early, CInv
  <2>6. SetupAlone' /\ SetupHasStart' /\ OneStart'
    BY <1>0, <1>4, <1>9 DEF SetupAlone, SetupHasStart, OneStart, Starting, CInv
  <2> QED BY <1>7, <2>1, <2>3, <2>4, <2>5, <2>6 DEF CInv
<1> QED BY <1>8, <1>9

\* A replica that nobody serves yet gets its worker: the pool is READY.
LEMMA ReplicaServed ==
    ASSUME TInv, TInv', CInv, Quiet', NEW o \in Objs, Spawn(o),
           pool[o[1]] = o, Unserved(o), UNCHANGED <<pool, current>>,
           status' = "READY",
           \A s \in Starts :
              /\ Starting(s)' => Starting(s) /\ co'[s].pc = "wait"
              /\ ~Awaits(s, o)'
              /\ co'[s].pc = "wait" =>
                    /\ co[s].pc = "wait"
                    /\ co'[s].objs \subseteq co[s].objs /\ co'[s].objs # {},
           \A p \in Objs : co'[p].pc = "wait" => co[p].pc = "wait" /\ p # o
    PROVE  CInv'
<1>1. PICK n \in Tasks :
        /\ wk[n].pc = "free" /\ wk'[n].pc = "new" /\ wk'[n].obj = o
        /\ task' = [task EXCEPT ![o] = n] /\ OthersKept(n)
  BY SpawnMoves
<1>2. \A t \in Tasks, p \in Objs :
         Serves(t, p)' <=> (Serves(t, p) /\ t # n) \/ (t = n /\ p = o)
  BY <1>1 DEF Serves, OthersKept
<1>3. \A p \in Objs : p # o /\ Unserved(p) => Unserved(p)'
  BY <1>2 DEF Unserved
<1>4. Registered'
  BY <1>1, <1>2 DEF CInv, Served, Registered, Unserved, Serves
<1>5. Employed'
  BY <1>1, <1>2 DEF CInv, Served, Employed, Serves, TInv, FrontTyped
<1>6. Occupied'
  <2> SUFFICES ASSUME NEW p \in Objs, current'[p] # None
               PROVE  \E t \in Tasks : Serves(t, p)' /\ wk'[t].pc \notin {"new", "get"}
    BY DEF Occupied
  <2>1. PICK t \in Tasks : Serves(t, p) /\ wk[t].pc \notin {"new", "get"}
    BY DEF CInv, Served, Occupied
  <2>2. t # n
    BY <1>1, <2>1 DEF Serves
  <2> QED BY <1>1, <1>2, <2>1, <2>2 DEF OthersKept
<1>7. \A s \in Starts : co[s].objs \subseteq Objs
  BY DEF TInv, CorosTyped, CoroRecs, Coros
<1>8. StartsAwait'
  BY <1>3, <1>7 DEF CInv, StartsAwait, Awaits
<1>9. AdoptionsAwait'
  BY <1>3 DEF CInv, AdoptionsAwait, Awaits
<1>10. Phases'
  <2> SUFFICES ASSUME NEW s \in Starts
               PROVE  co'[s].pc \notin Early \cup {"deploying", "pbcast", "pcancel"}
    BY DEF Phases
  <2> QED BY DEF Starting, Early
<1>11. SetupAlone' /\ SetupHasStart' /\ Wrapped'
  BY DEF SetupAlone, SetupHasStart, Wrapped, Setup, CInv
<1>12. OneStart'
  BY DEF OneStart, CInv
<1> QED
  BY <1>4, <1>5, <1>6, <1>8, <1>9, <1>10, <1>11, <1>12 DEF CInv, Served

\* A replica is adopted, or leaves the pool because its actor did not come up.
LEMMA AdoptServes ==
    ASSUME TInv, TInv', CInv, Quiet', NEW o \in Objs, AdoptStep(o)
    PROVE  CInv'
<1>n. /\ co \in [Coros -> CoroRecs] /\ o \in Coros
      /\ \A s \in Starts : s \in Coros /\ s # o
      /\ \A p \in Objs : p[1] \in Rids /\ p # None /\ p \in Coros
  BY ConstantsAssumption DEF TInv, CorosTyped, Coros, Objs
<1>s. \E rec : co' = [co EXCEPT ![o] = rec]
  <2>1. CASE AdoptReady(o) \/ AdoptFails(o) \/ Broadcasted(o)
    BY <2>1 DEF AdoptReady, AdoptFails, Broadcasted
  <2>2. CASE Broadcast(o)
    <3>1. PICK e : co' = [co EXCEPT ![o].todo = @ \ {e}]
      BY <2>2 DEF Broadcast
    <3> QED BY <3>1
  <2> QED BY <2>1, <2>2 DEF AdoptStep
<1>k. \A x \in Coros \ {o} : co'[x] = co[x]
  BY <1>n, <1>s
<1>1. CASE AdoptReady(o)
  <2>1. /\ co[o].pc = "wait" /\ Spawn(o) /\ status' = "READY"
        /\ UNCHANGED <<pool, current>> /\ co'[o] = Serving
    BY <1>n, <1>1 DEF AdoptReady
  <2>2. Serving.pc \in {"idle", "serving"}
    BY NextPhaseTyped DEF TInv, FrontTyped
  <2>3. /\ pool[o[1]] = o /\ Unserved(o) /\ \A s \in Starts : ~Awaits(s, o)
        /\ status \notin Setup
    BY <2>1 DEF CInv, AdoptionsAwait, SetupAlone
  <2>4. \A s \in Starts : co'[s] = co[s]
    BY <1>n, <1>k
  <2>5. \A s \in Starts :
              /\ Starting(s)' => Starting(s) /\ co'[s].pc = "wait"
              /\ ~Awaits(s, o)'
              /\ co'[s].pc = "wait" =>
                    /\ co[s].pc = "wait"
                    /\ co'[s].objs \subseteq co[s].objs /\ co'[s].objs # {}
    BY <2>3, <2>4, StartingWaits DEF Starting, Awaits, CInv, StartsAwait
  <2>6. \A p \in Objs : co'[p].pc = "wait" => co[p].pc = "wait" /\ p # o
    BY <1>n, <1>k, <2>1, <2>2
  <2> QED BY <2>1, <2>3, <2>5, <2>6, ReplicaServed
<1>2. CASE AdoptFails(o)
  <2>1. /\ co[o].pc = "wait" /\ pool' = [pool EXCEPT ![o[1]] = None]
        /\ UNCHANGED <<status, task, current, wk>> /\ co'[o] = Idle
    BY <1>n, <1>2 DEF AdoptFails
  <2>2. /\ pool[o[1]] = o /\ Unserved(o) /\ \A s \in Starts : ~Awaits(s, o)
        /\ status \notin Setup
    BY <2>1 DEF CInv, AdoptionsAwait, SetupAlone
  <2>3. \A t \in Tasks, p \in Objs : Serves(t, p)' <=> Serves(t, p)
    BY <2>1 DEF Serves
  <2>4. \A p \in Objs : p # o /\ pool[p[1]] = p => pool'[p[1]] = p
    BY <1>n, <2>1, <2>2 DEF TInv, FrontTyped
  <2>5. Served'
    <3>1. Registered'
      BY <2>2, <2>3, <2>4 DEF CInv, Served, Registered, Unserved
    <3>2. Employed' /\ Occupied'
      BY <2>1, <2>3 DEF CInv, Served, Employed, Occupied
    <3> QED BY <3>1, <3>2 DEF Served
  <2>6. Shrinks
    <3>1. \A p \in Objs : co'[p].pc = "wait" => co[p].pc = "wait" /\ p # o
      BY <1>n, <1>k, <2>1 DEF Idle
    <3>2. ASSUME NEW p \in Objs,
                 co'[p].pc = "wait" \/ \E s \in Starts : Awaits(s, p)
          PROVE  pool'[p[1]] = p
      BY <2>2, <2>4, <3>1, <3>2, WaitedFor
    <3>3. \A rid \in Rids : pool'[rid] \in {pool[rid], None}
      BY <2>1 DEF TInv, FrontTyped
    <3> QED BY <2>2, <2>3, <3>1, <3>2, <3>3 DEF Shrinks
  <2>7. \A s \in Starts : SameCall(s)
    BY <1>n, <1>k DEF SameCall
  <2> QED BY <2>1, <2>5, <2>6, <2>7, PoolKept
<1>3. CASE Broadcast(o) \/ Broadcasted(o)
  <2>1. UNCHANGED <<pool, task, current, status, wk>>
    BY <1>3 DEF Broadcast, Broadcasted, front
  <2>2. co'[o].pc = "wait" => co[o].pc = "wait"
    <3>1. CASE Broadcasted(o)
      <4>1. co[o].pc # "deploying"
        BY PlacesByName DEF CInv, Quiet, Coros
      <4> QED BY <1>n, <3>1, <4>1 DEF Broadcasted, Idle
    <3>2. CASE Broadcast(o)
      <4>1. PICK e : co' = [co EXCEPT ![o].todo = @ \ {e}]
        BY <3>2 DEF Broadcast
      <4> QED BY <1>n, <4>1 DEF CoroRecs
    <3> QED BY <1>3, <3>1, <3>2
  <2>3. \A s \in Starts : SameCall(s)
    BY <1>n, <1>k DEF SameCall
  <2>4. \A p \in Objs : co'[p].pc = "wait" => co[p].pc = "wait"
    BY <1>n, <1>k, <2>2
  <2> QED BY <2>1, <2>3, <2>4, BystandersServe
<1> QED BY <1>1, <1>2, <1>3 DEF AdoptStep

\* A start() goes on; the pool keeps what it has.
LEMMA StartMoves ==
    ASSUME TInv, TInv', CInv, Quiet', NEW s \in Starts, Starting(s),
           \A x \in Coros \ {s} : co'[x] = co[x],
           UNCHANGED <<task, current>>,
           \A t \in Tasks : wk'[t].pc = wk[t].pc /\ wk'[t].obj = wk[t].obj,
           \A o \in Objs : pool[o[1]] = o => pool'[o[1]] = o,
           Wrapped',
           status' \in Setup => status \in Setup /\ Starting(s)',
           co'[s].pc = "wait" =>
              /\ status' \in {"DEPLOYING", "READY"} /\ co'[s].objs # {}
              /\ \A o \in co'[s].objs :
                    pool'[o[1]] = o /\ Unserved(o) /\ co[o].pc # "wait",
           co'[s].pc \in Early => status' = "PROVISIONING" /\ pool' = EmptyPool,
           co'[s].pc = "deploying" => status' = "DEPLOYING" /\ pool' # EmptyPool,
           co'[s].pc = "pbcast" => status' \in Setup,
           co'[s].pc # "pcancel"
    PROVE  CInv'
<1>n. /\ \A u \in Starts : u \in Coros /\ u \notin Objs
      /\ \A o \in Objs : o \in Coros
  BY ConstantsAssumption DEF Coros
<1>1. \A t \in Tasks, o \in Objs : Serves(t, o)' <=> Serves(t, o)
  BY DEF Serves
<1>2. Served'
  <2>1. Registered'
    BY <1>1 DEF CInv, Served, Registered
  <2>2. Employed' /\ Occupied'
    BY <1>1 DEF CInv, Served, Employed, Occupied
  <2> QED BY <2>1, <2>2 DEF Served
<1>3. \A u \in Starts \ {s} : ~Starting(u) /\ co'[u] = co[u]
  BY <1>n DEF CInv, OneStart
<1>4. \A o \in Objs : co'[o] = co[o]
  BY <1>n
<1>5. StartsAwait'
  <2>1. co'[s].objs \subseteq Objs
    BY <1>n DEF TInv, CorosTyped, CoroRecs
  <2> QED BY <1>1, <1>3, <2>1 DEF StartsAwait, Unserved, Starting
<1>6. AdoptionsAwait'
  <2> SUFFICES ASSUME NEW o \in Objs, co'[o].pc = "wait"
               PROVE  /\ pool'[o[1]] = o /\ Unserved(o)'
                      /\ \A u \in Starts : ~Awaits(u, o)'
    BY DEF AdoptionsAwait
  <2> QED BY <1>1, <1>3, <1>4 DEF CInv, AdoptionsAwait, Unserved, Awaits, Starting
<1>7. Phases'
  <2>1. \A u \in Starts \ {s} :
           co'[u].pc \notin Early \cup {"deploying", "wait", "pbcast", "pcancel"}
    BY <1>3 DEF Starting, Early
  <2> QED BY <2>1 DEF Phases
<1>8. SetupAlone' /\ SetupHasStart'
  BY <1>4 DEF CInv, SetupAlone, SetupHasStart
<1>9. OneStart'
  BY <1>3 DEF OneStart, Starting
<1> QED BY <1>2, <1>5, <1>6, <1>7, <1>8, <1>9 DEF CInv

\* A purge during setup finds no request in flight: it empties the pool.
LEMMA SetupCleared ==
    ASSUME TInv, CInv, NEW s \in Starts, status \in Setup, PurgeClear(s)
    PROVE  \E S :
             /\ wk' = Cancelled(wk, S) /\ queue' = {}
             /\ pool' = EmptyPool /\ status' = "UNINITIALIZED"
             /\ co' = [co EXCEPT ![s] = Idle]
             /\ task' = task /\ current' = current
<1>1. \A o \in Objs : current[o] = None
  BY DEF CInv, SetupAlone, Served, Occupied, Serves
<1>2. PoolObjs \subseteq Objs
  BY DEF PoolObjs, TInv, FrontTyped
<1>3. PICK S \in SUBSET {o \in PoolObjs : current[o] = None} :
        /\ wk' = Cancelled(wk, S)
        /\ \/ /\ pool' = EmptyPool
              /\ status' = "UNINITIALIZED"
              /\ co' = [co EXCEPT ![s] = Idle]
           \/ \E o \in PoolObjs : current[o] # None
  BY DEF PurgeClear, PurgeReplicas
<1> QED BY <1>1, <1>2, <1>3 DEF PurgeClear

\* The start() it ends was the only one.
LEMMA SetupFails ==
    ASSUME TInv, TInv', CInv, Quiet', NEW s \in Starts, Starting(s),
           status \in Setup, PurgeClear(s)
    PROVE  CInv'
<1>n. /\ \A u \in Starts : u \in Coros /\ u \notin Objs
      /\ \A o \in Objs : o \in Coros
  BY ConstantsAssumption DEF Coros
<1>f. \A t \in Tasks : wk[t].pc = "free"
  BY DEF CInv, SetupAlone
<1>1. \A o \in Objs : current[o] = None
  BY <1>f DEF CInv, Served, Occupied, Serves
<1>2. PICK S :
        /\ wk' = Cancelled(wk, S)
        /\ pool' = EmptyPool /\ status' = "UNINITIALIZED"
        /\ co' = [co EXCEPT ![s] = Idle]
        /\ task' = task /\ current' = current
  BY SetupCleared
<1>3. \A t \in Tasks : wk'[t].pc = "free"
  BY <1>2, <1>f, CancelledTyped DEF TInv, WorkersTyped
<1>4. \A o \in Objs : co'[o].pc # "wait"
  BY <1>n, <1>2 DEF CInv, SetupAlone, TInv, CorosTyped
<1>5. \A u \in Starts : ~Starting(u)'
  BY <1>n, <1>2 DEF CInv, OneStart, Starting, Idle, TInv, CorosTyped
<1>6. Served'
  <2>1. \A t \in Tasks, o \in Objs : ~Serves(t, o) /\ ~Serves(t, o)'
    BY <1>f, <1>3 DEF Serves
  <2> QED
    BY <1>1, <1>2, <2>1 DEF Served, Registered, Employed, Occupied, CInv
<1>7. StartsAwait' /\ Phases' /\ OneStart'
  BY <1>5 DEF StartsAwait, Phases, OneStart, Starting, Early
<1>8. AdoptionsAwait' /\ Wrapped' /\ SetupAlone' /\ SetupHasStart'
  BY <1>2, <1>4 DEF AdoptionsAwait, Wrapped, EmptyPool, SetupAlone, SetupHasStart,
                    Setup
<1> QED BY <1>6, <1>7, <1>8 DEF CInv

\* start() fails: it leaves a pool that is READY alone, and purges otherwise.
LEMMA StartFailsServes ==
    ASSUME TInv, TInv', CInv, Quiet', NEW s \in Starts, Starting(s), StartFails(s)
    PROVE  CInv'
<1>n. s \in Coros /\ co \in [Coros -> CoroRecs]
  BY DEF Coros, TInv, CorosTyped
<1>1. CASE status = "READY"
  <2>1. /\ co'[s] = Idle /\ \A x \in Coros \ {s} : co'[x] = co[x]
        /\ UNCHANGED <<pool, task, current, status, wk>>
    BY <1>n, <1>1 DEF StartFails, front
  <2> QED BY <1>1, <2>1, StartMoves DEF Idle, Early, Setup, CInv, Wrapped
<1>2. CASE status # "READY"
  <2>1. status \in Setup
    BY <1>2, StartingWaits
  <2>2. CASE queue = {}
    BY <1>2, <2>1, <2>2, SetupFails DEF StartFails, PurgeBegin
  <2>3. CASE queue # {}
    <3>1. /\ co'[s].pc = "pbcast" /\ \A x \in Coros \ {s} : co'[x] = co[x]
          /\ UNCHANGED <<pool, task, current, status, wk>>
      BY <1>n, <1>2, <2>3 DEF StartFails, PurgeBegin, front, Idle
    <3> QED BY <2>1, <3>1, StartMoves DEF Starting, Early, CInv, Wrapped
  <2> QED BY <2>2, <2>3
<1> QED BY <1>1, <1>2

\* The loop over the replicas of a pool waits for each of them.
LEMMA WaitsForAll ==
    ASSUME NEW p \in [Rids -> Objs \cup {None}], p # EmptyPool
    PROVE  /\ WaitLoop(p).pc = "wait"
           /\ WaitLoop(p).objs = {p[rid] : rid \in Rids} \ {None}
           /\ WaitLoop(p).objs # {}
<1>1. \E rid \in Rids : p[rid] # None
  BY DEF EmptyPool
<1>2. WaitLoop(p) = [Idle EXCEPT !.pc = "wait",
                                 !.objs = {p[rid] : rid \in Rids} \ {None}]
  BY DEF WaitLoop
<1> QED BY <1>1, <1>2 DEF Idle

\* start() registers what the controller gave it.
LEMMA RegisterServes ==
    ASSUME TInv, TInv', CInv, Quiet', NEW s \in Starts, co[s].pc \in {"got", "scaled"},
           NEW S \in SUBSET Rids, S # {}, Register(s, S)
    PROVE  CInv'
<1>n. s \in Coros /\ co \in [Coros -> CoroRecs] /\ Starting(s)
  BY DEF Coros, TInv, CorosTyped, Starting
<1>1. status = "PROVISIONING" /\ pool = EmptyPool
  BY DEF CInv, Phases, Early
<1>2. /\ pool' = [rid \in Rids |-> IF rid \in S THEN NewReplica(rid) ELSE pool[rid]]
      /\ status' = "DEPLOYING"
      /\ co'[s] = Deploying(pool') /\ \A x \in Coros \ {s} : co'[x] = co[x]
      /\ UNCHANGED <<task, current, wk>>
      /\ \A rid \in S : CanWrap(rid)
  BY <1>n DEF Register
<1>3. pool' \in [Rids -> Objs \cup {None}]
  BY DEF TInv, FrontTyped
<1>4. \A rid \in Rids : pool'[rid] # None => pool'[rid][1] = rid
  BY <1>1, <1>2 DEF EmptyPool, NewReplica
<1>5. pool' # EmptyPool
  <2>1. PICK rid \in S : TRUE
    OBVIOUS
  <2>2. NewReplica(rid) \in Objs /\ None \notin Objs
    BY <1>2, NewReplicaTyped, ConstantsAssumption
  <2> QED BY <1>2, <2>1, <2>2 DEF EmptyPool
<1>6. \A o \in Objs : pool[o[1]] # o
  BY <1>1, ConstantsAssumption DEF EmptyPool, Objs
<1>7. \A o \in Objs : Unserved(o) /\ co[o].pc # "wait"
  BY <1>1 DEF CInv, SetupAlone, Setup, Unserved, Serves
<1>8. \/ co'[s].pc = "deploying"
      \/ /\ co'[s].pc = "wait" /\ co'[s].objs # {}
         /\ \A o \in co'[s].objs : o \in Objs /\ pool'[o[1]] = o
  <2>1. CASE queue # {}
    BY <1>2, <2>1 DEF Deploying, Idle
  <2>2. CASE queue = {}
    <3>1. co'[s] = WaitLoop(pool')
      BY <1>2, <2>2 DEF Deploying
    <3> QED BY <1>3, <1>4, <1>5, <3>1, WaitsForAll
  <2> QED BY <2>1, <2>2
<1> QED
  BY <1>n, <1>1, <1>2, <1>4, <1>5, <1>6, <1>7, <1>8, StartMoves
  DEF Wrapped, Starting, Early, Setup

\* start() comes to the end of a wait for one replica.
LEMMA StartReadyServes ==
    ASSUME TInv, TInv', CInv, Quiet', NEW s \in Starts, StartReady(s)
    PROVE  CInv'
<1>n. /\ s \in Coros /\ co \in [Coros -> CoroRecs] /\ Starting(s)
      /\ \A p \in Objs : p \in Coros /\ p # s
      /\ \A u \in Starts : u \in Coros
  BY ConstantsAssumption DEF Coros, TInv, CorosTyped, Starting, StartReady
<1>1. PICK o \in co[s].objs :
        /\ Spawn(o)
        /\ co'[s] = IF co[s].objs = {o} THEN Serving
                    ELSE [Idle EXCEPT !.pc = "wait", !.objs = co[s].objs \ {o}]
        /\ \A x \in Coros \ {s} : co'[x] = co[x]
        /\ co[s].pc = "wait" /\ status' = "READY"
        /\ UNCHANGED <<pool, current>>
  BY <1>n DEF StartReady
<1>2. o \in Objs /\ pool[o[1]] = o /\ Unserved(o) /\ co[o].pc # "wait"
  BY <1>n, <1>1 DEF CoroRecs, CInv, StartsAwait, AdoptionsAwait, Awaits
<1>3. \/ co'[s].pc \in {"idle", "serving"}
      \/ /\ co'[s].pc = "wait" /\ co'[s].objs = co[s].objs \ {o}
         /\ co'[s].objs # {}
  <2>1. Serving.pc \in {"idle", "serving"}
    BY NextPhaseTyped DEF TInv, FrontTyped
  <2> QED BY <1>1, <2>1 DEF Idle
<1>4. \A u \in Starts \ {s} : ~Starting(u) /\ co'[u] = co[u]
  BY <1>n, <1>1 DEF CInv, OneStart
<1>5. \A u \in Starts :
         /\ Starting(u)' => Starting(u) /\ co'[u].pc = "wait"
         /\ ~Awaits(u, o)'
         /\ co'[u].pc = "wait" =>
               /\ co[u].pc = "wait"
               /\ co'[u].objs \subseteq co[u].objs /\ co'[u].objs # {}
  <2> SUFFICES ASSUME NEW u \in Starts
               PROVE  /\ Starting(u)' => Starting(u) /\ co'[u].pc = "wait"
                      /\ ~Awaits(u, o)'
                      /\ co'[u].pc = "wait" =>
                            /\ co[u].pc = "wait"
                            /\ co'[u].objs \subseteq co[u].objs /\ co'[u].objs # {}
    OBVIOUS
  <2>1. CASE u = s
    BY <1>n, <1>1, <1>3, <2>1 DEF Starting, Awaits
  <2>2. CASE u # s
    BY <1>4, <2>2 DEF Starting, Awaits
  <2> QED BY <2>1, <2>2
<1>6. \A p \in Objs : co'[p].pc = "wait" => co[p].pc = "wait" /\ p # o
  BY <1>n, <1>1, <1>2
<1> QED BY <1>1, <1>2, <1>5, <1>6, ReplicaServed

\* The steps of a start().
LEMMA StartStepServes ==
    ASSUME TInv, TInv', CInv, Quiet', NEW s \in Starts, StartStep(s)
    PROVE  CInv'
<1>n. s \in Coros /\ co \in [Coros -> CoroRecs] /\ co[s].res \in SUBSET Rids
  BY DEF Coros, TInv, CorosTyped, CoroRecs
<1>1. CASE StartListed(s)
  <2>1. co[s].pc = "got" /\ Starting(s)
    BY <1>1 DEF StartListed, Starting
  <2>2. CASE StartFails(s)
    BY <2>1, <2>2, StartFailsServes
  <2>3. CASE co[s].res # {} /\ Register(s, co[s].res)
    BY <1>n, <2>1, <2>3, RegisterServes
  <2>4. CASE /\ co' = [co EXCEPT ![s] = [Idle EXCEPT !.pc = "scale"]]
             /\ UNCHANGED <<front, wk, dropped>>
    <3>1. /\ co'[s].pc = "scale" /\ \A x \in Coros \ {s} : co'[x] = co[x]
          /\ UNCHANGED <<pool, task, current, status, wk>>
      BY <1>n, <2>4 DEF Idle, front
    <3>2. \A u \in Starts : SameCall(u)
      BY <2>1, <3>1 DEF SameCall, Early, Coros
    <3>3. \A o \in Objs : co'[o] = co[o]
      BY <3>1, ConstantsAssumption DEF Coros
    <3> QED BY <3>1, <3>2, <3>3, BystandersServe
  <2> QED BY <1>1, <2>2, <2>3, <2>4 DEF StartListed
<1>2. CASE StartProvisioned(s)
  <2>1. co[s].pc = "scaled" /\ Starting(s)
    BY <1>2 DEF StartProvisioned, Starting
  <2> QED
    BY <1>n, <1>2, <2>1, StartFailsServes, RegisterServes DEF StartProvisioned
<1>3. CASE StartReady(s)
  BY <1>3, StartReadyServes
<1>4. CASE StartWaitFails(s)
  BY <1>4, StartFailsServes DEF StartWaitFails, Starting
<1>5. CASE Broadcast(s)
  <2>1. PICK e : co' = [co EXCEPT ![s].todo = @ \ {e}] /\ UNCHANGED <<front, wk>>
    BY <1>5 DEF Broadcast
  <2>2. /\ co'[s].pc = co[s].pc /\ co'[s].objs = co[s].objs
        /\ \A x \in Coros \ {s} : co'[x] = co[x]
        /\ UNCHANGED <<pool, task, current, status, wk>>
    BY <1>n, <2>1 DEF CoroRecs, front
  <2>3. \A u \in Starts : SameCall(u)
    BY <2>2 DEF SameCall, Coros
  <2>4. \A o \in Objs : co'[o] = co[o]
    BY <2>2, ConstantsAssumption DEF Coros
  <2> QED BY <2>2, <2>3, <2>4, BystandersServe
<1>6. CASE PurgePublished(s)
  <2>1. co[s].pc = "pbcast" /\ Starting(s) /\ PurgeClear(s)
    BY <1>6 DEF PurgePublished, Starting
  <2> QED BY <2>1, SetupFails DEF CInv, Phases
<1>7. CASE PurgeCancel(s)
  BY <1>7 DEF PurgeCancel, CInv, Phases
<1>8. CASE Broadcasted(s)
  <2>1. /\ co'[s] = IF co[s].pc = "deploying" THEN WaitLoop(pool) ELSE Idle
        /\ \A x \in Coros \ {s} : co'[x] = co[x]
        /\ UNCHANGED <<pool, task, current, status, wk>>
        /\ co[s].pc \in {"deploying", "serving"}
    BY <1>n, <1>8 DEF Broadcasted, front
  <2>2. CASE co[s].pc = "serving"
    <3>1. \A u \in Starts : SameCall(u)
      BY <2>1, <2>2 DEF SameCall, Coros, Idle
    <3>2. \A o \in Objs : co'[o] = co[o]
      BY <2>1, ConstantsAssumption DEF Coros
    <3> QED BY <2>1, <3>1, <3>2, BystandersServe
  <2>3. CASE co[s].pc = "deploying"
    <3>1. /\ status = "DEPLOYING" /\ pool # EmptyPool
          /\ \A o \in Objs : Unserved(o) /\ co[o].pc # "wait"
      BY <2>3 DEF CInv, Phases, SetupAlone, Setup, Unserved, Serves
    <3>2. /\ co'[s].pc = "wait" /\ co'[s].objs # {}
          /\ \A o \in co'[s].objs : o \in Objs /\ pool[o[1]] = o
      BY <2>1, <2>3, <3>1, WaitsForAll DEF CInv, Wrapped, TInv, FrontTyped
    <3> QED
      BY <2>1, <2>3, <3>1, <3>2, StartMoves DEF Starting, Early, CInv, Wrapped
  <2> QED BY <2>1, <2>2, <2>3
<1> QED
  BY <1>1, <1>2, <1>3, <1>4, <1>5, <1>6, <1>7, <1>8 DEF StartStep, PurgeStep

\* A Processor just made is calm and serves nothing.
LEMMA CInvInit == Calm /\ Init => CInv
<1> SUFFICES ASSUME Calm, Init PROVE CInv
  OBVIOUS
<1>1. Quiet
  <2>1. \A c \in Coros : "idle" \in Places(c)
    BY PlacesByName DEF Coros
  <2> QED BY <2>1 DEF Calm, Init, Quiet, FreeTask, Idle
<1>2. \A o \in Objs : None \notin Tasks /\ o # None /\ o[1] \in Rids
  BY ConstantsAssumption DEF Objs
<1>3. Served /\ Wrapped
  BY <1>2, ConstantsAssumption
  DEF Init, Served, Registered, Employed, Occupied, Serves, FreeTask, Wrapped, EmptyPool
<1>4. \A c \in Starts \cup Objs : co[c].pc = "idle"
  BY DEF Init, Idle, Coros
<1> QED
  BY <1>1, <1>3, <1>4
  DEF CInv, StartsAwait, AdoptionsAwait, Phases, Early, SetupAlone, SetupHasStart,
      OneStart, Starting, Init, Setup

\* Every step keeps it.
LEMMA CInvNext == TInv /\ TInv' /\ CInv /\ [Next]_vars => CInv'
<1> SUFFICES ASSUME TInv, TInv', CInv, [Next]_vars PROVE CInv'
  OBVIOUS
<1>1. Quiet'
  BY QuietNext DEF CInv
<1>2. CASE UNCHANGED vars
  BY <1>1, <1>2, BystandersServe DEF vars, SameCall
<1> QED
  BY <1>1, <1>2, OnlyCalmSteps, OpsServe, ReconciledServes, ControllerServes,
     WorkerStepServes, ActorsServe, StartStepServes, AdoptServes
  DEF CalmSteps, CInv

\* Each replica has its one worker or somebody waiting for it, in every state.
LEMMA CalmThroughout == Calm /\ Spec => [](TInv /\ CInv)
<1>1. Calm /\ Init => TInv /\ CInv
  BY TInvInit, CInvInit
<1>2. TInv /\ CInv /\ [Next]_vars => (TInv /\ CInv)'
  BY TInvNext, CInvNext
<1> QED BY <1>1, <1>2, PTL DEF Spec

\* One start() at a time sets the pool up while its status says so, and no two
\* workers are on one replica id (processor.py:147-158, 438-439).
THEOREM PoolStaysSound == Calm /\ Spec => []PoolSound
<1>1. TInv /\ CInv => PoolSound
  BY OneWorkerEach DEF PoolSound, CInv, Served
<1> QED BY <1>1, CalmThroughout, PTL

-----------------------------------------------------------------------------
(* Who will look at the queue *)

\* Either no operator adds replicas, or no actor is lost: with both, Attended
\* is refuted as well.
Lasting ==
    \A b \in Budgets :
        \/ b["deploy"] = 0 /\ b["reconcile"] = 0
        \/ b["evict"] = 0 /\ b["crash"] = 0 /\ b["loadfail"] = 0

\* Somebody is with each replica of the pool.
InHand(o) ==
    \/ \E s \in Starts : co[s].pc \in {"deploying", "pbcast"} \/ Awaits(s, o)
    \/ ~Unserved(o)
    \/ co[o].pc = "wait"
Claimed == \A o \in Objs : pool[o[1]] = o => InHand(o)

\* Nobody queues at an empty pool that is not being set up.
NeverIdle == queue # {} /\ pool = EmptyPool => status \in Setup

\* A worker that is cancelled has begun.
NoFalseStart == \A t \in Tasks : wk[t].pc = "new" => ~wk[t].cancel

\* Whom the kill handler is after has begun, or has left for good.
Killed == {"kpublish", "kactor", "kpoll", "kcancel"}
Left(o) ==
    /\ Unserved(o) /\ pool[o[1]] # o
    /\ co[o].pc # "wait" /\ \A s \in Starts : ~Awaits(s, o)
Begun(o) == \E t \in Tasks : Serves(t, o) /\ wk[t].pc # "new"
KillAim ==
    co[Ops].pc \in Killed =>
        \E o \in Objs : co[Ops].obj = o /\ (Begun(o) \/ Left(o))

Watched == Claimed /\ NeverIdle /\ NoFalseStart /\ KillAim

\* This is enough.
LEMMA WatchedAttends ==
    ASSUME TInv, CInv, Watched
    PROVE  Attended
<1> SUFFICES ASSUME queue # {}
             PROVE  \/ \E t \in Tasks : wk[t].pc # "free"
                    \/ \E c \in Starts \cup Objs : co[c].pc # "idle"
  BY DEF Attended
<1>1. CASE pool = EmptyPool
  BY <1>1 DEF Watched, NeverIdle, CInv, SetupHasStart, Starting
<1>2. CASE pool # EmptyPool
  <2>1. PICK rid \in Rids : pool[rid] # None
    BY <1>2 DEF EmptyPool, TInv, FrontTyped
  <2>2. PICK o \in Objs : pool[o[1]] = o
    BY <2>1 DEF TInv, FrontTyped, CInv, Wrapped
  <2>3. InHand(o)
    BY <2>2 DEF Watched, Claimed
  <2> QED BY <2>3 DEF InHand, Awaits, Unserved, Serves
<1> QED BY <1>1, <1>2

\* The only coroutine that moves is a start() that begins.
OneBegins ==
    \A x \in Coros :
        \/ co'[x] = co[x]
        \/ x \in Starts /\ co[x].pc = "idle" /\ co'[x].pc = "get" /\ co'[x].res = {}

\* ensure_started() makes at most one start() begin.
LEMMA StartedBegins ==
    ASSUME TInv, NEW p, CanStart(p), co' = Started(p, co)
    PROVE  OneBegins
<1>1. CASE ~WillStart(p)
  BY <1>1 DEF Started, OneBegins
<1>2. CASE WillStart(p)
  <2>1. PICK s \in IdleStarts : s = CHOOSE x \in IdleStarts : TRUE
    BY <1>2 DEF CanStart
  <2>2. s \in Starts /\ co[s].pc = "idle" /\ co' = [co EXCEPT ![s] = [Idle EXCEPT !.pc = "get"]]
    BY <1>2, <2>1 DEF Started, IdleStarts
  <2> QED BY <2>2 DEF OneBegins, TInv, CorosTyped, Idle
<1> QED BY <1>1, <1>2

\* What a start() that begins leaves as it was.
LEMMA BeginningSpares ==
    ASSUME OneBegins
    PROVE  /\ \A o \in Objs : co'[o] = co[o]
           /\ co'[Ops] = co[Ops]
           /\ \A s \in Starts : /\ \A o \in Objs : Awaits(s, o)' <=> Awaits(s, o)
                                /\ co'[s].pc \in {"deploying", "pbcast"}
                                      <=> co[s].pc \in {"deploying", "pbcast"}
<1>1. \A o \in Objs : o \in Coros /\ o \notin Starts
  BY ConstantsAssumption DEF Coros
<1>2. \A s \in Starts : s \in Coros
  BY DEF Coros
<1> QED BY <1>1, <1>2, StartIsNotNamed DEF OneBegins, Awaits

\* ensure_started() attends to an empty pool.
LEMMA StartedNeverIdle ==
    ASSUME status' = StatusStarted(pool')
    PROVE  NeverIdle'
BY DEF StatusStarted, WillStart, NeverIdle, Setup

\* The kill handler's aim holds while its replica stays begun or gone.
LEMMA AimKept ==
    ASSUME KillAim,
           co'[Ops].pc \in Killed =>
              co[Ops].pc \in Killed /\ co'[Ops].obj = co[Ops].obj,
           \A o \in Objs :
              /\ co[Ops].obj = o /\ co[Ops].pc \in Killed
              /\ Begun(o) \/ Left(o)
              => Begun(o)' \/ Left(o)'
    PROVE  KillAim'
BY DEF KillAim

\* A worker stays with its replica.
StaysOn(t) ==
    /\ OthersKept(t) /\ wk'[t].pc \notin {"free", "new"} /\ wk'[t].obj = wk[t].obj
    /\ pool' = pool
    /\ OneBegins
    /\ NeverIdle'

\* A step of a worker that stays leaves everything attended to.
LEMMA StayingWatched ==
    ASSUME TInv, CInv, Watched, NEW t \in Tasks, wk[t].pc # "free", StaysOn(t)
    PROVE  Watched'
<1> USE DEF StaysOn, Watched
<1>1. \A u \in Tasks, o \in Objs : Serves(u, o)' <=> Serves(u, o)
  BY DEF Serves, OthersKept
<1>2. \A o \in Objs : Unserved(o)' <=> Unserved(o)
  BY <1>1 DEF Unserved
<1>3. Claimed'
  BY <1>2, BeginningSpares DEF Claimed, InHand
<1>4. NoFalseStart'
  BY DEF NoFalseStart, OthersKept
<1>5. KillAim'
  <2>1. co'[Ops] = co[Ops]
    BY BeginningSpares
  <2>2. \A o \in Objs : Begun(o) => Begun(o)'
    BY <1>1 DEF Begun, OthersKept
  <2>3. \A o \in Objs : Left(o) => Left(o)'
    BY <1>2, BeginningSpares DEF Left
  <2> QED BY <2>1, <2>2, <2>3, AimKept
<1> QED BY <1>3, <1>4, <1>5

\* A worker leaves, its replica with it.
LEMMA ExitWatched ==
    ASSUME TInv, CInv, Watched, NEW t \in Tasks, wk[t].pc # "free", NEW cur,
           Exit(t, cur)
    PROVE  Watched'
<1> USE DEF Watched
<1>o. /\ wk[t].obj \in Objs /\ Serves(t, wk[t].obj) /\ Registered
      /\ \A o \in Objs : o[1] \in Rids /\ o # None
      /\ status \notin Setup
  BY ConstantsAssumption
  DEF TInv, WorkersTyped, Serves, Objs, CInv, Served, SetupAlone
<1>1. OthersKept(t) /\ wk'[t].pc = "free"
  BY DEF Exit, OthersKept, TInv, WorkersTyped, FreeTask
<1>2. pool' = [pool EXCEPT ![wk[t].obj[1]] = None] /\ queue' = queue
  BY DEF Exit
<1>3. OneBegins
  <2>1. CASE queue = {}
    BY <2>1 DEF Exit, OneBegins
  <2>2. CASE queue # {}
    <3>1. PICK p : CanStart(p) /\ co' = Started(p, co)
      BY <2>2 DEF Exit
    <3> QED BY <3>1, StartedBegins
  <2> QED BY <2>1, <2>2
<1>4. \A u \in Tasks, o \in Objs : Serves(u, o)' <=> Serves(u, o) /\ u # t
  BY <1>1 DEF Serves, OthersKept
<1>5. \A o \in Objs : pool'[o[1]] = o => o # wk[t].obj /\ pool[o[1]] = o
  BY <1>o, <1>2 DEF TInv, FrontTyped
<1>6. \A o \in Objs : o # wk[t].obj => (Unserved(o)' <=> Unserved(o))
  BY <1>4, <1>o DEF Unserved, Serves
<1>7. Claimed'
  BY <1>3, <1>5, <1>6, BeginningSpares DEF Claimed, InHand
<1>8. NeverIdle'
  <2>1. CASE queue = {}
    BY <1>2, <2>1 DEF NeverIdle
  <2>2. CASE queue # {}
    BY <1>2, <2>2, StartedNeverIdle DEF Exit
  <2> QED BY <2>1, <2>2
<1>9. NoFalseStart'
  BY <1>1 DEF NoFalseStart, OthersKept
<1>w. PICK w \in Objs : w = wk[t].obj
  BY <1>o
<1>10. Left(w)'
  <2>1. Unserved(w)'
    BY <1>o, <1>w, <1>4 DEF Registered, Unserved
  <2>2. pool'[w[1]] # w
    BY <1>o, <1>w, <1>2 DEF TInv, FrontTyped
  <2>3. co[w].pc # "wait" /\ \A s \in Starts : ~Awaits(s, w)
    BY <1>o, <1>w, WaitedFor DEF Unserved
  <2>4. co'[w].pc # "wait" /\ \A s \in Starts : ~Awaits(s, w)'
    BY <1>3, <2>3, BeginningSpares
  <2> QED BY <2>1, <2>2, <2>4 DEF Left
<1>11. KillAim'
  <2>1. co'[Ops] = co[Ops]
    BY <1>3, BeginningSpares
  <2>2. \A o \in Objs : Begun(o) => Begun(o)' \/ Left(o)'
    <3> SUFFICES ASSUME NEW o \in Objs, Begun(o), ~Left(o)' PROVE Begun(o)'
      OBVIOUS
    <3>1. PICK u \in Tasks : Serves(u, o) /\ wk[u].pc # "new"
      BY DEF Begun
    <3>2. u # t
      BY <1>10, <1>w, <3>1 DEF Serves
    <3> QED BY <1>1, <1>4, <3>1, <3>2 DEF Begun, OthersKept
  <2>3. \A o \in Objs : Left(o) => Left(o)'
    <3> SUFFICES ASSUME NEW o \in Objs, Left(o) PROVE Left(o)'
      OBVIOUS
    <3>1. o # wk[t].obj
      BY <1>o DEF Left, Unserved
    <3>2. pool'[o[1]] # o
      BY <1>5 DEF Left
    <3> QED BY <1>3, <1>6, <3>1, <3>2, BeginningSpares DEF Left
  <2> QED BY <2>1, <2>2, <2>3, AimKept
<1> QED BY <1>7, <1>8, <1>9, <1>11

\* One turn of the worker loop.
LEMMA HandBackWatched ==
    ASSUME TInv, CInv, Watched, NEW t \in Tasks, wk[t].pc # "free",
           NEW r, NEW q, HandBack(t, r, q)
    PROVE  Watched'
<1>1. wk' = Moved(t, "requeue", r) /\ pool' = pool
      /\ CanStart(pool) /\ co' = Started(pool, co) /\ status' = StatusStarted(pool)
  BY DEF HandBack
<1>2. OthersKept(t) /\ wk'[t].pc = "requeue" /\ wk'[t].obj = wk[t].obj
  BY <1>1 DEF OthersKept, TInv, Moved, WorkersTyped
<1>3. OneBegins
  BY <1>1, StartedBegins
<1>4. NeverIdle'
  BY <1>1, StartedNeverIdle
<1> QED BY <1>1, <1>2, <1>3, <1>4, StayingWatched DEF StaysOn

\* It goes on to its next await.
LEMMA MovedWatched ==
    ASSUME TInv, CInv, Watched, NEW t \in Tasks, wk[t].pc # "free",
           NEW pc, pc \notin {"free", "new"}, NEW r, wk' = Moved(t, pc, r),
           UNCHANGED <<pool, status, co>>, queue' \subseteq queue
    PROVE  Watched'
<1>1. OthersKept(t) /\ wk'[t].pc = pc /\ wk'[t].obj = wk[t].obj
  BY DEF OthersKept, TInv, Moved, WorkersTyped
<1>2. OneBegins /\ NeverIdle'
  BY DEF OneBegins, NeverIdle, Watched
<1> QED BY <1>1, <1>2, StayingWatched DEF StaysOn

\* It takes a request, or hands it back.
LEMMA TakeWatched ==
    ASSUME TInv, CInv, Watched, NEW t \in Tasks, wk[t].pc # "free", Take(t)
    PROVE  Watched'
<1>1. PICK e \in Foremost(queue) :
        \/ HandBack(t, e.req, queue \ {e})
        \/ /\ queue' = queue \ {e} /\ wk' = Moved(t, "disp", e.req)
           /\ UNCHANGED <<pool, status, co>>
  BY DEF Take
<1>2. CASE HandBack(t, e.req, queue \ {e})
  BY <1>2, HandBackWatched
<1>3. CASE /\ queue' = queue \ {e} /\ wk' = Moved(t, "disp", e.req)
           /\ UNCHANGED <<pool, status, co>>
  BY <1>3, MovedWatched
<1> QED BY <1>1, <1>2, <1>3

\* One turn of the worker loop.
LEMMA LoopWatched ==
    ASSUME TInv, CInv, Watched, NEW t \in Tasks, wk[t].pc # "free", NEW cur,
           Loop(t, cur)
    PROVE  Watched'
<1>1. CASE Exit(t, cur)
  BY <1>1, ExitWatched
<1>2. CASE Take(t)
  BY <1>2, TakeWatched
<1>3. CASE wk' = Moved(t, "get", None) /\ UNCHANGED <<queue, pool, status, co>>
  BY <1>3, MovedWatched
<1> QED BY <1>1, <1>2, <1>3 DEF Loop

\* The worker's own steps.
LEMMA WorkerStepWatched ==
    ASSUME TInv, CInv, Watched, NEW t \in Tasks, WorkerStep(t)
    PROVE  Watched'
<1>b. wk[t].pc # "free"
  BY DEF WorkerStep, WorkerBegins, WorkerWakes, Dispatched, WorkerDone,
         WorkerEvicted, WorkerHandedBack, WorkerFailed, WorkerParks, WorkerUnparks,
         CancelledUnstarted, CancelledWaiting, CancelledDispatch, WorkerCancelling,
         Runnable, InDispatch
<1>1. CASE \/ WorkerBegins(t) \/ WorkerDone(t) \/ WorkerHandedBack(t)
           \/ WorkerFailed(t) \/ WorkerUnparks(t) \/ CancelledWaiting(t)
           \/ WorkerCancelling(t)
  <2>1. \E cur : Loop(t, cur) \/ Exit(t, cur)
    BY <1>1 DEF WorkerBegins, WorkerDone, WorkerHandedBack, WorkerFailed,
                WorkerUnparks, CancelledWaiting, WorkerCancelling
  <2> QED BY <1>b, <2>1, LoopWatched, ExitWatched
<1>2. CASE WorkerWakes(t)
  BY <1>b, <1>2, TakeWatched DEF WorkerWakes
<1>3. CASE Dispatched(t) \/ WorkerParks(t) \/ CancelledDispatch(t)
  <2>1. PICK pc \in {"run", "park", "cancelling"} : wk' = Moved(t, pc, wk[t].req)
    BY <1>3 DEF Dispatched, WorkerParks, CancelledDispatch
  <2>2. UNCHANGED <<queue, pool, status, co>>
    BY <1>3 DEF Dispatched, WorkerParks, CancelledDispatch, front
  <2> QED BY <1>b, <2>1, <2>2, MovedWatched
<1>4. CASE WorkerEvicted(t)
  BY <1>b, <1>4, HandBackWatched DEF WorkerEvicted
<1>5. CASE CancelledUnstarted(t)
  BY <1>5 DEF CancelledUnstarted, Watched, NoFalseStart
<1> QED BY <1>1, <1>2, <1>3, <1>4, <1>5 DEF WorkerStep

\* The pool, its workers and all waits stay as they are.
NobodyMoves ==
    /\ pool' = pool
    /\ \A t \in Tasks :
          /\ wk'[t].pc = "free" <=> wk[t].pc = "free"
          /\ wk'[t].pc = "new" <=> wk[t].pc = "new"
          /\ wk'[t].obj = wk[t].obj
    /\ \A s \in Starts : /\ \A o \in Objs : Awaits(s, o)' <=> Awaits(s, o)
                         /\ co'[s].pc \in {"deploying", "pbcast"}
                               <=> co[s].pc \in {"deploying", "pbcast"}
    /\ \A o \in Objs : co'[o].pc = "wait" <=> co[o].pc = "wait"

\* Where nobody moves, whoever was with a replica still is.
LEMMA NobodyMovesClaimed ==
    ASSUME TInv, CInv, Watched, NobodyMoves
    PROVE  /\ Claimed'
           /\ \A o \in Objs : Begun(o) \/ Left(o) => Begun(o)' \/ Left(o)'
<1> USE DEF Watched, NobodyMoves
<1>1. \A u \in Tasks, o \in Objs : Serves(u, o)' <=> Serves(u, o)
  BY DEF Serves
<1>2. \A o \in Objs : Unserved(o)' <=> Unserved(o)
  BY <1>1 DEF Unserved
<1>3. Claimed'
  BY <1>2 DEF Claimed, InHand
<1>4. \A o \in Objs : Begun(o) => Begun(o)'
  BY <1>1 DEF Begun
<1>5. \A o \in Objs : Left(o) => Left(o)'
  BY <1>2 DEF Left
<1> QED BY <1>3, <1>4, <1>5

\* The steps that move neither a worker nor a start() nor an adopt().
LEMMA BystandersWatched ==
    ASSUME TInv, CInv, Watched, NobodyMoves, NeverIdle', NoFalseStart',
           co'[Ops].pc \in Killed =>
              co[Ops].pc \in Killed /\ co'[Ops].obj = co[Ops].obj
    PROVE  Watched'
BY NobodyMovesClaimed, AimKept DEF Watched

\* What an actor does to its workers.
LEMMA ActorsWatched ==
    ASSUME TInv, CInv, Watched,
           \/ \E t \in Tasks : ActorRestarts(t) \/ RunStep(t)
           \/ \E rid \in Rids : \/ ActorLoads(rid) \/ ActorLoadFails(rid)
                                \/ ActorDemoted(rid) \/ ActorDies(rid)
                                \/ OperatorDeploys(rid)
           \/ \E x \in orphans : OrphanEnds(x)
    PROVE  Watched'
<1>1. UNCHANGED <<queue, pool, status, co>>
  BY DEF ActorRestarts, RunStep, RunBegins, RunRejected, RunEnds, ActorLoads,
         ActorLoadFails, ActorDemoted, ActorDies, OperatorDeploys, OrphanEnds, front
<1>2. ASSUME NEW S, NEW pc \in InDispatch, wk' = Becomes(S, pc),
             \A t \in S : t \in Tasks => wk[t].pc \in InDispatch
      PROVE  \A t \in Tasks :
                /\ wk'[t].pc = "free" <=> wk[t].pc = "free"
                /\ wk'[t].pc = "new" <=> wk[t].pc = "new"
                /\ wk'[t].obj = wk[t].obj
                /\ wk'[t].cancel = wk[t].cancel
  BY <1>2 DEF Becomes, InDispatch, TInv, WorkersTyped, WorkerRecs
<1>3. \/ wk' = wk
      \/ \E S : \E pc \in InDispatch :
            /\ wk' = Becomes(S, pc)
            /\ \A t \in S : t \in Tasks => wk[t].pc \in InDispatch
  BY ActorsBecome
<1>4. \A t \in Tasks :
        /\ wk'[t].pc = "free" <=> wk[t].pc = "free"
        /\ wk'[t].pc = "new" <=> wk[t].pc = "new"
        /\ wk'[t].obj = wk[t].obj
        /\ wk'[t].cancel = wk[t].cancel
  BY <1>2, <1>3
<1>5. NobodyMoves
  BY <1>1, <1>4 DEF NobodyMoves, Awaits
<1>6. NeverIdle' /\ NoFalseStart'
  BY <1>1, <1>4 DEF NeverIdle, NoFalseStart, Watched
<1> QED BY <1>1, <1>5, <1>6, BystandersWatched

\* The kill handler cancels a worker that has begun.
LEMMA CancelsBegun ==
    ASSUME TInv, CInv, Watched, KillCancels
    PROVE  Watched'
<1>n. /\ co \in [Coros -> CoroRecs] /\ Ops \in Coros
      /\ \A x \in Starts \cup Objs : x \in Coros /\ x # Ops
  BY ConstantsAssumption DEF TInv, CorosTyped, Coros
<1>1. PICK o \in Objs : co[Ops].obj = o /\ (Begun(o) \/ Left(o))
  BY DEF KillCancels, Watched, KillAim, Killed
<1>2. /\ wk' = Cancelled(wk, {o}) /\ co'[Ops] = Idle
      /\ \A x \in Starts \cup Objs : co'[x] = co[x]
      /\ UNCHANGED <<queue, pool, status>>
  BY <1>n, <1>1 DEF KillCancels, front
<1>3. \A t \in Tasks : wk'[t].pc = wk[t].pc /\ wk'[t].obj = wk[t].obj
  BY <1>2, CancelledTyped DEF TInv, WorkersTyped
<1>4. ASSUME NEW t \in Tasks, wk[t].pc = "new" PROVE wk'[t] = wk[t]
  <2>1. task[o] # t
    <3>1. ASSUME task[o] = t PROVE FALSE
      <4>1. Serves(t, o)
        BY <3>1 DEF CInv, Served, Employed
      <4> QED BY <1>1, <1>4, <4>1 DEF Begun, Left, Unserved, CInv, Served, Registered
    <3> QED BY <3>1
  <2> QED BY <1>2, <2>1 DEF Cancelled
<1>5. NobodyMoves
  BY <1>2, <1>3 DEF NobodyMoves, Awaits
<1>6. NeverIdle' /\ NoFalseStart'
  BY <1>2, <1>3, <1>4 DEF NeverIdle, NoFalseStart, Watched
<1> QED BY <1>2, <1>5, <1>6, BystandersWatched DEF Idle, Killed

\* The dispatch loop and the kill handler.
LEMMA OpsWatched ==
    ASSUME TInv, CInv, Watched,
           \/ \E r \in Requests : Enqueue(r) \/ Kill(r)
           \/ Acknowledge \/ KillTold \/ KillActor \/ KillPolled \/ KillCancels
           \/ Reconcile
    PROVE  Watched'
<1>n. /\ co \in [Coros -> CoroRecs] /\ Disp \in Coros /\ Ops \in Coros /\ Disp # Ops
      /\ \A x \in Starts \cup Objs : x \in Coros /\ x # Disp /\ x # Ops
  BY ConstantsAssumption DEF TInv, CorosTyped, Coros
<1>1. ASSUME NEW r \in Requests, Enqueue(r) PROVE Watched'
  <2>1. PICK rec : rec = [Idle EXCEPT !.pc = "ack", !.req = r]
    OBVIOUS
  <2>2. rec \in CoroRecs
    BY <2>1 DEF Idle, CoroRecs, CPcs
  <2>3. PICK cc : cc = [co EXCEPT ![Disp] = rec]
    OBVIOUS
  <2>4. cc \in [Coros -> CoroRecs] /\ \A x \in Starts \cup Objs \cup {Ops} : cc[x] = co[x]
    BY <1>n, <2>2, <2>3
  <2>5. /\ CanStart(pool') /\ co' = Started(pool', cc)
        /\ status' = StatusStarted(pool')
        /\ UNCHANGED <<pool, wk>>
    BY <1>1, <2>1, <2>3 DEF Enqueue
  <2>6. \A x \in Starts \cup Objs \cup {Ops} :
           \/ co'[x] = co[x]
           \/ x \in Starts /\ co[x].pc = "idle" /\ co'[x].pc = "get"
    <3>1. CASE ~WillStart(pool')
      BY <2>4, <2>5, <3>1 DEF Started
    <3>2. CASE WillStart(pool')
      <4>1. PICK s \in IdleStarts : s = CHOOSE x \in IdleStarts : TRUE
        BY <2>5, <3>2 DEF CanStart
      <4>2. /\ s \in Starts /\ co[s].pc = "idle"
            /\ co' = [cc EXCEPT ![s] = [Idle EXCEPT !.pc = "get"]]
        BY <2>5, <3>2, <4>1 DEF Started, IdleStarts
      <4> QED BY <1>n, <2>4, <4>2 DEF Idle
    <3> QED BY <3>1, <3>2
  <2>7. NobodyMoves
    BY <2>5, <2>6, ConstantsAssumption DEF NobodyMoves, Awaits
  <2>8. NeverIdle' /\ NoFalseStart'
    BY <2>5, StartedNeverIdle DEF NoFalseStart, Watched
  <2> QED BY <2>6, <2>7, <2>8, StartIsNotNamed, BystandersWatched
<1>2. ASSUME NEW r \in Requests, Kill(r) PROVE Watched'
  <2>1. /\ queue' \subseteq queue /\ UNCHANGED <<pool, status, wk>>
        /\ \A x \in Starts \cup Objs : co'[x] = co[x]
    <3>1. \E rec : co' = [co EXCEPT ![Ops] = rec]
      BY <1>2 DEF Kill
    <3>2. UNCHANGED <<pool, status, wk>>
      BY <1>2 DEF Kill
    <3>3. queue' \subseteq queue
      BY <1>2 DEF Kill, Remove
    <3> QED BY <1>n, <3>1, <3>2, <3>3
  <2>2. NobodyMoves
    BY <2>1 DEF NobodyMoves, Awaits
  <2>3. NeverIdle' /\ NoFalseStart'
    BY <2>1 DEF NeverIdle, NoFalseStart, Watched
  <2>4. KillAim'
    <3>1. CASE r \in Queued(queue)
      BY <1>n, <1>2, <3>1 DEF Kill, KillAim, Killed, Idle
    <3>2. CASE r \notin Queued(queue)
      <4>1. PICK o \in PoolObjs :
              /\ current[o] = r
              /\ co' = [co EXCEPT ![Ops] =
                           [Idle EXCEPT !.pc = "kpublish", !.obj = o, !.req = r]]
        BY <1>2, <3>2 DEF Kill
      <4>2. o \in Objs /\ r # None
        BY ConstantsAssumption DEF PoolObjs, TInv, FrontTyped
      <4>3. Begun(o)
        BY <4>1, <4>2 DEF CInv, Served, Occupied, Begun
      <4>4. Begun(o)'
        BY <2>1, <4>3 DEF Begun, Serves
      <4>5. co'[Ops].obj = o
        BY <1>n, <4>1 DEF Idle
      <4> QED BY <4>2, <4>4, <4>5 DEF KillAim
    <3> QED BY <3>1, <3>2
  <2> QED BY <2>2, <2>3, <2>4, NobodyMovesClaimed DEF Watched
<1>3. CASE Acknowledge \/ KillTold \/ KillPolled \/ Reconcile
  <2>1. /\ UNCHANGED <<queue, pool, status, wk>>
        /\ \A x \in Starts \cup Objs : co'[x] = co[x]
    <3>1. CASE Acknowledge
      BY <1>n, <3>1 DEF Acknowledge, front
    <3>2. CASE KillTold \/ KillPolled \/ Reconcile
      BY <1>n, <1>3, <3>2 DEF KillTold, KillPolled, Reconcile, front
    <3> QED BY <1>3, <3>1, <3>2
  <2>2. co'[Ops].pc \in Killed =>
           co[Ops].pc \in Killed /\ co'[Ops].obj = co[Ops].obj
    <3>1. CASE Acknowledge
      BY <1>n, <3>1 DEF Acknowledge
    <3>2. CASE KillTold \/ KillPolled \/ Reconcile
      BY <1>n, <3>2 DEF KillTold, KillPolled, Reconcile, Killed, Idle, CoroRecs
    <3> QED BY <1>3, <3>1, <3>2
  <2>3. NobodyMoves
    BY <2>1 DEF NobodyMoves, Awaits
  <2>4. NeverIdle' /\ NoFalseStart'
    BY <2>1 DEF NeverIdle, NoFalseStart, Watched
  <2> QED BY <2>2, <2>3, <2>4, BystandersWatched
<1>4. CASE KillActor
  <2>1. /\ UNCHANGED <<queue, pool, status>>
        /\ \A x \in Starts \cup Objs : co'[x] = co[x]
        /\ co[Ops].pc \in Killed /\ co'[Ops].obj = co[Ops].obj
    BY <1>n, <1>4 DEF KillActor, front, Killed, CoroRecs
  <2>2. \/ wk' = wk
        \/ \E rid : \E t \in At(rid, "exec") : wk' = Becomes({t}, "ok")
    BY <1>4 DEF KillActor
  <2>3. ASSUME NEW rid, NEW t \in At(rid, "exec"), wk' = Becomes({t}, "ok")
        PROVE  \A u \in Tasks :
                 /\ wk'[u].obj = wk[u].obj /\ wk'[u].cancel = wk[u].cancel
                 /\ wk'[u].pc = IF u = t THEN "ok" ELSE wk[u].pc
    BY <2>3 DEF Becomes, TInv, WorkersTyped, WorkerRecs
  <2>4. \A rid : \A t \in At(rid, "exec") : wk[t].pc = "exec"
    BY DEF At
  <2>5. \A t \in Tasks :
          /\ wk'[t].pc = "free" <=> wk[t].pc = "free"
          /\ wk'[t].pc = "new" <=> wk[t].pc = "new"
          /\ wk'[t].obj = wk[t].obj
          /\ wk'[t].cancel = wk[t].cancel
    BY <2>2, <2>3, <2>4
  <2>6. NobodyMoves
    BY <2>1, <2>5 DEF NobodyMoves, Awaits
  <2>7. NeverIdle' /\ NoFalseStart'
    BY <2>1, <2>5 DEF NeverIdle, NoFalseStart, Watched
  <2> QED BY <2>1, <2>6, <2>7, BystandersWatched
<1> QED BY <1>1, <1>2, <1>3, <1>4, CancelsBegun

\* The controller's answers.
LEMMA ControllerWatched ==
    ASSUME TInv, CInv, Watched, \E c \in Starts \cup {Ops} : ControllerStep(c)
    PROVE  Watched'
<1>1. PICK c \in Starts \cup {Ops} : ControllerStep(c)
  OBVIOUS
<1>2. /\ UNCHANGED <<queue, pool, status, wk>>
      /\ co[c].pc \in Early /\ co'[c].pc \in Early
      /\ \A x \in Coros \ {c} : co'[x] = co[x]
  <2>1. c \in Coros /\ co \in [Coros -> CoroRecs]
    BY StartIsNotNamed DEF Coros, TInv, CorosTyped
  <2>2. CASE ScaleServed(c)
    <3>1. PICK rid : co' = [co EXCEPT ![c] = [Idle EXCEPT !.pc = "scaled", !.res = {rid}]]
      BY <2>2 DEF ScaleServed
    <3> QED BY <2>1, <2>2, <3>1 DEF ScaleServed, Early, Idle, front
  <2> QED
    BY <1>1, <2>1, <2>2
    DEF ControllerStep, Listed, ScaleRefused, Early, Idle, front
<1>3. NobodyMoves
  <2>1. \A s \in Starts : co'[s] = co[s] \/ (co[s].pc \in Early /\ co'[s].pc \in Early)
    BY <1>2 DEF Coros
  <2>2. \A o \in Objs : co'[o] = co[o]
    BY <1>2, ConstantsAssumption DEF Coros
  <2> QED BY <1>2, <2>1, <2>2 DEF NobodyMoves, Awaits, Early
<1>4. NeverIdle' /\ NoFalseStart'
  BY <1>2 DEF NeverIdle, NoFalseStart, Watched
<1>5. co'[Ops].pc \in Killed =>
         co[Ops].pc \in Killed /\ co'[Ops].obj = co[Ops].obj
  BY <1>2, StartIsNotNamed DEF Killed, Early
<1> QED BY <1>3, <1>4, <1>5, BystandersWatched

\* reconcile() waits for what it registers.
LEMMA ReconciledWatched ==
    ASSUME TInv, CInv, Watched, Reconciled
    PROVE  Watched'
<1>n. /\ co \in [Coros -> CoroRecs] /\ Ops \in Coros
      /\ \A x \in Starts \cup Objs : x \in Coros /\ x # Ops
      /\ Starts \cap Objs = {}
      /\ \A o \in Objs : o[1] \in Rids /\ o # None
  BY ConstantsAssumption DEF TInv, CorosTyped, Coros, Objs
<1>0. UNCHANGED <<queue, wk, status>> /\ co'[Ops] = Idle
  BY <1>n DEF Reconciled
<1>1. PICK gained :
        /\ gained \subseteq Rids /\ \A rid \in gained : pool[rid] = None
        /\ \A rid \in gained : CanWrap(rid)
        /\ pool' = [rid \in Rids |->
                      IF rid \in gained THEN NewReplica(rid) ELSE pool[rid]]
        /\ co' = [c \in Coros |->
                    IF c = Ops THEN Idle
                    ELSE IF \E rid \in gained : c = NewReplica(rid)
                    THEN [Idle EXCEPT !.pc = "wait"]
                    ELSE co[c]]
  <2>1. PICK gained : gained = IF status \in Setup THEN {}
                               ELSE {rid \in co[Ops].res : pool[rid] = None}
    OBVIOUS
  <2>2. gained \subseteq Rids /\ \A rid \in gained : pool[rid] = None
    BY <1>n, <2>1 DEF CoroRecs
  <2> QED BY <2>1, <2>2 DEF Reconciled
<1>2. \A rid \in gained : NewReplica(rid) \in Objs /\ NewReplica(rid)[1] = rid
  BY <1>1, NewReplicaTyped DEF NewReplica
<1>3. \A s \in Starts : co'[s] = co[s]
  BY <1>n, <1>1, <1>2
<1>4. ASSUME NEW o \in Objs
      PROVE  \/ co'[o] = co[o] /\ (pool'[o[1]] = o => pool[o[1]] = o)
             \/ co'[o].pc = "wait"
  <2>1. CASE \E rid \in gained : o = NewReplica(rid)
    BY <1>n, <1>1, <2>1 DEF Idle
  <2>2. CASE ~\E rid \in gained : o = NewReplica(rid)
    BY <1>n, <1>1, <2>2
  <2> QED BY <2>1, <2>2
<1>5. Claimed'
  BY <1>0, <1>3, <1>4 DEF Watched, Claimed, InHand, Unserved, Serves, Awaits
<1>6. NeverIdle'
  <2>1. pool' = EmptyPool => pool = EmptyPool
    <3>1. ASSUME pool' = EmptyPool, NEW rid \in gained PROVE FALSE
      BY <1>n, <1>1, <1>2, <3>1 DEF EmptyPool
    <3> QED BY <1>1, <3>1 DEF TInv, FrontTyped, EmptyPool
  <2> QED BY <1>0, <2>1 DEF Watched, NeverIdle
<1>7. NoFalseStart' /\ KillAim'
  BY <1>0 DEF Watched, NoFalseStart, KillAim, Killed, Idle
<1> QED BY <1>5, <1>6, <1>7 DEF Watched

\* Without an operator there is one replica at most, and whoever sets it up is
\* alone with it.
Lone(S) == \A i, j \in S : i = j
Single ==
    /\ budget["deploy"] = 0 /\ budget["reconcile"] = 0
    /\ Lone(hot)
    /\ \A s \in Starts :
          /\ Lone(co[s].res)
          /\ co[s].pc = "got" /\ co[s].res = {} => hot = {}
          /\ co[s].pc = "scale" => hot = {}
          /\ co[s].pc = "wait" => status = "DEPLOYING"
    /\ \A i, j \in Rids : pool[i] # None /\ pool[j] # None => i = j
    /\ \A o \in Objs : co[o].pc # "wait"
    /\ co[Ops].pc \notin {"get", "got"}

\* Without losses every actor that the dispatcher knows of is there.
Steady ==
    /\ budget["evict"] = 0 /\ budget["crash"] = 0 /\ budget["loadfail"] = 0
    /\ \A rid \in hot : actor[rid] \notin Gone
    /\ \A c \in Coros : \A rid \in co[c].res : actor[rid] \notin Gone
    /\ \A rid \in Rids : pool[rid] # None => actor[rid] \notin Gone

Firm == Single \/ Steady

\* A replica that was waited for gets its worker.
LEMMA SpawnWatched ==
    ASSUME TInv, CInv, Watched, NEW o \in Objs, Spawn(o), pool' = pool,
           pool[o[1]] = o, Unserved(o),
           co[o].pc = "wait" \/ \E s \in Starts : Awaits(s, o),
           \A p \in Objs : p # o /\ pool[p[1]] = p /\ Unserved(p) => InHand(p)',
           \A p \in Objs : Left(p) => co'[p].pc # "wait" /\ \A s \in Starts : ~Awaits(s, p)',
           co'[Ops] = co[Ops]
    PROVE  Watched'
<1>1. PICK n \in Tasks :
        /\ wk[n].pc = "free" /\ wk'[n].pc = "new" /\ wk'[n].obj = o
        /\ ~wk'[n].cancel /\ OthersKept(n)
  BY SpawnMoves
<1>2. \A t \in Tasks, p \in Objs :
         Serves(t, p)' <=> (Serves(t, p) /\ t # n) \/ (t = n /\ p = o)
  BY <1>1 DEF Serves, OthersKept
<1>3. Claimed'
  <2> SUFFICES ASSUME NEW p \in Objs, pool[p[1]] = p PROVE InHand(p)'
    BY DEF Claimed
  <2>1. CASE p = o
    BY <1>2, <2>1 DEF InHand, Unserved
  <2>2. CASE p # o /\ ~Unserved(p)
    BY <1>1, <1>2, <2>2 DEF InHand, Unserved, Serves
  <2> QED BY <2>1, <2>2
<1>4. NeverIdle'
  <2>1. pool # EmptyPool
    BY NotEmpty
  <2> QED BY <2>1 DEF NeverIdle
<1>5. NoFalseStart'
  BY <1>1 DEF NoFalseStart, OthersKept, Watched
<1>6. KillAim'
  <2>1. \A p \in Objs : Begun(p) => Begun(p)'
    <3> SUFFICES ASSUME NEW p \in Objs, NEW t \in Tasks, Serves(t, p), wk[t].pc # "new"
                 PROVE  Begun(p)'
      BY DEF Begun
    <3>1. t # n
      BY <1>1 DEF Serves
    <3> QED BY <1>1, <1>2, <3>1 DEF Begun, OthersKept
  <2>2. \A p \in Objs : Left(p) => Left(p)'
    <3> SUFFICES ASSUME NEW p \in Objs, Left(p) PROVE Left(p)'
      OBVIOUS
    <3>1. p # o
      BY DEF Left
    <3> QED BY <1>2, <3>1 DEF Left, Unserved
  <2> QED BY <2>1, <2>2, AimKept DEF Watched
<1> QED BY <1>3, <1>4, <1>5, <1>6 DEF Watched

\* A replica is adopted; none is given up.
LEMMA AdoptWatched ==
    ASSUME TInv, CInv, Watched, Firm, NEW o \in Objs, AdoptStep(o)
    PROVE  Watched'
<1>n. /\ co \in [Coros -> CoroRecs] /\ o \in Coros /\ o # Ops /\ Ops \in Coros
      /\ \A s \in Starts : s \in Coros /\ s # o
      /\ \A p \in Objs : p[1] \in Rids /\ p # None /\ p \in Coros
  BY ConstantsAssumption DEF TInv, CorosTyped, Coros, Objs
<1>s. \E rec : co' = [co EXCEPT ![o] = rec]
  <2>1. CASE AdoptReady(o) \/ AdoptFails(o) \/ Broadcasted(o)
    BY <2>1 DEF AdoptReady, AdoptFails, Broadcasted
  <2>2. CASE Broadcast(o)
    <3>1. PICK e : co' = [co EXCEPT ![o].todo = @ \ {e}]
      BY <2>2 DEF Broadcast
    <3> QED BY <3>1
  <2> QED BY <2>1, <2>2 DEF AdoptStep
<1>k. \A x \in Coros \ {o} : co'[x] = co[x]
  BY <1>n, <1>s
<1>a. \A s \in Starts : co'[s] = co[s] /\ \A p \in Objs : Awaits(s, p)' <=> Awaits(s, p)
  BY <1>n, <1>k DEF Awaits
<1>1. CASE AdoptReady(o)
  <2>1. co[o].pc = "wait" /\ Spawn(o) /\ pool' = pool /\ co'[o] = Serving
    BY <1>n, <1>1 DEF AdoptReady
  <2>2. Serving.pc \in {"idle", "serving"}
    BY NextPhaseTyped DEF TInv, FrontTyped
  <2>3. pool[o[1]] = o /\ Unserved(o) /\ status \notin Setup
    BY <2>1 DEF CInv, AdoptionsAwait, SetupAlone
  <2>4. ASSUME NEW p \in Objs, p # o, pool[p[1]] = p, Unserved(p) PROVE InHand(p)'
    <3>1. InHand(p) /\ co'[p] = co[p]
      BY <1>n, <1>k, <2>4 DEF Watched, Claimed
    <3> QED BY <1>a, <2>4, <3>1 DEF InHand
  <2>5. \A p \in Objs : Left(p) => co'[p].pc # "wait" /\ \A s \in Starts : ~Awaits(s, p)'
    BY <1>n, <1>k, <1>a, <2>1 DEF Left
  <2> QED BY <1>n, <1>k, <2>1, <2>3, <2>4, <2>5, SpawnWatched
<1>2. CASE AdoptFails(o)
  <2>1. co[o].pc = "wait" /\ actor[o[1]] \in Gone /\ pool[o[1]] = o
    BY <1>2 DEF AdoptFails, CInv, AdoptionsAwait
  <2> QED BY <1>n, <2>1 DEF Firm, Single, Steady
<1>3. CASE Broadcast(o) \/ Broadcasted(o)
  <2>1. UNCHANGED <<queue, pool, status, wk>>
    BY <1>3 DEF Broadcast, Broadcasted, front
  <2>2. co'[o].pc # "wait" /\ co[o].pc # "wait"
    <3>1. CASE Broadcasted(o)
      <4>1. co[o].pc # "deploying"
        BY PlacesByName DEF CInv, Quiet, Coros
      <4> QED BY <1>n, <3>1, <4>1 DEF Broadcasted, Idle
    <3>2. CASE Broadcast(o)
      <4>1. PICK e : co' = [co EXCEPT ![o].todo = @ \ {e}]
        BY <3>2 DEF Broadcast
      <4> QED BY <1>n, <3>2, <4>1 DEF CoroRecs, Broadcast
    <3> QED BY <1>3, <3>1, <3>2
  <2>3. NobodyMoves
    BY <1>n, <1>k, <1>a, <2>1, <2>2 DEF NobodyMoves
  <2>4. NeverIdle' /\ NoFalseStart'
    BY <2>1 DEF NeverIdle, NoFalseStart, Watched
  <2> QED BY <1>n, <1>k, <2>3, <2>4, BystandersWatched
<1> QED BY <1>1, <1>2, <1>3 DEF AdoptStep

\* A start() goes on with the pool in its hands.
LEMMA StartMovesWatched ==
    ASSUME TInv, CInv, Watched, NEW s \in Starts,
           \A x \in Coros \ {s} : co'[x] = co[x],
           \A t \in Tasks : /\ wk'[t].pc = wk[t].pc /\ wk'[t].obj = wk[t].obj
                            /\ wk[t].pc = "new" => wk'[t].cancel = wk[t].cancel,
           \A o \in Objs : pool'[o[1]] = o => InHand(o)',
           NeverIdle',
           co'[s].pc = "wait" => \A o \in co'[s].objs : pool'[o[1]] = o,
           \A o \in Objs : co[Ops].obj = o /\ Left(o) => pool'[o[1]] # o
    PROVE  Watched'
<1>n. /\ Ops \in Coros /\ Ops # s
      /\ \A u \in Starts : u \in Coros
      /\ \A o \in Objs : o \in Coros /\ o # s
  BY ConstantsAssumption DEF Coros
<1>1. \A t \in Tasks, o \in Objs : Serves(t, o)' <=> Serves(t, o)
  BY DEF Serves
<1>2. NoFalseStart'
  BY DEF NoFalseStart, Watched
<1>3. \A o \in Objs : Begun(o) => Begun(o)'
  BY <1>1 DEF Begun
<1>4. \A o \in Objs : co[Ops].obj = o /\ Left(o) => Left(o)'
  <2> SUFFICES ASSUME NEW o \in Objs, co[Ops].obj = o, Left(o) PROVE Left(o)'
    OBVIOUS
  <2>1. pool'[o[1]] # o /\ Unserved(o)' /\ co'[o].pc # "wait"
    BY <1>n, <1>1 DEF Left, Unserved
  <2>2. \A u \in Starts : ~Awaits(u, o)'
    BY <1>n, <2>1 DEF Left, Awaits
  <2> QED BY <2>1, <2>2 DEF Left
<1>5. KillAim'
  BY <1>n, <1>3, <1>4, AimKept DEF Watched
<1> QED BY <1>2, <1>5 DEF Watched, Claimed

\* start() comes to the end of a wait; the other replicas are still waited for.
LEMMA StartReadyWatched ==
    ASSUME TInv, CInv, Watched, NEW s \in Starts, StartReady(s)
    PROVE  Watched'
<1>n. /\ s \in Coros /\ s # Ops /\ Ops \in Coros /\ co \in [Coros -> CoroRecs]
      /\ Starting(s)
      /\ \A p \in Objs : p \in Coros /\ p # s
      /\ \A u \in Starts : u \in Coros
  BY ConstantsAssumption DEF Coros, TInv, CorosTyped, Starting, StartReady
<1>1. PICK o \in co[s].objs :
        /\ Spawn(o)
        /\ co'[s] = IF co[s].objs = {o} THEN Serving
                    ELSE [Idle EXCEPT !.pc = "wait", !.objs = co[s].objs \ {o}]
        /\ \A x \in Coros \ {s} : co'[x] = co[x]
        /\ co[s].pc = "wait" /\ pool' = pool
  BY <1>n DEF StartReady
<1>2. o \in Objs /\ pool[o[1]] = o /\ Unserved(o) /\ Awaits(s, o)
  BY <1>n, <1>1 DEF CoroRecs, CInv, StartsAwait, Awaits
<1>3. \/ co'[s].pc \in {"idle", "serving"} /\ co[s].objs = {o}
      \/ co'[s].pc = "wait" /\ co'[s].objs = co[s].objs \ {o}
  <2>1. Serving.pc \in {"idle", "serving"}
    BY NextPhaseTyped DEF TInv, FrontTyped
  <2> QED BY <1>1, <2>1 DEF Idle
<1>4. \A u \in Starts \ {s} : ~Starting(u) /\ co'[u] = co[u]
  BY <1>n, <1>1 DEF CInv, OneStart
<1>5. ASSUME NEW p \in Objs, p # o, pool[p[1]] = p, Unserved(p) PROVE InHand(p)'
  <2>1. InHand(p) /\ co'[p] = co[p]
    BY <1>n, <1>1, <1>5 DEF Watched, Claimed
  <2>2. CASE co[p].pc = "wait"
    BY <2>1, <2>2 DEF InHand
  <2>3. CASE \E u \in Starts : co[u].pc \in {"deploying", "pbcast"} \/ Awaits(u, p)
    <3>1. Awaits(s, p)
      BY <1>1, <1>4, <2>3 DEF Starting, Awaits
    <3>2. Awaits(s, p)'
      BY <1>3, <1>5, <3>1 DEF Awaits
    <3> QED BY <3>2 DEF InHand
  <2> QED BY <1>5, <2>1, <2>2, <2>3 DEF InHand
<1>6. ASSUME NEW p \in Objs, Left(p)
      PROVE  co'[p].pc # "wait" /\ \A u \in Starts : ~Awaits(u, p)'
  <2>1. \A u \in Starts : Awaits(u, p)' => Awaits(u, p)
    BY <1>1, <1>3, <1>4 DEF Awaits
  <2> QED BY <1>n, <1>1, <1>6, <2>1 DEF Left
<1> QED BY <1>n, <1>1, <1>2, <1>5, <1>6, SpawnWatched

\* A purge during setup leaves an empty queue and an empty pool.
LEMMA ClearedWatched ==
    ASSUME TInv, CInv, Watched, NEW s \in Starts, Starting(s), status \in Setup,
           PurgeClear(s)
    PROVE  Watched'
<1>n. s \in Coros /\ co \in [Coros -> CoroRecs]
  BY DEF Coros, TInv, CorosTyped
<1>1. PICK S :
        /\ wk' = Cancelled(wk, S) /\ queue' = {}
        /\ pool' = EmptyPool /\ co' = [co EXCEPT ![s] = Idle]
  BY SetupCleared
<1>2. \A t \in Tasks : wk[t].pc = "free"
  BY DEF CInv, SetupAlone
<1>3. \A t \in Tasks : wk'[t].pc = wk[t].pc /\ wk'[t].obj = wk[t].obj
  BY <1>1, CancelledTyped DEF TInv, WorkersTyped
<1>4. \A o \in Objs : pool'[o[1]] # o
  BY <1>1, ConstantsAssumption DEF EmptyPool, Objs
<1>5. NeverIdle'
  BY <1>1 DEF NeverIdle
<1>6. co'[s].pc # "wait" /\ \A x \in Coros \ {s} : co'[x] = co[x]
  BY <1>n, <1>1 DEF Idle
<1> QED BY <1>2, <1>3, <1>4, <1>5, <1>6, StartMovesWatched

\* A start() that fails does so during setup, and all of it is undone.
LEMMA StartFailsWatched ==
    ASSUME TInv, CInv, Watched, NEW s \in Starts, Starting(s), status \in Setup,
           StartFails(s)
    PROVE  Watched'
<1>n. s \in Coros /\ co \in [Coros -> CoroRecs] /\ status # "READY"
  BY DEF Coros, TInv, CorosTyped, Setup
<1>1. CASE queue = {}
  <2>1. PurgeClear(s)
    BY <1>n, <1>1 DEF StartFails, PurgeBegin
  <2> QED BY <2>1, ClearedWatched
<1>2. CASE queue # {}
  <2>1. /\ co'[s].pc = "pbcast" /\ \A x \in Coros \ {s} : co'[x] = co[x]
        /\ UNCHANGED <<pool, status, wk>>
    BY <1>n, <1>2 DEF StartFails, PurgeBegin, front, Idle
  <2>2. \A o \in Objs : InHand(o)'
    BY <2>1 DEF InHand
  <2>3. NeverIdle'
    BY <2>1 DEF NeverIdle
  <2> QED BY <2>1, <2>2, <2>3, StartMovesWatched DEF Left
<1> QED BY <1>1, <1>2

\* start() takes over what the controller gave it.
LEMMA RegisterWatched ==
    ASSUME TInv, TInv', CInv, Watched, NEW s \in Starts, co[s].pc \in {"got", "scaled"},
           NEW S \in SUBSET Rids, S # {}, Register(s, S)
    PROVE  Watched'
<1>n. s \in Coros /\ co \in [Coros -> CoroRecs] /\ Ops \in Coros
  BY StartIsNotNamed DEF Coros, TInv, CorosTyped, Starting
<1>1. pool = EmptyPool
  BY DEF CInv, Phases, Early
<1>2. /\ pool' = [rid \in Rids |-> IF rid \in S THEN NewReplica(rid) ELSE pool[rid]]
      /\ status' = "DEPLOYING"
      /\ co'[s] = Deploying(pool') /\ \A x \in Coros \ {s} : co'[x] = co[x]
      /\ wk' = wk
      /\ \A rid \in S : CanWrap(rid)
  BY <1>n DEF Register
<1>3. pool' \in [Rids -> Objs \cup {None}]
  BY DEF TInv, FrontTyped
<1>4. \A rid \in Rids : pool'[rid] # None =>
        rid \in S /\ pool'[rid][1] = rid /\ Unused(pool'[rid])
  <2> SUFFICES ASSUME NEW rid \in Rids, pool'[rid] # None
               PROVE  rid \in S /\ pool'[rid][1] = rid /\ Unused(pool'[rid])
    OBVIOUS
  <2>1. rid \in S /\ pool'[rid] = NewReplica(rid)
    BY <1>1, <1>2 DEF EmptyPool
  <2>2. \E g \in Gens : Unused(<<rid, g>>)
    BY <1>2, <2>1 DEF CanWrap
  <2>3. PICK h \in Gens : h = CHOOSE g \in Gens : Unused(<<rid, g>>)
    BY <2>2
  <2>4. Unused(<<rid, h>>)
    BY <2>2, <2>3
  <2>5. NewReplica(rid) = <<rid, h>>
    BY <2>3 DEF NewReplica
  <2>6. pool'[rid] = <<rid, h>>
    BY <2>1, <2>5
  <2> QED BY <2>1, <2>4, <2>6
<1>5. \A o \in Objs : o[1] \in Rids /\ o # None
  BY ConstantsAssumption DEF Objs
<1>6. \A o \in Objs : pool'[o[1]] = o => co[Ops].obj # o
  BY <1>n, <1>4, <1>5 DEF Unused
<1>7. \/ co'[s].pc = "deploying"
      \/ /\ co'[s].pc = "wait" /\ co'[s].objs = {pool'[rid] : rid \in Rids} \ {None}
  <2>1. CASE queue # {}
    BY <1>2, <2>1 DEF Deploying, Idle
  <2>2. CASE queue = {}
    <3>1. co'[s] = WaitLoop(pool')
      BY <1>2, <2>2 DEF Deploying
    <3>2. pool' # EmptyPool
      <4>1. PICK rid \in S : TRUE
        OBVIOUS
      <4>2. NewReplica(rid) \in Objs
        BY <1>2, NewReplicaTyped
      <4> QED BY <1>2, <1>5, <4>1, <4>2 DEF EmptyPool
    <3> QED BY <1>3, <3>1, <3>2, WaitsForAll
  <2> QED BY <2>1, <2>2
<1>8. \A o \in Objs : pool'[o[1]] = o => InHand(o)'
  <2>1. CASE co'[s].pc = "deploying"
    BY <2>1 DEF InHand
  <2>2. CASE /\ co'[s].pc = "wait" /\ co'[s].objs = {pool'[rid] : rid \in Rids} \ {None}
    BY <1>5, <2>2 DEF InHand, Awaits
  <2> QED BY <1>7, <2>1, <2>2
<1>9. co'[s].pc = "wait" => \A o \in co'[s].objs : pool'[o[1]] = o
  BY <1>4, <1>7
<1>10. NeverIdle'
  BY <1>2 DEF NeverIdle, Setup
<1> QED BY <1>2, <1>6, <1>8, <1>9, <1>10, StartMovesWatched

\* The steps of a start().
LEMMA StartStepWatched ==
    ASSUME TInv, TInv', CInv, Watched, Firm, NEW s \in Starts, StartStep(s)
    PROVE  Watched'
<1>n. /\ s \in Coros /\ Ops \in Coros /\ Ops # s
      /\ co \in [Coros -> CoroRecs] /\ co[s].res \in SUBSET Rids
      /\ \A u \in Starts : u \in Coros
      /\ \A o \in Objs : o \in Coros /\ o # s /\ o[1] \in Rids /\ o # None
  BY ConstantsAssumption DEF Coros, TInv, CorosTyped, CoroRecs, Objs
<1>m. ASSUME UNCHANGED <<queue, pool, status, wk>>,
             \A x \in Coros \ {s} : co'[x] = co[x],
             co'[s].pc # "wait", co[s].pc # "wait",
             co'[s].pc \in {"deploying", "pbcast"}
                 <=> co[s].pc \in {"deploying", "pbcast"}
      PROVE  Watched'
  <2>1. NobodyMoves
    BY <1>n, <1>m DEF NobodyMoves, Awaits
  <2>2. NeverIdle' /\ NoFalseStart'
    BY <1>m DEF NeverIdle, NoFalseStart, Watched
  <2> QED BY <1>n, <1>m, <2>1, <2>2, BystandersWatched
<1>1. CASE StartListed(s)
  <2>1. co[s].pc = "got" /\ Starting(s) /\ status \in Setup
    BY <1>1 DEF StartListed, Starting, CInv, Phases, Early, Setup
  <2>2. CASE StartFails(s)
    BY <2>1, <2>2, StartFailsWatched
  <2>3. CASE co[s].res # {} /\ Register(s, co[s].res)
    BY <1>n, <2>1, <2>3, RegisterWatched
  <2>4. CASE /\ co' = [co EXCEPT ![s] = [Idle EXCEPT !.pc = "scale"]]
             /\ UNCHANGED <<front, wk, dropped>>
    BY <1>n, <1>m, <2>1, <2>4 DEF Idle, front
  <2> QED BY <1>1, <2>2, <2>3, <2>4 DEF StartListed
<1>2. CASE StartProvisioned(s)
  <2>1. co[s].pc = "scaled" /\ Starting(s) /\ status \in Setup
    BY <1>2 DEF StartProvisioned, Starting, CInv, Phases, Early, Setup
  <2> QED
    BY <1>n, <1>2, <2>1, StartFailsWatched, RegisterWatched DEF StartProvisioned
<1>3. CASE StartReady(s)
  BY <1>3, StartReadyWatched
<1>4. CASE StartWaitFails(s)
  <2>1. PICK o \in co[s].objs : actor[o[1]] \in Gone
    BY <1>4 DEF StartWaitFails
  <2>2. o \in Objs /\ pool[o[1]] = o /\ co[s].pc = "wait"
    BY <1>n, <1>4, <2>1 DEF StartWaitFails, CInv, StartsAwait, CoroRecs
  <2>3. status \in Setup
    BY <1>n, <2>1, <2>2 DEF Firm, Single, Steady, Setup
  <2> QED BY <1>4, <2>2, <2>3, StartFailsWatched DEF StartWaitFails, Starting
<1>5. CASE Broadcast(s)
  <2>1. PICK e : co' = [co EXCEPT ![s].todo = @ \ {e}] /\ UNCHANGED <<front, wk>>
    BY <1>5 DEF Broadcast
  <2> QED BY <1>n, <1>m, <1>5, <2>1 DEF CoroRecs, front, Broadcast
<1>6. CASE PurgePublished(s)
  BY <1>6, ClearedWatched DEF PurgePublished, Starting, CInv, Phases
<1>7. CASE PurgeCancel(s)
  BY <1>7 DEF PurgeCancel, CInv, Phases
<1>8. CASE Broadcasted(s)
  <2>1. /\ co'[s] = IF co[s].pc = "deploying" THEN WaitLoop(pool) ELSE Idle
        /\ \A x \in Coros \ {s} : co'[x] = co[x]
        /\ UNCHANGED <<queue, pool, status, wk>>
        /\ co[s].pc \in {"deploying", "serving"}
    BY <1>n, <1>8 DEF Broadcasted, front
  <2>2. CASE co[s].pc = "serving"
    BY <1>m, <2>1, <2>2 DEF Idle
  <2>3. CASE co[s].pc = "deploying"
    <3>1. pool # EmptyPool
      BY <2>3 DEF CInv, Phases
    <3>2. co'[s].pc = "wait" /\ co'[s].objs = {pool[rid] : rid \in Rids} \ {None}
      BY <2>1, <2>3, <3>1, WaitsForAll DEF TInv, FrontTyped
    <3>3. \A o \in Objs : pool[o[1]] = o => InHand(o)'
      BY <1>n, <3>2 DEF InHand, Awaits
    <3>4. \A o \in co'[s].objs : pool[o[1]] = o
      BY <3>2 DEF CInv, Wrapped
    <3>5. NeverIdle'
      BY <2>1 DEF NeverIdle, Watched
    <3> QED BY <2>1, <3>3, <3>4, <3>5, StartMovesWatched DEF Left
  <2> QED BY <2>1, <2>2, <2>3
<1> QED
  BY <1>1, <1>2, <1>3, <1>4, <1>5, <1>6, <1>7, <1>8 DEF StartStep, PurgeStep

\* Somebody attends to the queue after every step.
LEMMA WatchedNext ==
    ASSUME TInv, TInv', CInv, Watched, Firm, [Next]_vars
    PROVE  Watched'
<1>1. CASE UNCHANGED vars
  <2>1. NobodyMoves
    BY <1>1 DEF NobodyMoves, vars, Awaits
  <2> QED
    BY <1>1, <2>1, BystandersWatched DEF vars, NeverIdle, NoFalseStart, Watched
<1> QED
  BY <1>1, OnlyCalmSteps, OpsWatched, ReconciledWatched, ControllerWatched,
     WorkerStepWatched, ActorsWatched, StartStepWatched, AdoptWatched
  DEF CalmSteps, CInv

-----------------------------------------------------------------------------
(* What the dispatcher can lose *)

\* An event that may not happen any more never may again.
SpendsOnly == \A f \in Events : budget[f] = 0 => budget'[f] = 0

\* Every step spends at most one event.
LEMMA SpentStays ==
    ASSUME TInv, budget' = budget \/ \E f \in Events : Spend(f)
    PROVE  SpendsOnly
BY DEF SpendsOnly, TInv, EnvTyped, Spend

\* A step of the dispatcher alone: it knows no more actors than before.
NothingNew ==
    /\ UNCHANGED <<hot, actor>>
    /\ SpendsOnly
    /\ \A c \in Coros : co'[c].res \subseteq co[c].res
    /\ \A rid \in Rids :
          pool'[rid] # None => pool[rid] # None \/ \E c \in Coros : rid \in co[c].res

\* It has lost none of them either.
LEMMA NothingNewSteady ==
    ASSUME TInv, Steady, NothingNew
    PROVE  Steady'
BY DEF NothingNew, Steady, SpendsOnly, Events

\* And there is one at most.
NothingMore ==
    /\ \A s \in Starts :
          /\ co'[s].pc = "got" => co[s].pc = "got" /\ co'[s].res = co[s].res
          /\ co'[s].pc = "scale" =>
                co[s].pc = "scale" \/ (co[s].pc = "got" /\ co[s].res = {})
          /\ co'[s].pc = "wait" =>
                \/ co[s].pc = "wait" /\ status' = status
                \/ status' = "DEPLOYING"
    /\ \A i, j \in Rids : pool'[i] # None /\ pool'[j] # None => i = j
    /\ \A o \in Objs : co'[o].pc # "wait"
    /\ co'[Ops].pc \notin {"get", "got"}

\* Then there is still one replica at most.
LEMMA NothingMoreSingle ==
    ASSUME Single, NothingNew, NothingMore
    PROVE  Single'
BY DEF NothingNew, NothingMore, Single, SpendsOnly, Events, Lone, Coros

\* Most steps ask nothing of the controller.
LEMMA BystandersFirm ==
    ASSUME TInv, CInv', Firm, UNCHANGED <<hot, actor>>, SpendsOnly,
           \A c \in Coros : co'[c].res \subseteq co[c].res,
           \A s \in Starts : co'[s] = co[s] \/ co'[s].pc \notin {"got", "scale", "wait"},
           status' \in {status, "UNINITIALIZED", "PROVISIONING"},
           \A rid \in Rids : pool'[rid] \in {pool[rid], None},
           \A o \in Objs : co'[o].pc = "wait" => co[o].pc = "wait",
           co'[Ops].pc \in {"get", "got"} => co[Ops].pc \in {"get", "got"}
    PROVE  Firm'
<1>1. NothingNew
  BY DEF NothingNew
<1>2. CASE Steady
  BY <1>1, <1>2, NothingNewSteady DEF Firm
<1>3. CASE Single
  <2>1. ASSUME NEW s \in Starts, co'[s].pc = "wait"
        PROVE  co[s].pc = "wait" /\ status' = status
    BY <2>1 DEF CInv, Phases
  <2>2. NothingMore
    BY <1>3, <2>1 DEF NothingMore, Single
  <2> QED BY <1>1, <1>3, <2>2, NothingMoreSingle DEF Firm
<1> QED BY <1>2, <1>3 DEF Firm

\* What one turn of the worker loop asks for: a start(), perhaps.
LEMMA LoopAsks ==
    ASSUME TInv, NEW t \in Tasks, NEW cur,
           \/ Loop(t, cur) \/ Exit(t, cur) \/ Take(t)
           \/ \E r, q : HandBack(t, r, q)
    PROVE  /\ OneBegins
           /\ status' \in {status, "UNINITIALIZED", "PROVISIONING"}
           /\ \A rid \in Rids : pool'[rid] \in {pool[rid], None}
<1> USE DEF TInv, FrontTyped
<1>0. \A p : StatusStarted(p) \in {status, "PROVISIONING"}
  BY DEF StatusStarted
<1>1. CASE Exit(t, cur)
  <2>1. \A rid \in Rids : pool'[rid] \in {pool[rid], None}
    BY <1>1 DEF Exit
  <2>2. CASE queue = {}
    BY <1>1, <2>1, <2>2 DEF Exit, OneBegins
  <2>3. CASE queue # {}
    <3>1. PICK p : CanStart(p) /\ co' = Started(p, co) /\ status' = StatusStarted(p)
      BY <1>1, <2>3 DEF Exit
    <3> QED BY <1>0, <2>1, <3>1, StartedBegins
  <2> QED BY <2>2, <2>3
<1>2. ASSUME NEW r, NEW q, HandBack(t, r, q)
      PROVE  /\ OneBegins
             /\ status' \in {status, "UNINITIALIZED", "PROVISIONING"}
             /\ pool' = pool
  BY <1>0, <1>2, StartedBegins DEF HandBack
<1>3. CASE Take(t)
  <2>1. PICK e \in Foremost(queue) :
          \/ HandBack(t, e.req, queue \ {e})
          \/ UNCHANGED <<status, pool, co>>
    BY <1>3 DEF Take
  <2>2. CASE UNCHANGED <<status, pool, co>>
    BY <2>2 DEF OneBegins
  <2> QED BY <1>2, <2>1, <2>2
<1>4. CASE UNCHANGED <<status, pool, co>>
  BY <1>4 DEF OneBegins
<1> QED BY <1>1, <1>2, <1>3, <1>4 DEF Loop

\* The worker's own steps.
LEMMA WorkerStepFirm ==
    ASSUME TInv, CInv', Firm, NEW t \in Tasks, WorkerStep(t)
    PROVE  Firm'
<1>1. UNCHANGED <<hot, actor, budget>>
  BY DEF WorkerStep, WorkerBegins, WorkerWakes, Dispatched, WorkerDone,
         WorkerEvicted, WorkerHandedBack, WorkerFailed, WorkerParks, WorkerUnparks,
         CancelledUnstarted, CancelledWaiting, CancelledDispatch, WorkerCancelling,
         env
<1>2. \/ \E cur : Loop(t, cur) \/ Exit(t, cur)
      \/ Take(t) \/ \E r, q : HandBack(t, r, q)
      \/ UNCHANGED <<status, pool, co>>
  BY DEF WorkerStep, WorkerBegins, WorkerWakes, Dispatched, WorkerDone,
         WorkerEvicted, WorkerHandedBack, WorkerFailed, WorkerParks, WorkerUnparks,
         CancelledUnstarted, CancelledWaiting, CancelledDispatch, WorkerCancelling,
         front
<1>3. /\ OneBegins
      /\ status' \in {status, "UNINITIALIZED", "PROVISIONING"}
      /\ \A rid \in Rids : pool'[rid] \in {pool[rid], None}
  <2>1. CASE UNCHANGED <<status, pool, co>>
    BY <2>1 DEF OneBegins
  <2>2. CASE \E cur : Loop(t, cur) \/ Exit(t, cur)
    BY <2>2, LoopAsks
  <2>3. CASE Take(t)
    BY <2>3, LoopAsks
  <2>4. CASE \E r, q : HandBack(t, r, q)
    BY <2>4, LoopAsks
  <2> QED BY <1>2, <2>1, <2>2, <2>3, <2>4
<1>4. \A c \in Coros : co'[c].res \subseteq co[c].res
  BY <1>3 DEF OneBegins
<1>5. \A s \in Starts : co'[s] = co[s] \/ co'[s].pc \notin {"got", "scale", "wait"}
  BY <1>3 DEF OneBegins, Coros
<1>6. (\A o \in Objs : co'[o] = co[o]) /\ co'[Ops] = co[Ops]
  BY <1>3, BeginningSpares
<1>7. SpendsOnly
  BY <1>1, SpentStays
<1> QED BY <1>1, <1>3, <1>4, <1>5, <1>6, <1>7, BystandersFirm

\* The dispatch loop and the kill handler.
LEMMA OpsFirm ==
    ASSUME TInv, CInv', Firm,
           \/ \E r \in Requests : Enqueue(r) \/ Kill(r)
           \/ Acknowledge \/ KillTold \/ KillActor \/ KillPolled \/ KillCancels
    PROVE  Firm'
<1>n. /\ co \in [Coros -> CoroRecs] /\ Disp \in Coros /\ Ops \in Coros /\ Disp # Ops
      /\ \A x \in Starts \cup Objs : x \in Coros /\ x # Disp /\ x # Ops
      /\ Idle.res = {} /\ Idle.pc = "idle"
  BY ConstantsAssumption DEF TInv, CorosTyped, Coros, Idle
<1>1. UNCHANGED <<hot, actor, pool>>
  BY DEF Enqueue, Kill, Acknowledge, KillTold, KillActor, KillPolled, KillCancels,
         env, front
<1>2. SpendsOnly
  <2>1. budget' = budget \/ \E f \in Events : Spend(f)
    BY DEF Enqueue, Kill, Acknowledge, KillTold, KillActor, KillPolled, KillCancels,
           Events
  <2> QED BY <2>1, SpentStays
<1>3. ASSUME NEW r \in Requests, Enqueue(r) PROVE Firm'
  <2>1. PICK rec : rec = [Idle EXCEPT !.pc = "ack", !.req = r]
    OBVIOUS
  <2>2. rec \in CoroRecs /\ rec.res = {}
    BY <2>1 DEF Idle, CoroRecs, CPcs
  <2>3. PICK cc : cc = [co EXCEPT ![Disp] = rec]
    OBVIOUS
  <2>4. /\ cc \in [Coros -> CoroRecs]
        /\ \A x \in Coros : x # Disp => cc[x] = co[x]
        /\ \A x \in Coros : cc[x].res \subseteq co[x].res
    BY <1>n, <2>2, <2>3
  <2>5. /\ CanStart(pool') /\ co' = Started(pool', cc)
        /\ status' = StatusStarted(pool')
    BY <1>3, <2>1, <2>3 DEF Enqueue
  <2>6. \A x \in Coros :
           \/ co'[x] = cc[x]
           \/ x \in Starts /\ co'[x].pc = "get" /\ co'[x].res = {}
    BY <2>4, <2>5, StartedTyped DEF TInv, FrontTyped, Idle
  <2>7. \A x \in Coros : co'[x].res \subseteq co[x].res
    BY <2>4, <2>6
  <2>8. \A x \in Starts : co'[x] = co[x] \/ co'[x].pc \notin {"got", "scale", "wait"}
    BY <1>n, <2>4, <2>6
  <2>9. \A x \in Objs \cup {Ops} : co'[x] = co[x]
    BY <1>n, <2>4, <2>6, ConstantsAssumption
  <2>10. status' \in {status, "PROVISIONING"}
    BY <2>5 DEF StatusStarted
  <2> QED BY <1>1, <1>2, <2>7, <2>8, <2>9, <2>10, BystandersFirm
<1>4. ASSUME NEW c \in {Disp, Ops}, \A x \in Coros \ {c} : co'[x] = co[x],
             co'[c].res \subseteq co[c].res, status' = status,
             co'[Ops].pc \in {"get", "got"} => co[Ops].pc \in {"get", "got"}
      PROVE  Firm'
  <2>1. \A x \in Starts \cup Objs : co'[x] = co[x]
    BY <1>n, <1>4
  <2>2. \A x \in Coros : co'[x].res \subseteq co[x].res
    BY <1>4
  <2> QED BY <1>1, <1>2, <1>4, <2>1, <2>2, BystandersFirm
<1>5. ASSUME NEW r \in Requests, Kill(r) PROVE Firm'
  <2>1. /\ co'[Ops].res = {} /\ co'[Ops].pc \in {"kqueued", "kpublish"}
        /\ \A x \in Coros \ {Ops} : co'[x] = co[x]
    <3>1. CASE r \in Queued(queue)
      BY <1>n, <1>5, <3>1 DEF Kill, Idle
    <3>2. CASE r \notin Queued(queue)
      <4>1. PICK o \in PoolObjs :
             co' = [co EXCEPT ![Ops] =
                      [Idle EXCEPT !.pc = "kpublish", !.obj = o, !.req = r]]
        BY <1>5, <3>2 DEF Kill
      <4> QED BY <1>n, <4>1 DEF Idle
    <3> QED BY <3>1, <3>2
  <2>2. status' = status
    BY <1>5 DEF Kill
  <2> QED BY <1>4, <2>1, <2>2
<1>6. CASE Acknowledge
  BY <1>n, <1>4, <1>6 DEF Acknowledge, front
<1>7. CASE KillTold \/ KillPolled \/ KillCancels \/ KillActor
  <2>1. /\ co'[Ops].res \subseteq co[Ops].res /\ co'[Ops].pc \notin {"get", "got"}
        /\ \A x \in Coros \ {Ops} : co'[x] = co[x]
        /\ status' = status
    BY <1>n, <1>7 DEF KillTold, KillPolled, KillCancels, KillActor, front, CoroRecs
  <2> QED BY <1>4, <2>1
<1> QED BY <1>3, <1>5, <1>6, <1>7

\* reconcile() takes over what the controller listed.
LEMMA ReconcileFirm ==
    ASSUME TInv, Firm, Reconcile \/ Reconciled
    PROVE  Firm'
<1>n. co \in [Coros -> CoroRecs] /\ Ops \in Coros /\ Idle.res = {}
  BY StartIsNotNamed DEF TInv, CorosTyped, Idle
<1>1. Steady
  BY DEF Firm, Single, Reconcile, Reconciled, Spend
<1>2. UNCHANGED <<hot, actor>>
  BY DEF Reconcile, Reconciled, env
<1>3. SpendsOnly
  BY SpentStays DEF Reconcile, Reconciled, Events
<1>4. CASE Reconcile
  BY <1>n, <1>1, <1>2, <1>3, <1>4, NothingNewSteady
  DEF Reconcile, front, NothingNew, Firm, Idle
<1>5. CASE Reconciled
  <2>1. PICK gained :
          /\ gained \subseteq co[Ops].res
          /\ pool' = [rid \in Rids |->
                        IF rid \in gained THEN NewReplica(rid) ELSE pool[rid]]
          /\ co' = [c \in Coros |->
                      IF c = Ops THEN Idle
                      ELSE IF \E rid \in gained : c = NewReplica(rid)
                      THEN [Idle EXCEPT !.pc = "wait"]
                      ELSE co[c]]
    <3>1. PICK gained : gained = IF status \in Setup THEN {}
                                 ELSE {rid \in co[Ops].res : pool[rid] = None}
      OBVIOUS
    <3>2. gained \subseteq co[Ops].res
      BY <3>1
    <3> QED BY <1>5, <3>1, <3>2 DEF Reconciled
  <2>2. \A c \in Coros : co'[c].res \subseteq co[c].res
    BY <2>1 DEF Idle
  <2>3. \A rid \in Rids : pool'[rid] # None =>
           pool[rid] # None \/ \E c \in Coros : rid \in co[c].res
    BY <1>n, <2>1
  <2> QED BY <1>1, <1>2, <1>3, <2>2, <2>3, NothingNewSteady DEF NothingNew, Firm
<1> QED BY <1>4, <1>5

\* The controller's answers.
LEMMA ControllerFirm ==
    ASSUME TInv, CInv, Firm, NEW c \in Starts \cup {Ops}, ControllerStep(c)
    PROVE  Firm'
<1>n. /\ co \in [Coros -> CoroRecs] /\ c \in Coros /\ Ops \in Coros /\ Ops \notin Starts
      /\ Ops \notin Objs
      /\ \A x \in Starts \cup Objs : x \in Coros
      /\ \A o \in Objs : o \notin Starts
  BY ConstantsAssumption DEF TInv, CorosTyped, Coros
<1>0. /\ UNCHANGED <<pool, status>>
      /\ \A x \in Coros \ {c} : co'[x] = co[x]
  <2>1. CASE ScaleServed(c)
    <3>1. \E rec : co' = [co EXCEPT ![c] = rec]
      BY <2>1 DEF ScaleServed
    <3> QED BY <1>n, <2>1, <3>1 DEF ScaleServed, front
  <2> QED BY <1>n, <2>1 DEF ControllerStep, Listed, ScaleRefused, front
<1>b. SpendsOnly
  <2>1. budget' = budget \/ Spend("refuse")
    BY DEF ControllerStep, Listed, ScaleServed, ScaleRefused
  <2> QED BY <2>1, SpentStays DEF Events
<1>1. \/ /\ co[c].pc = "get" /\ co'[c].pc = "got" /\ co'[c].res = hot
         /\ UNCHANGED <<hot, actor>>
      \/ /\ co[c].pc = "scale" /\ co'[c].pc = "scaled"
         /\ \E rid \in Rids : /\ co'[c].res = {rid} /\ hot' = hot \cup {rid}
                              /\ actor' = [actor EXCEPT ![rid] = "loading"]
      \/ /\ co[c].pc = "scale" /\ co'[c].pc = "scaled" /\ co'[c].res = {}
         /\ UNCHANGED <<hot, actor>>
  <2>1. CASE Listed(c)
    BY <1>n, <2>1 DEF Listed, env, Idle
  <2>2. CASE ScaleServed(c)
    <3>1. PICK rid \in Rids :
            /\ actor' = [actor EXCEPT ![rid] = "loading"] /\ hot' = hot \cup {rid}
            /\ co' = [co EXCEPT ![c] = [Idle EXCEPT !.pc = "scaled", !.res = {rid}]]
      BY <2>2 DEF ScaleServed
    <3> QED BY <1>n, <2>2, <3>1 DEF ScaleServed, Idle
  <2>3. CASE ScaleRefused(c)
    BY <1>n, <2>3 DEF ScaleRefused, env, Idle
  <2> QED BY <2>1, <2>2, <2>3 DEF ControllerStep
<1>2. CASE Steady
  <2>1. \A rid \in Rids : actor[rid] \notin Gone => actor'[rid] \notin Gone
    BY <1>1 DEF TInv, EnvTyped, Gone
  <2>2. hot \subseteq Rids /\ \A x \in Coros : co[x].res \subseteq Rids
    BY <1>n DEF TInv, EnvTyped, CoroRecs
  <2>3. \A rid \in hot' : actor'[rid] \notin Gone
    BY <1>1, <1>2, <2>1, <2>2 DEF Steady, TInv, EnvTyped, Gone
  <2>4. \A rid \in co'[c].res : rid \in hot'
    BY <1>1
  <2>5. \A x \in Coros : \A rid \in co'[x].res : actor'[rid] \notin Gone
    BY <1>0, <1>2, <2>1, <2>2, <2>3, <2>4 DEF Steady
  <2> QED BY <1>0, <1>b, <1>2, <2>1, <2>3, <2>5 DEF Steady, Firm, SpendsOnly, Events
<1>3. CASE Single
  <2>1. c \in Starts /\ Starting(c)
    <3>1. co[Ops].pc \notin {"get", "scale"}
      BY <1>3, PlacesByName, StartIsNotNamed DEF Single, CInv, Quiet
    <3> QED BY <1>1, <3>1 DEF Starting
  <2>2. \A s \in Starts \ {c} : ~Starting(s) /\ co'[s] = co[s]
    BY <1>n, <1>0, <2>1 DEF CInv, OneStart
  <2>3. Lone(hot') /\ Lone(co'[c].res) /\ (co'[c].pc = "got" => co'[c].res = hot')
    BY <1>1, <1>3, <2>1 DEF Single, Lone
  <2>4. \A s \in Starts :
          /\ Lone(co'[s].res)
          /\ co'[s].pc = "got" /\ co'[s].res = {} => hot' = {}
          /\ co'[s].pc = "scale" => hot' = {}
          /\ co'[s].pc = "wait" => status' = "DEPLOYING"
    <3> SUFFICES ASSUME NEW s \in Starts
                 PROVE  /\ Lone(co'[s].res)
                        /\ co'[s].pc = "got" /\ co'[s].res = {} => hot' = {}
                        /\ co'[s].pc = "scale" => hot' = {}
                        /\ co'[s].pc = "wait" => status' = "DEPLOYING"
      OBVIOUS
    <3>1. CASE s = c
      BY <1>1, <2>3, <3>1
    <3>2. CASE s # c
      BY <1>3, <2>2, <3>2 DEF Single, Starting
    <3> QED BY <3>1, <3>2
  <2>5. co'[Ops] = co[Ops] /\ \A o \in Objs : co'[o] = co[o]
    BY <1>n, <1>0, <2>1
  <2> QED BY <1>0, <1>b, <1>3, <2>3, <2>4, <2>5 DEF Single, Firm, SpendsOnly, Events
<1> QED BY <1>2, <1>3 DEF Firm

\* The actors.
LEMMA ActorsFirm ==
    ASSUME TInv, Firm,
           \/ \E t \in Tasks : ActorRestarts(t) \/ RunStep(t)
           \/ \E rid \in Rids : \/ ActorLoads(rid) \/ ActorLoadFails(rid)
                                \/ ActorDemoted(rid) \/ ActorDies(rid)
                                \/ OperatorDeploys(rid)
           \/ \E x \in orphans : OrphanEnds(x)
    PROVE  Firm'
<1>1. UNCHANGED <<pool, status, co>>
  BY DEF ActorRestarts, RunStep, RunBegins, RunRejected, RunEnds, ActorLoads,
         ActorLoadFails, ActorDemoted, ActorDies, OperatorDeploys, OrphanEnds, front
<1>2. SpendsOnly
  <2>1. budget' = budget \/ \E f \in Events : Spend(f)
    BY DEF ActorRestarts, RunStep, RunBegins, RunRejected, RunEnds, ActorLoads,
           ActorLoadFails, ActorDemoted, ActorDies, OperatorDeploys, OrphanEnds, Events
  <2> QED BY <2>1, SpentStays
<1>3. CASE Single
  <2>1. hot' \subseteq hot
    <3>1. ASSUME NEW rid \in Rids, OperatorDeploys(rid) PROVE FALSE
      BY <1>3, <3>1 DEF OperatorDeploys, Single, Spend
    <3>2. ASSUME NEW rid \in Rids,
                 ActorLoads(rid) \/ ActorLoadFails(rid) \/ ActorDemoted(rid)
                 \/ ActorDies(rid)
          PROVE  hot' \subseteq hot
      BY <3>2 DEF ActorLoads, ActorLoadFails, ActorDemoted, ActorDies
    <3>3. ASSUME NEW t \in Tasks, ActorRestarts(t) \/ RunStep(t)
          PROVE  hot' \subseteq hot
      BY <3>3 DEF ActorRestarts, RunStep, RunBegins, RunRejected, RunEnds, env
    <3>4. ASSUME NEW x \in orphans, OrphanEnds(x)
          PROVE  hot' \subseteq hot
      BY <3>4 DEF OrphanEnds
    <3> QED BY <3>1, <3>2, <3>3, <3>4
  <2> QED BY <1>1, <1>2, <1>3, <2>1 DEF Single, Firm, SpendsOnly, Events, Lone
<1>4. CASE Steady
  <2>1. /\ \A rid \in Rids : actor[rid] \notin Gone => actor'[rid] \notin Gone
        /\ \A rid \in hot' : rid \in hot \/ actor'[rid] \notin Gone
    <3>1. ASSUME NEW rid \in Rids, ActorLoadFails(rid) \/ ActorDies(rid) PROVE FALSE
      BY <1>4, <3>1 DEF ActorLoadFails, ActorDies, Steady, Spend
    <3>2. ASSUME NEW rid \in Rids, NEW st \in {"ready", "cached", "loading"},
                 actor' = [actor EXCEPT ![rid] = st],
                 hot' \subseteq hot \cup {rid}
          PROVE  /\ \A i \in Rids : actor[i] \notin Gone => actor'[i] \notin Gone
                 /\ \A i \in hot' : i \in hot \/ actor'[i] \notin Gone
      BY <3>2 DEF TInv, EnvTyped, Gone
    <3>3. ASSUME NEW rid \in Rids,
                 ActorLoads(rid) \/ ActorDemoted(rid) \/ OperatorDeploys(rid)
          PROVE  /\ \A i \in Rids : actor[i] \notin Gone => actor'[i] \notin Gone
                 /\ \A i \in hot' : i \in hot \/ actor'[i] \notin Gone
      BY <3>2, <3>3 DEF ActorLoads, ActorDemoted, OperatorDeploys
    <3>4. ASSUME NEW t \in Tasks, ActorRestarts(t)
          PROVE  /\ \A i \in Rids : actor[i] \notin Gone => actor'[i] \notin Gone
                 /\ \A i \in hot' : i \in hot \/ actor'[i] \notin Gone
      <4>1. hot' = hot /\ actor' = [actor EXCEPT ![wk[t].obj[1]] = "restarting"]
        BY <3>4 DEF ActorRestarts
      <4> QED BY <4>1 DEF TInv, EnvTyped, Gone
    <3>5. ASSUME UNCHANGED <<hot, actor>>
          PROVE  /\ \A i \in Rids : actor[i] \notin Gone => actor'[i] \notin Gone
                 /\ \A i \in hot' : i \in hot \/ actor'[i] \notin Gone
      BY <3>5
    <3>6. (\E t \in Tasks : RunStep(t)) \/ (\E x \in orphans : OrphanEnds(x))
              => UNCHANGED <<hot, actor>>
      BY DEF RunStep, RunBegins, RunRejected, RunEnds, OrphanEnds, env
    <3> QED BY <3>1, <3>3, <3>4, <3>5, <3>6
  <2>2. hot \subseteq Rids /\ \A c \in Coros : co[c].res \subseteq Rids
    BY DEF TInv, EnvTyped, CorosTyped, CoroRecs
  <2> QED BY <1>1, <1>2, <1>4, <2>1, <2>2 DEF Steady, Firm, SpendsOnly, Events
<1> QED BY <1>3, <1>4 DEF Firm

\* Without an operator nothing is adopted.
LEMMA AdoptFirm ==
    ASSUME TInv, CInv, CInv', Firm, NEW o \in Objs, AdoptStep(o)
    PROVE  Firm'
<1>n. /\ co \in [Coros -> CoroRecs] /\ o \in Coros /\ o # Ops /\ Ops \in Coros
      /\ \A s \in Starts : s \in Coros /\ s # o
      /\ \A p \in Objs : p[1] \in Rids /\ p \in Coros
      /\ Serving.res = {} /\ Idle.res = {}
  BY ConstantsAssumption DEF TInv, CorosTyped, Coros, Objs, Serving, Idle
<1>1. /\ UNCHANGED <<hot, actor, budget>>
      /\ \A rid \in Rids : pool'[rid] \in {pool[rid], None}
      /\ \A x \in Coros \ {o} : co'[x] = co[x]
      /\ co'[o].res \subseteq co[o].res
  <2>1. CASE AdoptReady(o)
    BY <1>n, <2>1 DEF AdoptReady, env
  <2>2. CASE AdoptFails(o)
    BY <1>n, <2>2 DEF AdoptFails, env, TInv, FrontTyped
  <2>3. CASE Broadcasted(o)
    <3>1. co[o].pc # "deploying"
      BY <1>n, PlacesByName DEF CInv, Quiet
    <3> QED BY <1>n, <2>3, <3>1 DEF Broadcasted, env, front
  <2>4. CASE Broadcast(o)
    <3>1. PICK e : co' = [co EXCEPT ![o].todo = @ \ {e}]
      BY <2>4 DEF Broadcast
    <3> QED BY <1>n, <2>4, <3>1 DEF Broadcast, env, front, CoroRecs
  <2> QED BY <2>1, <2>2, <2>3, <2>4 DEF AdoptStep
<1>2. SpendsOnly
  BY <1>1, SpentStays
<1>3. CASE Steady
  <2>1. NothingNew
    BY <1>1, <1>2 DEF NothingNew
  <2> QED BY <1>3, <2>1, NothingNewSteady DEF Firm
<1>4. CASE Single
  <2>1. co[o].pc # "wait"
    BY <1>4 DEF Single
  <2>2. /\ Broadcast(o) \/ Broadcasted(o)
        /\ status' = status /\ co'[o].pc # "wait"
    <3>1. CASE Broadcasted(o)
      <4>1. co[o].pc # "deploying"
        BY <1>n, PlacesByName DEF CInv, Quiet
      <4> QED BY <1>n, <3>1, <4>1 DEF Broadcasted, front, Idle
    <3>2. CASE Broadcast(o)
      <4>1. PICK e : co' = [co EXCEPT ![o].todo = @ \ {e}]
        BY <3>2 DEF Broadcast
      <4>2. co[o] \in CoroRecs /\ co'[o] = [co[o] EXCEPT !.todo = @ \ {e}]
        BY <1>n, <4>1
      <4>3. co'[o].pc = co[o].pc
        BY <4>2 DEF CoroRecs
      <4> QED BY <2>1, <3>2, <4>3 DEF Broadcast, front
    <3> QED BY <2>1, <3>1, <3>2 DEF AdoptStep, AdoptReady, AdoptFails
  <2>3. /\ \A s \in Starts : co'[s] = co[s]
        /\ \A p \in Objs : co'[p].pc = "wait" => co[p].pc = "wait"
        /\ co'[Ops] = co[Ops]
        /\ \A x \in Coros : co'[x].res \subseteq co[x].res
    BY <1>n, <1>1, <2>2
  <2> QED BY <1>1, <1>2, <2>2, <2>3, BystandersFirm
<1> QED BY <1>3, <1>4 DEF Firm

\* start() goes on with what it has.
LEMMA StartMovesFirm ==
    ASSUME TInv, CInv, Firm, NEW s \in Starts, UNCHANGED <<hot, actor, budget>>,
           \A x \in Coros \ {s} : co'[x] = co[x],
           co'[s].res = {},
           Starting(s) \/ status' = status,
           \A rid \in Rids : pool'[rid] # None => pool[rid] # None \/ rid \in co[s].res,
           Single => \A i, j \in Rids : pool'[i] # None /\ pool'[j] # None => i = j,
           co'[s].pc # "got",
           co'[s].pc = "scale" => co[s].pc = "got" /\ co[s].res = {},
           Single /\ co'[s].pc = "wait" => status' = "DEPLOYING"
    PROVE  Firm'
<1>n. /\ s \in Coros /\ Ops \in Coros /\ Ops # s
      /\ \A o \in Objs : o \in Coros /\ o # s
      /\ \A u \in Starts : u \in Coros
  BY ConstantsAssumption DEF Coros
<1>1. SpendsOnly
  BY SpentStays
<1>2. NothingNew
  BY <1>n, <1>1 DEF NothingNew
<1>3. CASE Steady
  BY <1>2, <1>3, NothingNewSteady DEF Firm
<1>4. CASE Single
  <2>1. \A u \in Starts \ {s} :
           co'[u] = co[u] /\ (co[u].pc = "wait" => status' = status)
    BY <1>n DEF CInv, OneStart, Starting
  <2>2. NothingMore
    BY <1>n, <1>4, <2>1 DEF NothingMore, Single
  <2> QED BY <1>2, <1>4, <2>2, NothingMoreSingle DEF Firm
<1> QED BY <1>3, <1>4 DEF Firm

\* A start() that fails during setup gives up what it has.
LEMMA ClearedFirm ==
    ASSUME TInv, CInv, Firm, NEW s \in Starts, Starting(s), status \in Setup,
           UNCHANGED <<hot, actor, budget>>, PurgeClear(s)
    PROVE  Firm'
<1>n. s \in Coros /\ co \in [Coros -> CoroRecs]
  BY DEF Coros, TInv, CorosTyped
<1>1. pool' = EmptyPool /\ co' = [co EXCEPT ![s] = Idle]
  BY SetupCleared
<1>2. \A rid \in Rids : pool'[rid] = None
  BY <1>1 DEF EmptyPool
<1>3. co'[s] = Idle /\ \A x \in Coros \ {s} : co'[x] = co[x]
  BY <1>n, <1>1
<1> QED BY <1>2, <1>3, StartMovesFirm DEF Idle

\* Or it has yet to tell those who wait.
LEMMA StartFailsFirm ==
    ASSUME TInv, CInv, Firm, NEW s \in Starts, Starting(s), status \in Setup,
           UNCHANGED <<hot, actor, budget>>, StartFails(s)
    PROVE  Firm'
<1>n. s \in Coros /\ co \in [Coros -> CoroRecs] /\ status # "READY"
  BY DEF Coros, TInv, CorosTyped, Setup
<1>1. CASE queue = {}
  <2>1. PurgeClear(s)
    BY <1>n, <1>1 DEF StartFails, PurgeBegin
  <2> QED BY <2>1, ClearedFirm
<1>2. CASE queue # {}
  <2>1. /\ co'[s].pc = "pbcast" /\ co'[s].res = {}
        /\ \A x \in Coros \ {s} : co'[x] = co[x]
        /\ UNCHANGED pool
    BY <1>n, <1>2 DEF StartFails, PurgeBegin, front, Idle
  <2> QED BY <2>1, StartMovesFirm DEF Single
<1> QED BY <1>1, <1>2

\* Where start() goes after a broadcast it holds no answer.
LEMMA NextPhaseFresh ==
    ASSUME TInv, NEW p \in [Rids -> Objs \cup {None}]
    PROVE  /\ Serving.res = {} /\ Serving.pc \in {"idle", "serving"}
           /\ WaitLoop(p).res = {} /\ WaitLoop(p).pc \in {"idle", "serving", "wait"}
           /\ Deploying(p).res = {}
           /\ Deploying(p).pc \in {"idle", "serving", "wait", "deploying"}
<1>1. Serving.res = {}
  BY DEF Serving, Idle
<1>2. WaitLoop(p).res = {}
  BY <1>1 DEF WaitLoop, Idle
<1>3. Deploying(p).res = {}
  BY <1>2 DEF Deploying, Idle
<1> QED BY <1>1, <1>2, <1>3, NextPhaseTyped

\* start() takes over what it was given, which is one replica without an
\* operator.
LEMMA RegisterFirm ==
    ASSUME TInv, TInv', CInv, Firm, NEW s \in Starts, co[s].pc \in {"got", "scaled"},
           UNCHANGED <<hot, actor, budget>>, Register(s, co[s].res)
    PROVE  Firm'
<1>n. s \in Coros /\ co \in [Coros -> CoroRecs] /\ Starting(s)
  BY DEF Coros, TInv, CorosTyped, Starting
<1>1. pool = EmptyPool
  BY DEF CInv, Phases, Early
<1>2. /\ \A rid \in Rids : pool'[rid] # None => rid \in co[s].res
      /\ status' = "DEPLOYING"
      /\ co'[s] = Deploying(pool') /\ \A x \in Coros \ {s} : co'[x] = co[x]
  BY <1>n, <1>1 DEF Register, EmptyPool
<1>3. co'[s].res = {} /\ co'[s].pc \in {"idle", "serving", "wait", "deploying"}
  BY <1>2, NextPhaseFresh DEF TInv, FrontTyped
<1>4. Single => \A i, j \in Rids : pool'[i] # None /\ pool'[j] # None => i = j
  BY <1>2 DEF Single, Lone
<1> QED BY <1>n, <1>2, <1>3, <1>4, StartMovesFirm

\* The steps of a start().
LEMMA StartStepFirm ==
    ASSUME TInv, TInv', CInv, CInv', Firm, NEW s \in Starts, StartStep(s)
    PROVE  Firm'
<1>n. /\ s \in Coros /\ Ops \in Coros /\ Ops # s
      /\ co \in [Coros -> CoroRecs]
      /\ pool \in [Rids -> Objs \cup {None}]
      /\ \A o \in Objs : o \in Coros /\ o # s /\ o[1] \in Rids /\ o # None
  BY ConstantsAssumption DEF Coros, TInv, CorosTyped, FrontTyped, Objs
<1>e. UNCHANGED <<hot, actor, budget>>
  BY DEF StartStep, StartListed, StartProvisioned, StartReady, StartWaitFails,
         PurgeStep, Broadcast, PurgePublished, PurgeCancel, Broadcasted, env
<1>1. CASE StartListed(s)
  <2>1. co[s].pc = "got" /\ Starting(s) /\ status \in Setup
    BY <1>1 DEF StartListed, Starting, CInv, Phases, Early, Setup
  <2>2. CASE StartFails(s)
    BY <1>e, <2>1, <2>2, StartFailsFirm
  <2>3. CASE Register(s, co[s].res)
    BY <1>e, <2>1, <2>3, RegisterFirm
  <2>4. CASE /\ co[s].res = {}
             /\ co' = [co EXCEPT ![s] = [Idle EXCEPT !.pc = "scale"]]
             /\ UNCHANGED <<front, wk, dropped>>
    <3>1. /\ co'[s].pc = "scale" /\ co'[s].res = {} /\ UNCHANGED pool
          /\ \A x \in Coros \ {s} : co'[x] = co[x]
      BY <1>n, <2>4 DEF Idle, front
    <3> QED BY <1>e, <2>1, <2>4, <3>1, StartMovesFirm DEF Single
  <2> QED BY <1>1, <2>2, <2>3, <2>4 DEF StartListed
<1>2. CASE StartProvisioned(s)
  <2>1. co[s].pc = "scaled" /\ Starting(s) /\ status \in Setup
    BY <1>2 DEF StartProvisioned, Starting, CInv, Phases, Early, Setup
  <2> QED BY <1>e, <1>2, <2>1, StartFailsFirm, RegisterFirm DEF StartProvisioned
<1>3. CASE StartReady(s)
  <2>1. PICK o \in co[s].objs :
          /\ co'[s] = IF co[s].objs = {o} THEN Serving
                      ELSE [Idle EXCEPT !.pc = "wait", !.objs = co[s].objs \ {o}]
          /\ \A x \in Coros \ {s} : co'[x] = co[x]
          /\ co[s].pc = "wait" /\ pool' = pool
    BY <1>n, <1>3 DEF StartReady
  <2>2. co'[s].res = {} /\ co'[s].pc \in {"idle", "serving", "wait"}
    BY <1>n, <2>1, NextPhaseFresh DEF Idle
  <2>3. Single => co'[s].pc # "wait"
    <3> SUFFICES ASSUME Single PROVE co[s].objs = {o}
      BY <1>n, <2>1, NextPhaseFresh
    <3>1. \A p \in co[s].objs : p \in Objs /\ pool[p[1]] = p
      BY <1>n, <2>1 DEF CInv, StartsAwait, CoroRecs
    <3>2. \A p \in co[s].objs : p[1] = o[1]
      BY <1>n, <2>1, <3>1 DEF Single
    <3> QED BY <2>1, <3>1, <3>2
  <2> QED BY <1>e, <2>1, <2>2, <2>3, StartMovesFirm DEF Starting, Single
<1>4. CASE StartWaitFails(s)
  <2>1. co[s].pc = "wait" /\ StartFails(s)
    BY <1>4 DEF StartWaitFails
  <2>2. CASE status \in Setup
    BY <1>e, <2>1, <2>2, StartFailsFirm DEF Starting
  <2>3. CASE status = "READY"
    <3>1. /\ co'[s] = Idle /\ UNCHANGED <<pool, status>>
          /\ \A x \in Coros \ {s} : co'[x] = co[x]
      BY <1>n, <2>1, <2>3 DEF StartFails, front
    <3> QED BY <1>e, <3>1, StartMovesFirm DEF Idle, Single
  <2> QED BY <2>1, <2>2, <2>3 DEF CInv, Phases, Setup
<1>5. CASE Broadcast(s)
  <2>1. PICK e : co' = [co EXCEPT ![s].todo = @ \ {e}] /\ UNCHANGED front
    BY <1>5 DEF Broadcast
  <2>2. /\ co'[s].pc = co[s].pc /\ co'[s].res = co[s].res
        /\ \A x \in Coros \ {s} : co'[x] = co[x]
        /\ UNCHANGED <<pool, status>>
    BY <1>n, <2>1 DEF CoroRecs, front
  <2>3. co'[s].pc \in {"deploying", "serving", "pbcast"}
    BY <1>5, <2>2 DEF Broadcast
  <2>4. /\ \A u \in Starts : co'[u] = co[u] \/ co'[u].pc \notin {"got", "scale", "wait"}
        /\ \A x \in Coros : co'[x].res \subseteq co[x].res
        /\ \A o \in Objs : co'[o] = co[o]
        /\ co'[Ops] = co[Ops]
    BY <1>n, <2>2, <2>3 DEF Coros
  <2>5. SpendsOnly
    BY <1>e, SpentStays
  <2> QED BY <1>e, <2>2, <2>4, <2>5, BystandersFirm
<1>6. CASE PurgePublished(s)
  BY <1>e, <1>6, ClearedFirm DEF PurgePublished, Starting, CInv, Phases
<1>7. CASE PurgeCancel(s)
  BY <1>7 DEF PurgeCancel, CInv, Phases
<1>8. CASE Broadcasted(s)
  <2>1. /\ co'[s] = IF co[s].pc = "deploying" THEN WaitLoop(pool) ELSE Idle
        /\ \A x \in Coros \ {s} : co'[x] = co[x]
        /\ UNCHANGED <<pool, status>>
    BY <1>n, <1>8 DEF Broadcasted, front
  <2>2. CASE co[s].pc = "deploying"
    <3>1. status = "DEPLOYING"
      BY <2>2 DEF CInv, Phases
    <3>2. co'[s].res = {} /\ co'[s].pc \in {"idle", "serving", "wait"}
      BY <1>n, <2>1, <2>2, NextPhaseFresh
    <3> QED BY <1>e, <2>1, <3>1, <3>2, StartMovesFirm DEF Single
  <2>3. CASE co[s].pc # "deploying"
    BY <1>e, <2>1, <2>3, StartMovesFirm DEF Single, Idle
  <2> QED BY <2>2, <2>3
<1> QED
  BY <1>1, <1>2, <1>3, <1>4, <1>5, <1>6, <1>7, <1>8 DEF StartStep, PurgeStep

\* What the dispatcher can lose stays that, and somebody is at the queue.
AInv == TInv /\ CInv /\ Watched /\ Firm

\* Every step keeps to what can be lost.
LEMMA FirmNext ==
    ASSUME TInv, TInv', CInv, CInv', Firm, [Next]_vars
    PROVE  Firm'
<1>1. CASE UNCHANGED vars
  BY <1>1 DEF vars, Firm, Single, Steady
<1> QED
  BY <1>1, OnlyCalmSteps, OpsFirm, ReconcileFirm, ControllerFirm, WorkerStepFirm,
     ActorsFirm, StartStepFirm, AdoptFirm
  DEF CalmSteps, CInv

\* It begins with nobody there.
LEMMA AInvInit == Calm /\ Lasting /\ Init => AInv
<1> SUFFICES ASSUME Calm, Lasting, Init PROVE AInv
  OBVIOUS
<1>1. TInv /\ CInv
  BY TInvInit, CInvInit
<1>2. /\ \A o \in Objs : pool[o[1]] # o
      /\ \A t \in Tasks : wk[t].pc = "free" /\ ~wk[t].cancel
      /\ \A c \in Coros : co[c].pc = "idle" /\ co[c].res = {}
      /\ \A rid \in Rids : pool[rid] = None
      /\ Ops \in Coros
  BY ConstantsAssumption DEF Init, EmptyPool, Objs, FreeTask, Idle, Coros
<1>3. Watched
  BY <1>2 DEF Watched, Claimed, NeverIdle, NoFalseStart, KillAim, Killed, Init
<1>4. Firm
  <2>1. budget \in Budgets /\ hot = {}
    BY DEF Init
  <2>2. CASE budget["deploy"] = 0 /\ budget["reconcile"] = 0
    BY <1>2, <2>1, <2>2 DEF Firm, Single, Lone, Coros
  <2>3. CASE budget["evict"] = 0 /\ budget["crash"] = 0 /\ budget["loadfail"] = 0
    BY <1>2, <2>1, <2>3 DEF Firm, Steady
  <2> QED BY <2>1, <2>2, <2>3 DEF Lasting
<1> QED BY <1>1, <1>3, <1>4 DEF AInv

\* Every step keeps it.
LEMMA AInvNext == AInv /\ [Next]_vars => AInv'
<1> SUFFICES ASSUME AInv, [Next]_vars PROVE AInv'
  OBVIOUS
<1>1. TInv'
  BY TInvNext DEF AInv
<1>2. CInv'
  BY <1>1, CInvNext DEF AInv
<1>3. Watched'
  BY <1>1, WatchedNext DEF AInv
<1>4. Firm'
  BY <1>1, <1>2, FirmNext DEF AInv
<1> QED BY <1>1, <1>2, <1>3, <1>4 DEF AInv

\* With nothing broken, no autoscaling, and not both an operator's replicas and
\* lost actors, a queue that is not empty always has a worker, a start() or an
\* adopt() that will get to it (processor.py:12-15, 147-158; replica.py:257-270).
THEOREM QueueIsAttended == Calm /\ Lasting /\ Spec => []Attended
<1>1. AInv => Attended
  BY WatchedAttends DEF AInv
<1> QED BY <1>1, AInvInit, AInvNext, PTL DEF Spec
=============================================================================
