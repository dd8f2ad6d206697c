----------------------------- MODULE PoolState -----------------------------
(***************************************************************************)
(* The state of one model's Processor inside the dispatcher process, and   *)
(* of the actors and controller it talks to; shared by the modules         *)
(* Replica, Processor, ModelActors and Dispatcher.                         *)
(*                                                                         *)
(* Everything in the process runs on one asyncio loop, so a step is the    *)
(* code between two awaits.  A status update takes effect when its await   *)
(* completes.                                                              *)
(***************************************************************************)
EXTENDS RequestQueue

CONSTANTS
    Rids,           \* replica ids the controller can hand out
    Gens,           \* bound: Replica objects alive at once for one id
    Tasks,          \* bound: worker tasks alive at once
    Starts,         \* bound: start() coroutines alive at once
    MaxReplicas,    \* CONFIG.autoscaling_max_replicas
    Trusted,        \* requests with trust_remote_code
    TrustRemoteCode,\* does the model key ask for the checkpoint's own code?
    Budgets,        \* how often each kind of event may happen
    None,
    Disp, Ops, Scaler   \* dispatch_worker, events_worker, autoscaling_loop

Events == {"request", "demote", "evict", "crash", "restart", "loadfail", "conn",
           "refuse", "kill", "reconcile", "deploy", "scale"}

\* A Replica object is the id it wraps and which object for that id it is.
Objs == Rids \X Gens

\* The coroutines that hold state across an await, apart from the workers;
\* the one that adopts an object carries the object's name.
Coros == Starts \cup Objs \cup {Disp, Ops, Scaler}

ASSUME ConstantsAssumption ==
    /\ IsFiniteSet(Requests)
    /\ MaxReplicas \in Nat \ {0}
    /\ Trusted \subseteq Requests
    /\ TrustRemoteCode \in BOOLEAN
    /\ Budgets \subseteq [Events -> Nat]
    /\ None \notin Requests \cup Rids \cup Tasks \cup Objs
    /\ Disp # Ops /\ Ops # Scaler /\ Scaler # Disp
    /\ {Disp, Ops, Scaler} \cap (Starts \cup Objs) = {}
    /\ Starts \cap Objs = {}

VARIABLES
    queue,      \* Processor.queue: the heap's entries
    stamp,      \* request.enqueued_at, 0 before the first put
    status,     \* Processor.status
    pool,       \* Processor.replicas: id -> object, None where no key
    task,       \* Replica.task of each object; None also once it is done
    current,    \* Replica.current_request of each object
    wk,         \* the worker tasks
    co,         \* the other coroutines
    connErr,    \* does the error queue hold a connection error?
    hot,        \* replica ids get_deployment lists
    actor,      \* state of the actor behind each id
    orphans,    \* <<id, request>> an actor runs with no worker waiting
    answered,   \* requests that were sent a terminal status
    dropped,    \* requests that purge() cleared without an answer
    budget      \* faults and commands left

front == <<queue, stamp, status, pool, task, current>>
env == <<hot, actor, orphans>>
vars == <<queue, stamp, status, pool, task, current, wk, co, connErr,
          hot, actor, orphans, answered, dropped, budget>>

-----------------------------------------------------------------------------
(* Records, helpers *)

WPcs == {"free", "new", "get", "disp", "run", "exec", "ok", "evicted",
         "unavail", "failed", "requeue", "park", "cancelling"}

WorkerRecs == [pc : WPcs, obj : Objs \cup {None}, req : Requests \cup {None},
               cancel : BOOLEAN]

FreeTask == [pc |-> "free", obj |-> None, req |-> None, cancel |-> FALSE]

CPcs == {"idle", "ack", "get", "got", "scale", "scaled", "deploying",
         "wait", "serving", "pbcast", "pcancel", "kqueued", "kpublish",
         "kactor", "kpoll", "kcancel"}

CoroRecs == [pc : CPcs, todo : SUBSET Entries, objs : SUBSET Objs,
             obj : Objs \cup {None}, req : Requests \cup {None},
             res : SUBSET Rids]

\* todo: entries a broadcast has still to reach; objs: objects a loop has
\* still to visit; obj, req: what the coroutine is busy with; res: the ids a
\* remote call answered.
Idle == [pc |-> "idle", todo |-> {}, objs |-> {}, obj |-> None, req |-> None,
         res |-> {}]

Statuses == {"UNINITIALIZED", "PROVISIONING", "DEPLOYING", "READY"}
Setup == {"PROVISIONING", "DEPLOYING"}
\* Statuses as the user tells them apart: LIVE is any that is not terminal
\* (QUEUED, PROVISIONING, DEPLOYING, DISPATCHED), ERROR the dispatcher's, DONE
\* the answer of the actor's run() (COMPLETED, or ERROR for the user's block).
Final == {"DONE", "ERROR"}
Gone == {"none", "dead"}          \* the actor's name does not resolve

EmptyPool == [rid \in Rids |-> None]
PoolObjs == {pool[rid] : rid \in Rids} \ {None}
Admitted == {r \in Requests : stamp[r] # 0}

\* The entries enqueue() puts: a new arrival's, and one in front of its group.
\* Stamps are distinct, so seq decides nothing.
Arrival(r, at) == Entry(r, FALSE, at, 0)
InFront(r) == Entry(r, TRUE, stamp[r], 0)

\* respond(): publish a status (or store it, for a non-blocking request).
\* What is remembered is who was sent a terminal one.
Publish(r, st) ==
    answered' = IF st \in Final THEN answered \cup {r} ELSE answered

Spend(fault) ==
    /\ budget[fault] > 0
    /\ budget' = [budget EXCEPT ![fault] = @ - 1]

\* A Replica object nothing refers to any more; a new one takes its name.
Unused(o) ==
    /\ pool[o[1]] # o
    /\ \A t \in Tasks : wk[t].obj # o
    /\ co[o].pc = "idle"
    /\ \A c \in Coros : co[c].obj # o /\ o \notin co[c].objs

CanWrap(rid) == \E g \in Gens : Unused(<<rid, g>>)
NewReplica(rid) == <<rid, CHOOSE g \in Gens : Unused(<<rid, g>>)>>

\* replica.wait() returns: the actor's constructor has finished.
Waited(o) == actor[o[1]] \in {"ready", "cached"}

\* Replica.start(): a new worker task for the object.
CanSpawn == \E t \in Tasks : wk[t].pc = "free"
NewTask == CHOOSE t \in Tasks : wk[t].pc = "free"
Spawn(o) ==
    /\ CanSpawn
    /\ task' = [task EXCEPT ![o] = NewTask]
    /\ wk' = [wk EXCEPT ![NewTask] = [FreeTask EXCEPT !.pc = "new", !.obj = o]]

\* A worker that is not being cancelled goes on to its next await.
Moved(t, pc, r) ==
    [wk EXCEPT ![t] = [pc |-> pc, obj |-> wk[t].obj, req |-> r, cancel |-> FALSE]]

\* task.cancel() on the worker of each object in S that has one.
Cancelled(w, S) ==
    [t \in Tasks |->
        IF w[t].pc # "cancelling" /\ \E o \in S : task[o] = t
        THEN [w[t] EXCEPT !.cancel = TRUE]
        ELSE w[t]]

\* ensure_started() on a pool p: the status and the coroutines after it.
WillStart(p) == p = EmptyPool /\ status \notin Setup
IdleStarts == {s \in Starts : co[s].pc = "idle"}
CanStart(p) == WillStart(p) => IdleStarts # {}
StatusStarted(p) == IF WillStart(p) THEN "PROVISIONING" ELSE status
Started(p, c) ==
    IF WillStart(p)
    THEN [c EXCEPT ![CHOOSE s \in IdleStarts : TRUE] =
                        [Idle EXCEPT !.pc = "get"]]
    ELSE c

-----------------------------------------------------------------------------
(* A Processor just made, an empty cluster. *)

Init ==
    /\ queue = {}
    /\ stamp = [r \in Requests |-> 0]
    /\ status = "UNINITIALIZED"
    /\ pool = EmptyPool
    /\ task = [o \in Objs |-> None]
    /\ current = [o \in Objs |-> None]
    /\ wk = [t \in Tasks |-> FreeTask]
    /\ co = [c \in Coros |-> Idle]
    /\ connErr = FALSE
    /\ hot = {}
    /\ actor = [rid \in Rids |-> "none"]
    /\ orphans = {}
    /\ answered = {}
    /\ dropped = {}
    /\ budget \in Budgets
=============================================================================
