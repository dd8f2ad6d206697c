------------------------------ MODULE Replica ------------------------------
(***************************************************************************)
(* The worker task of a Replica: it pulls requests from the shared queue,  *)
(* dispatches each to its actor and deals with what comes back             *)
(* (src/ndif/services/api/queue/replica.py).                               *)
(***************************************************************************)
EXTENDS PoolState

\* Mutant: the last worker leaves the queue to itself.
Exit_NoReprovision(t, cur) ==
    LET p == [pool EXCEPT ![wk[t].obj[1]] = None]
    IN  /\ pool' = p
        /\ current' = cur
        /\ task' = [o \in Objs |-> IF task[o] = t THEN None ELSE task[o]]
        /\ wk' = [wk EXCEPT ![t] = FreeTask]
        /\ status' = IF p = EmptyPool THEN "UNINITIALIZED" ELSE status
        /\ UNCHANGED <<queue, stamp, co>>

\* Mutant: an idle pool is marked with the status of a cancelled one.
Exit_MarksCancelled(t, cur) ==
    /\ pool' = [pool EXCEPT ![wk[t].obj[1]] = None]
    /\ current' = cur
    /\ task' = [o \in Objs |-> IF task[o] = t THEN None ELSE task[o]]
    /\ wk' = [wk EXCEPT ![t] = FreeTask]
    /\ status' = "CANCELLED"
    /\ UNCHANGED <<queue, stamp, co>>

\* However the worker ends: drop the id from the pool, then re-provision if
\* requests wait, else note that the pool is idle.  cur: current_request.
Exit(t, cur) ==
    LET p == [pool EXCEPT ![wk[t].obj[1]] = None]
    IN  /\ pool' = p
        /\ current' = cur
        /\ task' = [o \in Objs |-> IF task[o] = t THEN None ELSE task[o]]
        /\ wk' = [wk EXCEPT ![t] = FreeTask]
        /\ IF queue # {}
           THEN /\ CanStart(p)
                /\ status' = StatusStarted(p)
                /\ co' = Started(p, co)
           ELSE /\ status' = IF p = EmptyPool THEN "UNINITIALIZED" ELSE status
                /\ UNCHANGED co
        /\ UNCHANGED <<queue, stamp>>

\* The evicted branch of dispatch(), up to the await in enqueue(): give up
\* the task, put the request in front of its group.  q: the queue before.
HandBack(t, r, q) ==
    /\ queue' = q \cup {InFront(r)}
    /\ task' = [task EXCEPT ![wk[t].obj] = None]
    /\ current' = [current EXCEPT ![wk[t].obj] = r]
    /\ wk' = Moved(t, "requeue", r)
    /\ CanStart(pool)
    /\ status' = StatusStarted(pool)
    /\ co' = Started(pool, co)
    /\ UNCHANGED <<stamp, pool>>

\* Mutant: the entry is read without being removed.
Take_Peeks(t) ==
    \E e \in Foremost(queue) :
        /\ current' = [current EXCEPT ![wk[t].obj] = e.req]
        /\ wk' = Moved(t, "disp", e.req)
        /\ UNCHANGED <<queue, stamp, status, pool, task, co>>

\* queue.get() returns: dispatch() looks the actor up and, if there is one,
\* sends DISPATCHED.  A failed lookup (ValueError) is an eviction.
Take(t) ==
    \E e \in Foremost(queue) :
        IF actor[wk[t].obj[1]] \in Gone
        THEN HandBack(t, e.req, queue \ {e})
        ELSE /\ queue' = queue \ {e}
             /\ current' = [current EXCEPT ![wk[t].obj] = e.req]
             /\ wk' = Moved(t, "disp", e.req)
             /\ UNCHANGED <<stamp, status, pool, task, co>>

\* From the top of the worker's loop, cur being current_request, to the next
\* await: leave when dropped, block on an empty queue, or take a request.
Loop(t, cur) ==
    IF task[wk[t].obj] = None THEN Exit(t, cur)
    ELSE IF queue # {} THEN Take(t)
    ELSE /\ current' = cur
         /\ wk' = Moved(t, "get", None)
         /\ UNCHANGED <<queue, stamp, status, pool, task, co>>

\* dispatch()'s finally has reset current_request.
Cleared(t) == [current EXCEPT ![wk[t].obj] = None]

Runnable(t, pc) == wk[t].pc = pc /\ ~wk[t].cancel

WorkerBegins(t) ==
    /\ Runnable(t, "new")
    /\ Loop(t, current)
    /\ UNCHANGED <<connErr, env, answered, dropped, budget>>

WorkerWakes(t) ==
    /\ Runnable(t, "get")
    /\ Take(t)
    /\ UNCHANGED <<connErr, env, answered, dropped, budget>>

\* DISPATCHED is out; handle.run.remote() is sent.
Dispatched(t) ==
    /\ Runnable(t, "disp")
    /\ Publish(wk[t].req, "LIVE")
    /\ wk' = Moved(t, "run", wk[t].req)
    /\ UNCHANGED <<front, co, connErr, env, dropped, budget>>

\* run() returned.
WorkerDone(t) ==
    /\ Runnable(t, "ok")
    /\ Loop(t, Cleared(t))
    /\ UNCHANGED <<connErr, env, answered, dropped, budget>>

\* run() raised one of EVICTED_ERRORS.
WorkerEvicted(t) ==
    /\ Runnable(t, "evicted")
    /\ HandBack(t, wk[t].req, queue)
    /\ UNCHANGED <<connErr, env, answered, dropped, budget>>

\* enqueue() has told the user QUEUED again.
WorkerHandedBack(t) ==
    /\ Runnable(t, "requeue")
    /\ Publish(wk[t].req, "LIVE")
    /\ Loop(t, Cleared(t))
    /\ UNCHANGED <<connErr, env, dropped, budget>>

\* Mutant: any exception of run() is taken for an eviction.
WorkerFailed_HandsBack(t) ==
    /\ Runnable(t, "failed")
    /\ connErr' = TRUE
    /\ HandBack(t, wk[t].req, queue)
    /\ UNCHANGED <<env, answered, dropped, budget>>

\* Mutant: the failure is reported, the user is not told.
WorkerFailed_Silent(t) ==
    /\ Runnable(t, "failed")
    /\ connErr' = TRUE
    /\ Loop(t, Cleared(t))
    /\ UNCHANGED <<env, answered, dropped, budget>>

\* run() raised anything else: ERROR to the user, the exception to the error
\* queue, and on with the next request.
WorkerFailed(t) ==
    /\ Runnable(t, "failed")
    /\ Publish(wk[t].req, "ERROR")
    /\ connErr' = TRUE
    /\ Loop(t, Cleared(t))
    /\ UNCHANGED <<env, dropped, budget>>

\* ActorUnavailableError: ERROR to the user, then wait for the restart.
WorkerParks(t) ==
    /\ Runnable(t, "unavail")
    /\ Publish(wk[t].req, "ERROR")
    /\ wk' = Moved(t, "park", wk[t].req)
    /\ UNCHANGED <<front, co, connErr, env, dropped, budget>>

\* wait() in dispatch() returns, or raises out of the worker.
WorkerUnparks(t) ==
    /\ Runnable(t, "park")
    /\ IF actor[wk[t].obj[1]] \in Gone
       THEN Exit(t, Cleared(t))
       ELSE Waited(wk[t].obj) /\ Loop(t, Cleared(t))
    /\ UNCHANGED <<connErr, env, answered, dropped, budget>>

\* CancelledError before the coroutine's first step: no finally to run.
CancelledUnstarted(t) ==
    /\ wk[t].cancel /\ wk[t].pc = "new"
    /\ wk' = [wk EXCEPT ![t] = FreeTask]
    /\ task' = [o \in Objs |-> IF task[o] = t THEN None ELSE task[o]]
    /\ UNCHANGED <<queue, stamp, status, pool, current, co, connErr, env,
                   answered, dropped, budget>>

\* CancelledError in queue.get(), or in the wait() of a parked worker.
CancelledWaiting(t) ==
    /\ wk[t].cancel
    /\ \/ wk[t].pc = "get" /\ Exit(t, current)
       \/ wk[t].pc = "park" /\ Exit(t, Cleared(t))
    /\ UNCHANGED <<connErr, env, answered, dropped, budget>>

\* The awaits of dispatch() at which its worker is still to answer.
InDispatch == {"disp", "run", "exec", "ok", "evicted", "unavail", "failed"}

\* CancelledError in dispatch(): the request is to be errored (a cancel while
\* an ERROR is being sent is taken to land just before it).  The actor keeps
\* what it was sent.
CancelledDispatch(t) ==
    /\ wk[t].cancel
    /\ wk[t].pc \in InDispatch
    /\ wk' = Moved(t, "cancelling", wk[t].req)
    /\ orphans' = IF wk[t].pc \in {"run", "exec"}
                  THEN orphans \cup {<<wk[t].obj[1], wk[t].req>>}
                  ELSE orphans
    /\ UNCHANGED <<front, co, connErr, hot, actor, answered, dropped, budget>>

WorkerCancelling(t) ==
    /\ wk[t].pc = "cancelling"
    /\ Publish(wk[t].req, "ERROR")
    /\ Exit(t, Cleared(t))
    /\ UNCHANGED <<connErr, env, dropped, budget>>

WorkerStep(t) ==
    \/ WorkerBegins(t) \/ WorkerWakes(t) \/ Dispatched(t) \/ WorkerDone(t)
    \/ WorkerEvicted(t) \/ WorkerHandedBack(t) \/ WorkerFailed(t)
    \/ WorkerParks(t) \/ WorkerUnparks(t) \/ CancelledUnstarted(t)
    \/ CancelledWaiting(t) \/ CancelledDispatch(t) \/ WorkerCancelling(t)
=============================================================================
