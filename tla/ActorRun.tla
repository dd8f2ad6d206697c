------------------------------ MODULE ActorRun ------------------------------
(***************************************************************************)
(* Inside a model actor: run() races the block, which executes on a thread *)
(* of its own, against execution_timeout and the kill switch that cancel() *)
(* and to_cache() set (src/ndif/services/ray/deployments/modeling/base.py).*)
(*                                                                         *)
(* The methods share one asyncio loop, so a step of theirs is the code     *)
(* between two awaits, except that to_cache() and from_cache() occupy the  *)
(* loop while they move the weights: the threads go on meanwhile.          *)
(***************************************************************************)
EXTENDS Naturals

CONSTANTS
    Calls,      \* the run() calls the actor is sent, one request each
    MaxKills,   \* bound on cancel() calls
    MaxParks,   \* bound on HOT -> WARM moves
    None

ASSUME ActorAssumption ==
    MaxKills \in Nat /\ MaxParks \in Nat /\ None \notin Calls

VARIABLES
    timed,      \* is execution_timeout set?
    cached,     \* self.cached
    weights,    \* where the module is: "gpu", "cpu", or "moving"
    loop,       \* "free", or what occupies the event loop
    killSwitch, killReason, executionIdent,     \* the actor's fields
    pc,         \* each run(): "new", "env", "wait", "over"
    killed,     \* has the task that waits for the switch finished?
    thread,     \* the thread of each execute()
    result,     \* what execute() came to
    outcome,    \* how run() ended
    answers,    \* terminal statuses sent to the request's user
    hit,        \* calls that were under way when a cancel() was accepted
    kills, parks

fields == <<killSwitch, killReason, executionIdent>>
place == <<timed, cached, weights, loop>>
bounds == <<kills, parks>>
vars == <<timed, cached, weights, loop, killSwitch, killReason, executionIdent,
          pc, killed, thread, result, outcome, answers, hit, kills, parks>>

\* thread: started, in the block, its result posted to the loop, the future
\* resolved.
Threads == {"none", "start", "exec", "posted", "done"}
Results == {"ok", "error", "torn", "fatal"}
Outcomes == {"completed", "error", "torn", "fatal", "cancelled", "timeout",
             "preempted", "rejected"}
\* Those in which the user hears from run() itself.
Answering == Outcomes \ {"preempted", "rejected"}

UnderWay == {c \in Calls : pc[c] \in {"env", "wait"}}

-----------------------------------------------------------------------------
(* The end of a run() *)

\* Mutant: the switch survives its request.
Cleanup_KeepsSwitch ==
    /\ killSwitch' = killSwitch
    /\ killReason' = "none"
    /\ executionIdent' = None

\* cleanup() resets the cancellation state.
Cleanup ==
    /\ killSwitch' = FALSE
    /\ killReason' = "none"
    /\ executionIdent' = None

\* run() ends with an outcome, and tells the user unless it raises.
Ends(c, how) ==
    /\ pc' = [pc EXCEPT ![c] = "over"]
    /\ outcome' = [outcome EXCEPT ![c] = how]
    /\ answers' = [answers EXCEPT ![c] =
                      IF how \in Answering THEN @ + 1 ELSE @]

\* restart(): Ray kills the process and loads the model on its GPUs afresh.
Restart ==
    /\ killSwitch' = FALSE
    /\ killReason' = "none"
    /\ executionIdent' = None
    /\ cached' = FALSE
    /\ weights' = "gpu"
    /\ thread' = [c \in Calls |-> "none"]
    /\ UNCHANGED <<timed, loop>>

-----------------------------------------------------------------------------
(* run() *)

\* A WARM actor refuses; otherwise RUNNING is sent and the environment set.
\* The queue's worker sends one run() at a time.
Run(c) ==
    /\ loop = "free" /\ pc[c] = "new" /\ UnderWay = {}
    /\ IF cached
       THEN Ends(c, "rejected")
       ELSE /\ pc' = [pc EXCEPT ![c] = "env"]
            /\ UNCHANGED <<outcome, answers>>
    /\ UNCHANGED <<place, fields, killed, thread, result, hit, bounds>>

\* The environment is set: the thread is started and the race begins.
Executes(c) ==
    /\ loop = "free" /\ pc[c] = "env"
    /\ pc' = [pc EXCEPT ![c] = "wait"]
    /\ thread' = [thread EXCEPT ![c] = "start"]
    /\ killed' = [killed EXCEPT ![c] = killSwitch]
    /\ UNCHANGED <<place, fields, result, outcome, answers, hit, bounds>>

\* _remoteable_set_env raises.
EnvFails(c) ==
    /\ loop = "free" /\ pc[c] = "env"
    /\ Ends(c, "error")
    /\ Cleanup
    /\ UNCHANGED <<place, killed, thread, result, hit, bounds>>

\* The block's future is resolved when asyncio.wait() returns.
Finishes(c) ==
    /\ loop = "free" /\ pc[c] = "wait" /\ thread[c] = "done"
    /\ \/ /\ result[c] = "fatal"
          /\ Ends(c, "fatal")
          /\ Restart
       \/ /\ result[c] # "fatal"
          /\ \/ result[c] # "ok" /\ Ends(c, result[c])
             \/ result[c] = "ok" /\ Ends(c, "completed")
             \/ result[c] = "ok" /\ Ends(c, "error")      \* the upload fails
          /\ Cleanup
          /\ UNCHANGED <<place, thread>>
    /\ UNCHANGED <<killed, result, hit, bounds>>

\* The switch was set first.  interrupt() only asks the thread to stop: it may
\* go on, and what it comes to is ignored from here on.
Stops(c) ==
    /\ loop = "free" /\ pc[c] = "wait" /\ thread[c] # "done" /\ killed[c]
    /\ Ends(c, IF killReason = "preempted" THEN "preempted" ELSE "cancelled")
    /\ Cleanup
    /\ UNCHANGED <<place, killed, thread, result, hit, bounds>>

\* Mutant: the branch falls through to the upload and the second response.
TimesOut_FallsThrough(c) ==
    /\ loop = "free" /\ pc[c] = "wait" /\ thread[c] # "done" /\ ~killed[c]
    /\ timed /\ thread[c] # "start"
    /\ pc' = [pc EXCEPT ![c] = "over"]
    /\ outcome' = [outcome EXCEPT ![c] = "timeout"]
    /\ answers' = [answers EXCEPT ![c] = @ + 2]
    /\ Cleanup
    /\ UNCHANGED <<place, killed, thread, result, hit, bounds>>

\* Neither was first.  The timeout is long compared with a thread's start.
TimesOut(c) ==
    /\ loop = "free" /\ pc[c] = "wait" /\ thread[c] # "done" /\ ~killed[c]
    /\ timed /\ thread[c] # "start"
    /\ Ends(c, "timeout")
    /\ Cleanup
    /\ UNCHANGED <<place, killed, thread, result, hit, bounds>>

-----------------------------------------------------------------------------
(* The thread of execute() *)

\* Its first statement stores its ident.
ThreadStarts(c) ==
    /\ thread[c] = "start"
    /\ thread' = [thread EXCEPT ![c] = "exec"]
    /\ executionIdent' = c
    /\ UNCHANGED <<place, killSwitch, killReason, pc, killed, result, outcome,
                   answers, hit, bounds>>

\* The block returns or raises, also because its weights are elsewhere; what
\* it came to is posted to the loop.
ThreadEnds(c) ==
    /\ thread[c] = "exec"
    /\ thread' = [thread EXCEPT ![c] = "posted"]
    /\ \E res \in Results :
          /\ res = "torn" => weights # "gpu"
          /\ result' = [result EXCEPT ![c] = res]
    /\ UNCHANGED <<place, fields, pc, killed, outcome, answers, hit, bounds>>

\* resolve() on the loop.
Resolves(c) ==
    /\ loop = "free" /\ thread[c] = "posted"
    /\ thread' = [thread EXCEPT ![c] = "done"]
    /\ UNCHANGED <<place, fields, pc, killed, result, outcome, answers, hit,
                   bounds>>

-----------------------------------------------------------------------------
(* cancel(), to_cache(), from_cache() *)

\* Mutant: the reason is stored, nobody is woken.
Cancel_NoSwitch(why) ==
    IF executionIdent = None
    THEN UNCHANGED <<killSwitch, killReason, killed, hit>>
    ELSE /\ killReason' = why
         /\ hit' = hit \cup UnderWay
         /\ UNCHANGED <<killSwitch, killed>>

\* Mutant: a genuine cancellation has a reason of its own.
Cancel_Named(why) ==
    IF executionIdent = None
    THEN UNCHANGED <<killSwitch, killReason, killed, hit>>
    ELSE /\ killReason' = IF why = "none" THEN "cancelled" ELSE why
         /\ killSwitch' = TRUE
         /\ killed' = [c \in Calls |-> killed[c] \/ pc[c] = "wait"]
         /\ hit' = hit \cup UnderWay

\* cancel(): a no-op unless a thread has stored its ident.
Cancel(why) ==
    IF executionIdent = None
    THEN UNCHANGED <<killSwitch, killReason, killed, hit>>
    ELSE /\ killReason' = why
         /\ killSwitch' = TRUE
         /\ killed' = [c \in Calls |-> killed[c] \/ pc[c] = "wait"]
         /\ hit' = hit \cup UnderWay

\* An operator's kill.
Kill ==
    /\ loop = "free" /\ kills < MaxKills
    /\ kills' = kills + 1
    /\ Cancel("none")
    /\ UNCHANGED <<place, executionIdent, pc, thread, result, outcome, answers,
                   parks>>

\* to_cache(): the cancel does not yield, the move begins at once.
ToCache ==
    /\ loop = "free" /\ ~cached /\ parks < MaxParks
    /\ parks' = parks + 1
    /\ Cancel("preempted")
    /\ weights' = "moving"
    /\ loop' = "to_cache"
    /\ UNCHANGED <<timed, cached, executionIdent, pc, thread, result, outcome,
                   answers, kills>>

Cached ==
    /\ loop = "to_cache"
    /\ weights' = "cpu" /\ cached' = TRUE /\ loop' = "free"
    /\ UNCHANGED <<timed, fields, pc, killed, thread, result, outcome, answers,
                   hit, bounds>>

FromCache ==
    /\ loop = "free" /\ cached
    /\ weights' = "moving"
    /\ loop' = "from_cache"
    /\ UNCHANGED <<timed, cached, fields, pc, killed, thread, result, outcome,
                   answers, hit, bounds>>

Restored ==
    /\ loop = "from_cache"
    /\ weights' = "gpu" /\ cached' = FALSE /\ loop' = "free"
    /\ UNCHANGED <<timed, fields, pc, killed, thread, result, outcome, answers,
                   hit, bounds>>

-----------------------------------------------------------------------------

Init ==
    /\ timed \in BOOLEAN
    /\ cached = FALSE
    /\ weights = "gpu"
    /\ loop = "free"
    /\ killSwitch = FALSE
    /\ killReason = "none"
    /\ executionIdent = None
    /\ pc = [c \in Calls |-> "new"]
    /\ killed = [c \in Calls |-> FALSE]
    /\ thread = [c \in Calls |-> "none"]
    /\ result = [c \in Calls |-> "ok"]
    /\ outcome = [c \in Calls |-> "none"]
    /\ answers = [c \in Calls |-> 0]
    /\ hit = {}
    /\ kills = 0
    /\ parks = 0

RunStep(c) ==
    Executes(c) \/ EnvFails(c) \/ Finishes(c) \/ Stops(c) \/ TimesOut(c)

Next ==
    \/ \E c \in Calls : \/ Run(c) \/ RunStep(c)
                        \/ ThreadStarts(c) \/ ThreadEnds(c) \/ Resolves(c)
    \/ Kill \/ ToCache \/ Cached \/ FromCache \/ Restored

Spec == Init /\ [][Next]_vars

\* The loop goes on with what is ready, a thread starts, a move ends.  Blocks
\* need not end, nobody needs to send anything.
Fairness ==
    /\ \A c \in Calls : /\ WF_vars(RunStep(c))
                        /\ WF_vars(ThreadStarts(c)) /\ WF_vars(Resolves(c))
    /\ WF_vars(Cached) /\ WF_vars(Restored)

FairSpec == Spec /\ Fairness

-----------------------------------------------------------------------------
(* Properties *)

\* The types of the state.
TypeOK ==
    /\ timed \in BOOLEAN /\ cached \in BOOLEAN
    /\ weights \in {"gpu", "moving", "cpu"}
    /\ loop \in {"free", "to_cache", "from_cache"}
    /\ killSwitch \in BOOLEAN
    /\ killReason \in {"none", "preempted"}
    /\ executionIdent \in Calls \cup {None}
    /\ pc \in [Calls -> {"new", "env", "wait", "over"}]
    /\ killed \in [Calls -> BOOLEAN]
    /\ thread \in [Calls -> Threads]
    /\ result \in [Calls -> Results]
    /\ outcome \in [Calls -> Outcomes \cup {"none"}]
    /\ answers \in [Calls -> Nat]
    /\ hit \subseteq Calls
    /\ kills \in Nat /\ parks \in Nat

\* A cancel stops the request it was meant for: whatever timeouts, ends of
\* blocks and lingering threads interleave with it, a later request is never
\* stopped by a switch that was set before (base.py:694-712).
StopHitsItsTarget ==
    \A c \in Calls : outcome[c] \in {"cancelled", "preempted"} => c \in hit

\* What the queue builds on: a run() that returns has told its user exactly
\* once, one that raises CachedActorError, and is queued again, not at all.
OneAnswer ==
    \A c \in Calls : answers[c] = IF outcome[c] \in Answering THEN 1 ELSE 0

\* A run() ends when its block does, and a block that never ends cannot hold
\* the actor when a timeout is set or an accepted cancel hit it
\* (base.py:365-423).
EveryRunEnds ==
    \A c \in Calls :
        c \in UnderWay /\ (timed \/ c \in hit \/ thread[c] = "posted")
            ~> pc[c] = "over"

\* Not so (see the README).  A request whose replica is parked is queued again,
\* never failed for it (base.py:381-384, "rather than erroring a user who did
\* nothing wrong").
PreemptedNotErrored == \A c \in Calls : outcome[c] # "torn"
=============================================================================
