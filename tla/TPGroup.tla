------------------------------ MODULE TPGroup ------------------------------
(***************************************************************************)
(* A tensor-parallel replica: rank 0 is the model actor, whose requests    *)
(* execute on threads of their own (tp/model.py); the other ranks are      *)
(* shard processes (tp/shard.py) that it commands over one socket each     *)
(* (tp/host.py).  A request has two phases: every shard builds the block   *)
(* and says READY, then GO releases all ranks into a forward that joins    *)
(* them by collectives.                                                    *)
(*                                                                         *)
(* One life of the group: a restart of the replica ends it.                *)
(***************************************************************************)
EXTENDS Naturals, Sequences, FiniteSets

CONSTANTS
    Shards,         \* the ranks 1..tp_size-1
    Requests,       \* 1..k, run() one after the other
    Passes,         \* forward passes of a block, a checkpoint before each
    MaxFaults,      \* bound on shards that die, fail alone, or answer too late
    EarlyStops,     \* may run() time out before the group is committed?
    Lingers         \* may a run() start before the thread of the last one ended?

ASSUME TPAssumption ==
    /\ IsFiniteSet(Shards) /\ Shards = 1..Cardinality(Shards) /\ Shards # {}
    /\ IsFiniteSet(Requests) /\ Requests = 1..Cardinality(Requests)
    /\ Passes \in Nat \ {0} /\ MaxFaults \in Nat
    /\ {EarlyStops, Lingers} \subseteq BOOLEAN

VARIABLES
    group,      \* "start", "load", "loaded", "up", or "gone"
    shard,      \* "up" (connected), "loading", "idle", "prepared",
                \* "forward", "dead"
    toShard, fromShard,     \* the channels
    pass,       \* collectives done in this forward; all ranks count alike
    block,      \* does the block "return" or "raise"?
    trusted,    \* of the request being executed
    runner,     \* is the runner of an untrusted one there?
    thread,     \* execute() of each request: "none", "start", "ready",
                \* "build", "commit", "forward", "finally", "release", "over",
                \* or "refused"
    run,        \* run(): "new", "wait", "stop", "over"
    \* fields of the actor
    committed, dispatched, stoodDown, rankZeroRaised,
    armed, requested,       \* of rank 0's AbortController
    faults,
    torn        \* the runner was stopped under the ranks

fields == <<committed, dispatched, stoodDown, rankZeroRaised, armed, requested>>
work == <<pass, block, trusted, runner>>
channels == <<toShard, fromShard>>
ghosts == <<faults, torn>>
vars == <<group, shard, channels, work, thread, run, fields, ghosts>>

Alive(s) == shard[s] # "dead"
Healthy == group = "up" /\ \A s \in Shards : Alive(s)
Ranks == {0} \cup Shards

Init ==
    /\ group = "start" /\ shard = [s \in Shards |-> "up"]
    /\ toShard = [s \in Shards |-> <<>>]
    /\ fromShard = [s \in Shards |-> <<"HELLO">>]
    /\ pass = 0 /\ block = "return" /\ trusted = TRUE /\ runner = FALSE
    /\ thread = [q \in Requests |-> "none"] /\ run = [q \in Requests |-> "new"]
    /\ committed = FALSE /\ dispatched = FALSE /\ stoodDown = TRUE
    /\ rankZeroRaised = FALSE /\ armed = FALSE /\ requested = FALSE
    /\ faults = 0 /\ torn = FALSE

-----------------------------------------------------------------------------
(* Channels *)

\* To every shard in turn; the first that is gone makes the send raise, and
\* those after it get nothing.
Reached == {s \in Shards : \A p \in 1..s : Alive(p)}
Tell(message, to) ==
    toShard' = [s \in Shards |-> IF s \in to THEN Append(toShard[s], message)
                                 ELSE toShard[s]]

\* One message from every shard that sent one, when the rest is dead, waits in a
\* collective that nobody joins, or (a fault) is too late.
Answered == {s \in Shards : fromShard[s] # <<>>}
Answer(s) == IF s \in Answered THEN Head(fromShard[s]) ELSE "none"
Drain ==
    /\ fromShard' = [s \in Shards |-> IF s \in Answered THEN Tail(fromShard[s])
                                      ELSE <<>>]
    /\ LET slow == {s \in Shards \ Answered : shard[s] \notin {"dead", "forward"}}
       IN  IF slow = {} THEN UNCHANGED faults
           ELSE faults < MaxFaults /\ faults' = faults + 1

Says(s, message) == fromShard' = [fromShard EXCEPT ![s] = Append(@, message)]
Hears(s, message) ==
    /\ toShard[s] # <<>> /\ Head(toShard[s]) = message
    /\ toShard' = [toShard EXCEPT ![s] = Tail(@)]
Becomes(s, state) == shard' = [shard EXCEPT ![s] = state]

-----------------------------------------------------------------------------
(* Bringing the group up *)

\* stop(): every shard goes down.
stop ==
    /\ group' = "gone"
    /\ shard' = [s \in Shards |-> "dead"]
    /\ toShard' = [s \in Shards |-> <<>>] /\ fromShard' = [s \in Shards |-> <<>>]

\* The shards have connected; they load when rank 0 does.
start ==
    /\ group = "start"
    /\ \/ /\ \A s \in Shards : Answer(s) = "HELLO"
          /\ group' = "load"
          /\ fromShard' = [s \in Shards |-> <<>>]
          /\ shard' = [s \in Shards |-> IF Alive(s) THEN "loading" ELSE "dead"]
          /\ UNCHANGED toShard
       \/ (\E s \in Shards : ~Alive(s) /\ Answer(s) # "HELLO") /\ stop
    /\ UNCHANGED <<work, thread, run, fields, ghosts>>

ShardsConnected == group = "load"

\* transformers forms the process group when every rank is there: a rendezvous.
load_from_disk ==
    /\ ShardsConnected
    /\ \/ /\ \A s \in Shards : shard[s] = "loading"
          /\ group' = "loaded"
          /\ shard' = [s \in Shards |-> "idle"]
          /\ fromShard' = [s \in Shards |-> Append(fromShard[s], "READY")]
          /\ UNCHANGED toShard
       \/ (\E s \in Shards : ~Alive(s)) /\ stop
    /\ UNCHANGED <<work, thread, run, fields, ghosts>>

wait_ready ==
    /\ group = "loaded"
    /\ \/ /\ \A s \in Shards : Answer(s) = "READY"
          /\ group' = "up" /\ fromShard' = [s \in Shards |-> Tail(fromShard[s])]
          /\ UNCHANGED <<shard, toShard>>
       \/ (\E s \in Shards : ~Alive(s) /\ Answer(s) # "READY") /\ stop
    /\ UNCHANGED <<work, thread, run, fields, ghosts>>

-----------------------------------------------------------------------------
(* Rank 0: execute() *)

Ended(q) == thread[q] \in {"over", "refused"}
Goes(q, where) == thread' = [thread EXCEPT ![q] = where]

Starts(q) ==
    /\ group = "up" /\ run[q] = "new"
    /\ \A p \in Requests : p < q =>
          run[p] = "over" /\ (Lingers \/ Ended(p))
    /\ run' = [run EXCEPT ![q] = "wait"] /\ Goes(q, "start")
    /\ UNCHANGED <<group, shard, channels, work, fields, ghosts>>

\* An exception of rank 0 before or in the forward: recorded, then finally.
Raises(q) == rankZeroRaised' = TRUE /\ Goes(q, "finally")

\* An unhealthy group fails the request before any field is set.
Unhealthy(q) ==
    /\ thread[q] = "start" /\ group = "up" /\ ~Healthy
    /\ Goes(q, "refused")
    /\ UNCHANGED <<group, shard, channels, work, run, fields, ghosts>>

\* prepare() or sandbox(): phase 1 is sent to every shard.
execute(q) ==
    /\ thread[q] = "start" /\ Healthy
    /\ committed' = FALSE /\ dispatched' = TRUE /\ stoodDown' = TRUE
    /\ rankZeroRaised' = FALSE
    /\ trusted' \in BOOLEAN /\ runner' = ~trusted'
    /\ block' \in {"return", "raise"}
    /\ Tell("PREPARE", Shards)
    /\ Goes(q, "ready")
    /\ UNCHANGED <<group, shard, fromShard, pass, run, armed, requested, ghosts>>

\* Mutant: any answer to PREPARE will do.
AnyAnswer == \A s \in Shards : Answer(s) # "none"

AllReady == \A s \in Shards : Answer(s) = "READY"

\* Every answer is waited for; one that is not READY fails the request.
prepare(q) ==
    /\ group = "up" /\ thread[q] = "ready"
    /\ Drain
    /\ IF AllReady THEN Goes(q, "build") /\ UNCHANGED rankZeroRaised ELSE Raises(q)
    /\ UNCHANGED <<group, shard, toShard, work, run, committed, dispatched, stoodDown,
                   armed, requested, torn>>

\* Rank 0 builds the same block, or sends it to the runner; it may fail.
Dispatch(q) ==
    /\ group = "up" /\ thread[q] = "build"
    /\ \/ Goes(q, "commit") /\ UNCHANGED rankZeroRaised
       \/ Raises(q)
    /\ UNCHANGED <<group, shard, channels, work, run, committed, dispatched,
                   stoodDown, armed, requested, ghosts>>

\* GO to every shard, then the checkpoint is armed, which forgets a request
\* to abort that came before; a send that fails leaves some released.
commit(q) ==
    /\ group = "up" /\ thread[q] = "commit"
    /\ Tell("GO", Reached)
    /\ pass' = 0
    /\ \/ /\ Reached = Shards
          /\ armed' = TRUE /\ requested' = FALSE /\ committed' = TRUE
          /\ Goes(q, "forward") /\ UNCHANGED rankZeroRaised
       \/ /\ Reached # Shards /\ Raises(q)
          /\ UNCHANGED <<armed, requested, committed>>
    /\ UNCHANGED <<group, shard, fromShard, block, trusted, runner, run, dispatched,
                   stoodDown, ghosts>>

\* Out of the last collective each rank finishes on its own.
RankZeroEnds(q) ==
    /\ group = "up" /\ thread[q] = "forward" /\ pass = Passes
    /\ \/ block = "return" /\ Goes(q, "finally") /\ UNCHANGED rankZeroRaised
       \/ block = "raise" /\ Raises(q)
    /\ UNCHANGED <<group, shard, channels, work, run, committed, dispatched,
                   stoodDown, armed, requested, ghosts>>

\* The runner was stopped: whoever next talks to it raises.
RankZeroLosesRunner(q) ==
    /\ group = "up" /\ thread[q] = "forward" /\ ~trusted /\ ~runner
    /\ Raises(q)
    /\ UNCHANGED <<group, shard, channels, work, run, committed, dispatched,
                   stoodDown, armed, requested, ghosts>>

\* Mutant: the shards are released only when rank 0 was asked to stop.
HeardButRaised == dispatched /\ ~committed /\ ~rankZeroRaised

HeardInVain == dispatched /\ ~committed

\* finally: shards that were told of a request that did not go ahead are sent
\* back to idle.  A dead one is only logged.
ExecuteEnds(q) ==
    /\ group = "up" /\ thread[q] = "finally"
    /\ armed' = FALSE /\ requested' = FALSE
    /\ IF HeardInVain
       THEN Tell("SKIP", {s \in Shards : Alive(s)}) /\ Goes(q, "release")
       ELSE Goes(q, "over") /\ UNCHANGED toShard
    /\ UNCHANGED <<group, shard, fromShard, work, run, committed, dispatched,
                   stoodDown, rankZeroRaised, ghosts>>

AllIdle == \A s \in Shards : Answer(s) = "IDLE"

\* A shard that does not say IDLE did not stand down.
release(q) ==
    /\ group = "up" /\ thread[q] = "release"
    /\ Drain
    /\ stoodDown' = (stoodDown /\ AllIdle)
    /\ Goes(q, "over")
    /\ UNCHANGED <<group, shard, toShard, work, run, committed, dispatched,
                   rankZeroRaised, armed, requested, torn>>

-----------------------------------------------------------------------------
(* Rank 0: the event loop *)

\* A timeout or a cancel: the flag first, then the runner.
interrupt(q) ==
    /\ group = "up" /\ run[q] = "wait" /\ ~Ended(q)
    /\ EarlyStops \/ (committed /\ thread[q] \in {"forward", "finally"})
    /\ requested' = TRUE /\ runner' = FALSE
    /\ torn' = (torn \/ ~trusted)
    /\ run' = [run EXCEPT ![q] = "stop"]
    /\ UNCHANGED <<group, shard, channels, pass, block, trusted, thread, committed,
                   dispatched, stoodDown, rankZeroRaised, armed, faults>>

\* run() goes on: the thread ended, or it was stopped.
ToCleanUp(q) == run[q] = "stop" \/ (run[q] = "wait" /\ Ended(q))

\* cleanup() when nothing ran: whether release() saw every shard idle.
CleanupUncommitted(q) ==
    /\ group = "up" /\ ~committed
    /\ ToCleanUp(q)
    /\ run' = [run EXCEPT ![q] = "over"]
    /\ armed' = FALSE /\ requested' = FALSE
    /\ IF stoodDown THEN UNCHANGED <<group, shard, channels>> ELSE stop
    /\ UNCHANGED <<work, thread, committed, dispatched, stoodDown, rankZeroRaised,
                   ghosts>>

\* Mutant: any shard that raised has diverged.
SettledIfDone == \A s \in Shards : Alive(s) /\ Answer(s) = "DONE"

\* _await_shards(): each shard reports, and none failed where rank 0 did not.
Settled ==
    /\ \A s \in Shards : Answer(s) # "none"
    /\ (\E s \in Shards : Answer(s) # "DONE") => rankZeroRaised
    /\ \A s \in Shards : Alive(s)

cleanup(q) ==
    /\ group = "up" /\ committed
    /\ ToCleanUp(q)
    /\ run' = [run EXCEPT ![q] = "over"]
    /\ armed' = FALSE /\ requested' = FALSE
    /\ \/ /\ Drain /\ Settled /\ UNCHANGED <<group, shard, toShard>>
       \/ /\ \A s \in Shards : Answer(s) # "none" \/ ~Alive(s)
          /\ ~Settled /\ stop /\ UNCHANGED faults
       \/ /\ \E s \in Shards : Answer(s) = "none" /\ Alive(s)
          /\ IF torn \/ faults > 0 THEN UNCHANGED faults
             ELSE faults < MaxFaults /\ faults' = faults + 1
          /\ stop
    /\ UNCHANGED <<work, thread, committed, dispatched, stoodDown, rankZeroRaised,
                   torn>>

-----------------------------------------------------------------------------
(* The shards *)

\* Phase 1: the block is built or the runner is reached, or it cannot be.
Prepares(s) ==
    /\ shard[s] = "idle" /\ Hears(s, "PREPARE")
    /\ \/ Says(s, "READY") /\ Becomes(s, "prepared")
       \/ Says(s, "ERROR") /\ UNCHANGED shard
    /\ UNCHANGED <<group, work, thread, run, fields, ghosts>>

\* An idle shard answers a SKIP, for rank 0 has to be told that every one is idle;
\* a GO that nobody waits for is dropped.
Idles(s) ==
    /\ shard[s] = "idle"
    /\ \E m \in {"SKIP", "GO"} :
          /\ Hears(s, m)
          /\ IF m = "SKIP" THEN Says(s, "IDLE") ELSE UNCHANGED fromShard
    /\ UNCHANGED <<group, shard, work, thread, run, fields, ghosts>>

\* Between the phases: GO, or anything else sends the shard back to idle.
AwaitGo(s) ==
    /\ shard[s] = "prepared" /\ toShard[s] # <<>>
    /\ Hears(s, Head(toShard[s]))
    /\ IF Head(toShard[s]) = "GO" THEN Becomes(s, "forward") /\ UNCHANGED fromShard
       ELSE Says(s, "IDLE") /\ Becomes(s, "idle")
    /\ UNCHANGED <<group, work, thread, run, fields, ghosts>>

Reports(s, message) == Says(s, message) /\ Becomes(s, "idle")

\* Out of the last collective; or it fails alone; or it loses the runner.
ShardEnds(s) ==
    /\ shard[s] = "forward"
    /\ \/ /\ pass = Passes
          /\ Reports(s, IF block = "return" THEN "DONE" ELSE "ERROR")
          /\ UNCHANGED faults
       \/ ~trusted /\ ~runner /\ Reports(s, "ERROR") /\ UNCHANGED faults
       \/ Reports(s, "ERROR") /\ faults < MaxFaults /\ faults' = faults + 1
    /\ UNCHANGED <<group, toShard, work, thread, run, fields, torn>>

ShardDies(s) ==
    /\ Alive(s) /\ group # "gone" /\ faults < MaxFaults /\ faults' = faults + 1
    /\ Becomes(s, "dead")
    /\ toShard' = [toShard EXCEPT ![s] = <<>>]
    /\ UNCHANGED <<group, fromShard, work, thread, run, fields, torn>>

\* Mutant: one checkpoint more than the block has passes.
PassesOn == pass <= Passes

\* The block runs its forward again.
MorePasses == pass < Passes

\* The rendezvous of a forward pass: the checkpoint, where all ranks abort if
\* rank 0 was asked to, and the collectives behind it.  A rank that is not
\* there leaves the others waiting.
Checkpoint(q) ==
    /\ group = "up"
    /\ thread[q] = "forward" /\ \A s \in Shards : shard[s] = "forward"
    /\ MorePasses
    /\ IF armed /\ requested
       THEN /\ Raises(q)
            /\ shard' = [s \in Shards |-> "idle"]
            /\ fromShard' = [s \in Shards |-> Append(fromShard[s], "DONE")]
            /\ UNCHANGED pass
       ELSE pass' = pass + 1 /\ UNCHANGED <<shard, fromShard, thread, rankZeroRaised>>
    /\ UNCHANGED <<group, toShard, block, trusted, runner, run, committed, dispatched,
                   stoodDown, armed, requested, ghosts>>

-----------------------------------------------------------------------------
ThreadNext(q) ==
    \/ Unhealthy(q) \/ execute(q) \/ prepare(q) \/ Dispatch(q) \/ commit(q)
    \/ RankZeroEnds(q) \/ RankZeroLosesRunner(q) \/ ExecuteEnds(q) \/ release(q)
LoopNext(q) == interrupt(q) \/ CleanupUncommitted(q) \/ cleanup(q)
ShardNext(s) == Prepares(s) \/ Idles(s) \/ AwaitGo(s)
GroupNext == start \/ load_from_disk \/ wait_ready
Next ==
    \/ GroupNext
    \/ \E q \in Requests :
          Starts(q) \/ ThreadNext(q) \/ LoopNext(q) \/ Checkpoint(q)
    \/ \E s \in Shards : ShardNext(s) \/ ShardEnds(s) \/ ShardDies(s)

\* Threads and processes run on; the execution timeout fires at last.  Nothing
\* is owed by a rank that waits in a collective.
Fairness ==
    /\ WF_vars(GroupNext)
    /\ \A q \in Requests : /\ WF_vars(ThreadNext(q))
                           /\ WF_vars(Checkpoint(q))
                           /\ WF_vars(interrupt(q))
                           /\ WF_vars(CleanupUncommitted(q) \/ cleanup(q))
    /\ \A s \in Shards : WF_vars(ShardNext(s)) /\ WF_vars(ShardEnds(s))
Spec == Init /\ [][Next]_vars
FairSpec == Spec /\ Fairness

-----------------------------------------------------------------------------
(* Properties *)

Messages == {"HELLO", "PREPARE", "GO", "SKIP", "READY", "ERROR", "DONE", "IDLE"}

\* The types of the variables.
TypeOK ==
    /\ group \in {"start", "load", "loaded", "up", "gone"}
    /\ shard \in [Shards -> {"up", "loading", "idle", "prepared", "forward", "dead"}]
    /\ {toShard, fromShard} \subseteq [Shards -> Seq(Messages)]
    /\ pass \in 0..Passes /\ block \in {"return", "raise"}
    /\ thread \in [Requests -> {"none", "start", "ready", "build", "commit",
                                "forward", "finally", "release", "over", "refused"}]
    /\ run \in [Requests -> {"new", "wait", "stop", "over"}]
    /\ {trusted, runner, committed, dispatched, stoodDown, rankZeroRaised, armed,
        requested, torn} \subseteq BOOLEAN
    /\ faults \in 0..MaxFaults

\* No request starts while a rank is still in the last one: every shard is at
\* idle, and nothing of the last one is on its way.
RestBeforeNext ==
    \A q \in Requests : thread[q] = "start" /\ Healthy =>
        \A s \in Shards : /\ shard[s] = "idle"
                          /\ toShard[s] = <<>> /\ fromShard[s] = <<>>

\* Rank 0 is in no forward that a live shard does not join, unless the shard
\* failed alone or lost the runner: each is in it, on its way, or done.
NobodyLeftBehind ==
    \A q \in Requests : thread[q] = "forward" =>
        \A s \in Shards :
            \/ shard[s] = "forward"
            \/ shard[s] = "prepared" /\ toShard[s] = <<"GO">>
            \/ pass = Passes \/ faults > 0 \/ torn

\* A block that raises on every rank is an ordinary failure: once the thread
\* has recorded its error, the replica restarts only if a shard failed, died
\* or came late, or if the runner was stopped under the ranks.
RestartsForCause ==
    [][group = "up" /\ group' = "gone"
       /\ (\E q \in Requests : run[q] # "over" /\ run'[q] = "over" /\ Ended(q))
       => faults' > 0 \/ torn]_vars

\* A shard that prepared does not wait for a GO for ever.
PreparedIsReleased ==
    \A s \in Shards : shard[s] = "prepared" ~> shard[s] # "prepared"

\* No shard stays in a forward that the others left or never joined: it ends,
\* or the group is torn down.
NoRankStranded ==
    \A s \in Shards : shard[s] = "forward" ~> shard[s] # "forward"

\* Not so (see the README).  A run that was refused because a shard is dead
\* restarts the replica, for the group cannot serve another request.
RefusedRestarts ==
    [][\A q \in Requests :
          thread[q] = "refused" /\ run[q] # "over" /\ run'[q] = "over"
          => group' = "gone"]_vars

\* The group comes up, or is taken down: rank 0 does not wait for shards that
\* wait for rank 0.
ComesUp == <>(group \in {"up", "gone"})

\* Both: the ranks enter a request together and leave it together.
RanksTogether == RestBeforeNext /\ NobodyLeftBehind

\* All of them: no rank waits for ever for another.
NoRankWaitsForever == PreparedIsReleased /\ NoRankStranded /\ ComesUp
=============================================================================
