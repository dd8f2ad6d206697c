------------------------------ MODULE TPProofs ------------------------------
(***************************************************************************)
(* The ranks of a tensor-parallel replica enter a request together and     *)
(* leave it together, for any number of shards, requests, passes and       *)
(* faults: as long as a run() is not stopped before the group is committed *)
(* and none starts before the thread of the last one has ended.            *)
(*                                                                         *)
(* The fields of the actor and the channels are shared by all requests;    *)
(* what they mean is settled by how far the one request has come that is   *)
(* under way.  The invariant says what a live shard may be doing, and what *)
(* may be on its two channels, at each point of execute().                 *)
(***************************************************************************)
EXTENDS TPGroup, FiniteSetTheorems, TLAPS

\* TypeOK, one variable at a time.
TInv ==
    /\ group \in {"start", "load", "loaded", "up", "gone"}
    /\ shard \in [Shards -> {"up", "loading", "idle", "prepared", "forward", "dead"}]
    /\ toShard \in [Shards -> Seq(Messages)]
    /\ fromShard \in [Shards -> Seq(Messages)]
    /\ pass \in 0..Passes /\ block \in {"return", "raise"}
    /\ thread \in [Requests -> {"none", "start", "ready", "build", "commit",
                                "forward", "finally", "release", "over", "refused"}]
    /\ run \in [Requests -> {"new", "wait", "stop", "over"}]
    /\ trusted \in BOOLEAN /\ runner \in BOOLEAN
    /\ committed \in BOOLEAN /\ dispatched \in BOOLEAN
    /\ stoodDown \in BOOLEAN /\ rankZeroRaised \in BOOLEAN
    /\ armed \in BOOLEAN /\ requested \in BOOLEAN /\ torn \in BOOLEAN
    /\ faults \in 0..MaxFaults

InTurn == EarlyStops = FALSE /\ Lingers = FALSE

\* A request starts when the ones before it are over.
OneAtATime ==
    \A q \in Requests :
        /\ run[q] = "new" <=> thread[q] = "none"
        /\ run[q] # "new" =>
              \A p \in Requests : p < q => run[p] = "over" /\ Ended(p)

\* What is put down to a fault was preceded by one.
FaultsSeen ==
    /\ group # "gone" /\ (\E s \in Shards : ~Alive(s)) => faults > 0
    /\ \A q \in Requests : thread[q] = "refused" => faults > 0
    /\ ~trusted /\ ~runner => torn

\* Where a shard is, and what is on its way to it and from it.
Doing(s, state, to, from) ==
    shard[s] = state /\ toShard[s] = to /\ fromShard[s] = from

Rests(s) == Doing(s, "idle", <<>>, <<>>)
IsReady(s) == Doing(s, "prepared", <<>>, <<>>)

\* PREPARE is out.
Hearing(s) ==
    \/ Doing(s, "idle", <<"PREPARE">>, <<>>)
    \/ Doing(s, "prepared", <<>>, <<"READY">>)
    \/ Doing(s, "idle", <<>>, <<"ERROR">>)

\* GO is out.
Released(s) ==
    \/ Doing(s, "prepared", <<"GO">>, <<>>)
    \/ Doing(s, "forward", <<>>, <<>>)
    \/ Doing(s, "idle", <<>>, <<"DONE">>)
    \/ Doing(s, "idle", <<>>, <<"ERROR">>)

\* The next thing the shard says is not that it is idle: it answers what it
\* was told earlier.
Late(s) ==
    \/ fromShard[s] # <<>> /\ Head(fromShard[s]) \in {"READY", "ERROR", "DONE"}
    \/ fromShard[s] = <<>> /\ shard[s] = "forward"
    \/ /\ fromShard[s] = <<>> /\ toShard[s] # <<>>
       /\ \/ shard[s] = "idle" /\ Head(toShard[s]) = "PREPARE"
          \/ shard[s] = "prepared" /\ Head(toShard[s]) = "GO"

\* The request does not go ahead; SKIP is not out yet, or it is.
LeftAlone(s) == Rests(s) \/ IsReady(s) \/ (faults > 0 /\ Late(s))
Skipped(s) ==
    \/ Doing(s, "idle", <<"SKIP">>, <<>>)
    \/ Doing(s, "prepared", <<"SKIP">>, <<>>)
    \/ Doing(s, "idle", <<>>, <<"IDLE">>)
    \/ faults > 0 /\ Late(s)

Quiet == \A s \in Shards : Alive(s) => Rests(s)

\* Before the group is up.
SettingUp ==
    /\ group \in {"start", "load", "loaded"} => \A q \in Requests : thread[q] = "none"
    /\ \A s \in Shards : Alive(s) =>
          /\ group = "start" => Doing(s, "up", <<>>, <<"HELLO">>)
          /\ group = "load" => Doing(s, "loading", <<>>, <<>>)
          /\ group = "loaded" => Doing(s, "idle", <<>>, <<"READY">>)

\* How far q has come, and what that says of the live shards.
Uncommitted(q) ==
    /\ thread[q] = "start" => Quiet
    /\ thread[q] = "ready" => \A s \in Shards : Alive(s) => Hearing(s)
    /\ thread[q] \in {"build", "commit"} => \A s \in Shards : Alive(s) => IsReady(s)
    /\ thread[q] = "finally" /\ ~committed =>
          \A s \in Shards : Alive(s) => LeftAlone(s)
    /\ thread[q] = "release" => \A s \in Shards : Alive(s) => Skipped(s)
    /\ thread[q] = "over" /\ run[q] # "over" /\ ~committed =>
          (stoodDown => Quiet) /\ (~stoodDown => faults > 0)
    /\ thread[q] = "refused" /\ run[q] # "over" => Quiet

\* A shard reports an error because it failed alone, lost the runner, or
\* because the block raises on every rank.
Committed(q) ==
    thread[q] \in {"forward", "finally", "over"} /\ committed /\ run[q] # "over" =>
        /\ \A s \in Shards : Alive(s) => Released(s)
        /\ \A s \in Shards : Alive(s) /\ fromShard[s] = <<"ERROR">> =>
              faults > 0 \/ torn \/ block = "raise"
        /\ thread[q] # "forward" /\ ~rankZeroRaised => block = "return"

\* The fields while q is in execute(), and when it was stopped.
Fields(q) ==
    /\ thread[q] \in {"ready", "build", "commit", "release"} => ~committed
    /\ thread[q] = "forward" => committed
    /\ thread[q] \in {"ready", "build", "commit", "forward", "finally", "release"} =>
          dispatched
    /\ thread[q] \in {"ready", "build", "commit", "release"}
          \/ (thread[q] = "finally" /\ ~committed) => stoodDown
    /\ run[q] = "stop" => committed /\ thread[q] \in {"forward", "finally", "over"}
    /\ run[q] = "over" => \/ Ended(q)
                          \/ committed /\ thread[q] \in {"forward", "finally"}

BetweenRuns == (\A q \in Requests : run[q] \in {"new", "over"}) => Quiet

GroupInv ==
    group = "up" =>
        /\ BetweenRuns
        /\ \A q \in Requests : Uncommitted(q) /\ Committed(q) /\ Fields(q)

TPInv ==
    /\ TInv /\ OneAtATime /\ FaultsSeen /\ SettingUp /\ GroupInv
    /\ NobodyLeftBehind

-----------------------------------------------------------------------------
(* Types *)

\* What sequences of one message come to.
LEMMA OneMessage ==
    ASSUME NEW m
    PROVE  /\ Append(<<>>, m) = <<m>> /\ <<m>> # <<>>
           /\ Head(<<m>>) = m /\ Tail(<<m>>) = <<>>
OBVIOUS

\* The channels hold messages, whatever is appended to or taken from them.
LEMMA ChannelTypes ==
    ASSUME NEW c \in Seq(Messages), NEW m \in Messages
    PROVE  /\ Append(c, m) \in Seq(Messages)
           /\ c # <<>> => Tail(c) \in Seq(Messages) /\ Head(c) \in Messages
           /\ <<>> \in Seq(Messages)
OBVIOUS

\* The counters have bounds.
LEMMA Bounds == Passes \in Nat \ {0} /\ MaxFaults \in Nat
BY TPAssumption

\* The types hold at first.
LEMMA TypesInit == Init => TInv
<1> SUFFICES ASSUME Init PROVE TInv
  OBVIOUS
<1>1. [s \in Shards |-> <<"HELLO">>] \in [Shards -> Seq(Messages)]
  BY DEF Messages
<1>2. pass \in 0..Passes /\ faults \in 0..MaxFaults
  BY Bounds DEF Init
<1>3. [s \in Shards |-> <<>>] \in [Shards -> Seq(Messages)]
  OBVIOUS
<1>4. toShard \in [Shards -> Seq(Messages)] /\ fromShard \in [Shards -> Seq(Messages)]
  BY <1>1, <1>3 DEF Init
<1>5. shard \in [Shards -> {"up", "loading", "idle", "prepared", "forward", "dead"}]
  BY DEF Init
<1>6. /\ thread \in [Requests -> {"none", "start", "ready", "build", "commit",
                                 "forward", "finally", "release", "over", "refused"}]
      /\ run \in [Requests -> {"new", "wait", "stop", "over"}]
  BY DEF Init
<1>7. /\ group = "start" /\ block = "return" /\ trusted = TRUE /\ runner = FALSE
      /\ committed = FALSE /\ dispatched = FALSE /\ stoodDown = TRUE
      /\ rankZeroRaised = FALSE /\ armed = FALSE /\ requested = FALSE /\ torn = FALSE
  BY DEF Init
<1> QED BY <1>2, <1>4, <1>5, <1>6, <1>7 DEF TInv

\* A fault is counted only while there are some left.
LEMMA FaultTyped ==
    ASSUME TInv,
           \/ UNCHANGED faults
           \/ faults < MaxFaults /\ faults' = faults + 1
    PROVE  faults' \in 0..MaxFaults
BY Bounds DEF TInv

\* A message to the shards is a message.
LEMMA TellTyped ==
    ASSUME TInv, NEW m \in Messages, NEW to, Tell(m, to)
    PROVE  toShard' \in [Shards -> Seq(Messages)]
BY ChannelTypes DEF TInv, Tell

\* What is left when every shard was heard.
LEMMA DrainTyped ==
    ASSUME TInv, Drain
    PROVE  fromShard' \in [Shards -> Seq(Messages)] /\ faults' \in 0..MaxFaults
<1>1. fromShard' \in [Shards -> Seq(Messages)]
  BY DEF Drain, TInv, Answered
<1>2. faults' \in 0..MaxFaults
  <2>1. UNCHANGED faults \/ (faults < MaxFaults /\ faults' = faults + 1)
    BY DEF Drain
  <2> QED BY <2>1, Bounds DEF TInv
<1> QED BY <1>1, <1>2

\* A shard adds a message.
LEMMA SaysTyped ==
    ASSUME TInv, NEW s \in Shards, NEW m \in Messages, Says(s, m)
    PROVE  fromShard' \in [Shards -> Seq(Messages)]
BY ChannelTypes DEF TInv, Says

\* A shard takes a message.
LEMMA HearsTyped ==
    ASSUME TInv, NEW s \in Shards, NEW m, Hears(s, m)
    PROVE  toShard' \in [Shards -> Seq(Messages)]
BY DEF TInv, Hears

\* The group is taken down: no shard, no message.
LEMMA stopTyped ==
    ASSUME stop
    PROVE  /\ group' = "gone"
           /\ shard' \in [Shards -> {"up", "loading", "idle", "prepared", "forward",
                                     "dead"}]
           /\ toShard' \in [Shards -> Seq(Messages)]
           /\ fromShard' \in [Shards -> Seq(Messages)]
BY DEF stop

\* Bringing the group up keeps the types.
LEMMA GroupTypes ==
    ASSUME TInv, GroupNext
    PROVE  TInv'
<1>1. ASSUME stop, UNCHANGED <<work, thread, run, fields, ghosts>> PROVE TInv'
  BY <1>1, stopTyped DEF TInv, work, fields, ghosts
<1>2. CASE start /\ ~stop
  <2>1. fromShard' = [s \in Shards |-> <<>>]
    BY <1>2 DEF start
  <2> QED BY <1>2, <2>1 DEF start, TInv, work, fields, ghosts
<1>3. CASE load_from_disk /\ ~stop
  <2>1. "READY" \in Messages
    BY DEF Messages
  <2>2. fromShard' \in [Shards -> Seq(Messages)]
    <3>1. \A s \in Shards : Append(fromShard[s], "READY") \in Seq(Messages)
      BY <2>1, ChannelTypes DEF TInv
    <3> QED BY <1>3, <3>1 DEF load_from_disk
  <2> QED BY <1>3, <2>2 DEF load_from_disk, TInv, work, fields, ghosts
<1>4. CASE wait_ready /\ ~stop
  <2>1. \A s \in Shards : fromShard[s] # <<>>
    BY <1>4 DEF wait_ready, Answer, Answered
  <2>2. fromShard' \in [Shards -> Seq(Messages)]
    <3>1. \A s \in Shards : Tail(fromShard[s]) \in Seq(Messages)
      BY <2>1, ChannelTypes DEF TInv
    <3> QED BY <1>4, <3>1 DEF wait_ready
  <2> QED BY <1>4, <2>2 DEF wait_ready, TInv, work, fields, ghosts
<1> QED
  BY <1>1, <1>2, <1>3, <1>4 DEF GroupNext, start, load_from_disk, wait_ready

\* So does the thread of a request, and a forward pass.
LEMMA ThreadTypes ==
    ASSUME TInv, NEW q \in Requests, Starts(q) \/ ThreadNext(q) \/ Checkpoint(q)
    PROVE  TInv'
<1>1. CASE Starts(q)
  BY <1>1 DEF Starts, Goes, TInv, channels, work, fields, ghosts
<1>9. CASE Unhealthy(q)
  BY <1>9 DEF Unhealthy, Goes, TInv, channels, work, fields, ghosts
<1>2. CASE execute(q)
  <2>1. toShard' \in [Shards -> Seq(Messages)]
    BY <1>2, TellTyped DEF execute, Messages
  <2> QED BY <1>2, <2>1 DEF execute, Goes, TInv, ghosts
<1>3. CASE prepare(q)
  <2>1. fromShard' \in [Shards -> Seq(Messages)] /\ faults' \in 0..MaxFaults
    BY <1>3, DrainTyped DEF prepare
  <2> QED BY <1>3, <2>1 DEF prepare, Goes, Raises, TInv, work
<1>4. CASE Dispatch(q) \/ RankZeroEnds(q) \/ RankZeroLosesRunner(q)
  <2>1. UNCHANGED <<group, shard, channels, work, run, committed, dispatched,
                    stoodDown, armed, requested, ghosts>>
    BY <1>4 DEF Dispatch, RankZeroEnds, RankZeroLosesRunner
  <2>2. PICK w \in {"commit", "finally"} :
          /\ thread' = [thread EXCEPT ![q] = w]
          /\ rankZeroRaised' \in BOOLEAN
    BY <1>4 DEF Dispatch, RankZeroEnds, RankZeroLosesRunner, Goes, Raises, TInv
  <2> QED BY <2>1, <2>2 DEF TInv, channels, work, ghosts
<1>5. CASE commit(q)
  <2>1. toShard' \in [Shards -> Seq(Messages)]
    BY <1>5, TellTyped DEF commit, Messages
  <2>2. PICK w \in {"forward", "finally"} :
          thread' = [thread EXCEPT ![q] = w]
    BY <1>5 DEF commit, Goes, Raises
  <2>3. pass' \in 0..Passes
    BY <1>5, Bounds DEF commit
  <2>4. /\ armed' \in BOOLEAN /\ requested' \in BOOLEAN /\ committed' \in BOOLEAN
        /\ rankZeroRaised' \in BOOLEAN
        /\ UNCHANGED <<group, shard, fromShard, block, trusted, runner, run,
                       dispatched, stoodDown, ghosts>>
    BY <1>5 DEF commit, Raises, TInv
  <2> QED BY <2>1, <2>2, <2>3, <2>4 DEF TInv, ghosts
<1>6. CASE ExecuteEnds(q)
  <2>1. toShard' \in [Shards -> Seq(Messages)]
    <3>1. CASE HeardInVain
      BY <1>6, <3>1, TellTyped DEF ExecuteEnds, Messages
    <3>2. CASE ~HeardInVain
      BY <1>6, <3>2 DEF ExecuteEnds, TInv
    <3> QED BY <3>1, <3>2
  <2> QED BY <1>6, <2>1 DEF ExecuteEnds, Goes, TInv, work, ghosts
<1>7. CASE release(q)
  <2>1. fromShard' \in [Shards -> Seq(Messages)] /\ faults' \in 0..MaxFaults
    BY <1>7, DrainTyped DEF release
  <2>2. (stoodDown /\ AllIdle) \in BOOLEAN
    BY DEF TInv, AllIdle
  <2> QED BY <1>7, <2>1, <2>2 DEF release, Goes, TInv, work
<1>8. CASE Checkpoint(q)
  <2>1. CASE armed /\ requested
    <3>1. "DONE" \in Messages
      BY DEF Messages
    <3>2. fromShard' \in [Shards -> Seq(Messages)]
      <4>1. \A s \in Shards : Append(fromShard[s], "DONE") \in Seq(Messages)
        BY <3>1, ChannelTypes DEF TInv
      <4> QED BY <1>8, <2>1, <4>1 DEF Checkpoint
    <3> QED BY <1>8, <2>1, <3>2 DEF Checkpoint, Raises, Goes, TInv, ghosts
  <2>2. CASE ~(armed /\ requested)
    <3>1. pass' \in 0..Passes
      BY <1>8, <2>2, Bounds DEF Checkpoint, MorePasses, TInv
    <3> QED BY <1>8, <2>2, <3>1 DEF Checkpoint, TInv, ghosts
  <2> QED BY <2>1, <2>2
<1> QED
  BY <1>1, <1>2, <1>3, <1>4, <1>5, <1>6, <1>7, <1>8, <1>9 DEF ThreadNext

\* So does the event loop.
LEMMA LoopTypes ==
    ASSUME TInv, NEW q \in Requests, LoopNext(q)
    PROVE  TInv'
<1>1. CASE interrupt(q)
  <2>1. torn' \in BOOLEAN
    BY <1>1 DEF interrupt, TInv
  <2> QED BY <1>1, <2>1 DEF interrupt, TInv, channels
<1>2. CASE CleanupUncommitted(q)
  BY <1>2, stopTyped DEF CleanupUncommitted, TInv, channels, work, ghosts
<1>3. CASE cleanup(q)
  <2>1. CASE Drain /\ UNCHANGED <<group, shard, toShard>>
    BY <1>3, <2>1, DrainTyped DEF cleanup, TInv, work
  <2>2. CASE stop /\ (UNCHANGED faults \/ (faults < MaxFaults /\ faults' = faults + 1))
    BY <1>3, <2>2, stopTyped, FaultTyped DEF cleanup, TInv, work
  <2> QED BY <1>3, <2>1, <2>2 DEF cleanup
<1> QED BY <1>1, <1>2, <1>3 DEF LoopNext

\* So does a shard.
LEMMA ShardTypes ==
    ASSUME TInv, NEW s \in Shards, ShardNext(s) \/ ShardEnds(s) \/ ShardDies(s)
    PROVE  TInv'
<1> USE DEF Messages
<1>1. CASE Prepares(s)
  <2>1. toShard' \in [Shards -> Seq(Messages)]
    BY <1>1, HearsTyped DEF Prepares
  <2>2. fromShard' \in [Shards -> Seq(Messages)]
    BY <1>1, SaysTyped DEF Prepares
  <2> QED
    BY <1>1, <2>1, <2>2 DEF Prepares, Becomes, TInv, work, fields, ghosts
<1>2. CASE Idles(s)
  <2>1. toShard' \in [Shards -> Seq(Messages)]
    BY <1>2, HearsTyped DEF Idles
  <2>2. fromShard' \in [Shards -> Seq(Messages)]
    BY <1>2, SaysTyped DEF Idles, TInv
  <2> QED BY <1>2, <2>1, <2>2 DEF Idles, TInv, work, fields, ghosts
<1>3. CASE AwaitGo(s)
  <2>1. toShard' \in [Shards -> Seq(Messages)]
    BY <1>3, HearsTyped DEF AwaitGo
  <2>2. fromShard' \in [Shards -> Seq(Messages)]
    BY <1>3, SaysTyped DEF AwaitGo, TInv
  <2>3. shard' \in [Shards -> {"up", "loading", "idle", "prepared", "forward",
                               "dead"}]
    BY <1>3 DEF AwaitGo, Becomes, TInv
  <2> QED
    BY <1>3, <2>1, <2>2, <2>3 DEF AwaitGo, TInv, work, fields, ghosts
<1>4. CASE ShardEnds(s)
  <2>1. PICK m \in {"DONE", "ERROR"} : Reports(s, m)
    BY <1>4 DEF ShardEnds
  <2>2. fromShard' \in [Shards -> Seq(Messages)]
    BY <2>1, SaysTyped DEF Reports
  <2>3. faults' \in 0..MaxFaults
    <3>1. UNCHANGED faults \/ (faults < MaxFaults /\ faults' = faults + 1)
      BY <1>4 DEF ShardEnds
    <3> QED BY <3>1, Bounds DEF TInv
  <2>4. shard' \in [Shards -> {"up", "loading", "idle", "prepared", "forward",
                               "dead"}]
    BY <2>1 DEF Reports, Becomes, TInv
  <2> QED
    BY <1>4, <2>1, <2>2, <2>3, <2>4 DEF ShardEnds, TInv, work, fields
<1>5. CASE ShardDies(s)
  <2>1. faults' \in 0..MaxFaults
    BY <1>5, FaultTyped DEF ShardDies
  <2> QED BY <1>5, <2>1 DEF ShardDies, Becomes, TInv, work, fields
<1> QED BY <1>1, <1>2, <1>3, <1>4, <1>5 DEF ShardNext

\* So does every step.
LEMMA TypesNext == TInv /\ [Next]_vars => TInv'
<1> SUFFICES ASSUME TInv, [Next]_vars PROVE TInv'
  OBVIOUS
<1>1. CASE UNCHANGED vars
  BY <1>1 DEF vars, channels, work, fields, ghosts, TInv
<1> QED BY <1>1, GroupTypes, ThreadTypes, LoopTypes, ShardTypes DEF Next

\* The variables of the group keep their types, the channels hold messages and
\* the counters stay in their bounds.
THEOREM GroupTyped == Spec => []TypeOK
<1>1. TInv => TypeOK
  BY DEF TInv, TypeOK
<1> QED BY <1>1, TypesInit, TypesNext, PTL DEF Spec

-----------------------------------------------------------------------------
(* One request at a time *)

\* Nothing of the request is left to do, or it has not begun.
Past(p) ==
    \/ run[p] = "new" /\ thread[p] = "none"
    \/ run[p] = "over" /\ Ended(p)

Phase(q) == Uncommitted(q) /\ Committed(q) /\ Fields(q)

\* Requests and shards are numbers; those before a shard are shards.
LEMMA Ranks1 == Requests \subseteq Nat /\ Shards \subseteq Nat \ {0}
                /\ \A s \in Shards : s \in 1..s /\ 1..s \subseteq Shards
<1>1. Cardinality(Requests) \in Nat /\ Cardinality(Shards) \in Nat
  BY TPAssumption, FS_CardinalityType
<1>2. Requests = 1..Cardinality(Requests) /\ Shards = 1..Cardinality(Shards)
  BY TPAssumption
<1> QED BY <1>1, <1>2

\* While one request is under way, the others are past, or yet to come.
LEMMA OthersPast ==
    ASSUME OneAtATime, NEW q \in Requests, ~Past(q)
    PROVE  \A p \in Requests \ {q} : Past(p)
<1> SUFFICES ASSUME NEW p \in Requests \ {q} PROVE Past(p)
  OBVIOUS
<1>1. CASE p < q
  BY <1>1 DEF OneAtATime, Past
<1>2. CASE q < p
  BY <1>2 DEF OneAtATime, Past
<1> QED BY <1>1, <1>2, Ranks1

\* The request under way moves, the others stay where they are.
OthersStay(q) ==
    \A p \in Requests \ {q} : thread'[p] = thread[p] /\ run'[p] = run[p]

\* No other request begins while one is under way.
LEMMA TurnKept ==
    ASSUME OneAtATime, NEW q \in Requests, ~Past(q), run[q] # "new", OthersStay(q),
           thread'[q] # "none", run'[q] # "new"
    PROVE  OneAtATime' /\ \A p \in Requests \ {q} : Past(p)'
<1>1. \A p \in Requests \ {q} : Past(p)
  BY OthersPast
<1>2. \A p \in Requests \ {q} : Past(p)'
  BY <1>1 DEF OthersStay, Past, Ended
<1>3. ASSUME NEW r \in Requests
      PROVE  /\ run'[r] = "new" <=> thread'[r] = "none"
             /\ run'[r] # "new" =>
                   \A p \in Requests : p < r => run'[p] = "over" /\ Ended(p)'
  <2>1. run'[r] = "new" <=> thread'[r] = "none"
    BY DEF OthersStay, OneAtATime
  <2>2. ASSUME run'[r] # "new", NEW p \in Requests, p < r
        PROVE  run'[p] = "over" /\ Ended(p)'
    <3>1. run[r] # "new"
      BY <2>2 DEF OthersStay
    <3>2. run[p] = "over" /\ Ended(p)
      BY <2>2, <3>1 DEF OneAtATime
    <3>3. p # q
      BY <3>2 DEF Past
    <3> QED BY <3>2, <3>3 DEF OthersStay, Ended
  <2> QED BY <2>1, <2>2
<1> QED BY <1>2, <1>3 DEF OneAtATime

\* It is the phase of that request that matters.
LEMMA PhaseKept ==
    ASSUME NEW q \in Requests, \A p \in Requests \ {q} : Past(p)',
           BetweenRuns', Phase(q)'
    PROVE  GroupInv'
<1>1. \A p \in Requests : Phase(p)'
  <2>1. ASSUME NEW p \in Requests \ {q} PROVE Phase(p)'
    BY <2>1 DEF Past, Phase, Uncommitted, Committed, Fields, Ended
  <2> QED BY <2>1
<1> QED BY <1>1 DEF GroupInv, Phase

\* A request that rank 0 has not committed to is waited for.
LEMMA UncommittedWaits ==
    ASSUME TInv, OneAtATime, NEW q \in Requests, Fields(q),
           \/ thread[q] \in {"start", "ready", "build", "commit", "release"}
           \/ thread[q] = "finally" /\ ~committed
    PROVE  run[q] = "wait" /\ ~Past(q)
<1>1. run[q] # "new"
  BY DEF OneAtATime
<1>2. run[q] # "stop"
  BY DEF Fields
<1>3. run[q] # "over"
  BY DEF Fields, Ended
<1> QED BY <1>1, <1>2, <1>3 DEF TInv, Past

-----------------------------------------------------------------------------
(* The channels *)

\* What one shard finds in its channel when rank 0 speaks to some.
LEMMA TellOne ==
    ASSUME TInv, NEW m \in Messages, NEW to, Tell(m, to), NEW s \in Shards
    PROVE  /\ s \notin to => toShard'[s] = toShard[s]
           /\ s \in to /\ toShard[s] = <<>> => toShard'[s] = <<m>>
           /\ toShard[s] # <<>> =>
                toShard'[s] # <<>> /\ Head(toShard'[s]) = Head(toShard[s])
<1>1. toShard[s] \in Seq(Messages)
  BY DEF TInv
<1>2. toShard[s] # <<>> => /\ Append(toShard[s], m) # <<>>
                           /\ Head(Append(toShard[s], m)) = Head(toShard[s])
  BY <1>1
<1>3. toShard'[s] = IF s \in to THEN Append(toShard[s], m) ELSE toShard[s]
  BY DEF Tell
<1> QED BY <1>2, <1>3, OneMessage

\* What one message changes in the channel to rank 0.
LEMMA SaysOne ==
    ASSUME TInv, NEW m \in Messages, NEW s \in Shards, Says(s, m)
    PROVE  /\ \A u \in Shards \ {s} : fromShard'[u] = fromShard[u]
           /\ fromShard[s] = <<>> => fromShard'[s] = <<m>>
           /\ fromShard[s] # <<>> =>
                fromShard'[s] # <<>> /\ Head(fromShard'[s]) = Head(fromShard[s])
<1>1. fromShard[s] \in Seq(Messages)
  BY DEF TInv
<1>2. fromShard[s] # <<>> => /\ Append(fromShard[s], m) # <<>>
                             /\ Head(Append(fromShard[s], m)) = Head(fromShard[s])
  BY <1>1
<1>3. fromShard' = [fromShard EXCEPT ![s] = Append(fromShard[s], m)]
  BY DEF Says
<1>4. fromShard'[s] = Append(fromShard[s], m)
      /\ \A u \in Shards \ {s} : fromShard'[u] = fromShard[u]
  BY <1>3 DEF TInv
<1> QED BY <1>2, <1>4, OneMessage

\* What a shard hears is what was at the head of its channel.
LEMMA HearsOne ==
    ASSUME TInv, NEW m, NEW s \in Shards, Hears(s, m)
    PROVE  /\ \A u \in Shards \ {s} : toShard'[u] = toShard[u]
           /\ toShard[s] # <<>> /\ Head(toShard[s]) = m
           /\ \A x : toShard[s] = <<x>> => toShard'[s] = <<>> /\ x = m
BY OneMessage DEF TInv, Hears

\* What one shard answered, and what is left of it.
LEMMA DrainOne ==
    ASSUME TInv, Drain, NEW s \in Shards
    PROVE  /\ \A m : fromShard[s] = <<m>> => fromShard'[s] = <<>> /\ Answer(s) = m
           /\ fromShard[s] = <<>> =>
                 /\ fromShard'[s] = <<>> /\ Answer(s) = "none"
                 /\ shard[s] \notin {"dead", "forward"} => faults' > 0
           /\ fromShard[s] # <<>> => Answer(s) = Head(fromShard[s])
           /\ faults > 0 => faults' > 0
<1>1. fromShard'[s] = IF s \in Answered THEN Tail(fromShard[s]) ELSE <<>>
  BY DEF Drain
<1>2. s \in Answered <=> fromShard[s] # <<>>
  BY DEF Answered
<1>3. Answer(s) = IF s \in Answered THEN Head(fromShard[s]) ELSE "none"
  BY DEF Answer
<1>4. PICK slow : /\ slow = {u \in Shards \ Answered :
                                shard[u] \notin {"dead", "forward"}}
                  /\ IF slow = {} THEN UNCHANGED faults
                     ELSE faults < MaxFaults /\ faults' = faults + 1
  BY DEF Drain
<1>5. (faults > 0 => faults' > 0) /\ (slow # {} => faults' > 0)
  BY <1>4 DEF TInv
<1>6. s \notin Answered /\ shard[s] \notin {"dead", "forward"} => slow # {}
  BY <1>4
<1> QED BY <1>1, <1>2, <1>3, <1>5, <1>6, OneMessage

\* GO reaches live shards, and all of them if all are alive.
LEMMA ReachedAlive ==
    /\ Reached \subseteq Shards /\ \A s \in Reached : Alive(s)
    /\ Reached # Shards => \E s \in Shards : ~Alive(s)
BY Ranks1 DEF Reached

-----------------------------------------------------------------------------
(* The shards *)

OtherShardsStay(s) ==
    \A u \in Shards \ {s} :
        /\ shard'[u] = shard[u] /\ toShard'[u] = toShard[u]
        /\ fromShard'[u] = fromShard[u]

RankZeroStays == UNCHANGED <<group, work, thread, run, fields, torn>>

\* What a shard at each of its points may do next.
LEMMA ShardMoves ==
    ASSUME TInv, NEW s \in Shards, ShardNext(s) \/ ShardEnds(s)
    PROVE  /\ OtherShardsStay(s) /\ RankZeroStays /\ (faults > 0 => faults' > 0)
           /\ Alive(s) /\ Alive(s)'
           /\ ~Rests(s) /\ ~IsReady(s) /\ ~Doing(s, "idle", <<>>, <<"READY">>)
           /\ shard[s] \in {"idle", "prepared", "forward"}
           /\ Hearing(s) => Hearing(s)'
           /\ Released(s) => Released(s)'
           /\ Late(s) => Late(s)'
           /\ Skipped(s) => Skipped(s)'
<1> USE DEF Messages
<1>t. /\ shard \in [Shards -> {"up", "loading", "idle", "prepared", "forward",
                               "dead"}]
      /\ "READY" # "ERROR" /\ "DONE" # "ERROR"
  BY DEF TInv
<1>1. CASE Prepares(s)
  <2>1. /\ shard[s] = "idle" /\ toShard[s] # <<>> /\ Head(toShard[s]) = "PREPARE"
        /\ \A u \in Shards \ {s} : toShard'[u] = toShard[u]
        /\ \A x : toShard[s] = <<x>> => toShard'[s] = <<>> /\ x = "PREPARE"
    BY <1>1, HearsOne DEF Prepares
  <2>2. PICK m \in {"READY", "ERROR"} :
          /\ Says(s, m)
          /\ shard' = [shard EXCEPT ![s] = IF m = "READY" THEN "prepared" ELSE "idle"]
    BY <1>1, <1>t DEF Prepares, Becomes
  <2>3. /\ \A u \in Shards \ {s} : fromShard'[u] = fromShard[u]
        /\ fromShard[s] = <<>> => fromShard'[s] = <<m>>
        /\ fromShard[s] # <<>> =>
              fromShard'[s] # <<>> /\ Head(fromShard'[s]) = Head(fromShard[s])
    BY <2>2, SaysOne
  <2>4. /\ shard'[s] = IF m = "READY" THEN "prepared" ELSE "idle"
        /\ \A u \in Shards \ {s} : shard'[u] = shard[u]
    BY <1>t, <2>2
  <2>5. RankZeroStays /\ faults' = faults
    BY <1>1 DEF Prepares, RankZeroStays, ghosts
  <2>6. Late(s) => Late(s)'
    BY <2>1, <2>3, <2>4, OneMessage DEF Late
  <2> QED
    BY <2>1, <2>3, <2>4, <2>5, <2>6
    DEF OtherShardsStay, Alive, Rests, IsReady, Doing, Hearing, Released, Skipped
<1>2. CASE Idles(s)
  <2>1. PICK m \in {"SKIP", "GO"} :
          /\ Hears(s, m)
          /\ IF m = "SKIP" THEN Says(s, "IDLE") ELSE UNCHANGED fromShard
    BY <1>2 DEF Idles
  <2>2. /\ shard[s] = "idle" /\ toShard[s] # <<>> /\ Head(toShard[s]) = m
        /\ \A u \in Shards \ {s} : toShard'[u] = toShard[u]
        /\ \A x : toShard[s] = <<x>> => toShard'[s] = <<>> /\ x = m
    BY <1>2, <2>1, HearsOne DEF Idles
  <2>3. /\ \A u \in Shards \ {s} : fromShard'[u] = fromShard[u]
        /\ m = "SKIP" /\ fromShard[s] = <<>> => fromShard'[s] = <<"IDLE">>
        /\ fromShard[s] # <<>> =>
              fromShard'[s] # <<>> /\ Head(fromShard'[s]) = Head(fromShard[s])
    BY <2>1, SaysOne
  <2>4. RankZeroStays /\ faults' = faults /\ shard' = shard
    BY <1>2 DEF Idles, RankZeroStays, ghosts
  <2>5. Late(s) => Late(s)'
    BY <2>2, <2>3, <2>4 DEF Late
  <2>6. Doing(s, "idle", <<"SKIP">>, <<>>) => Doing(s, "idle", <<>>, <<"IDLE">>)'
    BY <2>2, <2>3, <2>4, OneMessage DEF Doing
  <2> QED
    BY <2>2, <2>3, <2>4, <2>5, <2>6, OneMessage
    DEF OtherShardsStay, Alive, Rests, IsReady, Doing, Hearing, Released, Skipped
<1>3. CASE AwaitGo(s)
  <2>1. /\ shard[s] = "prepared" /\ toShard[s] # <<>>
        /\ \A u \in Shards \ {s} : toShard'[u] = toShard[u]
        /\ \A x : toShard[s] = <<x>> => toShard'[s] = <<>> /\ x = Head(toShard[s])
    BY <1>3, HearsOne DEF AwaitGo
  <2>2. /\ \A u \in Shards \ {s} : fromShard'[u] = fromShard[u]
        /\ Head(toShard[s]) = "GO" => fromShard'[s] = fromShard[s]
        /\ Head(toShard[s]) # "GO" =>
              /\ fromShard[s] = <<>> => fromShard'[s] = <<"IDLE">>
              /\ fromShard[s] # <<>> =>
                    fromShard'[s] # <<>> /\ Head(fromShard'[s]) = Head(fromShard[s])
    <3>1. CASE Head(toShard[s]) = "GO"
      BY <1>3, <3>1 DEF AwaitGo
    <3>2. CASE Head(toShard[s]) # "GO"
      BY <1>3, <3>2, SaysOne DEF AwaitGo
    <3> QED BY <3>1, <3>2
  <2>3. /\ shard'[s] = IF Head(toShard[s]) = "GO" THEN "forward" ELSE "idle"
        /\ \A u \in Shards \ {s} : shard'[u] = shard[u]
    BY <1>3, <1>t DEF AwaitGo, Becomes
  <2>4. RankZeroStays /\ faults' = faults
    BY <1>3 DEF AwaitGo, RankZeroStays, ghosts
  <2>5. Late(s) => Late(s)'
    BY <2>1, <2>2, <2>3 DEF Late
  <2>6. Released(s) => Released(s)'
    BY <2>1, <2>2, <2>3, OneMessage DEF Released, Doing
  <2>7. Doing(s, "prepared", <<"SKIP">>, <<>>) => Doing(s, "idle", <<>>, <<"IDLE">>)'
    BY <2>1, <2>2, <2>3, OneMessage DEF Doing
  <2> QED
    BY <2>1, <2>2, <2>3, <2>4, <2>5, <2>6, <2>7
    DEF OtherShardsStay, Alive, Rests, IsReady, Doing, Hearing, Skipped
<1>4. CASE ShardEnds(s)
  <2>1. PICK m \in {"DONE", "ERROR"} : Reports(s, m)
    BY <1>4 DEF ShardEnds
  <2>2. /\ \A u \in Shards \ {s} : fromShard'[u] = fromShard[u]
        /\ fromShard[s] = <<>> => fromShard'[s] = <<m>>
        /\ fromShard[s] # <<>> =>
              fromShard'[s] # <<>> /\ Head(fromShard'[s]) = Head(fromShard[s])
    BY <2>1, SaysOne DEF Reports
  <2>3. /\ shard[s] = "forward" /\ shard'[s] = "idle" /\ toShard' = toShard
        /\ \A u \in Shards \ {s} : shard'[u] = shard[u]
    BY <1>4, <1>t, <2>1 DEF ShardEnds, Reports, Becomes
  <2>4. RankZeroStays /\ (faults > 0 => faults' > 0)
    BY <1>4 DEF ShardEnds, RankZeroStays, TInv
  <2>5. Late(s) => Late(s)'
    BY <2>2, <2>3, OneMessage DEF Late
  <2>6. Released(s) => Released(s)'
    BY <2>2, <2>3 DEF Released, Doing
  <2> QED
    BY <2>2, <2>3, <2>4, <2>5, <2>6
    DEF OtherShardsStay, Alive, Rests, IsReady, Doing, Hearing, Skipped
<1> QED BY <1>1, <1>2, <1>3, <1>4 DEF ShardNext

\* A shard that reports an error in a request that goes ahead has a reason.
LEMMA ErrorsHaveCause ==
    ASSUME TInv, FaultsSeen, NEW s \in Shards, ShardNext(s) \/ ShardEnds(s),
           Released(s), fromShard'[s] = <<"ERROR">>
    PROVE  faults' > 0 \/ torn \/ block = "raise"
<1>1. CASE ShardEnds(s)
  <2>1. CASE Reports(s, IF block = "return" THEN "DONE" ELSE "ERROR")
    <3>1. shard[s] = "forward" /\ fromShard[s] = <<>>
      BY <1>1 DEF ShardEnds, Released, Doing
    <3>2. block = "return" => fromShard'[s] = <<"DONE">>
      BY <2>1, <3>1, SaysOne DEF Reports, Messages
    <3>3. <<"DONE">> # <<"ERROR">>
      BY OneMessage
    <3> QED BY <3>2, <3>3 DEF TInv
  <2>2. CASE ~trusted /\ ~runner
    BY <2>2 DEF FaultsSeen
  <2>3. CASE faults' = faults + 1
    BY <2>3 DEF TInv
  <2> QED BY <1>1, <2>1, <2>2, <2>3 DEF ShardEnds
<1>2. CASE AwaitGo(s)
  <2>1. Doing(s, "prepared", <<"GO">>, <<>>)
    BY <1>2 DEF AwaitGo, Released, Doing
  <2>2. fromShard' = fromShard /\ fromShard[s] = <<>>
    BY <1>2, <2>1, OneMessage DEF AwaitGo, Doing
  <2> QED BY <2>2
<1>3. CASE Prepares(s) \/ Idles(s)
  BY <1>3 DEF Prepares, Idles, Hears, Released, Doing
<1> QED BY <1>1, <1>2, <1>3 DEF ShardNext

\* A step of a shard keeps the invariant.
LEMMA ShardKeeps ==
    ASSUME TPInv, TInv', NEW s \in Shards, ShardNext(s) \/ ShardEnds(s)
    PROVE  TPInv'
<1>1. /\ OtherShardsStay(s) /\ RankZeroStays /\ (faults > 0 => faults' > 0)
      /\ Alive(s) /\ Alive(s)'
      /\ ~Rests(s) /\ ~IsReady(s) /\ ~Doing(s, "idle", <<>>, <<"READY">>)
      /\ shard[s] \in {"idle", "prepared", "forward"}
      /\ Hearing(s) => Hearing(s)'
      /\ Released(s) => Released(s)'
      /\ Late(s) => Late(s)'
      /\ Skipped(s) => Skipped(s)'
  BY ShardMoves DEF TPInv
<1>2. /\ group' = group /\ thread' = thread /\ run' = run
      /\ pass' = pass /\ block' = block /\ trusted' = trusted /\ runner' = runner
      /\ committed' = committed /\ dispatched' = dispatched
      /\ stoodDown' = stoodDown /\ rankZeroRaised' = rankZeroRaised /\ torn' = torn
  BY <1>1 DEF RankZeroStays, work, fields
<1>3. ~Quiet
  BY <1>1 DEF Quiet
<1>4. OneAtATime'
  BY <1>2 DEF TPInv, OneAtATime, Ended
<1>5. \A u \in Shards : Alive(u)' <=> Alive(u)
  BY <1>1 DEF Alive, OtherShardsStay
<1>6. FaultsSeen'
  BY <1>1, <1>2, <1>5 DEF TPInv, FaultsSeen
<1>7. SettingUp'
  <2>1. ASSUME NEW u \in Shards, Alive(u)'
        PROVE  /\ group' = "start" => Doing(u, "up", <<>>, <<"HELLO">>)'
               /\ group' = "load" => Doing(u, "loading", <<>>, <<>>)'
               /\ group' = "loaded" => Doing(u, "idle", <<>>, <<"READY">>)'
    <3>1. CASE u = s
      BY <1>1, <1>2, <3>1 DEF TPInv, SettingUp, Doing
    <3>2. CASE u # s
      BY <1>1, <1>2, <1>5, <2>1, <3>2 DEF TPInv, SettingUp, Doing, OtherShardsStay
    <3> QED BY <3>1, <3>2
  <2> QED BY <1>2, <2>1 DEF TPInv, SettingUp
<1>8. GroupInv'
  <2> SUFFICES ASSUME group' = "up"
               PROVE  BetweenRuns' /\ \A q \in Requests :
                        Uncommitted(q)' /\ Committed(q)' /\ Fields(q)'
    BY DEF GroupInv
  <2>0. BetweenRuns /\ \A q \in Requests : Uncommitted(q) /\ Committed(q) /\ Fields(q)
    BY <1>2 DEF TPInv, GroupInv
  <2>1. BetweenRuns'
    BY <1>2, <1>3, <2>0 DEF BetweenRuns
  <2>2. ASSUME NEW q \in Requests PROVE Uncommitted(q)'
    <3>1. thread[q] \notin {"start", "build", "commit"}
          /\ ~(thread[q] = "refused" /\ run[q] # "over")
      BY <1>1, <1>3, <2>0 DEF Uncommitted
    <3>2. thread[q] = "ready" => \A u \in Shards : Alive(u)' => Hearing(u)'
      BY <1>1, <1>5, <2>0 DEF Uncommitted, Hearing, Doing, OtherShardsStay
    <3>3. thread[q] = "finally" /\ ~committed =>
            \A u \in Shards : Alive(u)' => LeftAlone(u)'
      BY <1>1, <1>5, <2>0
      DEF Uncommitted, LeftAlone, Rests, IsReady, Late, Doing, OtherShardsStay
    <3>4. thread[q] = "release" => \A u \in Shards : Alive(u)' => Skipped(u)'
      BY <1>1, <1>5, <2>0 DEF Uncommitted, Skipped, Late, Doing, OtherShardsStay
    <3>5. thread[q] = "over" /\ run[q] # "over" /\ ~committed =>
            ~stoodDown /\ faults' > 0
      BY <1>1, <1>3, <2>0 DEF Uncommitted, TPInv, TInv
    <3> QED BY <1>2, <3>1, <3>2, <3>3, <3>4, <3>5 DEF Uncommitted
  <2>3. ASSUME NEW q \in Requests PROVE Committed(q)'
    <3> SUFFICES ASSUME thread[q] \in {"forward", "finally", "over"}, committed,
                        run[q] # "over"
                 PROVE  /\ \A u \in Shards : Alive(u)' => Released(u)'
                        /\ \A u \in Shards : Alive(u)' /\ fromShard'[u] = <<"ERROR">> =>
                              faults' > 0 \/ torn \/ block = "raise"
                        /\ thread[q] # "forward" /\ ~rankZeroRaised => block = "return"
      BY <1>2 DEF Committed
    <3>1. /\ \A u \in Shards : Alive(u) => Released(u)
          /\ \A u \in Shards : Alive(u) /\ fromShard[u] = <<"ERROR">> =>
                faults > 0 \/ torn \/ block = "raise"
          /\ thread[q] # "forward" /\ ~rankZeroRaised => block = "return"
      BY <2>0 DEF Committed
    <3>2. \A u \in Shards : Alive(u)' => Released(u)'
      BY <1>1, <1>5, <3>1 DEF Released, Doing, OtherShardsStay
    <3>3. \A u \in Shards : Alive(u)' /\ fromShard'[u] = <<"ERROR">> =>
              faults' > 0 \/ torn \/ block = "raise"
      <4>1. fromShard'[s] = <<"ERROR">> => faults' > 0 \/ torn \/ block = "raise"
        BY <1>1, <3>1, ErrorsHaveCause DEF TPInv
      <4>2. \A u \in Shards \ {s} : fromShard'[u] = fromShard[u]
        BY <1>1 DEF OtherShardsStay
      <4> QED BY <1>1, <1>5, <3>1, <4>1, <4>2
    <3> QED BY <3>1, <3>2, <3>3
  <2>4. \A q \in Requests : Fields(q)'
    BY <1>2, <2>0 DEF Fields, Ended
  <2> QED BY <2>1, <2>2, <2>3, <2>4
<1>9. NobodyLeftBehind'
  <2> SUFFICES ASSUME NEW q \in Requests, thread[q] = "forward", NEW u \in Shards
               PROVE  \/ shard'[u] = "forward"
                      \/ shard'[u] = "prepared" /\ toShard'[u] = <<"GO">>
                      \/ pass = Passes \/ faults' > 0 \/ torn
    BY <1>2 DEF NobodyLeftBehind
  <2>0. \/ shard[u] = "forward"
        \/ shard[u] = "prepared" /\ toShard[u] = <<"GO">>
        \/ pass = Passes \/ faults > 0 \/ torn
    BY DEF TPInv, NobodyLeftBehind
  <2>1. CASE u # s
    BY <1>1, <2>0, <2>1 DEF OtherShardsStay
  <2>2. CASE u = s /\ shard[s] = "forward"
    <3>1. ShardEnds(s)
      BY <2>2 DEF ShardNext, Prepares, Idles, AwaitGo
    <3>2. pass = Passes \/ (~trusted /\ ~runner) \/ faults' = faults + 1
      BY <3>1 DEF ShardEnds
    <3> QED BY <3>2 DEF TPInv, FaultsSeen, TInv
  <2>3. CASE u = s /\ shard[s] = "prepared" /\ toShard[s] = <<"GO">>
    <3>1. AwaitGo(s)
      BY <2>3 DEF ShardNext, Prepares, Idles, ShardEnds
    <3>2. shard'[s] = "forward"
      BY <2>3, <3>1, OneMessage DEF AwaitGo, Becomes, TPInv, TInv
    <3> QED BY <2>3, <3>2
  <2> QED BY <1>1, <2>0, <2>1, <2>2, <2>3
<1> QED BY <1>4, <1>6, <1>7, <1>8, <1>9 DEF TPInv

\* So does its death, which is a fault.
LEMMA ShardDiesKeeps ==
    ASSUME TPInv, TInv', NEW s \in Shards, ShardDies(s)
    PROVE  TPInv'
<1>1. /\ group # "gone" /\ Alive(s) /\ faults' > 0
      /\ group' = group /\ thread' = thread /\ run' = run
      /\ pass' = pass /\ block' = block /\ trusted' = trusted /\ runner' = runner
      /\ committed' = committed /\ dispatched' = dispatched
      /\ stoodDown' = stoodDown /\ rankZeroRaised' = rankZeroRaised /\ torn' = torn
  BY DEF ShardDies, TPInv, TInv, work, fields
<1>2. ~Alive(s)' /\ OtherShardsStay(s)
  BY DEF ShardDies, TPInv, TInv, Becomes, Alive, OtherShardsStay
<1>3. \A u \in Shards : Alive(u)' => u # s /\ Alive(u)
  BY <1>2 DEF Alive, OtherShardsStay
<1>4. OneAtATime'
  BY <1>1 DEF TPInv, OneAtATime, Ended
<1>5. FaultsSeen'
  BY <1>1 DEF TPInv, FaultsSeen
<1>6. SettingUp'
  BY <1>1, <1>2, <1>3 DEF TPInv, SettingUp, Doing, OtherShardsStay
<1>7. Quiet => Quiet'
  BY <1>2, <1>3 DEF Quiet, Rests, Doing, OtherShardsStay
<1>8. GroupInv'
  <2> SUFFICES ASSUME group' = "up"
               PROVE  BetweenRuns' /\ \A q \in Requests :
                        Uncommitted(q)' /\ Committed(q)' /\ Fields(q)'
    BY DEF GroupInv
  <2>0. BetweenRuns /\ \A q \in Requests : Uncommitted(q) /\ Committed(q) /\ Fields(q)
    BY <1>1 DEF TPInv, GroupInv
  <2>1. BetweenRuns'
    BY <1>1, <1>7, <2>0 DEF BetweenRuns
  <2>2. ASSUME NEW q \in Requests PROVE Uncommitted(q)'
    <3>1. thread[q] = "ready" => \A u \in Shards : Alive(u)' => Hearing(u)'
      BY <1>2, <1>3, <2>0 DEF Uncommitted, Hearing, Doing, OtherShardsStay
    <3>2. thread[q] \in {"build", "commit"} =>
            \A u \in Shards : Alive(u)' => IsReady(u)'
      BY <1>2, <1>3, <2>0 DEF Uncommitted, IsReady, Doing, OtherShardsStay
    <3>3. thread[q] = "finally" /\ ~committed =>
            \A u \in Shards : Alive(u)' => LeftAlone(u)'
      BY <1>1, <1>2, <1>3, <2>0
      DEF Uncommitted, LeftAlone, Rests, IsReady, Late, Doing, OtherShardsStay
    <3>4. thread[q] = "release" => \A u \in Shards : Alive(u)' => Skipped(u)'
      BY <1>1, <1>2, <1>3, <2>0 DEF Uncommitted, Skipped, Late, Doing, OtherShardsStay
    <3> QED BY <1>1, <1>7, <2>0, <3>1, <3>2, <3>3, <3>4 DEF Uncommitted
  <2>3. ASSUME NEW q \in Requests PROVE Committed(q)'
    BY <1>1, <1>2, <1>3, <2>0 DEF Committed, Released, Doing, OtherShardsStay
  <2>4. \A q \in Requests : Fields(q)'
    BY <1>1, <2>0 DEF Fields, Ended
  <2> QED BY <2>1, <2>2, <2>3, <2>4
<1>9. NobodyLeftBehind'
  BY <1>1 DEF NobodyLeftBehind
<1> QED BY <1>4, <1>5, <1>6, <1>8, <1>9 DEF TPInv

-----------------------------------------------------------------------------
(* Rank 0 *)

\* When the group is taken down, what is left to show is that no thread is in a
\* forward that lost a rank without a reason.
LEMMA GoneKeeps ==
    ASSUME TPInv, TInv', stop, OneAtATime', NobodyLeftBehind', torn' = torn,
           UNCHANGED <<trusted, runner, thread>>, faults > 0 => faults' > 0
    PROVE  TPInv'
<1>1. group' = "gone"
  BY DEF stop
<1>2. FaultsSeen'
  BY <1>1 DEF TPInv, FaultsSeen
<1> QED BY <1>1, <1>2 DEF TPInv, SettingUp, GroupInv

\* Bringing the group up.
LEMMA GroupKeeps ==
    ASSUME TPInv, TInv', GroupNext
    PROVE  TPInv'
<1>0. /\ group \in {"start", "load", "loaded"}
      /\ UNCHANGED <<work, thread, run, fields, ghosts>>
  BY DEF GroupNext, start, load_from_disk, wait_ready, ShardsConnected
<1>1. /\ thread' = thread /\ run' = run /\ faults' = faults
      /\ trusted' = trusted /\ runner' = runner /\ torn' = torn
      /\ \A q \in Requests : thread[q] = "none" /\ run[q] = "new"
  BY <1>0 DEF work, ghosts, TPInv, SettingUp, OneAtATime
<1>2. OneAtATime' /\ NobodyLeftBehind'
  BY <1>1 DEF TPInv, OneAtATime, NobodyLeftBehind, Ended
<1>3. CASE stop
  BY <1>1, <1>2, <1>3, GoneKeeps
<1>4. CASE ~stop
  <2>1. /\ group' \in {"load", "loaded", "up"}
        /\ \A s \in Shards : Alive(s)' => Alive(s)
        /\ \A s \in Shards : Alive(s)' =>
              /\ group' = "load" => Doing(s, "loading", <<>>, <<>>)'
              /\ group' = "loaded" => Doing(s, "idle", <<>>, <<"READY">>)'
              /\ group' = "up" => Rests(s)'
    <3>1. CASE start
      BY <1>4, <3>1 DEF start, TPInv, TInv, SettingUp, Doing, Alive
    <3>2. CASE load_from_disk
      BY <1>4, <3>2, OneMessage
      DEF load_from_disk, ShardsConnected, TPInv, TInv, SettingUp, Doing, Alive
    <3>3. CASE wait_ready
      <4>1. /\ group = "loaded" /\ group' = "up" /\ shard' = shard /\ toShard' = toShard
            /\ fromShard' = [s \in Shards |-> Tail(fromShard[s])]
        BY <1>4, <3>3 DEF wait_ready
      <4>2. \A s \in Shards : Alive(s) => Doing(s, "idle", <<>>, <<"READY">>)
        BY <4>1 DEF TPInv, SettingUp
      <4>3. \A s \in Shards : Alive(s) => Rests(s)'
        BY <4>1, <4>2, OneMessage DEF Rests, Doing
      <4> QED BY <4>1, <4>3 DEF Alive
    <3> QED BY <3>1, <3>2, <3>3 DEF GroupNext
  <2>2. \A s \in Shards : ~Alive(s)' => ~Alive(s)
    <3>1. CASE start
      BY <1>4, <3>1 DEF start, TPInv, TInv, Alive
    <3>2. CASE load_from_disk
      BY <1>4, <3>2 DEF load_from_disk, TPInv, TInv, Alive
    <3>3. CASE wait_ready
      BY <1>4, <3>3 DEF wait_ready, Alive
    <3> QED BY <3>1, <3>2, <3>3 DEF GroupNext
  <2>3. FaultsSeen'
    BY <1>0, <1>1, <2>2 DEF TPInv, FaultsSeen
  <2>4. SettingUp'
    BY <1>1, <2>1 DEF SettingUp
  <2>5. GroupInv'
    <3> SUFFICES ASSUME group' = "up" PROVE GroupInv'
      BY DEF GroupInv
    <3>1. Quiet'
      BY <2>1 DEF Quiet
    <3> QED
      BY <1>1, <3>1
      DEF GroupInv, BetweenRuns, Uncommitted, Committed, Fields, Ended
  <2> QED BY <1>2, <2>3, <2>4, <2>5 DEF TPInv
<1> QED BY <1>3, <1>4

\* run() starts its thread: everybody is at rest.
LEMMA StartsKeeps ==
    ASSUME TPInv, TInv', InTurn, NEW q \in Requests, Starts(q)
    PROVE  TPInv'
<1>1. /\ group = "up" /\ group' = group /\ run[q] = "new"
      /\ \A p \in Requests : p < q => run[p] = "over" /\ Ended(p)
      /\ run' = [run EXCEPT ![q] = "wait"] /\ thread' = [thread EXCEPT ![q] = "start"]
      /\ UNCHANGED <<shard, channels, work, fields, ghosts>>
  BY DEF Starts, Goes, InTurn
<1>2. /\ run'[q] = "wait" /\ thread'[q] = "start" /\ OthersStay(q)
  BY <1>1 DEF TPInv, TInv, OthersStay
<1>3. \A p \in Requests : q < p => run[p] = "new"
  BY <1>1 DEF TPInv, OneAtATime
<1>4. \A p \in Requests \ {q} : Past(p)
  <2>1. ASSUME NEW p \in Requests \ {q} PROVE Past(p)
    <3>1. p < q \/ q < p
      BY Ranks1
    <3> QED BY <1>1, <1>3, <3>1 DEF TPInv, OneAtATime, Past
  <2> QED BY <2>1
<1>5. \A p \in Requests \ {q} : Past(p)'
  BY <1>2, <1>4 DEF OthersStay, Past, Ended
<1>6. Quiet
  BY <1>1, <1>4 DEF TPInv, GroupInv, BetweenRuns, Past
<1>7. Quiet'
  BY <1>1, <1>6 DEF channels, Quiet, Alive, Rests, Doing
<1>8. OneAtATime'
  <2>1. ASSUME NEW r \in Requests
        PROVE  /\ run'[r] = "new" <=> thread'[r] = "none"
               /\ run'[r] # "new" =>
                     \A p \in Requests : p < r => run'[p] = "over" /\ Ended(p)'
    <3>1. CASE r = q
      <4>1. \A p \in Requests : p < q => p # q
        BY Ranks1
      <4> QED BY <1>1, <1>2, <3>1, <4>1 DEF OthersStay, Ended
    <3>2. CASE r # q
      <4>1. run'[r] = "new" <=> thread'[r] = "none"
        BY <1>2, <3>2 DEF OthersStay, TPInv, OneAtATime
      <4>2. ASSUME run'[r] # "new", NEW p \in Requests, p < r
            PROVE  run'[p] = "over" /\ Ended(p)'
        <5>1. run[p] = "over" /\ Ended(p)
          BY <1>2, <3>2, <4>2 DEF OthersStay, TPInv, OneAtATime
        <5>2. p # q
          BY <1>1, <5>1
        <5> QED BY <1>2, <5>1, <5>2 DEF OthersStay, Ended
      <4> QED BY <4>1, <4>2
    <3> QED BY <3>1, <3>2
  <2> QED BY <2>1 DEF OneAtATime
<1>9. FaultsSeen'
  BY <1>1, <1>2 DEF channels, work, ghosts, TPInv, FaultsSeen, Alive, OthersStay
<1>10. GroupInv'
  <2>1. BetweenRuns'
    BY <1>2 DEF BetweenRuns
  <2>2. Phase(q)'
    BY <1>2, <1>7 DEF Phase, Uncommitted, Committed, Fields
  <2> QED BY <1>5, <2>1, <2>2, PhaseKept
<1>11. NobodyLeftBehind'
  BY <1>2, <1>5 DEF NobodyLeftBehind, Past, Ended
<1>12. SettingUp'
  BY <1>1 DEF SettingUp
<1> QED BY <1>8, <1>9, <1>10, <1>11, <1>12 DEF TPInv

\* What holds of every step of the thread: it moves, nobody else does.
LEMMA ThreadMoves ==
    ASSUME TPInv, TInv', NEW q \in Requests, NEW w, thread[q] # "none",
           ~Ended(q), group = "up", group' = group, run' = run, shard' = shard,
           thread' = [thread EXCEPT ![q] = w], w # "none",
           w = "refused" => faults > 0, faults > 0 => faults' > 0,
           ~trusted' /\ ~runner' => torn',
           Phase(q)',
           run[q] = "over" => Quiet',
           w = "forward" => \A s \in Shards :
                shard'[s] = "prepared" /\ toShard'[s] = <<"GO">>
    PROVE  TPInv'
<1>1. thread'[q] = w /\ run'[q] = run[q] /\ run[q] # "new" /\ ~Past(q)
  BY DEF TPInv, TInv, OneAtATime, Past
<1>2. OthersStay(q)
  BY DEF TPInv, TInv, OthersStay
<1>3. OneAtATime' /\ \A p \in Requests \ {q} : Past(p)'
  BY <1>1, <1>2, TurnKept DEF TPInv
<1>4. BetweenRuns'
  BY <1>1 DEF BetweenRuns
<1>5. GroupInv'
  BY <1>3, <1>4, PhaseKept
<1>6. FaultsSeen'
  <2>1. \A s \in Shards : Alive(s)' <=> Alive(s)
    BY DEF Alive
  <2>2. \A p \in Requests : thread'[p] = "refused" => faults' > 0
    BY <1>1, <1>2 DEF OthersStay, TPInv, FaultsSeen
  <2> QED BY <2>1, <2>2 DEF TPInv, FaultsSeen
<1>7. NobodyLeftBehind'
  <2> SUFFICES ASSUME NEW p \in Requests, thread'[p] = "forward", NEW s \in Shards
               PROVE  shard'[s] = "prepared" /\ toShard'[s] = <<"GO">>
    BY DEF NobodyLeftBehind
  <2>1. p = q
    BY <1>3 DEF Past, Ended
  <2> QED BY <1>1, <2>1
<1>8. SettingUp'
  BY DEF SettingUp
<1> QED BY <1>3, <1>5, <1>6, <1>7, <1>8 DEF TPInv

\* The request is refused, or told to every shard: all are at rest.
LEMMA BeginsKeeps ==
    ASSUME TPInv, TInv', NEW q \in Requests, Unhealthy(q) \/ execute(q)
    PROVE  TPInv'
<1>0. /\ group = "up" /\ thread[q] = "start"
      /\ UNCHANGED <<group, shard, fromShard, run, torn, faults>>
  BY DEF Unhealthy, execute, Healthy, channels, ghosts
<1>1. Phase(q)
  BY <1>0 DEF TPInv, GroupInv, Phase
<1>2. Quiet /\ run[q] = "wait" /\ ~Ended(q)
  BY <1>0, <1>1, UncommittedWaits DEF Phase, Uncommitted, TPInv, Ended
<1>3. CASE Unhealthy(q)
  <2>1. faults > 0
    BY <1>0, <1>3 DEF Unhealthy, Healthy, TPInv, FaultsSeen
  <2>2. /\ thread' = [thread EXCEPT ![q] = "refused"] /\ toShard' = toShard
        /\ trusted' = trusted /\ runner' = runner
    BY <1>3 DEF Unhealthy, Goes, channels, work
  <2>3. Quiet'
    BY <1>0, <1>2, <2>2 DEF Quiet, Alive, Rests, Doing
  <2>4. thread'[q] = "refused" /\ run'[q] = "wait"
    BY <1>0, <1>2, <2>2 DEF TPInv, TInv
  <2>5. Phase(q)'
    BY <2>3, <2>4 DEF Phase, Uncommitted, Committed, Fields
  <2>6. ~trusted' /\ ~runner' => torn'
    BY <1>0, <2>2 DEF TPInv, FaultsSeen
  <2> QED BY <1>0, <1>2, <2>1, <2>2, <2>5, <2>6, ThreadMoves
<1>4. CASE execute(q)
  <2>1. /\ thread' = [thread EXCEPT ![q] = "ready"] /\ Tell("PREPARE", Shards)
        /\ committed' = FALSE /\ dispatched' = TRUE /\ stoodDown' = TRUE
        /\ runner' = ~trusted'
    BY <1>4 DEF execute, Goes
  <2>2. \A s \in Shards : Alive(s)' => Hearing(s)'
    <3>1. ASSUME NEW s \in Shards, Alive(s)' PROVE Hearing(s)'
      <4>1. Rests(s)
        BY <1>0, <1>2, <3>1 DEF Quiet, Alive
      <4>2. toShard'[s] = <<"PREPARE">>
        BY <2>1, <4>1, TellOne DEF Rests, Doing, Messages, TPInv
      <4> QED BY <1>0, <4>1, <4>2 DEF Rests, Doing, Hearing
    <3> QED BY <3>1
  <2>3. thread'[q] = "ready" /\ run'[q] = "wait"
    BY <1>0, <1>2, <2>1 DEF TPInv, TInv
  <2>4. Phase(q)'
    BY <2>1, <2>2, <2>3 DEF Phase, Uncommitted, Committed, Fields
  <2> QED BY <1>0, <1>2, <2>1, <2>4, ThreadMoves DEF TInv
<1> QED BY <1>3, <1>4

\* Every shard has answered, or the request does not go ahead.
LEMMA prepareKeeps ==
    ASSUME TPInv, TInv', NEW q \in Requests, prepare(q)
    PROVE  TPInv'
<1>0. /\ group = "up" /\ thread[q] = "ready" /\ Drain
      /\ UNCHANGED <<group, shard, toShard, work, run, committed, dispatched,
                     stoodDown, torn>>
  BY DEF prepare
<1>1. Phase(q)
  BY <1>0 DEF TPInv, GroupInv, Phase
<1>2. run[q] = "wait" /\ ~Ended(q) /\ ~committed /\ dispatched /\ stoodDown
  BY <1>0, <1>1, UncommittedWaits DEF Phase, Fields, TPInv, Ended
<1>3. \A s \in Shards : Alive(s) => Hearing(s)
  BY <1>0, <1>1 DEF Phase, Uncommitted
<1>4. PICK w \in {"build", "finally"} :
        /\ thread' = [thread EXCEPT ![q] = w]
        /\ w = "build" => AllReady
  BY DEF prepare, Goes, Raises
<1>5. thread'[q] = w /\ run'[q] = "wait"
  BY <1>0, <1>2, <1>4 DEF TPInv, TInv
<1>6. w = "build" => \A s \in Shards : Alive(s)' => IsReady(s)'
  <2>1. ASSUME AllReady, NEW s \in Shards, Alive(s)' PROVE IsReady(s)'
    <3>1. Hearing(s) /\ Answer(s) = "READY"
      BY <1>0, <1>3, <2>1 DEF Alive, AllReady
    <3>2. Doing(s, "prepared", <<>>, <<"READY">>)
      BY <1>0, <3>1, DrainOne DEF Hearing, Doing, TPInv
    <3> QED BY <1>0, <3>2, DrainOne DEF Doing, IsReady, TPInv
  <2> QED BY <1>4, <2>1
<1>7. \A s \in Shards : Alive(s)' => LeftAlone(s)'
  <2>1. ASSUME NEW s \in Shards, Alive(s)' PROVE LeftAlone(s)'
    <3>0. Hearing(s)
      BY <1>0, <1>3, <2>1 DEF Alive
    <3>1. CASE Doing(s, "idle", <<"PREPARE">>, <<>>)
      <4>1. fromShard'[s] = <<>> /\ faults' > 0
        BY <1>0, <3>1, DrainOne DEF Doing, TPInv
      <4> QED BY <1>0, <3>1, <4>1, OneMessage DEF Doing, LeftAlone, Late
    <3>2. CASE Doing(s, "prepared", <<>>, <<"READY">>)
               \/ Doing(s, "idle", <<>>, <<"ERROR">>)
      BY <1>0, <3>2, DrainOne DEF Doing, LeftAlone, Rests, IsReady, TPInv
    <3> QED BY <3>0, <3>1, <3>2 DEF Hearing
  <2> QED BY <2>1
<1>8. Phase(q)'
  BY <1>0, <1>2, <1>5, <1>6, <1>7 DEF Phase, Uncommitted, Committed, Fields
<1>9. (faults > 0 => faults' > 0) /\ (~trusted' /\ ~runner' => torn')
  <2>1. faults > 0 => faults' > 0
    BY <1>0, TPAssumption, DrainOne DEF TPInv
  <2> QED BY <1>0, <2>1 DEF work, TPInv, FaultsSeen
<1> QED BY <1>0, <1>2, <1>4, <1>8, <1>9, ThreadMoves

\* Rank 0 has its block, or fails; the shards wait for GO.
LEMMA DispatchKeeps ==
    ASSUME TPInv, TInv', NEW q \in Requests, Dispatch(q)
    PROVE  TPInv'
<1>0. /\ group = "up" /\ thread[q] = "build"
      /\ UNCHANGED <<group, shard, toShard, fromShard, pass, block, trusted, runner,
                     run, committed, dispatched, stoodDown, faults, torn>>
  BY DEF Dispatch, channels, work, ghosts
<1>1. Phase(q)
  BY <1>0 DEF TPInv, GroupInv, Phase
<1>2. run[q] = "wait" /\ ~Ended(q) /\ ~committed /\ dispatched /\ stoodDown
  BY <1>0, <1>1, UncommittedWaits DEF Phase, Fields, TPInv, Ended
<1>3. \A s \in Shards : Alive(s)' => IsReady(s)' /\ LeftAlone(s)'
  BY <1>0, <1>1 DEF Phase, Uncommitted, Alive, IsReady, Doing, LeftAlone
<1>4. PICK w \in {"commit", "finally"} : thread' = [thread EXCEPT ![q] = w]
  BY DEF Dispatch, Goes, Raises
<1>5. thread'[q] = w /\ run'[q] = "wait"
  BY <1>0, <1>2, <1>4 DEF TPInv, TInv
<1>6. Phase(q)'
  BY <1>0, <1>2, <1>3, <1>5 DEF Phase, Uncommitted, Committed, Fields
<1>7. ~trusted' /\ ~runner' => torn'
  BY <1>0 DEF TPInv, FaultsSeen
<1> QED BY <1>0, <1>2, <1>4, <1>6, <1>7, ThreadMoves

\* GO is out, to every shard or to those before one that is dead.
LEMMA commitKeeps ==
    ASSUME TPInv, TInv', NEW q \in Requests, commit(q)
    PROVE  TPInv'
<1>0. /\ group = "up" /\ thread[q] = "commit" /\ Tell("GO", Reached)
      /\ UNCHANGED <<group, shard, fromShard, trusted, runner, run, dispatched,
                     stoodDown, faults, torn>>
  BY DEF commit, ghosts
<1>1. Phase(q)
  BY <1>0 DEF TPInv, GroupInv, Phase
<1>2. run[q] = "wait" /\ ~Ended(q) /\ ~committed /\ dispatched /\ stoodDown
  BY <1>0, <1>1, UncommittedWaits DEF Phase, Fields, TPInv, Ended
<1>3. \A s \in Shards : Alive(s) => IsReady(s)
  BY <1>0, <1>1 DEF Phase, Uncommitted
<1>4. \A s \in Shards :
        /\ s \notin Reached => toShard'[s] = toShard[s]
        /\ s \in Reached /\ toShard[s] = <<>> => toShard'[s] = <<"GO">>
  BY <1>0, TellOne DEF Messages, TPInv
<1>5. ~trusted' /\ ~runner' => torn'
  BY <1>0 DEF TPInv, FaultsSeen
<1>6. CASE Reached = Shards
  <2>1. thread' = [thread EXCEPT ![q] = "forward"] /\ committed' = TRUE
    BY <1>6 DEF commit, Goes
  <2>2. \A s \in Shards : Doing(s, "prepared", <<"GO">>, <<>>)'
    BY <1>0, <1>3, <1>4, <1>6, ReachedAlive DEF IsReady, Doing
  <2>3. thread'[q] = "forward" /\ run'[q] = "wait"
    BY <1>0, <1>2, <2>1 DEF TPInv, TInv
  <2>4. Phase(q)'
    BY <1>0, <1>2, <2>1, <2>2, <2>3, OneMessage
    DEF Phase, Uncommitted, Committed, Fields, Released, Doing
  <2> QED BY <1>0, <1>2, <1>5, <2>1, <2>2, <2>4, ThreadMoves DEF Doing
<1>7. CASE Reached # Shards
  <2>1. thread' = [thread EXCEPT ![q] = "finally"] /\ committed' = committed
    BY <1>7 DEF commit, Raises, Goes
  <2>2. faults > 0
    BY <1>0, <1>7, ReachedAlive DEF TPInv, FaultsSeen
  <2>3. ASSUME NEW s \in Shards, Alive(s)' PROVE LeftAlone(s)'
    <3>1. IsReady(s)
      BY <1>0, <1>3, <2>3 DEF Alive
    <3>2. CASE s \in Reached
      BY <1>0, <1>4, <2>2, <3>1, <3>2, OneMessage DEF IsReady, Doing, LeftAlone, Late
    <3>3. CASE s \notin Reached
      BY <1>0, <1>4, <3>1, <3>3 DEF IsReady, Doing, LeftAlone
    <3> QED BY <3>2, <3>3
  <2>4. thread'[q] = "finally" /\ run'[q] = "wait"
    BY <1>0, <1>2, <2>1 DEF TPInv, TInv
  <2>5. Phase(q)'
    BY <1>0, <1>2, <2>1, <2>3, <2>4 DEF Phase, Uncommitted, Committed, Fields
  <2> QED BY <1>0, <1>2, <1>5, <2>1, <2>5, ThreadMoves
<1> QED BY <1>6, <1>7

\* When run() is over and the thread is not, every rank is at rest.
LEMMA OverQuiet ==
    ASSUME TPInv, group = "up", NEW q \in Requests, ~Ended(q), run[q] = "over"
    PROVE  Quiet
<1>1. \A p \in Requests \ {q} : Past(p)
  BY OthersPast DEF TPInv, Past
<1>2. \A p \in Requests : run[p] \in {"new", "over"}
  BY <1>1 DEF Past
<1> QED BY <1>2 DEF TPInv, GroupInv, BetweenRuns

\* Rank 0 leaves the forward: the shards are where they were.
LEMMA LeavesKeeps ==
    ASSUME TPInv, TInv', NEW q \in Requests,
           RankZeroEnds(q) \/ RankZeroLosesRunner(q)
    PROVE  TPInv'
<1>0. /\ group = "up" /\ thread[q] = "forward"
      /\ UNCHANGED <<group, shard, toShard, fromShard, pass, block, trusted, runner,
                     run, committed, dispatched, stoodDown, faults, torn>>
      /\ thread' = [thread EXCEPT ![q] = "finally"]
      /\ rankZeroRaised' \/ block = "return"
  BY DEF RankZeroEnds, RankZeroLosesRunner, Goes, Raises, channels, work, ghosts
<1>1. Phase(q)
  BY <1>0 DEF TPInv, GroupInv, Phase
<1>2. ~Ended(q) /\ committed
  BY <1>0, <1>1 DEF Phase, Fields, Ended
<1>3. thread'[q] = "finally" /\ run'[q] = run[q]
  BY <1>0 DEF TPInv, TInv
<1>4. Committed(q)'
  BY <1>0, <1>1, <1>2, <1>3 DEF Phase, Committed, Alive, Released, Doing
<1>5. dispatched
  BY <1>0, <1>1 DEF Phase, Fields
<1>6. Phase(q)'
  BY <1>0, <1>1, <1>2, <1>3, <1>4, <1>5 DEF Phase, Uncommitted, Fields, Ended
<1>7. run[q] = "over" => Quiet'
  <2>1. run[q] = "over" => Quiet
    BY <1>0, <1>2, OverQuiet
  <2> QED BY <1>0, <2>1 DEF Quiet, Alive, Rests, Doing
<1>8. ~trusted' /\ ~runner' => torn'
  BY <1>0 DEF TPInv, FaultsSeen
<1> QED BY <1>0, <1>2, <1>6, <1>7, <1>8, ThreadMoves

\* The end of execute(): what was told in vain is taken back.
LEMMA ExecuteEndsKeeps ==
    ASSUME TPInv, TInv', NEW q \in Requests, ExecuteEnds(q)
    PROVE  TPInv'
<1>0. /\ group = "up" /\ thread[q] = "finally"
      /\ UNCHANGED <<group, shard, fromShard, pass, block, trusted, runner, run,
                     committed, dispatched, stoodDown, rankZeroRaised, faults, torn>>
  BY DEF ExecuteEnds, work, ghosts
<1>1. Phase(q) /\ ~Ended(q) /\ dispatched
  BY <1>0 DEF TPInv, GroupInv, Phase, Fields, Ended
<1>2. ~trusted' /\ ~runner' => torn'
  BY <1>0 DEF TPInv, FaultsSeen
<1>3. CASE ~committed
  <2>1. /\ thread' = [thread EXCEPT ![q] = "release"]
        /\ Tell("SKIP", {s \in Shards : Alive(s)})
    BY <1>1, <1>3 DEF ExecuteEnds, HeardInVain, Goes
  <2>2. run[q] = "wait" /\ stoodDown
    BY <1>0, <1>1, <1>3, UncommittedWaits DEF Phase, Fields, TPInv
  <2>3. ASSUME NEW s \in Shards, Alive(s)' PROVE Skipped(s)'
    <3>1. Alive(s) /\ LeftAlone(s)
      BY <1>0, <1>1, <1>3, <2>3 DEF Phase, Uncommitted, Alive
    <3>2. /\ toShard[s] = <<>> => toShard'[s] = <<"SKIP">>
          /\ toShard[s] # <<>> =>
                toShard'[s] # <<>> /\ Head(toShard'[s]) = Head(toShard[s])
      BY <2>1, <3>1, TellOne DEF Messages, TPInv
    <3>3. Late(s) => Late(s)'
      BY <1>0, <3>2 DEF Late
    <3> QED BY <1>0, <3>1, <3>2, <3>3 DEF LeftAlone, Rests, IsReady, Doing, Skipped
  <2>4. thread'[q] = "release" /\ run'[q] = "wait"
    BY <1>0, <2>1, <2>2 DEF TPInv, TInv
  <2>5. Phase(q)'
    BY <1>0, <1>1, <1>3, <2>2, <2>3, <2>4
    DEF Phase, Uncommitted, Committed, Fields
  <2> QED BY <1>0, <1>1, <1>2, <2>1, <2>2, <2>5, ThreadMoves
<1>4. CASE committed
  <2>1. thread' = [thread EXCEPT ![q] = "over"] /\ toShard' = toShard
    BY <1>4 DEF ExecuteEnds, HeardInVain, Goes
  <2>2. thread'[q] = "over" /\ run'[q] = run[q]
    BY <1>0, <2>1 DEF TPInv, TInv
  <2>3. Committed(q)'
    BY <1>0, <1>1, <1>4, <2>1, <2>2 DEF Phase, Committed, Alive, Released, Doing
  <2>4. Phase(q)'
    BY <1>0, <1>1, <1>4, <2>2, <2>3 DEF Phase, Uncommitted, Fields, Ended
  <2>5. run[q] = "over" => Quiet'
    BY <1>0, <1>1, <2>1, OverQuiet DEF Quiet, Alive, Rests, Doing
  <2> QED BY <1>0, <1>1, <1>2, <2>1, <2>4, <2>5, ThreadMoves
<1> QED BY <1>3, <1>4

\* Every shard is back at idle, or one of them had a fault.
LEMMA releaseKeeps ==
    ASSUME TPInv, TInv', NEW q \in Requests, release(q)
    PROVE  TPInv'
<1>0. /\ group = "up" /\ thread[q] = "release" /\ Drain
      /\ stoodDown' = (stoodDown /\ AllIdle)
      /\ thread' = [thread EXCEPT ![q] = "over"]
      /\ UNCHANGED <<group, shard, toShard, trusted, runner, run, committed,
                     dispatched, torn>>
  BY DEF release, Goes, work
<1>1. Phase(q) /\ ~Ended(q)
  BY <1>0 DEF TPInv, GroupInv, Phase, Ended
<1>2. run[q] = "wait" /\ ~committed /\ stoodDown
  BY <1>0, <1>1, UncommittedWaits DEF Phase, Fields, TPInv
<1>3. \A s \in Shards : Alive(s) => Skipped(s)
  BY <1>0, <1>1 DEF Phase, Uncommitted
<1>4. faults > 0 => faults' > 0
  <2>1. PICK s : s \in Shards
    BY TPAssumption
  <2> QED BY <1>0, <2>1, DrainOne DEF TPInv
<1>5. ASSUME AllIdle, NEW s \in Shards, Alive(s)' PROVE Rests(s)'
  <2>1. Skipped(s) /\ Answer(s) = "IDLE"
    BY <1>0, <1>3, <1>5 DEF Alive, AllIdle
  <2>2. fromShard[s] # <<>> /\ Head(fromShard[s]) = "IDLE"
    BY <1>0, <2>1, DrainOne DEF TPInv
  <2>3. Doing(s, "idle", <<>>, <<"IDLE">>)
    BY <2>1, <2>2 DEF Skipped, Late, Doing
  <2> QED BY <1>0, <2>3, DrainOne DEF TPInv, Doing, Rests
<1>6. ASSUME NEW s \in Shards, Answer(s) # "IDLE" PROVE faults' > 0
  <2>1. CASE ~Alive(s)
    BY <1>0, <1>4, <2>1 DEF TPInv, FaultsSeen
  <2>2. CASE Late(s) /\ faults > 0
    BY <1>4, <2>2
  <2>3. CASE \/ Doing(s, "idle", <<"SKIP">>, <<>>)
             \/ Doing(s, "prepared", <<"SKIP">>, <<>>)
    BY <1>0, <2>3, DrainOne DEF TPInv, Doing
  <2>4. ~Doing(s, "idle", <<>>, <<"IDLE">>)
    BY <1>0, <1>6, DrainOne DEF TPInv, Doing
  <2> QED BY <1>3, <2>1, <2>2, <2>3, <2>4 DEF Skipped
<1>7. (stoodDown' => Quiet') /\ (~stoodDown' => faults' > 0)
  <2>1. AllIdle => Quiet'
    BY <1>5 DEF Quiet
  <2>2. ~AllIdle => faults' > 0
    BY <1>6 DEF AllIdle
  <2> QED BY <1>0, <1>2, <2>1, <2>2
<1>8. thread'[q] = "over" /\ run'[q] = "wait"
  BY <1>0, <1>2 DEF TPInv, TInv
<1>9. Phase(q)'
  BY <1>0, <1>2, <1>7, <1>8 DEF Phase, Uncommitted, Committed, Fields
<1>10. ~trusted' /\ ~runner' => torn'
  BY <1>0 DEF TPInv, FaultsSeen
<1> QED BY <1>0, <1>1, <1>2, <1>4, <1>9, <1>10, ThreadMoves

\* All ranks pass the checkpoint, or all abort there.
LEMMA CheckpointKeeps ==
    ASSUME TPInv, TInv', NEW q \in Requests, Checkpoint(q)
    PROVE  TPInv'
<1>0. /\ group = "up" /\ group' = group /\ thread[q] = "forward"
      /\ \A s \in Shards : shard[s] = "forward"
      /\ UNCHANGED <<toShard, block, trusted, runner, run, committed, dispatched,
                     stoodDown, faults, torn>>
  BY DEF Checkpoint, ghosts
<1>1. Phase(q) /\ ~Ended(q) /\ run[q] # "new"
  BY <1>0 DEF TPInv, GroupInv, OneAtATime, Phase, Ended
<1>2. CASE armed /\ requested
  <2>1. /\ rankZeroRaised' = TRUE /\ thread' = [thread EXCEPT ![q] = "finally"]
        /\ shard' = [s \in Shards |-> "idle"]
        /\ fromShard' = [s \in Shards |-> Append(fromShard[s], "DONE")]
    BY <1>2 DEF Checkpoint, Raises, Goes
  <2>2. \A s \in Shards : Alive(s) /\ ~Rests(s)
    BY <1>0 DEF Alive, Rests, Doing
  <2>3. ~Quiet
    <3>1. PICK s : s \in Shards
      BY TPAssumption
    <3> QED BY <2>2, <3>1 DEF Quiet
  <2>4. run[q] \in {"wait", "stop"} /\ ~Past(q)
    BY <1>0, <1>1, <2>3, OverQuiet DEF TPInv, TInv, Past
  <2>5. /\ thread'[q] = "finally" /\ run'[q] \in {"wait", "stop"} /\ OthersStay(q)
    BY <1>0, <2>1, <2>4 DEF TPInv, TInv, OthersStay
  <2>6. OneAtATime' /\ \A p \in Requests \ {q} : Past(p)'
    BY <1>1, <2>4, <2>5, TurnKept DEF TPInv
  <2>7. \A s \in Shards : Doing(s, "idle", <<>>, <<"DONE">>)'
    <3>1. ASSUME NEW s \in Shards PROVE Doing(s, "idle", <<>>, <<"DONE">>)'
      <4>1. Released(s)
        BY <1>0, <1>1, <2>2, <2>4 DEF Phase, Committed, Fields
      <4>2. Doing(s, "forward", <<>>, <<>>)
        BY <1>0, <4>1 DEF Released, Doing
      <4> QED BY <1>0, <2>1, <4>2, OneMessage DEF Doing
    <3> QED BY <3>1
  <2>8. Committed(q)'
    <3>1. <<"DONE">> # <<"ERROR">>
      BY OneMessage
    <3> QED BY <2>1, <2>7, <3>1 DEF Committed, Released, Doing
  <2>9. Phase(q)'
    BY <1>0, <1>1, <2>5, <2>8 DEF Phase, Uncommitted, Fields
  <2>10. GroupInv'
    BY <2>5, <2>6, <2>9, PhaseKept DEF BetweenRuns
  <2>11. FaultsSeen'
    <3>1. \A p \in Requests : thread'[p] = "refused" => thread[p] = "refused"
      BY <2>5 DEF OthersStay
    <3>2. \A s \in Shards : Alive(s)'
      BY <2>7 DEF Alive, Doing
    <3> QED BY <1>0, <3>1, <3>2 DEF TPInv, FaultsSeen
  <2>12. NobodyLeftBehind'
    BY <2>5, <2>6 DEF NobodyLeftBehind, Past, Ended
  <2> QED BY <1>0, <2>6, <2>10, <2>11, <2>12 DEF TPInv, SettingUp
<1>3. CASE ~(armed /\ requested)
  <2>1. UNCHANGED <<shard, fromShard, thread, rankZeroRaised>>
    BY <1>3 DEF Checkpoint
  <2>2. OneAtATime' /\ FaultsSeen' /\ SettingUp'
    BY <1>0, <2>1 DEF TPInv, OneAtATime, Ended, FaultsSeen, Alive, SettingUp
  <2>3. NobodyLeftBehind'
    BY <1>0, <2>1 DEF NobodyLeftBehind
  <2>4. Quiet => Quiet'
    BY <1>0, <2>1 DEF Quiet, Alive, Rests, Doing
  <2>5. BetweenRuns'
    BY <1>0, <2>4 DEF TPInv, GroupInv, BetweenRuns
  <2>6. \A p \in Requests \ {q} : Past(p)'
    <3>1. ~Past(q)
      BY <1>0, <1>1 DEF Past, Ended
    <3> QED BY <1>0, <2>1, <3>1, OthersPast DEF TPInv, Past, Ended
  <2>7. Phase(q)'
    BY <1>0, <1>1, <2>1
    DEF Phase, Uncommitted, Committed, Fields, Alive, Released, Doing
  <2> QED BY <2>2, <2>3, <2>5, <2>6, <2>7, PhaseKept DEF TPInv
<1> QED BY <1>2, <1>3

-----------------------------------------------------------------------------
(* The event loop *)

\* A run() that is stopped leaves the ranks to the request they execute.
LEMMA interruptKeeps ==
    ASSUME TPInv, TInv', InTurn, NEW q \in Requests, interrupt(q)
    PROVE  TPInv'
<1>0. /\ group = "up" /\ run[q] = "wait" /\ ~Ended(q)
      /\ committed /\ thread[q] \in {"forward", "finally"}
      /\ runner' = FALSE /\ torn' = (torn \/ ~trusted)
      /\ run' = [run EXCEPT ![q] = "stop"]
      /\ UNCHANGED <<group, shard, toShard, fromShard, pass, block, trusted, thread,
                     committed, dispatched, stoodDown, rankZeroRaised, faults>>
  BY DEF interrupt, InTurn, channels
<1>1. Phase(q) /\ ~Past(q)
  BY <1>0 DEF TPInv, GroupInv, Phase, Past
<1>2. run'[q] = "stop" /\ OthersStay(q)
  BY <1>0 DEF TPInv, TInv, OthersStay
<1>3. OneAtATime' /\ \A p \in Requests \ {q} : Past(p)'
  BY <1>0, <1>1, <1>2, TurnKept DEF TPInv
<1>4. FaultsSeen'
  BY <1>0 DEF TPInv, FaultsSeen, Alive
<1>5. Committed(q)'
  BY <1>0, <1>1 DEF Phase, Committed, Alive, Released, Doing
<1>6. Phase(q)'
  BY <1>0, <1>1, <1>2, <1>5 DEF Phase, Uncommitted, Fields
<1>7. GroupInv'
  BY <1>2, <1>3, <1>6, PhaseKept DEF BetweenRuns
<1>8. NobodyLeftBehind'
  BY <1>0 DEF TPInv, NobodyLeftBehind
<1> QED BY <1>0, <1>3, <1>4, <1>7, <1>8 DEF TPInv, SettingUp

\* A run() that is over leaves every rank at rest.
LEMMA RunOver ==
    ASSUME TPInv, TInv', NEW q \in Requests, ToCleanUp(q), group = "up",
           run' = [run EXCEPT ![q] = "over"], UNCHANGED thread
    PROVE  /\ Phase(q) /\ ~Past(q) /\ run[q] \in {"wait", "stop"}
           /\ run'[q] = "over" /\ OneAtATime'
           /\ \A p \in Requests \ {q} : Past(p)'
           /\ \A p \in Requests : thread[p] = "forward" => p = q
<1>1. Phase(q) /\ ~Past(q) /\ run[q] \in {"wait", "stop"}
  BY DEF TPInv, GroupInv, Phase, Past, ToCleanUp
<1>2. run'[q] = "over" /\ OthersStay(q) /\ thread[q] # "none"
  BY <1>1 DEF TPInv, TInv, OthersStay, OneAtATime
<1>3. OneAtATime' /\ \A p \in Requests \ {q} : Past(p)'
  BY <1>1, <1>2, TurnKept DEF TPInv
<1>4. \A p \in Requests : thread[p] = "forward" => p = q
  BY <1>2, <1>3 DEF OthersStay, Past, Ended
<1> QED BY <1>1, <1>2, <1>3, <1>4

\* The group stays up when its live shards are at rest.
LEMMA StaysUp ==
    ASSUME TPInv, TInv', NEW q \in Requests, ToCleanUp(q), group = "up",
           run' = [run EXCEPT ![q] = "over"],
           UNCHANGED <<group, shard, thread, pass, trusted, runner, committed,
                       dispatched, torn>>,
           faults > 0 => faults' > 0,
           committed \/ Ended(q),
           \A s \in Shards : Alive(s) => Rests(s)'
    PROVE  TPInv'
<1>1. /\ Phase(q) /\ ~Past(q) /\ run[q] \in {"wait", "stop"}
      /\ run'[q] = "over" /\ OneAtATime'
      /\ \A p \in Requests \ {q} : Past(p)'
      /\ \A p \in Requests : thread[p] = "forward" => p = q
  BY RunOver
<1>2. Quiet'
  BY DEF Quiet, Alive
<1>3. FaultsSeen'
  BY DEF TPInv, FaultsSeen, Alive
<1>4. thread[q] \in {"forward", "finally", "over", "refused"}
  BY <1>1 DEF ToCleanUp, Ended, Phase, Fields
<1>5. Phase(q)'
  BY <1>1, <1>4 DEF Phase, Uncommitted, Committed, Fields, Ended
<1>6. GroupInv'
  BY <1>1, <1>2, <1>5, PhaseKept DEF BetweenRuns
<1>7. NobodyLeftBehind'
  <2> SUFFICES ASSUME thread[q] = "forward", NEW s \in Shards
               PROVE  pass = Passes \/ faults' > 0 \/ torn
    BY <1>1 DEF NobodyLeftBehind
  <2>1. CASE Alive(s)
    <3>1. shard[s] = "idle"
      BY <2>1 DEF Rests, Doing
    <3> QED BY <3>1 DEF TPInv, NobodyLeftBehind
  <2>2. CASE ~Alive(s)
    BY <2>2 DEF TPInv, FaultsSeen
  <2> QED BY <2>1, <2>2
<1> QED BY <1>1, <1>3, <1>6, <1>7 DEF TPInv, SettingUp

\* Nothing ran: the shards stood down, or the group goes.
LEMMA CleanupUncommittedKeeps ==
    ASSUME TPInv, TInv', NEW q \in Requests, CleanupUncommitted(q)
    PROVE  TPInv'
<1>0. /\ group = "up" /\ ~committed /\ ToCleanUp(q)
      /\ run' = [run EXCEPT ![q] = "over"]
      /\ UNCHANGED <<work, thread, committed, dispatched, stoodDown,
                     rankZeroRaised, ghosts>>
  BY DEF CleanupUncommitted
<1>1. /\ Phase(q) /\ OneAtATime' /\ run[q] \in {"wait", "stop"}
      /\ \A p \in Requests : thread[p] = "forward" => p = q
  BY <1>0, RunOver
<1>2. Ended(q)
  BY <1>0, <1>1 DEF ToCleanUp, Phase, Fields
<1>3. CASE stoodDown
  <2>1. Quiet
    BY <1>0, <1>1, <1>2, <1>3 DEF Phase, Uncommitted, Ended
  <2>2. UNCHANGED <<group, shard, channels>>
    BY <1>3 DEF CleanupUncommitted
  <2>3. \A s \in Shards : Alive(s) => Rests(s)'
    BY <2>1, <2>2 DEF channels, Quiet, Rests, Doing
  <2> QED BY <1>0, <1>2, <2>2, <2>3, StaysUp DEF work, ghosts
<1>4. CASE ~stoodDown
  <2>1. stop
    BY <1>4 DEF CleanupUncommitted
  <2>2. NobodyLeftBehind'
    BY <1>0, <1>1, <1>2 DEF NobodyLeftBehind, Ended
  <2> QED BY <1>0, <1>1, <2>1, <2>2, GoneKeeps DEF work, ghosts
<1> QED BY <1>3, <1>4

\* Each live shard has reported, or the group goes.
LEMMA cleanupKeeps ==
    ASSUME TPInv, TInv', NEW q \in Requests, cleanup(q)
    PROVE  TPInv'
<1>0. /\ group = "up" /\ committed /\ ToCleanUp(q)
      /\ run' = [run EXCEPT ![q] = "over"]
      /\ UNCHANGED <<pass, trusted, runner, thread, committed, dispatched, torn>>
  BY DEF cleanup, work
<1>1. /\ Phase(q) /\ OneAtATime' /\ run[q] \in {"wait", "stop"}
      /\ \A p \in Requests : thread[p] = "forward" => p = q
  BY <1>0, RunOver
<1>2. ASSUME thread[q] # "refused", NEW s \in Shards, Alive(s), Answer(s) # "none"
      PROVE  shard[s] = "idle" /\ toShard[s] = <<>> /\ \E m : fromShard[s] = <<m>>
  <2>1. thread[q] \in {"forward", "finally", "over"}
    BY <1>0, <1>1, <1>2 DEF ToCleanUp, Ended, Phase, Fields
  <2>2. Released(s)
    BY <1>0, <1>1, <1>2, <2>1 DEF Phase, Committed
  <2>3. fromShard[s] # <<>>
    BY <1>2 DEF Answer, Answered
  <2> QED BY <2>2, <2>3 DEF Released, Doing
<1>3. CASE Drain /\ Settled /\ UNCHANGED <<group, shard, toShard>>
  <2>1. \A s \in Shards : Alive(s) /\ Answer(s) # "none"
    BY <1>3 DEF Settled
  <2>2. PICK o : o \in Shards
    BY TPAssumption
  <2>3. thread[q] # "refused"
    <3>1. ~Rests(o)
      BY <2>1, <2>2 DEF Rests, Doing, Answer, Answered
    <3> QED BY <1>1, <2>1, <2>2, <3>1 DEF Phase, Uncommitted, Quiet
  <2>4. \A s \in Shards : Rests(s)'
    <3>1. ASSUME NEW s \in Shards PROVE Rests(s)'
      <4>1. shard[s] = "idle" /\ toShard[s] = <<>> /\ \E m : fromShard[s] = <<m>>
        BY <1>2, <2>1, <2>3
      <4>2. fromShard'[s] = <<>>
        BY <1>3, <4>1, DrainOne DEF TPInv
      <4> QED BY <1>3, <4>1, <4>2 DEF Rests, Doing
    <3> QED BY <3>1
  <2>5. faults > 0 => faults' > 0
    BY <1>3, <2>2, DrainOne DEF TPInv
  <2> QED BY <1>0, <1>3, <2>4, <2>5, StaysUp
<1>5. CASE /\ \A s \in Shards : Answer(s) # "none" \/ ~Alive(s)
           /\ ~Settled /\ stop /\ UNCHANGED faults
  <2>1. NobodyLeftBehind'
    <3> SUFFICES ASSUME thread[q] = "forward", NEW s \in Shards
                 PROVE  pass = Passes \/ faults > 0 \/ torn
      BY <1>0, <1>1, <1>5 DEF NobodyLeftBehind
    <3>1. CASE Alive(s)
      <4>1. shard[s] = "idle"
        BY <1>2, <1>5, <3>1
      <4> QED BY <4>1 DEF TPInv, NobodyLeftBehind
    <3>2. CASE ~Alive(s)
      BY <1>0, <3>2 DEF TPInv, FaultsSeen
    <3> QED BY <3>1, <3>2
  <2> QED BY <1>0, <1>1, <1>5, <2>1, GoneKeeps
<1>6. CASE /\ IF torn \/ faults > 0 THEN UNCHANGED faults
              ELSE faults < MaxFaults /\ faults' = faults + 1
           /\ stop
  <2>1. (torn \/ faults' > 0) /\ (faults > 0 => faults' > 0)
    BY <1>6 DEF TPInv, TInv
  <2>2. NobodyLeftBehind'
    BY <1>0, <2>1 DEF NobodyLeftBehind
  <2> QED BY <1>0, <1>1, <1>6, <2>1, <2>2, GoneKeeps
<1> QED BY <1>3, <1>5, <1>6 DEF cleanup

-----------------------------------------------------------------------------
(* The theorems *)

\* The invariant holds at first.
LEMMA TPInvInit == Init => TPInv
<1> SUFFICES ASSUME Init PROVE TPInv
  OBVIOUS
<1>1. /\ group = "start" /\ trusted = TRUE
      /\ \A q \in Requests : thread[q] = "none" /\ run[q] = "new"
      /\ \A s \in Shards : Doing(s, "up", <<>>, <<"HELLO">>)
  BY DEF Init, Doing
<1>2. OneAtATime /\ NobodyLeftBehind
  BY <1>1 DEF OneAtATime, NobodyLeftBehind
<1>3. FaultsSeen
  BY <1>1 DEF FaultsSeen, Alive, Doing
<1>4. SettingUp /\ GroupInv
  BY <1>1 DEF SettingUp, GroupInv
<1> QED BY <1>2, <1>3, <1>4, TypesInit DEF TPInv

\* Every step keeps it.
LEMMA TPInvNext == InTurn /\ TPInv /\ [Next]_vars => TPInv'
<1> SUFFICES ASSUME InTurn, TPInv, [Next]_vars PROVE TPInv'
  OBVIOUS
<1>1. TInv'
  BY TypesNext DEF TPInv
<1>2. CASE UNCHANGED vars
  BY <1>2 DEF vars, channels, work, fields, ghosts, TPInv, TInv, OneAtATime, Ended,
     FaultsSeen, Alive, SettingUp, Doing, GroupInv, BetweenRuns, Quiet, Rests,
     Uncommitted, Hearing, IsReady, LeftAlone, Late, Skipped, Committed, Released,
     Fields, NobodyLeftBehind
<1>3. CASE GroupNext
  BY <1>1, <1>3, GroupKeeps
<1>4. ASSUME NEW q \in Requests, Starts(q) PROVE TPInv'
  BY <1>1, <1>4, StartsKeeps
<1>5. ASSUME NEW q \in Requests, ThreadNext(q) PROVE TPInv'
  BY <1>1, <1>5, BeginsKeeps, prepareKeeps, DispatchKeeps, commitKeeps, LeavesKeeps,
     ExecuteEndsKeeps, releaseKeeps DEF ThreadNext
<1>6. ASSUME NEW q \in Requests, LoopNext(q) PROVE TPInv'
  BY <1>1, <1>6, interruptKeeps, CleanupUncommittedKeeps, cleanupKeeps DEF LoopNext
<1>7. ASSUME NEW q \in Requests, Checkpoint(q) PROVE TPInv'
  BY <1>1, <1>7, CheckpointKeeps
<1>8. ASSUME NEW s \in Shards, ShardNext(s) \/ ShardEnds(s) PROVE TPInv'
  BY <1>1, <1>8, ShardKeeps
<1>9. ASSUME NEW s \in Shards, ShardDies(s) PROVE TPInv'
  BY <1>1, <1>9, ShardDiesKeeps
<1> QED BY <1>2, <1>3, <1>4, <1>5, <1>6, <1>7, <1>8, <1>9 DEF Next

\* No request starts while a rank is still in the last one, and rank 0 is in
\* no forward that a live shard does not join (tp/model.py and tp/shard.py), when
\* no run() stops before its group is committed nor starts before the last
\* thread ended.
THEOREM RanksStayTogether == InTurn /\ Spec => []RanksTogether
<1>1. TPInv => RanksTogether
  <2> SUFFICES ASSUME TPInv PROVE RestBeforeNext
    BY DEF TPInv, RanksTogether
  <2>1. ASSUME NEW q \in Requests, thread[q] = "start", Healthy, NEW s \in Shards
        PROVE  Rests(s)
    BY <2>1 DEF TPInv, GroupInv, Uncommitted, Quiet, Healthy
  <2> QED BY <2>1 DEF RestBeforeNext, Rests, Doing
<1>2. ASSUME InTurn PROVE Spec => []RanksTogether
  <2>1. TPInv /\ [Next]_vars => TPInv'
    BY <1>2, TPInvNext
  <2> QED BY <1>1, <2>1, TPInvInit, PTL DEF Spec
<1> QED BY <1>2

\* Only cleanup ends a run().
LEMMA OnlyCleanupEnds ==
    ASSUME TPInv, [Next]_vars, NEW q \in Requests, run[q] # "over", run'[q] = "over"
    PROVE  CleanupUncommitted(q) \/ cleanup(q)
<1>1. run' # run
  OBVIOUS
<1>2. PICK p \in Requests : Starts(p) \/ LoopNext(p)
  BY <1>1 DEF Next, vars, GroupNext, start, load_from_disk, wait_ready, ThreadNext,
     Unhealthy, execute, prepare, Dispatch, commit, RankZeroEnds,
     RankZeroLosesRunner, ExecuteEnds, release, Checkpoint, ShardNext, Prepares,
     Idles, AwaitGo, ShardEnds, ShardDies
<1>3. ~Starts(p) /\ ~interrupt(p)
  BY DEF Starts, interrupt, TPInv, TInv
<1>4. p = q
  BY <1>2, <1>3 DEF LoopNext, CleanupUncommitted, cleanup, TPInv, TInv
<1> QED BY <1>2, <1>3, <1>4 DEF LoopNext

\* A run whose thread has ended takes the group down for a fault, or because
\* its runner was stopped.
LEMMA DownForCause ==
    ASSUME TPInv, TInv', group = "up", group' = "gone", NEW q \in Requests, Ended(q),
           CleanupUncommitted(q) \/ cleanup(q)
    PROVE  faults' > 0 \/ torn
<1>0. Phase(q) /\ run[q] \in {"wait", "stop"}
  BY DEF TPInv, GroupInv, Phase, CleanupUncommitted, cleanup, ToCleanUp
<1>1. thread[q] = "refused" => faults > 0
  BY DEF TPInv, FaultsSeen
<1>2. CASE CleanupUncommitted(q)
  <2>1. ~committed /\ ~stoodDown /\ faults' = faults
    BY <1>2 DEF CleanupUncommitted, ghosts
  <2> QED BY <1>0, <1>1, <2>1 DEF Phase, Uncommitted, Ended
<1>3. CASE cleanup(q)
  <2>1. committed /\ (torn \/ faults' > 0 \/ UNCHANGED faults)
    BY <1>3 DEF cleanup, Drain, TPInv, TInv
  <2>2. CASE /\ \A s \in Shards : Answer(s) # "none" \/ ~Alive(s)
             /\ ~Settled /\ UNCHANGED faults /\ thread[q] = "over"
    <3>1. CASE \E s \in Shards : ~Alive(s)
      BY <2>2, <3>1 DEF TPInv, FaultsSeen
    <3>2. CASE \A s \in Shards : Alive(s)
      <4>1. PICK s \in Shards : Answer(s) # "DONE" /\ Answer(s) # "none"
        BY <2>2, <3>2 DEF Settled
      <4>2. ~rankZeroRaised
        BY <2>2, <3>2 DEF Settled
      <4>3. Released(s) /\ (fromShard[s] = <<"ERROR">> =>
              faults > 0 \/ torn \/ block = "raise") /\ block = "return"
        BY <1>0, <2>1, <2>2, <3>2, <4>2 DEF Phase, Committed
      <4>4. fromShard[s] = <<"ERROR">>
        <5>1. fromShard[s] # <<>> /\ Head(fromShard[s]) # "DONE"
          BY <4>1 DEF Answer, Answered
        <5> QED BY <4>3, <5>1, OneMessage DEF Released, Doing
      <4> QED BY <2>2, <4>3, <4>4
    <3> QED BY <3>1, <3>2
  <2>3. CASE IF torn \/ faults > 0 THEN UNCHANGED faults
             ELSE faults < MaxFaults /\ faults' = faults + 1
    BY <2>3 DEF TPInv, TInv
  <2> QED BY <1>1, <1>3, <2>1, <2>2, <2>3 DEF cleanup, Ended
<1> QED BY <1>2, <1>3

\* A block that raises on every rank does not restart the replica
\* (_await_shards of tp/model.py): once the thread of a run has ended, the
\* group is taken down only after a fault or a runner that was stopped.
THEOREM OnlyFaultsRestart == InTurn /\ Spec => RestartsForCause
<1>1. ASSUME TPInv, TInv', [Next]_vars
      PROVE  [group = "up" /\ group' = "gone"
              /\ (\E q \in Requests : run[q] # "over" /\ run'[q] = "over" /\ Ended(q))
              => faults' > 0 \/ torn]_vars
  <2> SUFFICES ASSUME group = "up", group' = "gone", NEW q \in Requests,
                      run[q] # "over", run'[q] = "over", Ended(q)
               PROVE  faults' > 0 \/ torn
    OBVIOUS
  <2>1. CleanupUncommitted(q) \/ cleanup(q)
    BY <1>1, OnlyCleanupEnds
  <2> QED BY <1>1, <2>1, DownForCause
<1>2. TPInv => TInv
  BY DEF TPInv
<1>3. ASSUME InTurn PROVE Spec => RestartsForCause
  <2>1. TPInv /\ [Next]_vars => TPInv'
    BY <1>3, TPInvNext
  <2> QED BY <1>1, <1>2, <2>1, TPInvInit, PTL DEF Spec, RestartsForCause
<1> QED BY <1>3
=============================================================================
