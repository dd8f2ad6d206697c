------------------------------ MODULE Sandbox ------------------------------
(***************************************************************************)
(* The runner processes of a model actor: the warm pool that spawns them   *)
(* (sandbox/host.py), the request's thread that takes one and drives it    *)
(* (sandbox/model.py), the followers that join it when the actor is rank 0 *)
(* of a group, and the runner's own accept loop (sandbox/runner.py).       *)
(*                                                                         *)
(* What is said over a connection once the block runs is Interleave's.     *)
(***************************************************************************)
EXTENDS Naturals, Sequences, SequencesExt, FiniteSets

CONSTANTS
    Runners,        \* ids of the processes that may be launched, 1..n
    Requests,       \* 1..k, run one after the other
    Size,           \* Pool.size
    Peers,          \* hosts per request: 1, or the size of the group
    MaxFailures,    \* bound on spawns that fail and followers that cannot connect
    MaxStops,       \* bound on interrupt()
    EarlyStops,     \* may interrupt() come before the thread has its runner?
    ProbeLingers,   \* may a probe be accepted before it closes?
    MaxDeaths,      \* bound on the actor being killed
    DiesEarly       \* may that happen before a new process looked for its parent?

ASSUME SandboxAssumption ==
    /\ IsFiniteSet(Runners) /\ Runners = 1..Cardinality(Runners)
    /\ IsFiniteSet(Requests) /\ Requests = 1..Cardinality(Requests)
    /\ Size \in Runners /\ Peers \in Nat \ {0}
    /\ MaxFailures \in Nat /\ MaxStops \in Nat /\ MaxDeaths \in Nat
    /\ {EarlyStops, ProbeLingers, DiesEarly} \subseteq BOOLEAN

VARIABLES
    \* the pool
    ready, spawning, closed,
    warm,       \* the thread that warms r: "none", "spawn", "counted"
    raced,      \* a refill() ran while a thread had counted but not put
    \* the processes
    proc,       \* "none", "import", "boot", "accept", "handle", "dead"
    watched,    \* r: the parent die_with_parent() polls for is the actor
    probe,      \* r: spawn()'s probe: "none", "open", "closed"
    backlog, channels,  \* connections to r: waiting, and accepted
    paid,       \* r: requests whose payload it read
    \* the actor
    actor,      \* "up", or "gone"
    thread,     \* each request's thread
    holds,      \* the runner each request's thread has taken, or 0
    conn,       \* each peer's connection to it: "none", "open", "sent", "shut"
    run,        \* run(): "new", "wait", "over"
    sandbox,    \* self.execution_sandbox, or 0
    killed,     \* threads that were sent an exception
    failures, stops, deaths

poolVars == <<ready, spawning, closed, warm, raced>>
procVars == <<proc, watched, probe, backlog, channels, paid>>
reqVars == <<thread, holds, conn, run, sandbox, killed>>
bounds == <<failures, stops, deaths>>
vars == <<poolVars, procVars, actor, reqVars, bounds>>

Probe == 0          \* in a backlog; the hosts are 1..Peers, rank 0 the first
Hosts == 1..Peers
Alive(r) == proc[r] \notin {"none", "dead"}
\* An id for the next process.
Unused == {r \in Runners : proc[r] = "none"}
Fresh == CHOOSE r \in Unused : TRUE
\* Whoever holds r now: its request's peers.
HolderOf(r) == {q \in Requests : holds[q] = r}

Init ==
    /\ ready = <<>> /\ closed = FALSE /\ raced = FALSE
    /\ spawning = Size      \* __init__ refills once per place
    /\ warm = [r \in Runners |-> IF r <= Size THEN "spawn" ELSE "none"]
    /\ proc = [r \in Runners |-> IF r <= Size THEN "import" ELSE "none"]
    /\ watched = [r \in Runners |-> FALSE]
    /\ probe = [r \in Runners |-> "none"]
    /\ backlog = [r \in Runners |-> <<>>] /\ channels = [r \in Runners |-> <<>>]
    /\ paid = [r \in Runners |-> {}]
    /\ actor = "up"
    /\ thread = [q \in Requests |-> "none"] /\ holds = [q \in Requests |-> 0]
    /\ conn = [q \in Requests |-> [h \in Hosts |-> "none"]]
    /\ run = [q \in Requests |-> "new"]
    /\ sandbox = 0 /\ killed = {}
    /\ failures = 0 /\ stops = 0 /\ deaths = 0

-----------------------------------------------------------------------------
(* The processes *)

\* The process imports its modules, then polls for the parent it finds, which
\* is not the actor if that is gone by now.
die_with_parent(r) ==
    /\ proc[r] = "import"
    /\ proc' = [proc EXCEPT ![r] = "boot"]
    /\ watched' = [watched EXCEPT ![r] = actor = "up"]
    /\ UNCHANGED <<poolVars, probe, backlog, channels, paid, actor, reqVars, bounds>>

\* Mutant: only the accept loop looks.
WatchWhenIdle(r) ==
    /\ watched[r] /\ proc[r] = "accept" /\ actor = "gone" /\ channels[r] = <<>>
    /\ proc' = [proc EXCEPT ![r] = "dead"]
    /\ UNCHANGED <<poolVars, watched, probe, backlog, channels, paid, actor,
                   reqVars, bounds>>

\* The parent changed: os._exit().
Watch(r) ==
    /\ watched[r] /\ Alive(r) /\ actor = "gone"
    /\ proc' = [proc EXCEPT ![r] = "dead"]
    /\ UNCHANGED <<poolVars, watched, probe, backlog, channels, paid, actor,
                   reqVars, bounds>>

\* The meta model is built, or not, before the socket binds.
Runner_init(r) ==
    /\ proc[r] = "boot"
    /\ proc' = [proc EXCEPT ![r] = "accept"]
    /\ UNCHANGED <<poolVars, watched, probe, backlog, channels, paid, actor,
                   reqVars, bounds>>

\* Has the peer at the other end closed?
HungUp(r, c) ==
    IF c = Probe THEN probe[r] = "closed"
    ELSE \A q \in HolderOf(r) : conn[q][c] = "shut"

\* serve() accepts until every peer is there; one that already left is let go.
serve(r) ==
    /\ proc[r] = "accept" /\ backlog[r] # <<>>
    /\ Head(backlog[r]) = Probe /\ probe[r] = "open" => ProbeLingers
    /\ backlog' = [backlog EXCEPT ![r] = Tail(@)]
    /\ channels' = IF HungUp(r, Head(backlog[r])) THEN channels
                   ELSE [channels EXCEPT ![r] = Append(@, Head(backlog[r]))]
    /\ proc' = IF Len(channels'[r]) = Peers THEN [proc EXCEPT ![r] = "handle"]
               ELSE proc
    /\ UNCHANGED <<poolVars, watched, probe, paid, actor, reqVars, bounds>>

\* The payload is read from the first of them; then the block runs, for all.
handle(r) ==
    /\ proc[r] = "handle" /\ paid[r] = {}
    /\ Head(channels[r]) # Probe
    /\ \E q \in HolderOf(r) :
          /\ conn[q][Head(channels[r])] = "sent"
          /\ paid' = [paid EXCEPT ![r] = @ \cup {q}]
    /\ UNCHANGED <<poolVars, proc, watched, probe, backlog, channels, actor,
                   reqVars, bounds>>

\* The block ended and said so to every peer; or the exchange failed, a peer
\* that dropped being enough (RanksDiverged).  Every channel is closed.
Exchanged(r) ==
    /\ proc[r] = "handle"
    /\ \/ paid[r] # {}
       \/ \E i \in DOMAIN channels[r] : HungUp(r, channels[r][i])
    /\ proc' = [proc EXCEPT ![r] = "accept"]
    /\ conn' = [q \in Requests |->
                  IF holds[q] # r THEN conn[q]
                  ELSE [h \in Hosts |-> IF h \in Range(channels[r]) THEN "shut"
                                        ELSE conn[q][h]]]
    /\ channels' = [channels EXCEPT ![r] = <<>>]
    /\ UNCHANGED <<poolVars, watched, probe, backlog, paid, actor, thread, holds, run,
                   sandbox, killed, bounds>>

-----------------------------------------------------------------------------
(* spawn() *)

Launch(r) == proc' = [proc EXCEPT ![r] = "import"]

\* The socket exists: the probe connects, and closes again.
ProbeConnects(r) ==
    /\ actor = "up" /\ probe[r] = "none" /\ proc[r] = "accept"
    /\ probe' = [probe EXCEPT ![r] = "open"]
    /\ backlog' = [backlog EXCEPT ![r] = Append(@, Probe)]
    /\ UNCHANGED <<poolVars, proc, watched, channels, paid, actor, reqVars, bounds>>

ProbeCloses(r) ==
    /\ actor = "up" /\ probe[r] = "open"
    /\ probe' = [probe EXCEPT ![r] = "closed"]
    /\ UNCHANGED <<poolVars, proc, watched, backlog, channels, paid, actor, reqVars,
                   bounds>>

Spawned(r) == probe[r] = "closed"

\* It exited before its socket was there, or the wait for it timed out.
SpawnFails(r) ==
    /\ failures < MaxFailures /\ probe[r] = "none"
    /\ proc' = [proc EXCEPT ![r] = "dead"]
    /\ failures' = failures + 1

-----------------------------------------------------------------------------
(* The pool *)

Counted == {r \in Runners : warm[r] = "counted"}

\* Mutant: what is on its way is not counted.
RefillUncounted ==
    IF closed \/ Len(ready) >= Size \/ Unused = {}
    THEN UNCHANGED <<spawning, warm, raced, proc>>
    ELSE /\ spawning' = spawning + 1
         /\ warm' = [warm EXCEPT ![Fresh] = "spawn"]
         /\ raced' = (raced \/ Counted # {})
         /\ Launch(Fresh)

\* refill(): one more thread, unless the pool is at size.
refill ==
    IF closed \/ Len(ready) + spawning >= Size \/ Unused = {}
    THEN UNCHANGED <<spawning, warm, raced, proc>>
    ELSE /\ spawning' = spawning + 1
         /\ warm' = [warm EXCEPT ![Fresh] = "spawn"]
         /\ raced' = (raced \/ Counted # {})
         /\ Launch(Fresh)

\* The thread's spawn() is over and no longer counted, whatever came of it.
WarmCounts(r) ==
    /\ actor = "up" /\ warm[r] = "spawn"
    /\ spawning' = spawning - 1
    /\ \/ /\ Spawned(r) /\ warm' = [warm EXCEPT ![r] = "counted"]
          /\ UNCHANGED <<proc, failures>>
       \/ SpawnFails(r) /\ warm' = [warm EXCEPT ![r] = "none"]
    /\ UNCHANGED <<ready, closed, raced, watched, probe, backlog, channels, paid,
                   actor, reqVars, stops, deaths>>

\* Mutant: the spawn is counted out twice.
CountsTwice(r) ==
    /\ actor = "up" /\ warm[r] = "counted"
    /\ warm' = [warm EXCEPT ![r] = "none"]
    /\ ready' = Append(ready, r) /\ spawning' = spawning - 1
    /\ UNCHANGED <<closed, raced, procVars, actor, reqVars, bounds>>

\* Outside the lock: the runner is put, or stopped if the pool was closed.
WarmPuts(r) ==
    /\ actor = "up" /\ warm[r] = "counted"
    /\ warm' = [warm EXCEPT ![r] = "none"]
    /\ \/ /\ ~closed /\ ready' = Append(ready, r) /\ UNCHANGED proc
       \/ closed /\ proc' = [proc EXCEPT ![r] = "dead"] /\ UNCHANGED ready
    /\ UNCHANGED <<spawning, closed, raced, watched, probe, backlog, channels, paid,
                   actor, reqVars, bounds>>

\* close() stops what is ready.
close ==
    /\ actor = "up" /\ ~closed /\ \A q \in Requests : run[q] = "over"
    /\ closed' = TRUE /\ ready' = <<>>
    /\ proc' = [r \in Runners |-> IF r \in Range(ready) THEN "dead" ELSE proc[r]]
    /\ UNCHANGED <<spawning, warm, raced, watched, probe, backlog, channels, paid,
                   actor, reqVars, bounds>>

-----------------------------------------------------------------------------
(* One request *)

At(q, where) == actor = "up" /\ thread[q] = where
Goes(q, where) == thread' = [thread EXCEPT ![q] = where]
Shut(q) == conn' = [conn EXCEPT ![q] = [h \in Hosts |->
                      IF @[h] = "none" THEN "none" ELSE "shut"]]

\* run(): the thread is started.
Starts(q) ==
    /\ actor = "up" /\ run[q] = "new" /\ ~closed
    /\ \A p \in Requests : p < q => run[p] = "over"
    /\ run' = [run EXCEPT ![q] = "wait"]
    /\ Goes(q, "acquire")
    /\ UNCHANGED <<poolVars, procVars, actor, holds, conn, sandbox, killed, bounds>>

\* Mutant: the runner stays in the pool.
Borrows(q) ==
    /\ At(q, "acquire") /\ ready # <<>>
    /\ holds' = [holds EXCEPT ![q] = Head(ready)]
    /\ Goes(q, "taken")
    /\ UNCHANGED <<poolVars, procVars, actor, conn, run, sandbox, killed, bounds>>

\* acquire(): a warm runner, or after the timeout one spawned here.
Takes(q) ==
    /\ At(q, "acquire") /\ ready # <<>>
    /\ holds' = [holds EXCEPT ![q] = Head(ready)]
    /\ ready' = Tail(ready)
    /\ Goes(q, "taken")
    /\ UNCHANGED <<spawning, closed, warm, raced, procVars, actor, conn, run, sandbox,
                   killed, bounds>>

SpawnsOne(q) ==
    /\ At(q, "acquire") /\ ready = <<>> /\ Unused # {}
    /\ holds' = [holds EXCEPT ![q] = Fresh]
    /\ Launch(Fresh)
    /\ Goes(q, "spawn")
    /\ UNCHANGED <<poolVars, watched, probe, backlog, channels, paid, actor, conn, run,
                   sandbox, killed, bounds>>

SpawnEnds(q) ==
    /\ At(q, "spawn")
    /\ \/ /\ Spawned(holds[q]) /\ Goes(q, "taken") /\ UNCHANGED <<proc, failures>>
       \/ SpawnFails(holds[q]) /\ Goes(q, "done")
    /\ UNCHANGED <<poolVars, watched, probe, backlog, channels, paid, actor, holds,
                   conn, run, sandbox, killed, stops, deaths>>

\* The pool is topped up, and the runner is the one that interrupt() stops.
Acquired(q) ==
    /\ At(q, "taken")
    /\ refill
    /\ sandbox' = holds[q]
    /\ Goes(q, "connect")
    /\ UNCHANGED <<ready, closed, watched, probe, backlog, channels, paid, actor,
                   holds, conn, run, killed, bounds>>

Connects(q, h) ==
    /\ conn' = [conn EXCEPT ![q][h] = "open"]
    /\ backlog' = [backlog EXCEPT ![holds[q]] = Append(@, h)]

\* Rank 0 connects first, and then tells the shards where the runner is.
connection(q) ==
    /\ At(q, "connect") /\ Alive(holds[q])
    /\ Connects(q, 1) /\ Goes(q, "shards")
    /\ UNCHANGED <<poolVars, proc, watched, probe, channels, paid, actor, holds, run,
                   sandbox, killed, bounds>>

\* A shard's follower connection; they come in any order.
before_payload(q, h) ==
    /\ At(q, "shards") /\ h \in Hosts \ {1}
    /\ conn[q][h] = "none" /\ Alive(holds[q])
    /\ Connects(q, h)
    /\ UNCHANGED <<poolVars, proc, watched, probe, channels, paid, actor, thread,
                   holds, run, sandbox, killed, bounds>>

\* The block is sent when every shard is READY.
SendsPayload(q) ==
    /\ At(q, "shards")
    /\ \A h \in Hosts : conn[q][h] = "open"
    /\ conn' = [conn EXCEPT ![q][1] = "sent"]
    /\ Goes(q, "pump")
    /\ UNCHANGED <<poolVars, procVars, actor, holds, run, sandbox, killed, bounds>>

\* A connect or a send fails, a shard cannot get there, or the exchange is
\* over: the thread closes its connection, the shards theirs.
RunnerGone(q) == ~Alive(holds[q]) \/ conn[q][1] = "shut"
run_in_runner(q) ==
    /\ thread[q] \in {"connect", "shards", "pump"} /\ actor = "up"
    /\ \/ RunnerGone(q) /\ UNCHANGED failures
       \/ thread[q] = "shards" /\ failures < MaxFailures /\ failures' = failures + 1
    /\ Shut(q) /\ Goes(q, "done")
    /\ UNCHANGED <<poolVars, procVars, actor, holds, run, sandbox, killed, stops, deaths>>

\* The exception of kill_thread() is raised wherever the thread is.
Torn(q) ==
    /\ actor = "up" /\ q \in killed /\ thread[q] # "done"
    /\ Shut(q) /\ Goes(q, "done")
    /\ UNCHANGED <<poolVars, procVars, actor, holds, run, sandbox, killed, bounds>>

\* sandbox.stop(): the process is terminated.
discard_sandbox ==
    /\ proc' = IF sandbox = 0 THEN proc ELSE [proc EXCEPT ![sandbox] = "dead"]
    /\ sandbox' = 0

\* run() has the result, or the error, and cleans up.
Cleanup(q) ==
    /\ actor = "up" /\ run[q] = "wait" /\ thread[q] = "done"
    /\ discard_sandbox
    /\ run' = [run EXCEPT ![q] = "over"]
    /\ UNCHANGED <<poolVars, watched, probe, backlog, channels, paid, actor, thread,
                   holds, conn, killed, bounds>>

\* A timeout or a cancel: the runner is stopped, the thread is sent an
\* exception, and run() cleans up without waiting for it.
interrupt(q) ==
    /\ actor = "up" /\ run[q] = "wait" /\ thread[q] # "done" /\ stops < MaxStops
    /\ thread[q] \in {"acquire", "spawn", "taken"} => EarlyStops
    /\ discard_sandbox
    /\ killed' = killed \cup {q} /\ stops' = stops + 1
    /\ run' = [run EXCEPT ![q] = "over"]
    /\ UNCHANGED <<poolVars, watched, probe, backlog, channels, paid, actor, thread,
                   holds, conn, failures, deaths>>

\* ray.kill(): no Python of the actor runs any more.
ActorDies ==
    /\ actor = "up" /\ deaths < MaxDeaths
    /\ DiesEarly \/ \A r \in Runners : proc[r] # "import"
    /\ actor' = "gone" /\ deaths' = deaths + 1
    /\ conn' = [q \in Requests |-> [h \in Hosts |->
                  IF conn[q][h] = "none" THEN "none" ELSE "shut"]]
    /\ probe' = [r \in Runners |-> IF probe[r] = "open" THEN "closed" ELSE probe[r]]
    /\ UNCHANGED <<poolVars, proc, watched, backlog, channels, paid, thread, holds,
                   run, sandbox, killed, failures, stops>>

-----------------------------------------------------------------------------
RunnerNext(r) ==
    \/ die_with_parent(r) \/ Watch(r) \/ Runner_init(r)
    \/ serve(r) \/ handle(r) \/ Exchanged(r)
    \/ ProbeConnects(r) \/ ProbeCloses(r)
    \/ WarmCounts(r) \/ WarmPuts(r)
RequestNext(q) ==
    \/ Starts(q) \/ Takes(q) \/ SpawnsOne(q) \/ SpawnEnds(q) \/ Acquired(q)
    \/ connection(q) \/ SendsPayload(q) \/ run_in_runner(q)
    \/ \E h \in Hosts : before_payload(q, h)
    \/ Torn(q) \/ Cleanup(q) \/ interrupt(q)
Next == \/ \E r \in Runners : RunnerNext(r)
        \/ \E q \in Requests : RequestNext(q)
        \/ close \/ ActorDies

\* A process runs on, and so does its watching thread; the threads of the
\* actor do while it lives.
Fairness ==
    /\ \A r \in Runners : /\ WF_vars(die_with_parent(r)) /\ WF_vars(Watch(r))
                          /\ WF_vars(Runner_init(r)) /\ WF_vars(serve(r))
                          /\ WF_vars(handle(r)) /\ WF_vars(Exchanged(r))
                          /\ WF_vars(ProbeConnects(r)) /\ WF_vars(ProbeCloses(r))
                          /\ WF_vars(WarmCounts(r)) /\ WF_vars(WarmPuts(r))
    /\ \A q \in Requests : /\ WF_vars(Takes(q)) /\ WF_vars(SpawnEnds(q))
                           /\ WF_vars(SpawnsOne(q)) /\ WF_vars(Acquired(q))
                           /\ WF_vars(connection(q)) /\ WF_vars(SendsPayload(q))
                           /\ \A h \in Hosts : WF_vars(before_payload(q, h))
                           /\ WF_vars(run_in_runner(q)) /\ WF_vars(Cleanup(q))

Spec == Init /\ [][Next]_vars
FairSpec == Spec /\ Fairness

-----------------------------------------------------------------------------
(* Properties *)

\* The types of the variables.
TypeOK ==
    /\ ready \in Seq(Runners) /\ spawning \in 0..Cardinality(Runners)
    /\ {closed, raced} \subseteq BOOLEAN
    /\ warm \in [Runners -> {"none", "spawn", "counted"}]
    /\ proc \in [Runners -> {"none", "import", "boot", "accept", "handle", "dead"}]
    /\ watched \in [Runners -> BOOLEAN]
    /\ probe \in [Runners -> {"none", "open", "closed"}]
    /\ \A r \in Runners : /\ Range(backlog[r]) \subseteq Hosts \cup {Probe}
                          /\ Range(channels[r]) \subseteq Hosts \cup {Probe}
                          /\ Len(channels[r]) <= Peers
    /\ paid \in [Runners -> SUBSET Requests]
    /\ actor \in {"up", "gone"}
    /\ thread \in [Requests -> {"none", "acquire", "spawn", "taken", "connect",
                                "shards", "pump", "done"}]
    /\ holds \in [Requests -> Runners \cup {0}]
    /\ conn \in [Requests -> [Hosts -> {"none", "open", "sent", "shut"}]]
    /\ run \in [Requests -> {"new", "wait", "over"}]
    /\ sandbox \in Runners \cup {0} /\ killed \subseteq Requests
    /\ failures \in 0..MaxFailures /\ stops \in 0..MaxStops /\ deaths \in 0..MaxDeaths

\* A runner serves the block of one request and no other: two requests never
\* hold the same one, and none that was used is handed out again.
OneRequestPerRunner ==
    \A r \in Runners :
        /\ Cardinality(HolderOf(r)) <= 1
        /\ r \in Range(ready) => HolderOf(r) = {} /\ paid[r] = {}

\* Once a request is over, the runner it took is stopped.
RunnerGoesWithItsRequest ==
    actor = "up" => \A q \in Requests :
        run[q] = "over" /\ holds[q] # 0 => ~Alive(holds[q])

\* The pool has no more runners, ready and on their way, than its size, unless
\* a refill came when one of them was in neither count.
PoolBound == raced \/ Len(ready) + spawning + Cardinality(Counted) <= Size

\* When every place of the group is taken, the first one is rank 0's, which
\* sends the payload: neither a probe nor a shard that came before it.
LeaderIsRankZero ==
    \A r \in Runners : proc[r] = "handle" => channels[r][1] = 1

\* A runner that is up knows the actor as its parent, so it will notice when
\* the actor is gone.
NobodyIsOrphaned ==
    \A r \in Runners : Alive(r) /\ proc[r] # "import" => watched[r]

\* All of them: a request and its ranks have a runner of their own, for as long
\* as the request lasts.
OwnRunner == OneRequestPerRunner /\ RunnerGoesWithItsRequest /\ LeaderIsRankZero

\* After the actor was killed no runner outlives it for good.
RunnersDieWithActor ==
    /\ []NobodyIsOrphaned
    /\ actor = "gone" ~> \A r \in Runners : ~Alive(r)
=============================================================================
