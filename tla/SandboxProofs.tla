--------------------------- MODULE SandboxProofs ---------------------------
(***************************************************************************)
(* The pool of runner processes keeps its size, and each request has a     *)
(* runner of its own whose first connection is rank 0's, for any number of *)
(* runners, requests, peers, failures and deaths.                          *)
(*                                                                         *)
(* Three invariants, each on top of the one before: where a runner is (in  *)
(* the pool, on its way there, or taken), which runner the actor would     *)
(* stop, and in which order the peers stand in line for it.                *)
(***************************************************************************)
EXTENDS Sandbox, FiniteSetTheorems, TLAPS

-----------------------------------------------------------------------------
(* The invariants *)

\* TypeOK, one variable at a time, without the bounds of what is counted.
TInv ==
    /\ ready \in Seq(Runners) /\ spawning \in Int
    /\ closed \in BOOLEAN /\ raced \in BOOLEAN
    /\ warm \in [Runners -> {"none", "spawn", "counted"}]
    /\ proc \in [Runners -> {"none", "import", "boot", "accept", "handle", "dead"}]
    /\ watched \in [Runners -> BOOLEAN]
    /\ probe \in [Runners -> {"none", "open", "closed"}]
    /\ backlog \in [Runners -> Seq(Hosts \cup {Probe})]
    /\ channels \in [Runners -> Seq(Hosts \cup {Probe})]
    /\ paid \in [Runners -> SUBSET Requests]
    /\ actor \in {"up", "gone"}
    /\ thread \in [Requests -> {"none", "acquire", "spawn", "taken", "connect",
                                "shards", "pump", "done"}]
    /\ holds \in [Requests -> Runners \cup {0}]
    /\ conn \in [Requests -> [Hosts -> {"none", "open", "sent", "shut"}]]
    /\ run \in [Requests -> {"new", "wait", "over"}]
    /\ sandbox \in Runners \cup {0} /\ killed \in SUBSET Requests
    /\ failures \in 0..MaxFailures /\ stops \in 0..MaxStops /\ deaths \in 0..MaxDeaths

Spawning == {r \in Runners : warm[r] = "spawn"}
Free(r) == \A q \in Requests : holds[q] # r
InPool(r) == \E i \in 1..Len(ready) : ready[i] = r

\* The pool's count is that of the threads that are still in spawn().
Counts == spawning = Cardinality(Spawning)

\* A runner has no process yet, is on its way to the pool, is in it once, or was
\* taken by one request, whose block is the only one it is ever sent.
Placed ==
    /\ \A r \in Runners : proc[r] = "none" => warm[r] = "none" /\ ~InPool(r) /\ Free(r)
    /\ \A r \in Runners : warm[r] # "none" => ~InPool(r) /\ Free(r)
    /\ \A r \in Runners : InPool(r) => Free(r)
    /\ \A i, j \in 1..Len(ready) : ready[i] = ready[j] => i = j
    /\ \A p, q \in Requests : holds[p] = holds[q] /\ holds[p] # 0 => p = q
    /\ \A r \in Runners : paid[r] \subseteq HolderOf(r)

\* It accepts as long as a peer is missing.
Filled ==
    \A r \in Runners :
        /\ proc[r] \in {"none", "import", "boot"} => channels[r] = <<>>
        /\ proc[r] = "accept" => Len(channels[r]) < Peers
        /\ proc[r] = "handle" => Len(channels[r]) = Peers
        /\ Len(channels[r]) <= Peers

\* A request takes its runner once.
Begun ==
    \A q \in Requests :
        /\ run[q] = "new" => thread[q] = "none"
        /\ thread[q] \in {"none", "acquire"} => holds[q] = 0
        /\ q \in killed => run[q] = "over"

PoolInv == TInv /\ Begun /\ Counts /\ Placed /\ Filled /\ PoolBound

\* A run that is not over owns self.execution_sandbox from the moment its
\* thread names the runner.
Turns ==
    \A q \in Requests :
        /\ thread[q] = "none" => run[q] = "new"
        /\ run[q] # "new" => \A p \in Requests : p < q => run[p] = "over"
        /\ thread[q] \in {"acquire", "spawn", "taken"} => run[q] = "wait"

Sandboxed ==
    \A q \in Requests :
        /\ thread[q] \in {"spawn", "taken", "connect", "shards", "pump"} => holds[q] # 0
        /\ run[q] = "wait" /\ thread[q] \in {"connect", "shards", "pump"} =>
              sandbox = holds[q]
        /\ run[q] = "wait" /\ thread[q] = "done" /\ holds[q] # 0 =>
              sandbox = holds[q] \/ proc[holds[q]] = "dead"
        /\ run[q] = "over" /\ holds[q] # 0 => proc[holds[q]] = "dead"

StopInv == Turns /\ Sandboxed

\* The connections of a request: rank 0's is made first, and once one is shut
\* no other is made.
Hung(q) == \A h \in Hosts : conn[q][h] \in {"none", "shut"}
Unconnected == {"none", "acquire", "spawn", "taken", "connect"}
Conns(q) ==
    /\ thread[q] \in Unconnected => \A h \in Hosts : conn[q][h] = "none"
    /\ thread[q] \in {"shards", "pump"} => conn[q][1] # "none"
    /\ (\E h \in Hosts : conn[q][h] = "shut") => Hung(q)
    /\ actor = "up" /\ thread[q] = "shards" /\ (\E h \in Hosts : conn[q][h] = "shut") =>
          \A h \in Hosts : conn[q][h] = "shut"

\* A queue of connections: who is in it, that no host is in it twice, and that
\* rank 0 is the first of its hosts.
Among(s, c) == \E i \in 1..Len(s) : s[i] = c
Once(s) == \A i, j \in 1..Len(s) : s[i] = s[j] /\ s[i] # Probe => i = j
Leads(s) ==
    \A i \in 1..Len(s) : s[i] \in {Probe, 1} \/ \E j \in 1..(i - 1) : s[j] = 1

\* Who stands in line for a runner, and who got in: peers of the request that
\* holds it, each once, rank 0 first.
Line(r) ==
    /\ Among(backlog[r], Probe) => probe[r] # "none"
    /\ ~Among(channels[r], Probe)
    /\ \A c \in Hosts : Among(backlog[r], c) \/ Among(channels[r], c) =>
          \E q \in Requests : holds[q] = r /\ conn[q][c] # "none"
    /\ Once(backlog[r]) /\ Once(channels[r])
    /\ \A c \in Hosts : ~(Among(backlog[r], c) /\ Among(channels[r], c))
    /\ channels[r] # <<>> => channels[r][1] = 1
    /\ \A q \in Requests : holds[q] = r /\ conn[q][1] # "none" =>
          channels[r] # <<>> \/ Among(backlog[r], 1) \/ Hung(q)
    /\ channels[r] = <<>> =>
          Leads(backlog[r]) \/ \E q \in Requests : holds[q] = r /\ Hung(q)

LineInv == (\A q \in Requests : Conns(q)) /\ (\A r \in Runners : Line(r))

-----------------------------------------------------------------------------
(* Types *)

\* The bounds are numbers, and so are the ids.
LEMMA Bounds ==
    /\ MaxFailures \in Nat /\ MaxStops \in Nat /\ MaxDeaths \in Nat
    /\ Peers \in Nat \ {0} /\ Size \in Runners
BY SandboxAssumption

\* There are finitely many of them.
LEMMA Ids ==
    /\ Runners \subseteq Nat \ {0} /\ Requests \subseteq Nat /\ IsFiniteSet(Runners)
    /\ \A r \in Runners : 1..r \subseteq Runners
<1>1. Cardinality(Runners) \in Nat /\ Cardinality(Requests) \in Nat
  BY SandboxAssumption, FS_CardinalityType
<1>2. Runners = 1..Cardinality(Runners) /\ Requests = 1..Cardinality(Requests)
  BY SandboxAssumption
<1> QED BY <1>1, <1>2, SandboxAssumption

\* The queues of a runner hold peers, whatever is appended to or taken from
\* them.
LEMMA QueueTypes ==
    ASSUME NEW S, NEW c \in Seq(S)
    PROVE  /\ \A x \in S : Append(c, x) \in Seq(S)
           /\ c # <<>> => Tail(c) \in Seq(S) /\ Head(c) \in S
           /\ <<>> \in Seq(S)
OBVIOUS

\* An id that was not used.
LEMMA FreshId == Unused # {} => Fresh \in Runners /\ proc[Fresh] = "none"
BY DEF Unused, Fresh

\* The types hold at first.
LEMMA TypesInit == Init => TInv
<1> SUFFICES ASSUME Init PROVE TInv
  OBVIOUS
<1>1. [r \in Runners |-> <<>>] \in [Runners -> Seq(Hosts \cup {Probe})]
      /\ <<>> \in Seq(Runners)
  OBVIOUS
<1>2. spawning \in Int
  BY Bounds, Ids DEF Init
<1>3. failures \in 0..MaxFailures /\ stops \in 0..MaxStops /\ deaths \in 0..MaxDeaths
  BY Bounds DEF Init
<1>4. /\ warm \in [Runners -> {"none", "spawn", "counted"}]
      /\ proc \in [Runners -> {"none", "import", "boot", "accept", "handle", "dead"}]
      /\ watched \in [Runners -> BOOLEAN] /\ paid \in [Runners -> SUBSET Requests]
      /\ probe \in [Runners -> {"none", "open", "closed"}]
  BY DEF Init
<1>5. /\ thread \in [Requests -> {"none", "acquire", "spawn", "taken", "connect",
                                  "shards", "pump", "done"}]
      /\ holds \in [Requests -> Runners \cup {0}]
      /\ conn \in [Requests -> [Hosts -> {"none", "open", "sent", "shut"}]]
      /\ run \in [Requests -> {"new", "wait", "over"}]
  BY DEF Init
<1>6. /\ ready \in Seq(Runners) /\ closed \in BOOLEAN /\ raced \in BOOLEAN
      /\ backlog \in [Runners -> Seq(Hosts \cup {Probe})]
      /\ channels \in [Runners -> Seq(Hosts \cup {Probe})]
      /\ actor \in {"up", "gone"} /\ sandbox \in Runners \cup {0}
      /\ killed \in SUBSET Requests
  BY <1>1 DEF Init
<1> QED BY <1>2, <1>3, <1>4, <1>5, <1>6 DEF TInv

\* A failed spawn is counted while there are some left.
LEMMA SpawnFailsTyped ==
    ASSUME TInv, NEW r, SpawnFails(r)
    PROVE  failures' \in 0..MaxFailures /\ failures' = failures + 1
           /\ proc' = [proc EXCEPT ![r] = "dead"]
BY Bounds DEF SpawnFails, TInv

\* refill() keeps the types.
LEMMA refillTyped ==
    ASSUME TInv, refill
    PROVE  /\ spawning' \in Int /\ raced' \in BOOLEAN
           /\ warm' \in [Runners -> {"none", "spawn", "counted"}]
           /\ proc' \in [Runners -> {"none", "import", "boot", "accept", "handle",
                                      "dead"}]
<1>1. CASE UNCHANGED <<spawning, warm, raced, proc>>
  BY <1>1 DEF TInv
<1>2. CASE Unused # {} /\ ~UNCHANGED <<spawning, warm, raced, proc>>
  <2>1. /\ spawning' = spawning + 1 /\ warm' = [warm EXCEPT ![Fresh] = "spawn"]
        /\ proc' = [proc EXCEPT ![Fresh] = "import"]
        /\ raced' = (raced \/ Counted # {})
    BY <1>2 DEF refill, Launch
  <2>2. (raced \/ Counted # {}) \in BOOLEAN
    BY DEF TInv
  <2>3. /\ [warm EXCEPT ![Fresh] = "spawn"] \in
              [Runners -> {"none", "spawn", "counted"}]
        /\ [proc EXCEPT ![Fresh] = "import"] \in
              [Runners -> {"none", "import", "boot", "accept", "handle", "dead"}]
    BY DEF TInv
  <2>4. spawning + 1 \in Int
    BY DEF TInv
  <2> QED BY <2>1, <2>2, <2>3, <2>4
<1> QED BY <1>1, <1>2 DEF refill

\* The processes keep the types.
LEMMA ProcTypes ==
    ASSUME TInv, NEW r \in Runners,
           \/ die_with_parent(r) \/ Watch(r) \/ Runner_init(r) \/ serve(r)
           \/ handle(r) \/ Exchanged(r) \/ ProbeConnects(r) \/ ProbeCloses(r)
    PROVE  TInv'
<1> USE DEF poolVars, reqVars, bounds
<1>1. CASE die_with_parent(r)
  BY <1>1 DEF die_with_parent, TInv
<1>2. CASE Watch(r) \/ Runner_init(r)
  BY <1>2 DEF Watch, Runner_init, TInv
<1>3. CASE serve(r)
  <2>1. backlog' \in [Runners -> Seq(Hosts \cup {Probe})]
    BY <1>3, QueueTypes DEF serve, TInv
  <2>2. channels' \in [Runners -> Seq(Hosts \cup {Probe})]
    <3>1. Append(channels[r], Head(backlog[r])) \in Seq(Hosts \cup {Probe})
      BY <1>3, QueueTypes DEF serve, TInv
    <3> QED BY <1>3, <3>1 DEF serve, TInv
  <2>3. proc' \in [Runners -> {"none", "import", "boot", "accept", "handle", "dead"}]
    BY <1>3 DEF serve, TInv
  <2> QED BY <1>3, <2>1, <2>2, <2>3 DEF serve, TInv
<1>4. CASE handle(r)
  <2>1. paid' \in [Runners -> SUBSET Requests]
    BY <1>4 DEF handle, TInv, HolderOf
  <2> QED BY <1>4, <2>1 DEF handle, TInv
<1>5. CASE Exchanged(r)
  <2>1. conn' \in [Requests -> [Hosts -> {"none", "open", "sent", "shut"}]]
    BY <1>5 DEF Exchanged, TInv
  <2>2. channels' \in [Runners -> Seq(Hosts \cup {Probe})]
    BY <1>5, QueueTypes DEF Exchanged, TInv
  <2>3. proc' \in [Runners -> {"none", "import", "boot", "accept", "handle", "dead"}]
    BY <1>5 DEF Exchanged, TInv
  <2> QED BY <1>5, <2>1, <2>2, <2>3 DEF Exchanged, TInv
<1>6. CASE ProbeConnects(r)
  <2>1. backlog' \in [Runners -> Seq(Hosts \cup {Probe})]
    BY <1>6, QueueTypes DEF ProbeConnects, TInv
  <2> QED BY <1>6, <2>1 DEF ProbeConnects, TInv
<1>7. CASE ProbeCloses(r)
  BY <1>7 DEF ProbeCloses, TInv
<1> QED BY <1>1, <1>2, <1>3, <1>4, <1>5, <1>6, <1>7

\* So do the pool and the death of the actor.
LEMMA PoolTypes ==
    ASSUME TInv, \/ \E r \in Runners : WarmCounts(r) \/ WarmPuts(r)
                 \/ close \/ ActorDies
    PROVE  TInv'
<1> USE DEF procVars, reqVars
<1>1. ASSUME NEW r \in Runners, WarmCounts(r) PROVE TInv'
  <2>1. UNCHANGED <<proc, failures>> \/ SpawnFails(r)
    BY <1>1 DEF WarmCounts
  <2>2. /\ proc' \in [Runners -> {"none", "import", "boot", "accept", "handle", "dead"}]
        /\ failures' \in 0..MaxFailures
    BY <2>1, SpawnFailsTyped DEF TInv
  <2>3. /\ warm' = [warm EXCEPT ![r] = "counted"] \/ warm' = [warm EXCEPT ![r] = "none"]
        /\ spawning' = spawning - 1
        /\ UNCHANGED <<ready, closed, raced, watched, probe, backlog, channels, paid,
                       actor, reqVars, stops, deaths>>
    BY <1>1 DEF WarmCounts
  <2>4. warm' \in [Runners -> {"none", "spawn", "counted"}]
    BY <2>3 DEF TInv
  <2> QED BY <2>2, <2>3, <2>4 DEF TInv
<1>2. ASSUME NEW r \in Runners, WarmPuts(r) PROVE TInv'
  <2>1. ready' \in Seq(Runners)
    <3>1. Append(ready, r) \in Seq(Runners)
      BY QueueTypes DEF TInv
    <3>2. ready' = Append(ready, r) \/ ready' = ready
      BY <1>2 DEF WarmPuts
    <3> QED BY <3>1, <3>2 DEF TInv
  <2>2. /\ warm' \in [Runners -> {"none", "spawn", "counted"}]
        /\ proc' \in [Runners -> {"none", "import", "boot", "accept", "handle", "dead"}]
    BY <1>2 DEF WarmPuts, TInv
  <2>3. UNCHANGED <<spawning, closed, raced, watched, probe, backlog, channels, paid,
                    actor, reqVars, bounds>>
    BY <1>2 DEF WarmPuts
  <2> QED BY <2>1, <2>2, <2>3 DEF TInv, bounds
<1>3. CASE close
  <2>1. proc' \in [Runners -> {"none", "import", "boot", "accept", "handle", "dead"}]
    BY <1>3 DEF close, TInv
  <2> QED BY <1>3, <2>1 DEF close, TInv, bounds
<1>4. CASE ActorDies
  <2>1. deaths' \in 0..MaxDeaths
    BY <1>4, Bounds DEF ActorDies, TInv
  <2>2. conn' \in [Requests -> [Hosts -> {"none", "open", "sent", "shut"}]]
    BY <1>4 DEF ActorDies, TInv
  <2>3. probe' \in [Runners -> {"none", "open", "closed"}]
    BY <1>4 DEF ActorDies, TInv
  <2> QED BY <1>4, <2>1, <2>2, <2>3 DEF ActorDies, TInv, poolVars
<1> QED BY <1>1, <1>2, <1>3, <1>4

\* What a request does to its connections when it closes them.
LEMMA ShutTyped ==
    ASSUME TInv, NEW q \in Requests, Shut(q)
    PROVE  /\ conn' \in [Requests -> [Hosts -> {"none", "open", "sent", "shut"}]]
           /\ \A p \in Requests \ {q} : conn'[p] = conn[p]
           /\ \A h \in Hosts : conn'[q][h] = IF conn[q][h] = "none" THEN "none"
                                            ELSE "shut"
BY DEF TInv, Shut

\* So does a request.
LEMMA RequestTypes ==
    ASSUME TInv, NEW q \in Requests, RequestNext(q)
    PROVE  TInv'
<1> USE DEF poolVars, procVars, bounds
<1>1. CASE Starts(q)
  BY <1>1 DEF Starts, Goes, TInv
<1>2. CASE Takes(q)
  <2>1. ready' \in Seq(Runners) /\ Head(ready) \in Runners
    BY <1>2, QueueTypes DEF Takes, TInv
  <2> QED BY <1>2, <2>1 DEF Takes, Goes, TInv
<1>3. CASE SpawnsOne(q)
  BY <1>3, FreshId DEF SpawnsOne, Goes, Launch, TInv
<1>4. CASE SpawnEnds(q)
  <2>1. UNCHANGED <<proc, failures>> \/ SpawnFails(holds[q])
    BY <1>4 DEF SpawnEnds
  <2>2. /\ proc' \in [Runners -> {"none", "import", "boot", "accept", "handle", "dead"}]
        /\ failures' \in 0..MaxFailures
    BY <2>1, SpawnFailsTyped DEF TInv
  <2>3. PICK w \in {"taken", "done"} : Goes(q, w)
    BY <1>4 DEF SpawnEnds
  <2> QED BY <1>4, <2>2, <2>3 DEF SpawnEnds, Goes, TInv
<1>5. CASE Acquired(q)
  BY <1>5, refillTyped DEF Acquired, Goes, TInv
<1>6. ASSUME NEW h \in Hosts, Connects(q, h)
      PROVE  /\ backlog' \in [Runners -> Seq(Hosts \cup {Probe})]
             /\ conn' \in [Requests -> [Hosts -> {"none", "open", "sent", "shut"}]]
  BY <1>6, QueueTypes DEF Connects, TInv
<1>7. CASE connection(q)
  <2>1. 1 \in Hosts
    BY Bounds DEF Hosts
  <2> QED BY <1>6, <1>7, <2>1 DEF connection, Goes, TInv
<1>8. ASSUME NEW h \in Hosts, before_payload(q, h) PROVE TInv'
  BY <1>6, <1>8 DEF before_payload, TInv
<1>9. CASE SendsPayload(q)
  <2>1. conn' \in [Requests -> [Hosts -> {"none", "open", "sent", "shut"}]]
    BY <1>9 DEF SendsPayload, TInv
  <2> QED BY <1>9, <2>1 DEF SendsPayload, Goes, TInv
<1>10. CASE run_in_runner(q)
  <2>1. failures' \in 0..MaxFailures
    BY <1>10, Bounds DEF run_in_runner, TInv
  <2> QED BY <1>10, <2>1, ShutTyped DEF run_in_runner, Goes, TInv
<1>11. CASE Torn(q)
  BY <1>11, ShutTyped DEF Torn, Goes, TInv
<1>12. ASSUME discard_sandbox
       PROVE  /\ sandbox' = 0
              /\ proc' \in [Runners -> {"none", "import", "boot", "accept", "handle",
                                         "dead"}]
  BY <1>12 DEF discard_sandbox, TInv
<1>13. CASE Cleanup(q)
  BY <1>12, <1>13 DEF Cleanup, TInv
<1>14. CASE interrupt(q)
  <2>1. stops' \in 0..MaxStops
    BY <1>14, Bounds DEF interrupt, TInv
  <2> QED BY <1>12, <1>14, <2>1 DEF interrupt, TInv
<1> QED
  BY <1>1, <1>2, <1>3, <1>4, <1>5, <1>7, <1>8, <1>9, <1>10, <1>11, <1>13, <1>14
  DEF RequestNext

\* So does every step.
LEMMA TypesNext == TInv /\ [Next]_vars => TInv'
<1> SUFFICES ASSUME TInv, [Next]_vars PROVE TInv'
  OBVIOUS
<1>1. CASE UNCHANGED vars
  BY <1>1 DEF vars, poolVars, procVars, reqVars, bounds, TInv
<1>2. ASSUME NEW r \in Runners, RunnerNext(r) PROVE TInv'
  BY <1>2, ProcTypes, PoolTypes DEF RunnerNext
<1> QED BY <1>1, <1>2, RequestTypes, PoolTypes DEF Next

-----------------------------------------------------------------------------
(* Where a runner is *)

\* A request begins once, and moves on.
LEMMA BegunKeeps ==
    ASSUME TInv, Begun, [Next]_vars
    PROVE  Begun'
<1> USE DEF reqVars
<1>1. CASE UNCHANGED <<run, thread, holds, killed>>
  BY <1>1 DEF Begun
<1>2. ASSUME NEW q \in Requests, RequestNext(q) PROVE Begun'
  <2>1. /\ \A p \in Requests \ {q} : /\ run'[p] = run[p] /\ thread'[p] = thread[p]
                                     /\ holds'[p] = holds[p]
        /\ \/ run'[q] = "wait" /\ thread'[q] = "acquire" /\ run[q] = "new"
              /\ holds'[q] = holds[q]
           \/ thread'[q] \notin {"none", "acquire"} /\ run'[q] # "new"
           \/ thread'[q] = thread[q] /\ run'[q] # "new" /\ holds'[q] = holds[q]
        /\ killed' \subseteq killed \cup {q} /\ (q \in killed' => run'[q] = "over")
    <3> USE DEF Goes, At, TInv, Begun
    <3>1. CASE Starts(q)
      BY <1>2, <3>1 DEF Starts
    <3>2. CASE Takes(q) \/ SpawnsOne(q)
      BY <1>2, <3>2 DEF Takes, SpawnsOne
    <3>3. CASE SpawnEnds(q) \/ Acquired(q)
      BY <1>2, <3>3 DEF SpawnEnds, Acquired
    <3>4. CASE connection(q) \/ SendsPayload(q) \/ run_in_runner(q)
      BY <1>2, <3>4 DEF connection, SendsPayload, run_in_runner
    <3>5. CASE \E h \in Hosts : before_payload(q, h)
      <4>1. UNCHANGED <<thread, run, holds, killed>> /\ thread[q] = "shards" /\ run[q] # "new"
        BY <3>5 DEF before_payload
      <4> QED BY <4>1
    <3>6. CASE Torn(q)
      BY <1>2, <3>6 DEF Torn
    <3>7. CASE Cleanup(q) \/ interrupt(q)
      BY <1>2, <3>7 DEF Cleanup, interrupt
    <3> QED BY <1>2, <3>1, <3>2, <3>3, <3>4, <3>5, <3>6, <3>7 DEF RequestNext
  <2> QED BY <2>1 DEF Begun
<1>3. CASE close \/ ActorDies \/ \E r \in Runners : RunnerNext(r)
  <2>1. UNCHANGED <<run, thread, holds, killed>>
    BY <1>3 DEF close, ActorDies, RunnerNext, die_with_parent, Watch, Runner_init, serve,
       handle, Exchanged, ProbeConnects, ProbeCloses, WarmCounts, WarmPuts
  <2> QED BY <1>1, <2>1
<1> QED BY <1>1, <1>2, <1>3 DEF Next, vars

\* A runner that is put comes last.
LEMMA PutIn ==
    ASSUME TInv, NEW r \in Runners, ready' = Append(ready, r), ~InPool(r),
           \A i, j \in 1..Len(ready) : ready[i] = ready[j] => i = j
    PROVE  /\ \A x : InPool(x)' => InPool(x) \/ x = r
           /\ Len(ready') = Len(ready) + 1
           /\ \A i, j \in 1..Len(ready') : ready'[i] = ready'[j] => i = j
<1>1. /\ Len(ready') = Len(ready) + 1 /\ Len(ready) \in Nat
      /\ \A i \in 1..Len(ready) : ready'[i] = ready[i]
      /\ ready'[Len(ready) + 1] = r
  BY DEF TInv
<1> QED BY <1>1 DEF InPool

\* The runner that is taken leaves the pool, and was in it once.
LEMMA TakenOut ==
    ASSUME TInv, ready # <<>>, ready' = Tail(ready),
           \A i, j \in 1..Len(ready) : ready[i] = ready[j] => i = j
    PROVE  /\ \A x : InPool(x)' => InPool(x) /\ x # Head(ready)
           /\ Len(ready') = Len(ready) - 1
           /\ \A i, j \in 1..Len(ready') : ready'[i] = ready'[j] => i = j
           /\ InPool(Head(ready)) /\ Head(ready) \in Runners
<1>1. /\ Len(ready') = Len(ready) - 1 /\ Len(ready) \in Nat \ {0}
      /\ \A i \in 1..Len(ready') : ready'[i] = ready[i + 1]
      /\ Head(ready) = ready[1] /\ Head(ready) \in Runners
  BY DEF TInv
<1>2. \A i \in 1..Len(ready') : i + 1 \in 1..Len(ready) /\ i + 1 # 1
  BY <1>1
<1> QED BY <1>1, <1>2 DEF InPool

\* The threads of the pool are finitely many.
LEMMA WarmFinite ==
    /\ IsFiniteSet(Spawning) /\ IsFiniteSet(Counted)
    /\ Cardinality(Spawning) \in Nat /\ Cardinality(Counted) \in Nat
<1>1. Spawning \subseteq Runners /\ Counted \subseteq Runners
  BY DEF Spawning, Counted
<1> QED BY <1>1, Ids, FS_Subset, FS_CardinalityType

\* Nobody is put, taken or launched.
LEMMA PlacesStay ==
    ASSUME PoolInv, UNCHANGED <<ready, spawning, warm, raced, holds>>,
           \A r \in Runners : proc'[r] = "none" => proc[r] = "none",
           \A r \in Runners : paid'[r] \subseteq HolderOf(r)
    PROVE  Placed' /\ Counts' /\ PoolBound'
<1>1. Placed'
  BY DEF PoolInv, Placed, InPool, Free, HolderOf
<1>2. Counts' /\ PoolBound'
  BY DEF PoolInv, Counts, Spawning, PoolBound, Counted
<1> QED BY <1>1, <1>2

\* The process does not get as far as its accept loop.
GoesOn(r) ==
    \/ proc'[r] = proc[r] \/ proc'[r] = "dead"
    \/ proc'[r] \in {"import", "boot"} /\ proc[r] \in {"none", "import"}

\* Nobody gets in and nobody opens.
LEMMA NobodyGetsIn ==
    ASSUME PoolInv, channels' = channels, \A r \in Runners : GoesOn(r)
    PROVE  Filled'
<1> SUFFICES ASSUME NEW r \in Runners
             PROVE  /\ proc'[r] \in {"none", "import", "boot"} => channels[r] = <<>>
                    /\ proc'[r] = "accept" => Len(channels[r]) < Peers
                    /\ proc'[r] = "handle" => Len(channels[r]) = Peers
                    /\ Len(channels[r]) <= Peers
  BY DEF Filled
<1> QED BY DEF GoesOn, PoolInv, Filled

\* The processes stay where they are placed.
LEMMA ProcKeeps ==
    ASSUME PoolInv, TInv', Begun', NEW r \in Runners,
           \/ die_with_parent(r) \/ Watch(r) \/ Runner_init(r) \/ serve(r)
           \/ handle(r) \/ Exchanged(r) \/ ProbeConnects(r) \/ ProbeCloses(r)
    PROVE  PoolInv'
<1> USE DEF poolVars, reqVars
<1>1. UNCHANGED <<ready, spawning, warm, raced, holds>>
  BY DEF die_with_parent, Watch, Runner_init, serve, handle, Exchanged, ProbeConnects,
     ProbeCloses
<1>2. \A x \in Runners : proc'[x] = "none" => proc[x] = "none"
  <2>1. \/ proc' = proc
        \/ \E w \in {"boot", "dead", "accept", "handle"} : proc' = [proc EXCEPT ![r] = w]
    BY DEF die_with_parent, Watch, Runner_init, serve, handle, Exchanged,
       ProbeConnects, ProbeCloses
  <2> QED BY <2>1 DEF PoolInv, TInv
<1>3. \A x \in Runners : paid'[x] \subseteq HolderOf(x)
  <2>1. CASE handle(r)
    BY <2>1 DEF handle, PoolInv, TInv, Placed
  <2>2. CASE paid' = paid
    BY <2>2 DEF PoolInv, Placed
  <2> QED
    BY <2>1, <2>2 DEF die_with_parent, Watch, Runner_init, serve, Exchanged,
       ProbeConnects, ProbeCloses
<1>4. Placed' /\ Counts' /\ PoolBound'
  BY <1>1, <1>2, <1>3, PlacesStay
<1>5. Filled'
  <2>1. CASE die_with_parent(r) \/ Watch(r) \/ handle(r) \/ ProbeConnects(r)
             \/ ProbeCloses(r)
    <3>1. /\ channels' = channels
          /\ \/ proc' = proc \/ proc' = [proc EXCEPT ![r] = "dead"]
             \/ proc[r] = "import" /\ proc' = [proc EXCEPT ![r] = "boot"]
      BY <2>1 DEF die_with_parent, Watch, handle, ProbeConnects, ProbeCloses
    <3>2. \A x \in Runners : GoesOn(x)
      BY <3>1 DEF GoesOn, PoolInv, TInv
    <3> QED BY <3>1, <3>2, NobodyGetsIn
  <2>2. CASE Runner_init(r)
    <3>1. /\ proc'[r] = "accept" /\ channels' = channels /\ channels[r] = <<>>
          /\ \A x \in Runners \ {r} : proc'[x] = proc[x]
      BY <2>2 DEF Runner_init, PoolInv, TInv, Filled
    <3>2. Len(<<>>) < Peers
      BY Bounds
    <3> QED BY <3>1, <3>2 DEF PoolInv, Filled
  <2>3. CASE Exchanged(r)
    <3>1. /\ proc'[r] = "accept" /\ channels'[r] = <<>>
          /\ \A x \in Runners \ {r} : proc'[x] = proc[x] /\ channels'[x] = channels[x]
      BY <2>3 DEF Exchanged, PoolInv, TInv
    <3>2. Len(<<>>) < Peers
      BY Bounds
    <3> QED BY <3>1, <3>2, Bounds DEF PoolInv, Filled
  <2>4. CASE serve(r)
    <3>1. /\ proc[r] = "accept" /\ Len(channels[r]) < Peers /\ Len(channels[r]) \in Nat
          /\ \A x \in Runners \ {r} : proc'[x] = proc[x] /\ channels'[x] = channels[x]
      BY <2>4 DEF serve, PoolInv, TInv, Filled
    <3>2. /\ proc'[r] = IF Len(channels'[r]) = Peers THEN "handle" ELSE "accept"
          /\ Len(channels'[r]) \in {Len(channels[r]), Len(channels[r]) + 1}
      <4>1. /\ proc' = IF Len(channels'[r]) = Peers THEN [proc EXCEPT ![r] = "handle"]
                       ELSE proc
            /\ \/ channels' = channels
               \/ channels' = [channels EXCEPT ![r] = Append(@, Head(backlog[r]))]
        BY <2>4 DEF serve
      <4> QED BY <3>1, <4>1 DEF PoolInv, TInv
    <3>3. Len(channels'[r]) <= Peers
      BY <3>1, <3>2, Bounds
    <3> QED BY <3>1, <3>2, <3>3, Bounds DEF PoolInv, Filled
  <2> QED BY <2>1, <2>2, <2>3, <2>4
<1> QED BY <1>4, <1>5 DEF PoolInv

\* A launched process has no place yet; the refill stays within the size.
LEMMA refillKeeps ==
    ASSUME PoolInv, TInv', Begun', refill, UNCHANGED <<ready, holds, channels, paid>>
    PROVE  PoolInv'
<1>1. CASE UNCHANGED <<spawning, warm, raced, proc>>
  <2>1. Placed' /\ Counts' /\ PoolBound'
    BY <1>1, PlacesStay DEF PoolInv, Placed
  <2>2. Filled'
    BY <1>1, NobodyGetsIn DEF GoesOn
  <2> QED BY <2>1, <2>2 DEF PoolInv
<1>2. CASE ~UNCHANGED <<spawning, warm, raced, proc>>
  <2>1. /\ Len(ready) + spawning < Size
        /\ spawning' = spawning + 1 /\ warm' = [warm EXCEPT ![Fresh] = "spawn"]
        /\ proc' = [proc EXCEPT ![Fresh] = "import"]
        /\ raced' = (raced \/ Counted # {})
        /\ Fresh \in Runners /\ proc[Fresh] = "none"
    <3>1. Len(ready) \in Nat /\ spawning \in Int /\ Size \in Nat
      BY Bounds, Ids DEF PoolInv, TInv
    <3> QED BY <1>2, <3>1, FreshId DEF refill, Launch
  <2>9. PICK f \in Runners : f = Fresh
    BY <2>1
  <2>2. /\ f \in Runners /\ proc[f] = "none" /\ warm[f] = "none" /\ ~InPool(f) /\ Free(f)
        /\ warm' = [warm EXCEPT ![f] = "spawn"] /\ proc' = [proc EXCEPT ![f] = "import"]
    BY <2>1, <2>9 DEF PoolInv, Placed
  <2>3. /\ warm'[f] = "spawn" /\ proc'[f] = "import"
        /\ \A r \in Runners \ {f} : warm'[r] = warm[r] /\ proc'[r] = proc[r]
    BY <2>2 DEF PoolInv, TInv
  <2>4. Placed'
    BY <2>2, <2>3 DEF PoolInv, Placed, InPool, Free, HolderOf
  <2>5. Counts'
    <3>1. Spawning' = Spawning \cup {f} /\ f \notin Spawning
      BY <2>2, <2>3 DEF Spawning
    <3> QED BY <2>1, <3>1, WarmFinite, FS_AddElement DEF PoolInv, Counts
  <2>6. PoolBound'
    <3>1. raced' \/ Counted = {}
      BY <2>1
    <3>2. Counted' \subseteq Counted
      BY <2>3 DEF Counted
    <3>3. Counted = {} => Cardinality(Counted') = 0
      BY <3>2, FS_EmptySet
    <3>4. Len(ready) + spawning' <= Size
      <4>1. Len(ready) \in Nat /\ spawning \in Int /\ Size \in Nat
        BY Bounds, Ids DEF PoolInv, TInv
      <4> QED BY <2>1, <4>1
    <3>5. Len(ready) + spawning' \in Int
      BY DEF TInv
    <3> QED BY <3>1, <3>3, <3>4, <3>5 DEF PoolBound
  <2>7. Filled'
    BY <2>2, <2>3, NobodyGetsIn DEF GoesOn
  <2> QED BY <2>4, <2>5, <2>6, <2>7 DEF PoolInv
<1> QED BY <1>1, <1>2

\* A thread of the pool is counted out once, and puts its runner once.
LEMMA WarmKeeps ==
    ASSUME PoolInv, TInv', Begun', NEW r \in Runners, WarmCounts(r) \/ WarmPuts(r)
    PROVE  PoolInv'
<1> USE DEF reqVars
<1>0. Len(ready) \in Nat /\ spawning \in Int /\ Size \in Nat
  BY Bounds, Ids DEF PoolInv, TInv
<1>1. warm[r] \in {"spawn", "counted"} /\ ~InPool(r) /\ Free(r) /\ proc[r] # "none"
  BY DEF WarmCounts, WarmPuts, PoolInv, Placed
<1>2. /\ holds' = holds /\ paid' = paid /\ channels' = channels /\ raced' = raced
      /\ proc' = proc \/ proc' = [proc EXCEPT ![r] = "dead"]
  BY DEF WarmCounts, WarmPuts, SpawnFails
<1>3. Filled'
  <2>1. \A x \in Runners : GoesOn(x)
    BY <1>2 DEF GoesOn, PoolInv, TInv
  <2> QED BY <1>2, <2>1, NobodyGetsIn
<1>4. \A x \in Runners : proc'[x] = "none" => proc[x] = "none"
  BY <1>2 DEF PoolInv, TInv
<1>5. CASE WarmCounts(r)
  <2>1. /\ warm[r] = "spawn" /\ spawning' = spawning - 1 /\ ready' = ready
        /\ warm' = [warm EXCEPT ![r] = "counted"] \/ warm' = [warm EXCEPT ![r] = "none"]
    BY <1>5 DEF WarmCounts
  <2>2. /\ warm'[r] \in {"counted", "none"}
        /\ \A x \in Runners \ {r} : warm'[x] = warm[x]
    BY <2>1 DEF PoolInv, TInv
  <2>3. Placed'
    BY <1>1, <1>2, <1>4, <2>1, <2>2 DEF PoolInv, Placed, InPool, Free, HolderOf
  <2>4. Counts'
    <3>1. Spawning' = Spawning \ {r} /\ r \in Spawning
      BY <2>1, <2>2 DEF Spawning
    <3> QED BY <2>1, <3>1, WarmFinite, FS_RemoveElement DEF PoolInv, Counts
  <2>5. PoolBound'
    <3>1. Counted' = Counted \/ Counted' = Counted \cup {r}
      BY <2>1, <2>2 DEF Counted
    <3>2. r \notin Counted
      BY <2>1 DEF Counted
    <3>3. Cardinality(Counted') \in {Cardinality(Counted), Cardinality(Counted) + 1}
      BY <3>1, <3>2, WarmFinite, FS_AddElement
    <3> QED BY <1>0, <1>2, <2>1, <3>3, WarmFinite DEF PoolInv, PoolBound
  <2> QED BY <1>3, <2>3, <2>4, <2>5 DEF PoolInv
<1>6. CASE WarmPuts(r)
  <2>1. /\ warm[r] = "counted" /\ spawning' = spawning
        /\ warm' = [warm EXCEPT ![r] = "none"]
        /\ ready' = ready \/ ready' = Append(ready, r)
    BY <1>6 DEF WarmPuts
  <2>2. /\ warm'[r] = "none"
        /\ \A x \in Runners \ {r} : warm'[x] = warm[x]
    BY <2>1 DEF PoolInv, TInv
  <2>3. /\ \A x : InPool(x)' => InPool(x) \/ x = r
        /\ Len(ready') \in {Len(ready), Len(ready) + 1}
        /\ \A i, j \in 1..Len(ready') : ready'[i] = ready'[j] => i = j
    <3>1. \A i, j \in 1..Len(ready) : ready[i] = ready[j] => i = j
      BY DEF PoolInv, Placed
    <3>2. CASE ready' = ready
      BY <3>1, <3>2 DEF InPool
    <3>3. CASE ready' = Append(ready, r)
      BY <1>1, <3>1, <3>3, PutIn DEF PoolInv
    <3> QED BY <2>1, <3>2, <3>3
  <2>4. Placed'
    BY <1>1, <1>2, <1>4, <2>2, <2>3 DEF PoolInv, Placed, Free, HolderOf
  <2>5. Counts'
    <3>1. Spawning' = Spawning
      BY <2>1, <2>2 DEF Spawning
    <3> QED BY <2>1, <3>1 DEF PoolInv, Counts
  <2>6. PoolBound'
    <3>1. Counted' = Counted \ {r} /\ r \in Counted
      BY <2>1, <2>2 DEF Counted
    <3>2. Cardinality(Counted') = Cardinality(Counted) - 1
      BY <3>1, WarmFinite, FS_RemoveElement
    <3> QED BY <1>0, <1>2, <2>1, <2>3, <3>2, WarmFinite DEF PoolInv, PoolBound
  <2> QED BY <1>3, <2>4, <2>5, <2>6 DEF PoolInv
<1> QED BY <1>5, <1>6

\* The pool is closed, or the actor dies: no runner finds a new place.
LEMMA EndsKeep ==
    ASSUME PoolInv, TInv', Begun', close \/ ActorDies
    PROVE  PoolInv'
<1> USE DEF reqVars, poolVars
<1>1. CASE ActorDies
  <2>1. /\ UNCHANGED <<ready, spawning, warm, raced, holds, proc, paid, thread,
                       channels>>
    BY <1>1 DEF ActorDies
  <2>2. Placed' /\ Counts' /\ PoolBound'
    BY <2>1, PlacesStay DEF PoolInv, Placed
  <2>3. Filled'
    BY <2>1, NobodyGetsIn DEF GoesOn
  <2> QED BY <2>2, <2>3 DEF PoolInv
<1>2. CASE close
  <2>1. /\ UNCHANGED <<spawning, warm, raced, holds, paid, thread, channels>>
        /\ ready' = <<>>
        /\ \A r \in Runners : proc'[r] = proc[r] \/ proc'[r] = "dead"
    BY <1>2 DEF close
  <2>2. Len(ready') = 0 /\ \A x : ~InPool(x)'
    BY <2>1 DEF InPool
  <2>3. Placed'
    <3>1. \A r \in Runners : proc'[r] = "none" => proc[r] = "none"
      BY <2>1
    <3> QED BY <2>1, <2>2, <3>1 DEF PoolInv, Placed, Free, HolderOf
  <2>4. Counts' /\ Counted' = Counted
    BY <2>1 DEF PoolInv, Counts, Spawning, Counted
  <2>5. PoolBound'
    <3>1. Len(ready) \in Nat /\ spawning \in Int /\ Size \in Nat
      BY Bounds, Ids DEF PoolInv, TInv
    <3> QED BY <2>1, <2>2, <2>4, <3>1, WarmFinite DEF PoolInv, PoolBound
  <2>6. Filled'
    BY <2>1, NobodyGetsIn DEF GoesOn
  <2> QED BY <2>3, <2>4, <2>5, <2>6 DEF PoolInv
<1> QED BY <1>1, <1>2

\* A request takes a runner that nobody took before.
LEMMA TakesKeeps ==
    ASSUME PoolInv, TInv', Begun', NEW q \in Requests, Takes(q) \/ SpawnsOne(q)
    PROVE  PoolInv'
<1>0. holds[q] = 0 /\ Len(ready) \in Nat /\ spawning \in Int /\ Size \in Nat
  <2>1. holds[q] = 0
    BY DEF Takes, SpawnsOne, At, PoolInv, Begun
  <2> QED BY <2>1, Bounds, Ids DEF PoolInv, TInv
<1>1. ASSUME NEW r \in Runners, holds' = [holds EXCEPT ![q] = r], Free(r), ~InPool(r)',
             \A x \in Runners : InPool(x)' => InPool(x),
             \A i, j \in 1..Len(ready') : ready'[i] = ready'[j] => i = j,
             Len(ready') <= Len(ready), Len(ready') \in Int,
             warm[r] = "none", proc'[r] # "none", 
             \A x \in Runners : proc'[x] = "none" => proc[x] = "none",
             UNCHANGED <<spawning, warm, raced, channels, paid>>
      PROVE  Placed' /\ Counts' /\ PoolBound'
  <2>1. holds'[q] = r /\ \A p \in Requests \ {q} : holds'[p] = holds[p]
    BY <1>1 DEF PoolInv, TInv
  <2>3. r # 0 /\ 0 \notin Runners
    BY Ids
  <2>4. \A x \in Runners : Free(x)' <=> Free(x) /\ x # r
    BY <1>0, <2>1, <2>3 DEF Free
  <2>5. \A x \in Runners : HolderOf(x) \subseteq HolderOf(x)'
    BY <1>0, <2>1, <2>3 DEF HolderOf
  <2>6. \A p, o \in Requests : holds'[p] = holds'[o] /\ holds'[p] # 0 => p = o
    BY <1>1, <2>1 DEF PoolInv, Placed, Free
  <2>8. \A x \in Runners : paid'[x] \subseteq HolderOf(x)'
    BY <1>1, <2>5 DEF PoolInv, Placed
  <2>9. \A x \in Runners :
          /\ proc'[x] = "none" => warm'[x] = "none" /\ ~InPool(x)' /\ Free(x)'
          /\ warm'[x] # "none" => ~InPool(x)' /\ Free(x)'
          /\ InPool(x)' => Free(x)'
    BY <1>1, <2>4 DEF PoolInv, Placed
  <2>10. Placed'
    BY <1>1, <2>6, <2>8, <2>9 DEF Placed
  <2>11. Counts' /\ Counted' = Counted
    BY <1>1 DEF PoolInv, Counts, Spawning, Counted
  <2>12. PoolBound'
    BY <1>0, <1>1, <2>11, WarmFinite DEF PoolInv, PoolBound
  <2> QED BY <2>10, <2>11, <2>12
<1>2. CASE Takes(q)
  <2>1. /\ ready # <<>> /\ ready' = Tail(ready)
        /\ holds' = [holds EXCEPT ![q] = Head(ready)]
        /\ UNCHANGED <<spawning, warm, raced, channels, paid, proc>>
    BY <1>2 DEF Takes, procVars
  <2>2. /\ \A x : InPool(x)' => InPool(x) /\ x # Head(ready)
        /\ Len(ready') = Len(ready) - 1
        /\ \A i, j \in 1..Len(ready') : ready'[i] = ready'[j] => i = j
        /\ InPool(Head(ready)) /\ Head(ready) \in Runners
    BY <2>1, TakenOut DEF PoolInv, Placed
  <2>3. /\ Free(Head(ready)) /\ warm[Head(ready)] = "none"
        /\ proc[Head(ready)] # "none"
    BY <2>2 DEF PoolInv, Placed
  <2>5. PICK f \in Runners : f = Head(ready)
    BY <2>2
  <2>6. /\ f \in Runners /\ holds' = [holds EXCEPT ![q] = f] /\ Free(f) /\ ~InPool(f)'
        /\ \A x \in Runners : InPool(x)' => InPool(x)
        /\ warm[f] = "none" /\ proc'[f] # "none"
        /\ \A x \in Runners : proc'[x] = "none" => proc[x] = "none"
    BY <2>1, <2>2, <2>3, <2>5
  <2>7. Len(ready') <= Len(ready) /\ Len(ready') \in Int
    BY <1>0, <2>2
  <2>4. Placed' /\ Counts' /\ PoolBound'
    BY <1>1, <2>1, <2>2, <2>6, <2>7
  <2>8. Filled'
    BY <2>1, NobodyGetsIn DEF GoesOn
  <2> QED BY <2>4, <2>8 DEF PoolInv
<1>3. CASE SpawnsOne(q)
  <2>1. /\ holds' = [holds EXCEPT ![q] = Fresh]
        /\ proc' = [proc EXCEPT ![Fresh] = "import"]
        /\ Fresh \in Runners /\ proc[Fresh] = "none"
        /\ UNCHANGED <<ready, spawning, warm, raced, channels, paid>>
    BY <1>3, FreshId DEF SpawnsOne, Launch, poolVars
  <2>9. PICK f \in Runners : f = Fresh
    BY <2>1
  <2>2. /\ holds' = [holds EXCEPT ![q] = f] /\ f \in Runners /\ proc[f] = "none"
        /\ proc' = [proc EXCEPT ![f] = "import"]
    BY <2>1, <2>9
  <2>3. /\ proc'[f] = "import" /\ \A x \in Runners \ {f} : proc'[x] = proc[x]
        /\ Free(f) /\ ~InPool(f) /\ warm[f] = "none"
    BY <2>2 DEF PoolInv, TInv, Placed
  <2>4. \A x : InPool(x)' <=> InPool(x)
    BY <2>1 DEF InPool
  <2>5. \A i, j \in 1..Len(ready) : ready[i] = ready[j] => i = j
    BY DEF PoolInv, Placed
  <2>8. /\ ~InPool(f)' /\ proc'[f] # "none"
        /\ \A x \in Runners : proc'[x] = "none" => proc[x] = "none"
        /\ \A i, j \in 1..Len(ready') : ready'[i] = ready'[j] => i = j
        /\ Len(ready') <= Len(ready) /\ Len(ready') \in Int
    BY <1>0, <2>1, <2>3, <2>4, <2>5
  <2>6. Placed' /\ Counts' /\ PoolBound'
    BY <1>1, <2>1, <2>2, <2>3, <2>4, <2>8
  <2>7. Filled'
    BY <2>1, <2>2, <2>3, NobodyGetsIn DEF GoesOn
  <2> QED BY <2>6, <2>7 DEF PoolInv
<1> QED BY <1>2, <1>3

\* The rest of a request leaves every runner where it was placed.
LEMMA RequestKeeps ==
    ASSUME PoolInv, TInv', Begun', NEW q \in Requests, RequestNext(q)
    PROVE  PoolInv'
<1>1. CASE Takes(q) \/ SpawnsOne(q)
  BY <1>1, TakesKeeps
<1>2. CASE Acquired(q)
  <2>1. refill /\ UNCHANGED <<ready, holds, channels, paid>>
    BY <1>2 DEF Acquired
  <2> QED BY <2>1, refillKeeps
<1>3. CASE ~(Takes(q) \/ SpawnsOne(q) \/ Acquired(q))
  <2>1. UNCHANGED <<ready, spawning, warm, raced, holds, paid, channels>>
    BY <1>3 DEF RequestNext, Starts, SpawnEnds, connection, SendsPayload, run_in_runner,
       before_payload, Torn, Cleanup, interrupt, poolVars, procVars
  <2>2. \/ proc' = proc \/ \E r \in Runners \cup {0} : proc' = [proc EXCEPT ![r] = "dead"]
    BY <1>3 DEF RequestNext, Starts, SpawnEnds, SpawnFails, connection, SendsPayload,
       run_in_runner, before_payload, Torn, Cleanup, interrupt, discard_sandbox,
       poolVars, procVars, PoolInv, TInv
  <2>3. \A r \in Runners : proc'[r] = proc[r] \/ proc'[r] = "dead"
    BY <2>2 DEF PoolInv, TInv
  <2>5. Placed' /\ Counts' /\ PoolBound'
    <3>1. \A r \in Runners : proc'[r] = "none" => proc[r] = "none"
      BY <2>3
    <3>2. \A r \in Runners : paid'[r] \subseteq HolderOf(r)
      BY <2>1 DEF PoolInv, Placed
    <3> QED BY <2>1, <3>1, <3>2, PlacesStay
  <2>6. Filled'
    BY <2>1, <2>3, NobodyGetsIn DEF GoesOn
  <2> QED BY <2>5, <2>6 DEF PoolInv
<1> QED BY <1>1, <1>2, <1>3

\* The pool starts with as many spawns as it has places.
LEMMA PoolInit == Init => PoolInv
<1> SUFFICES ASSUME Init PROVE PoolInv
  OBVIOUS
<1>1. TInv
  BY TypesInit
<1>2. Begun
  BY DEF Init, Begun
<1>3. /\ spawning = Size /\ ready = <<>>
      /\ \A q \in Requests : holds[q] = 0
      /\ \A r \in Runners : paid[r] = {} /\ channels[r] = <<>>
  BY DEF Init
<1>4. Size \in Nat /\ 1..Size \subseteq Runners /\ Runners \subseteq Nat \ {0}
  BY Bounds, Ids
<1>9. \A r \in Runners : \/ r <= Size /\ warm[r] = "spawn" /\ proc[r] = "import"
                         \/ ~(r <= Size) /\ warm[r] = "none" /\ proc[r] = "none"
  <2>1. /\ warm = [r \in Runners |-> IF r <= Size THEN "spawn" ELSE "none"]
        /\ proc = [r \in Runners |-> IF r <= Size THEN "import" ELSE "none"]
    BY DEF Init
  <2> QED BY <1>4, <2>1
<1>5. Counts
  <2>1. \A r \in Runners : warm[r] = "spawn" <=> r \in 1..Size
    BY <1>4, <1>9
  <2>2. Spawning = 1..Size
    BY <1>4, <2>1 DEF Spawning
  <2> QED BY <1>3, <1>4, <2>2, FS_Interval DEF Counts
<1>6. Placed
  <2>1. Len(ready) = 0 /\ \A x : ~InPool(x)
    BY <1>3 DEF InPool
  <2>2. \A r \in Runners : Free(r)
    BY <1>3, <1>4 DEF Free
  <2>3. \A r \in Runners : proc[r] = "none" => warm[r] = "none"
    BY <1>9
  <2> QED BY <1>3, <2>1, <2>2, <2>3 DEF Placed
<1>7. Filled
  <2>1. \A r \in Runners : Len(channels[r]) = 0 /\ proc[r] \in {"import", "none"}
    BY <1>3, <1>9
  <2> QED BY <1>3, <2>1, Bounds DEF Filled
<1>8. PoolBound
  <2>1. Counted = {}
    BY <1>9 DEF Counted
  <2> QED BY <1>3, <1>4, <2>1, FS_EmptySet DEF PoolBound
<1> QED BY <1>1, <1>2, <1>5, <1>6, <1>7, <1>8 DEF PoolInv

\* Every step keeps the pool's invariant.
LEMMA PoolNext == PoolInv /\ [Next]_vars => PoolInv'
<1> SUFFICES ASSUME PoolInv, [Next]_vars PROVE PoolInv'
  OBVIOUS
<1>1. TInv' /\ Begun'
  BY TypesNext, BegunKeeps DEF PoolInv
<1>2. CASE UNCHANGED vars
  <2>1. UNCHANGED <<ready, spawning, warm, raced, holds, proc, paid, channels>>
    BY <1>2 DEF vars, poolVars, procVars, reqVars
  <2>2. Placed' /\ Counts' /\ PoolBound'
    BY <2>1, PlacesStay DEF PoolInv, Placed
  <2>3. Filled'
    BY <2>1, NobodyGetsIn DEF GoesOn
  <2> QED BY <1>1, <2>2, <2>3 DEF PoolInv
<1>3. ASSUME NEW r \in Runners, RunnerNext(r) PROVE PoolInv'
  BY <1>1, <1>3, ProcKeeps, WarmKeeps DEF RunnerNext
<1> QED BY <1>1, <1>2, <1>3, RequestKeeps, EndsKeep DEF Next

\* The types of the variables; the pool's count of spawns under way is a number
\* of processes (Pool._spawning of sandbox/host.py).
THEOREM PoolTyped == Spec => []TypeOK
<1>1. PoolInv => TypeOK
  <2> SUFFICES ASSUME PoolInv PROVE TypeOK
    OBVIOUS
  <2>1. \A r \in Runners : /\ Range(backlog[r]) \subseteq Hosts \cup {Probe}
                          /\ Range(channels[r]) \subseteq Hosts \cup {Probe}
                          /\ Len(channels[r]) <= Peers
    BY DEF PoolInv, TInv, Range, Filled
  <2>2. spawning \in 0..Cardinality(Runners)
    <3>1. Spawning \subseteq Runners
      BY DEF Spawning
    <3>2. Cardinality(Spawning) <= Cardinality(Runners) /\ Cardinality(Runners) \in Nat
      BY <3>1, Ids, FS_Subset, FS_CardinalityType
    <3> QED BY <3>2, WarmFinite DEF PoolInv, Counts
  <2> QED BY <2>1, <2>2 DEF PoolInv, TInv, TypeOK
<1> QED BY <1>1, PoolInit, PoolNext, PTL DEF Spec

\* The pool holds no more runners, ready or on their way, than its size
\* (Pool._refill and _warm), unless a refill came between a thread's count and
\* its put.
THEOREM PoolKeepsItsSize == Spec => []PoolBound
<1>1. PoolInv => PoolBound
  BY DEF PoolInv
<1> QED BY <1>1, PoolInit, PoolNext, PTL DEF Spec

-----------------------------------------------------------------------------
(* Which runner the actor would stop *)

DeadStay == \A r \in Runners : proc[r] = "dead" => proc'[r] = "dead"

\* A process that is dead stays so: ids are not used again.
LEMMA DeadStayDead == PoolInv /\ [Next]_vars => DeadStay
<1> SUFFICES ASSUME PoolInv, [Next]_vars PROVE DeadStay
  OBVIOUS
<1>1. ASSUME proc' = proc \/ \E r \in Runners \cup {0} : proc' = [proc EXCEPT ![r] = "dead"]
      PROVE  DeadStay
  BY <1>1 DEF DeadStay, PoolInv, TInv
<1>2. ASSUME NEW r \in Runners, proc[r] # "dead",
             proc' = proc \/ \E w : proc' = [proc EXCEPT ![r] = w]
      PROVE  DeadStay
  BY <1>2 DEF DeadStay, PoolInv, TInv
<1>3. CASE UNCHANGED vars
  BY <1>1, <1>3 DEF vars, procVars
<1>4. ASSUME NEW r \in Runners, RunnerNext(r) PROVE DeadStay
  <2>1. CASE handle(r) \/ ProbeConnects(r) \/ ProbeCloses(r) \/ Watch(r)
    BY <1>1, <2>1 DEF handle, ProbeConnects, ProbeCloses, Watch
  <2>2. CASE die_with_parent(r) \/ Runner_init(r) \/ Exchanged(r)
    BY <1>2, <2>2 DEF die_with_parent, Runner_init, Exchanged
  <2>3. CASE serve(r)
    BY <1>2, <2>3 DEF serve
  <2>4. CASE WarmCounts(r) \/ WarmPuts(r)
    BY <1>1, <2>4 DEF WarmCounts, WarmPuts, SpawnFails
  <2> QED BY <1>4, <2>1, <2>2, <2>3, <2>4 DEF RunnerNext
<1>5. ASSUME NEW q \in Requests, RequestNext(q) PROVE DeadStay
  <2>1. CASE SpawnsOne(q)
    <3>1. PICK r \in Runners : proc[r] # "dead" /\ proc' = [proc EXCEPT ![r] = "import"]
      BY <2>1, FreshId DEF SpawnsOne, Launch
    <3> QED BY <1>2, <3>1
  <2>2. CASE Acquired(q)
    <3>1. refill
      BY <2>2 DEF Acquired
    <3>2. CASE proc' = proc
      BY <1>1, <3>2
    <3>3. CASE proc' # proc
      <4>1. PICK r \in Runners : proc[r] # "dead" /\ proc' = [proc EXCEPT ![r] = "import"]
        BY <3>1, <3>3, FreshId DEF refill, Launch
      <4> QED BY <1>2, <4>1
    <3> QED BY <3>2, <3>3
  <2>3. CASE ~(SpawnsOne(q) \/ Acquired(q))
    <3>1. holds[q] \in Runners \cup {0} /\ sandbox \in Runners \cup {0}
      BY DEF PoolInv, TInv
    <3>2. proc' = proc \/ \E r \in Runners \cup {0} : proc' = [proc EXCEPT ![r] = "dead"]
      BY <1>5, <2>3, <3>1 DEF RequestNext, Starts, Takes, SpawnEnds, SpawnFails,
         connection, SendsPayload, run_in_runner, before_payload, Torn, Cleanup,
         interrupt, discard_sandbox, procVars
    <3> QED BY <1>1, <3>2
  <2> QED BY <2>1, <2>2, <2>3
<1>6. CASE close \/ ActorDies
  BY <1>6 DEF DeadStay, close, ActorDies
<1> QED BY <1>3, <1>4, <1>5, <1>6 DEF Next

\* One run at a time waits.
LEMMA OneWaits ==
    ASSUME Turns, NEW p \in Requests, NEW q \in Requests,
           run[p] = "wait", run[q] = "wait"
    PROVE  p = q
<1>1. p < q \/ q < p \/ p = q
  BY Ids
<1> QED BY <1>1 DEF Turns

\* What the invariant says of one request.
Owns(q) ==
    /\ thread[q] \in {"spawn", "taken", "connect", "shards", "pump"} => holds[q] # 0
    /\ run[q] = "wait" /\ thread[q] \in {"connect", "shards", "pump"} =>
          sandbox = holds[q]
    /\ run[q] = "wait" /\ thread[q] = "done" /\ holds[q] # 0 =>
          sandbox = holds[q] \/ proc[holds[q]] = "dead"
    /\ run[q] = "over" /\ holds[q] # 0 => proc[holds[q]] = "dead"

\* A request moves; only the one that waits names the runner to stop.
LEMMA RequestMoves ==
    ASSUME PoolInv, StopInv, DeadStay, NEW q \in Requests,
           \A p \in Requests \ {q} : /\ run'[p] = run[p] /\ thread'[p] = thread[p]
                                    /\ holds'[p] = holds[p],
           thread'[q] # "none", run'[q] # "new",
           run[q] # "new" \/ \A p \in Requests : p < q => run[p] = "over" /\ p # q,
           run[q] = "over" => run'[q] = "over",
           thread'[q] \in {"acquire", "spawn", "taken"} => run'[q] = "wait",
           sandbox' = sandbox \/ run[q] = "wait",
           Owns(q)'
    PROVE  StopInv'
<1>1. ASSUME NEW p \in Requests
      PROVE  /\ thread'[p] = "none" => run'[p] = "new"
             /\ run'[p] # "new" => \A o \in Requests : o < p => run'[o] = "over"
             /\ thread'[p] \in {"acquire", "spawn", "taken"} => run'[p] = "wait"
  <2>1. CASE p = q
    <3>1. \A o \in Requests : o < q => run[o] = "over" /\ (o = q => run'[q] = "over")
      BY DEF StopInv, Turns
    <3> QED BY <2>1, <3>1
  <2>2. CASE p # q
    BY <2>2 DEF StopInv, Turns
  <2> QED BY <2>1, <2>2
<1>2. ASSUME NEW p \in Requests PROVE Owns(p)'
  <2>1. CASE p # q
    <3>1. Owns(p)
      BY DEF StopInv, Sandboxed, Owns
    <3>2. run[p] = "wait" => sandbox' = sandbox
      BY <2>1, OneWaits DEF StopInv
    <3>3. holds[p] \in Runners \cup {0}
      BY DEF PoolInv, TInv
    <3> QED BY <2>1, <3>1, <3>2, <3>3 DEF Owns, DeadStay
  <2> QED BY <2>1
<1> QED BY <1>1, <1>2 DEF StopInv, Turns, Sandboxed, Owns

\* When no request moves, what it holds is as dead as before.
LEMMA NoRequestMoves ==
    ASSUME PoolInv, StopInv, DeadStay, UNCHANGED <<run, thread, holds, sandbox>>
    PROVE  StopInv'
<1>1. Turns'
  BY DEF StopInv, Turns
<1>2. \A q \in Requests : holds[q] \in Runners \cup {0}
  BY DEF PoolInv, TInv
<1>3. Sandboxed'
  BY <1>2 DEF StopInv, Sandboxed, DeadStay
<1> QED BY <1>1, <1>3 DEF StopInv

\* What each step of a request means for its runner.
LEMMA RequestOwns ==
    ASSUME PoolInv, PoolInv', StopInv, DeadStay, EarlyStops = FALSE,
           NEW q \in Requests, RequestNext(q)
    PROVE  StopInv'
<1> USE DEF reqVars, Goes, At
<1>0. /\ TInv /\ Begun /\ Owns(q) /\ holds[q] \in Runners \cup {0}
      /\ thread[q] = "none" => run[q] = "new"
      /\ thread[q] \in {"acquire", "spawn", "taken"} => run[q] = "wait"
  BY DEF PoolInv, TInv, StopInv, Turns, Sandboxed, Owns
<1>1. \A p \in Requests \ {q} : /\ run'[p] = run[p] /\ thread'[p] = thread[p]
                               /\ holds'[p] = holds[p]
  <2>1. \/ run' = run \/ \E w : run' = [run EXCEPT ![q] = w]
    BY DEF RequestNext, Starts, Takes, SpawnsOne, SpawnEnds, Acquired, connection,
       before_payload, SendsPayload, run_in_runner, Torn, Cleanup, interrupt
  <2>2. \/ thread' = thread \/ \E w : thread' = [thread EXCEPT ![q] = w]
    BY DEF RequestNext, Starts, Takes, SpawnsOne, SpawnEnds, Acquired, connection,
       before_payload, SendsPayload, run_in_runner, Torn, Cleanup, interrupt
  <2>3. \/ holds' = holds \/ \E w : holds' = [holds EXCEPT ![q] = w]
    BY DEF RequestNext, Starts, Takes, SpawnsOne, SpawnEnds, Acquired, connection,
       before_payload, SendsPayload, run_in_runner, Torn, Cleanup, interrupt
  <2> QED BY <1>0, <2>1, <2>2, <2>3 DEF TInv
<1>2. CASE Starts(q)
  <2>1. /\ thread'[q] = "acquire" /\ run'[q] = "wait" /\ run[q] = "new"
        /\ UNCHANGED <<holds, sandbox>>
        /\ \A p \in Requests : p < q => run[p] = "over" /\ p # q
    BY <1>0, <1>2 DEF Starts, TInv
  <2>2. Owns(q)'
    BY <2>1 DEF Owns
  <2> QED BY <1>1, <2>1, <2>2, RequestMoves
<1>3. CASE Takes(q) \/ SpawnsOne(q)
  <2>1. /\ thread'[q] \in {"taken", "spawn"} /\ run'[q] = "wait" /\ run[q] = "wait"
        /\ sandbox' = sandbox
    BY <1>0, <1>3 DEF Takes, SpawnsOne, TInv
  <2>2. holds'[q] # 0
    <3>1. Takes(q) => Head(ready) \in Runners
      BY <1>0, QueueTypes DEF Takes, TInv
    <3> QED BY <1>0, <1>3, <3>1, FreshId, Ids DEF Takes, SpawnsOne, TInv
  <2>3. Owns(q)'
    BY <2>1, <2>2 DEF Owns
  <2> QED BY <1>1, <2>1, <2>3, RequestMoves
<1>4. CASE SpawnEnds(q)
  <2>1. thread[q] = "spawn" /\ run[q] = "wait" /\ holds[q] \in Runners
    BY <1>0, <1>4 DEF SpawnEnds, Owns
  <2>2. UNCHANGED <<run, holds, sandbox>>
    BY <1>4 DEF SpawnEnds
  <2>3. thread'[q] = "taken" \/ (thread'[q] = "done" /\ proc'[holds[q]] = "dead")
    <3>1. \/ thread' = [thread EXCEPT ![q] = "taken"]
          \/ /\ thread' = [thread EXCEPT ![q] = "done"]
             /\ proc' = [proc EXCEPT ![holds[q]] = "dead"]
      BY <1>4 DEF SpawnEnds, SpawnFails
    <3>2. /\ [thread EXCEPT ![q] = "taken"][q] = "taken"
          /\ [thread EXCEPT ![q] = "done"][q] = "done"
          /\ [proc EXCEPT ![holds[q]] = "dead"][holds[q]] = "dead"
      BY <2>1 DEF PoolInv, TInv
    <3> QED BY <3>1, <3>2
  <2>4. Owns(q)'
    BY <2>1, <2>2, <2>3, Ids DEF Owns
  <2>5. run'[q] = "wait" /\ thread'[q] \in {"taken", "done"}
    BY <2>1, <2>2, <2>3
  <2> QED BY <1>1, <2>1, <2>2, <2>4, <2>5, RequestMoves
<1>5. CASE Acquired(q)
  <2>1. /\ run[q] = "wait" /\ UNCHANGED <<run, holds>> /\ holds[q] # 0
        /\ sandbox' = holds[q] /\ thread'[q] = "connect"
    BY <1>0, <1>5 DEF Acquired, TInv, Owns
  <2>2. Owns(q)'
    BY <2>1 DEF Owns
  <2> QED BY <1>1, <2>1, <2>2, RequestMoves
<1>6. CASE \/ connection(q) \/ SendsPayload(q) \/ run_in_runner(q)
           \/ \E h \in Hosts : before_payload(q, h)
  <2>1. /\ thread[q] \in {"connect", "shards", "pump"}
        /\ UNCHANGED <<run, holds, sandbox>>
        /\ thread'[q] \in {"shards", "pump", "done"}
    BY <1>0, <1>6 DEF connection, SendsPayload, run_in_runner, before_payload, TInv
  <2>2. run[q] # "new"
    BY <1>0, <2>1 DEF Begun
  <2>3. Owns(q)'
    BY <1>0, <2>1 DEF Owns, DeadStay
  <2> QED BY <1>1, <2>1, <2>2, <2>3, RequestMoves
<1>7. CASE Torn(q)
  <2>1. run[q] = "over" /\ UNCHANGED <<run, holds, sandbox>> /\ thread'[q] = "done"
    BY <1>0, <1>7 DEF Torn, Begun, TInv
  <2>2. Owns(q)'
    BY <1>0, <2>1 DEF Owns, DeadStay
  <2> QED BY <1>1, <2>1, <2>2, RequestMoves
<1>8. CASE Cleanup(q) \/ interrupt(q)
  <2>1. /\ run[q] = "wait" /\ run'[q] = "over" /\ UNCHANGED <<thread, holds>>
        /\ thread[q] \in {"connect", "shards", "pump", "done"}
        /\ discard_sandbox
    BY <1>0, <1>8 DEF Cleanup, interrupt, TInv
  <2>2. holds[q] # 0 => proc'[holds[q]] = "dead"
    BY <1>0, <2>1 DEF Owns, discard_sandbox, TInv, DeadStay
  <2>3. Owns(q)'
    BY <1>0, <2>1, <2>2 DEF Owns
  <2> QED BY <1>1, <2>1, <2>3, RequestMoves
<1> QED
  BY <1>2, <1>3, <1>4, <1>5, <1>6, <1>7, <1>8 DEF RequestNext

\* Every step keeps what is said of the runner the actor would stop.
LEMMA StopNext ==
    ASSUME EarlyStops = FALSE, PoolInv, StopInv, [Next]_vars
    PROVE  StopInv'
<1>1. PoolInv' /\ DeadStay
  BY PoolNext, DeadStayDead
<1>2. CASE UNCHANGED vars
  BY <1>1, <1>2, NoRequestMoves DEF vars, reqVars
<1>3. CASE close \/ ActorDies \/ \E r \in Runners : RunnerNext(r)
  <2>1. UNCHANGED <<run, thread, holds, sandbox>>
    BY <1>3 DEF close, ActorDies, RunnerNext, die_with_parent, Watch, Runner_init, serve,
       handle, Exchanged, ProbeConnects, ProbeCloses, WarmCounts, WarmPuts, reqVars
  <2> QED BY <1>1, <2>1, NoRequestMoves
<1> QED BY <1>1, <1>2, <1>3, RequestOwns DEF Next

\* At first no run has a runner.
LEMMA StopInit == Init => StopInv
BY DEF Init, StopInv, Turns, Sandboxed

\* No runner is shared, and none that is in the pool was used.
LEMMA RunnersAreOwn == PoolInv => OneRequestPerRunner
<1> SUFFICES ASSUME PoolInv, NEW r \in Runners
             PROVE  /\ Cardinality(HolderOf(r)) <= 1
                    /\ r \in Range(ready) => HolderOf(r) = {} /\ paid[r] = {}
  BY DEF OneRequestPerRunner
<1>1. CASE HolderOf(r) = {}
  <2>1. paid[r] = {}
    BY <1>1 DEF PoolInv, Placed
  <2> QED BY <1>1, <2>1, FS_EmptySet
<1>2. CASE HolderOf(r) # {}
  <2>1. PICK q \in Requests : holds[q] = r
    BY <1>2 DEF HolderOf
  <2>2. r # 0
    BY Ids
  <2>3. HolderOf(r) = {q}
    BY <2>1, <2>2 DEF HolderOf, PoolInv, Placed
  <2>4. r \notin Range(ready)
    <3>1. ~InPool(r)
      BY <2>1 DEF PoolInv, Placed, Free
    <3>2. DOMAIN ready = 1..Len(ready)
      BY DEF PoolInv, TInv
    <3> QED BY <3>1, <3>2 DEF Range, InPool
  <2>5. Cardinality({q}) = 1
    BY FS_Singleton
  <2>6. Cardinality(HolderOf(r)) = 1
    BY <2>3, <2>5
  <2> QED BY <2>4, <2>6
<1> QED BY <1>1, <1>2

\* Where the actor cannot be told to stop a runner before its thread has one,
\* the runner of a request that is over is stopped.
LEMMA RunnersGo == PoolInv /\ StopInv => RunnerGoesWithItsRequest
BY DEF PoolInv, TInv, StopInv, Sandboxed, RunnerGoesWithItsRequest, Alive

-----------------------------------------------------------------------------
(* Who stands in line *)

\* Rank 0 is a host, and the probe is none.
LEMMA Ranks == 1 \in Hosts /\ Probe \notin Hosts
BY Bounds DEF Hosts, Probe

\* One more in a queue comes last.
LEMMA Joined ==
    ASSUME NEW S, NEW s \in Seq(S), NEW e \in S
    PROVE  /\ \A x : Among(Append(s, e), x) <=> Among(s, x) \/ x = e
           /\ Append(s, e) # <<>>
           /\ s # <<>> => Append(s, e)[1] = s[1]
           /\ s = <<>> => Append(s, e)[1] = e
           /\ Once(s) /\ (e = Probe \/ ~Among(s, e)) => Once(Append(s, e))
           /\ Leads(s) /\ (e \in {Probe, 1} \/ Among(s, 1)) => Leads(Append(s, e))
<1> DEFINE t == Append(s, e)
<1>1. /\ Len(t) = Len(s) + 1 /\ Len(s) \in Nat
      /\ \A i \in 1..Len(s) : t[i] = s[i]
      /\ t[Len(s) + 1] = e
      /\ s # <<>> => Len(s) > 0
      /\ s = <<>> => Len(s) = 0
  OBVIOUS
<1> HIDE DEF t
<1>2. \A x : Among(t, x) <=> Among(s, x) \/ x = e
  BY <1>1 DEF Among
<1>3. t # <<>>
  <2>1. Len(<<>>) = 0
    OBVIOUS
  <2> QED BY <1>1, <2>1
<1>4. (s # <<>> => t[1] = s[1]) /\ (s = <<>> => t[1] = e)
  BY <1>1
<1>5. Once(s) /\ (e = Probe \/ ~Among(s, e)) => Once(t)
  BY <1>1 DEF Once, Among
<1>6. ASSUME Leads(s), e \in {Probe, 1} \/ Among(s, 1) PROVE Leads(t)
  <2>1. SUFFICES ASSUME NEW i \in 1..Len(t)
                 PROVE  t[i] \in {Probe, 1} \/ \E j \in 1..(i - 1) : t[j] = 1
    BY DEF Leads
  <2>2. CASE i \in 1..Len(s)
    <3>1. \A j \in 1..(i - 1) : t[j] = s[j]
      BY <1>1, <2>2
    <3> QED BY <1>1, <1>6, <2>2, <3>1 DEF Leads
  <2>3. CASE i = Len(s) + 1
    BY <1>1, <1>6, <2>3 DEF Among
  <2> QED BY <1>1, <2>2, <2>3
<1> QED BY <1>2, <1>3, <1>4, <1>5, <1>6 DEF t

\* The head of a queue leaves it.
LEMMA Left ==
    ASSUME NEW S, NEW s \in Seq(S), s # <<>>
    PROVE  /\ \A x : Among(s, x) <=> Among(Tail(s), x) \/ x = Head(s)
           /\ Once(s) => Once(Tail(s)) /\ (Head(s) # Probe => ~Among(Tail(s), Head(s)))
           /\ Leads(s) => Head(s) \in {Probe, 1}
           /\ Leads(s) /\ Head(s) # 1 => Leads(Tail(s))
<1> DEFINE t == Tail(s)
<1>1. /\ Len(t) = Len(s) - 1 /\ Len(s) \in Nat \ {0}
      /\ \A i \in 1..Len(t) : t[i] = s[i + 1]
      /\ Head(s) = s[1]
  OBVIOUS
<1> HIDE DEF t
<1>2. \A i \in 1..Len(s) : i = 1 \/ (i - 1 \in 1..Len(t) /\ t[i - 1] = s[i])
  BY <1>1
<1>3. ASSUME NEW x PROVE Among(s, x) <=> Among(t, x) \/ x = Head(s)
  <2>1. Among(s, x) => Among(t, x) \/ x = Head(s)
    BY <1>1, <1>2 DEF Among
  <2>2. Among(t, x) \/ x = Head(s) => Among(s, x)
    BY <1>1 DEF Among
  <2> QED BY <2>1, <2>2
<1>4. Once(s) => Once(t) /\ (Head(s) # Probe => ~Among(t, Head(s)))
  BY <1>1 DEF Once, Among
<1>5. Leads(s) => Head(s) \in {Probe, 1}
  BY <1>1 DEF Leads
<1>6. ASSUME Leads(s), Head(s) # 1 PROVE Leads(t)
  <2>1. SUFFICES ASSUME NEW i \in 1..Len(t)
                 PROVE  t[i] \in {Probe, 1} \/ \E j \in 1..(i - 1) : t[j] = 1
    BY DEF Leads
  <2>2. i + 1 \in 1..Len(s) /\ t[i] = s[i + 1]
    BY <1>1
  <2>3. ASSUME NEW j \in 1..((i + 1) - 1), s[j] = 1
        PROVE  j - 1 \in 1..(i - 1) /\ t[j - 1] = 1
    BY <1>1, <1>2, <1>6, <2>2, <2>3
  <2> QED BY <1>6, <2>2, <2>3 DEF Leads
<1> QED BY <1>3, <1>4, <1>5, <1>6 DEF t

\* A request whose connections do not change keeps its place in the exchange.
LEMMA ConnsStay ==
    ASSUME NEW q \in Requests, Conns(q), conn'[q] = conn[q], actor' = actor,
           \/ thread'[q] = thread[q] \/ thread'[q] = "done"
           \/ thread[q] \in Unconnected /\ thread'[q] \in Unconnected
    PROVE  Conns(q)'
<1>1. thread'[q] \in Unconnected => thread[q] \in Unconnected
  BY DEF Unconnected
<1>2. thread'[q] \in {"shards", "pump"} => thread'[q] = thread[q]
  BY DEF Unconnected
<1> QED BY <1>1, <1>2 DEF Conns, Hung

\* Where every connection is closed, what was connected stays so.
LEMMA ConnsClose ==
    ASSUME NEW q \in Requests, Conns(q),
           \A h \in Hosts : conn'[q][h] = IF conn[q][h] = "none" THEN "none" ELSE "shut",
           \/ thread'[q] = "done"
           \/ thread'[q] = thread[q] /\ actor' = "gone"
    PROVE  Conns(q)'
<1>1. "gone" # "up" /\ "done" \notin Unconnected \cup {"shards", "pump"}
  BY DEF Unconnected
<1> QED BY <1>1, Ranks DEF Conns, Hung

\* The connections of one request.
LEMMA ConnsRequest ==
    ASSUME PoolInv, NEW q \in Requests, Conns(q), RequestNext(q)
    PROVE  Conns(q)'
<1> USE DEF reqVars, Goes, At
<1>0. TInv
  BY DEF PoolInv
<1>1. CASE Starts(q) \/ Takes(q) \/ SpawnsOne(q) \/ SpawnEnds(q) \/ Acquired(q)
  <2>1. /\ conn' = conn /\ actor' = actor
        /\ \E w \in {"acquire", "taken", "spawn", "connect", "done"} :
              thread' = [thread EXCEPT ![q] = w]
    BY <1>1 DEF Starts, Takes, SpawnsOne, SpawnEnds, Acquired
  <2>2. thread'[q] \in {"acquire", "taken", "spawn", "connect", "done"}
    BY <1>0, <2>1 DEF TInv
  <2>3. thread[q] \in Unconnected
    BY <1>1 DEF Starts, Takes, SpawnsOne, SpawnEnds, Acquired, Unconnected, PoolInv, Begun
  <2>4. thread'[q] = "done" \/ thread'[q] \in Unconnected
    BY <2>2 DEF Unconnected
  <2> QED BY <2>1, <2>3, <2>4, ConnsStay
<1>2. CASE connection(q)
  <2>1. /\ thread[q] = "connect" /\ thread' = [thread EXCEPT ![q] = "shards"]
        /\ conn' = [conn EXCEPT ![q][1] = "open"]
    BY <1>2 DEF connection, Connects
  <2>2. \A h \in Hosts : conn[q][h] = "none"
    BY <2>1 DEF Conns, Unconnected
  <2>3. /\ thread'[q] = "shards" /\ conn'[q][1] = "open"
        /\ \A h \in Hosts : conn'[q][h] \in {"open", "none"}
    BY <1>0, <2>1, <2>2, Ranks DEF TInv
  <2>4. ~\E h \in Hosts : conn'[q][h] = "shut"
    BY <2>3
  <2> QED BY <2>3, <2>4 DEF Conns, Unconnected
<1>3. ASSUME NEW h \in Hosts, before_payload(q, h) PROVE Conns(q)'
  <2>1. /\ actor = "up" /\ thread[q] = "shards" /\ thread' = thread
        /\ conn[q][h] = "none" /\ conn' = [conn EXCEPT ![q][h] = "open"]
    BY <1>3 DEF before_payload, Connects
  <2>2. ~\E c \in Hosts : conn[q][c] = "shut"
    BY <2>1 DEF Conns
  <2>3. \A c \in Hosts : conn'[q][c] = IF c = h THEN "open" ELSE conn[q][c]
    BY <1>0, <2>1 DEF TInv
  <2>4. conn'[q][1] # "none" /\ ~\E c \in Hosts : conn'[q][c] = "shut"
    BY <2>1, <2>2, <2>3, Ranks DEF Conns
  <2> QED BY <2>1, <2>4 DEF Conns, Unconnected
<1>4. CASE SendsPayload(q)
  <2>1. /\ \A h \in Hosts : conn[q][h] = "open"
        /\ conn' = [conn EXCEPT ![q][1] = "sent"]
        /\ thread' = [thread EXCEPT ![q] = "pump"]
    BY <1>4 DEF SendsPayload
  <2>2. /\ thread'[q] = "pump"
        /\ \A h \in Hosts : conn'[q][h] \in {"open", "sent"}
    BY <1>0, <2>1 DEF TInv
  <2>3. conn'[q][1] # "none" /\ ~\E h \in Hosts : conn'[q][h] = "shut"
    BY <2>2, Ranks
  <2> QED BY <2>2, <2>3 DEF Conns, Unconnected
<1>5. CASE run_in_runner(q) \/ Torn(q)
  <2>1. Shut(q) /\ thread' = [thread EXCEPT ![q] = "done"]
    BY <1>5 DEF run_in_runner, Torn
  <2>2. thread'[q] = "done"
    BY <1>0, <2>1 DEF TInv
  <2> QED BY <1>0, <2>1, <2>2, ShutTyped, ConnsClose
<1>6. CASE Cleanup(q) \/ interrupt(q)
  <2>1. UNCHANGED <<conn, thread, actor>>
    BY <1>6 DEF Cleanup, interrupt
  <2> QED BY <2>1, ConnsStay
<1> QED BY <1>1, <1>2, <1>3, <1>4, <1>5, <1>6 DEF RequestNext

\* A step of one request leaves the others alone.
LEMMA OthersStay ==
    ASSUME TInv, NEW q \in Requests, RequestNext(q), NEW p \in Requests \ {q}
    PROVE  /\ conn'[p] = conn[p] /\ thread'[p] = thread[p] /\ holds'[p] = holds[p]
           /\ actor' = actor
<1> USE DEF reqVars, Goes, At
<1>1. actor' = actor
  BY DEF RequestNext, Starts, Takes, SpawnsOne, SpawnEnds, Acquired, connection,
     before_payload, SendsPayload, run_in_runner, Torn, Cleanup, interrupt
<1>2. \/ thread' = thread \/ \E w : thread' = [thread EXCEPT ![q] = w]
  BY DEF RequestNext, Starts, Takes, SpawnsOne, SpawnEnds, Acquired, connection,
     before_payload, SendsPayload, run_in_runner, Torn, Cleanup, interrupt
<1>3. \/ holds' = holds \/ \E w : holds' = [holds EXCEPT ![q] = w]
  BY DEF RequestNext, Starts, Takes, SpawnsOne, SpawnEnds, Acquired, connection,
     before_payload, SendsPayload, run_in_runner, Torn, Cleanup, interrupt
<1>4. \/ conn' = conn \/ \E w : conn' = [conn EXCEPT ![q] = w]
  BY DEF RequestNext, Starts, Takes, SpawnsOne, SpawnEnds, Acquired, connection,
     before_payload, SendsPayload, run_in_runner, Torn, Cleanup, interrupt, Connects,
     Shut
<1> QED BY <1>1, <1>2, <1>3, <1>4 DEF TInv

\* When every place of the group is taken, every host has one.
LEMMA EveryoneIsIn ==
    ASSUME PoolInv, NEW r \in Runners, Line(r), proc[r] = "handle"
    PROVE  /\ \A h \in Hosts : Among(channels[r], h) /\ h \in Range(channels[r])
           /\ channels[r] # <<>> /\ channels[r][1] = 1
<1> DEFINE s == channels[r]
<1>1. s \in Seq(Hosts \cup {Probe}) /\ Len(s) = Peers /\ Hosts = 1..Peers /\ Peers > 0
  BY Bounds DEF PoolInv, TInv, Filled, Hosts
<1>2. ~Among(s, Probe) /\ Once(s) /\ (s # <<>> => s[1] = 1)
  BY DEF Line
<1> HIDE DEF s
<1>3. s # <<>>
  <2>1. Len(<<>>) = 0
    OBVIOUS
  <2> QED BY <1>1, <2>1
<1>4. /\ s = [i \in 1..Len(s) |-> s[i]] /\ DOMAIN s = Hosts
      /\ \A i \in Hosts : s[i] \in Hosts
  <2>1. \A i \in 1..Len(s) : s[i] \in Hosts \cup {Probe} /\ s[i] # Probe
    BY <1>1, <1>2 DEF Among
  <2>2. DOMAIN s = 1..Len(s) /\ s = [i \in 1..Len(s) |-> s[i]]
    BY <1>1
  <2> QED BY <1>1, <2>1, <2>2
<1>5. s \in Injection(Hosts, Hosts)
  <2>1. s \in [Hosts -> Hosts]
    BY <1>1, <1>4
  <2>2. \A a, b \in Hosts : s[a] = s[b] => a = b
    BY <1>1, <1>2, <1>4, Ranks DEF Once
  <2> QED BY <1>4, <2>1, <2>2 DEF Injection, IsInjective
<1>6. IsFiniteSet(Hosts)
  BY <1>1, FS_Interval
<1>7. s \in Surjection(Hosts, Hosts)
  BY <1>5, <1>6, FS_Injection
<1>8. \A h \in Hosts : \E i \in Hosts : s[i] = h
  BY <1>7 DEF Surjection
<1>9. \A h \in Hosts : Among(s, h) /\ h \in Range(s)
  BY <1>1, <1>4, <1>8 DEF Among, Range
<1> QED BY <1>2, <1>3, <1>9 DEF s

\* The connections of every request, whatever the step.
LEMMA ConnsNext ==
    ASSUME PoolInv, LineInv, [Next]_vars
    PROVE  \A q \in Requests : Conns(q)'
<1> SUFFICES ASSUME NEW q \in Requests PROVE Conns(q)'
  OBVIOUS
<1>0. TInv /\ Conns(q)
  BY DEF PoolInv, LineInv
<1>1. CASE UNCHANGED vars
  BY <1>0, <1>1, ConnsStay DEF vars, reqVars
<1>2. ASSUME NEW p \in Requests, RequestNext(p) PROVE Conns(q)'
  <2>1. CASE p = q
    BY <1>0, <1>2, <2>1, ConnsRequest
  <2>2. CASE p # q
    <3>1. conn'[q] = conn[q] /\ thread'[q] = thread[q] /\ actor' = actor
      BY <1>0, <1>2, <2>2, OthersStay
    <3> QED BY <1>0, <3>1, ConnsStay
  <2> QED BY <2>1, <2>2
<1>3. CASE ActorDies
  <2>1. /\ actor' = "gone" /\ thread' = thread
        /\ conn' = [p \in Requests |-> [h \in Hosts |->
                       IF conn[p][h] = "none" THEN "none" ELSE "shut"]]
    BY <1>3 DEF ActorDies
  <2>2. \A h \in Hosts : conn'[q][h] = IF conn[q][h] = "none" THEN "none" ELSE "shut"
    BY <2>1
  <2> QED BY <1>0, <2>1, <2>2, ConnsClose
<1>4. ASSUME NEW r \in Runners, Exchanged(r) PROVE Conns(q)'
  <2>1. /\ proc[r] = "handle" /\ thread' = thread /\ actor' = actor
        /\ conn' = [p \in Requests |->
                      IF holds[p] # r THEN conn[p]
                      ELSE [h \in Hosts |-> IF h \in Range(channels[r]) THEN "shut"
                                            ELSE conn[p][h]]]
    BY <1>4 DEF Exchanged
  <2>2. CASE holds[q] # r
    <3>1. conn'[q] = conn[q]
      BY <2>1, <2>2
    <3> QED BY <1>0, <2>1, <3>1, ConnsStay
  <2>3. CASE holds[q] = r
    <3>1. Line(r)
      BY DEF LineInv
    <3>2. \A h \in Hosts : Among(channels[r], h) /\ h \in Range(channels[r])
      BY <2>1, <3>1, EveryoneIsIn
    <3>3. \A h \in Hosts : conn'[q][h] = "shut"
      BY <2>1, <2>3, <3>2
    <3>4. PICK p \in Requests : holds[p] = r /\ conn[p][1] # "none"
      BY <3>1, <3>2, Ranks DEF Line
    <3>5. p = q
      BY <2>3, <3>4, Ids DEF PoolInv, Placed
    <3>6. thread[q] \notin Unconnected
      BY <1>0, <3>4, <3>5, Ranks DEF Conns
    <3> QED BY <2>1, <3>3, <3>6, Ranks DEF Conns, Hung
  <2> QED BY <2>2, <2>3
<1>5. CASE close \/ \E r \in Runners : RunnerNext(r) /\ ~Exchanged(r)
  <2>1. UNCHANGED <<conn, thread, actor>>
    BY <1>5 DEF close, RunnerNext, die_with_parent, Watch, Runner_init, serve, handle,
       ProbeConnects, ProbeCloses, WarmCounts, WarmPuts, reqVars
  <2> QED BY <1>0, <2>1, ConnsStay
<1> QED BY <1>1, <1>2, <1>3, <1>4, <1>5 DEF Next

\* What a step does to a request may leave the line of r as it is.
SameTo(r, q) ==
    /\ holds[q] = r => holds'[q] = r
    /\ holds'[q] = r => holds[q] = r \/ conn'[q][1] = "none"
    /\ holds[q] = r => (\A h \in Hosts : conn'[q][h] = "none" <=> conn[q][h] = "none")
    /\ holds[q] = r /\ Hung(q) => Hung(q)'

\* The line of a runner that nobody joins or leaves.
LEMMA LineStays ==
    ASSUME NEW r \in Runners, Line(r), backlog'[r] = backlog[r],
           channels'[r] = channels[r], probe'[r] = "none" => probe[r] = "none",
           \A q \in Requests : SameTo(r, q)
    PROVE  Line(r)'
<1>1. \A c \in Hosts : Among(backlog[r], c) \/ Among(channels[r], c) =>
          \E q \in Requests : holds'[q] = r /\ conn'[q][c] # "none"
  BY DEF Line, SameTo
<1>2. ASSUME NEW q \in Requests, holds'[q] = r, conn'[q][1] # "none"
      PROVE  channels[r] # <<>> \/ Among(backlog[r], 1) \/ Hung(q)'
  BY <1>2, Ranks DEF Line, SameTo
<1>3. channels[r] = <<>> =>
          Leads(backlog[r]) \/ \E q \in Requests : holds'[q] = r /\ Hung(q)'
  BY DEF Line, SameTo
<1> QED BY <1>1, <1>2, <1>3 DEF Line

\* The runner accepts who is first in line, or lets it go if it has left.
LEMMA serveKeeps ==
    ASSUME PoolInv, LineInv, ProbeLingers = FALSE, NEW r \in Runners, serve(r)
    PROVE  Line(r)'
<1> DEFINE b == backlog[r]
           s == channels[r]
           c == Head(backlog[r])
<1>1. /\ TInv /\ Line(r) /\ holds' = holds /\ conn' = conn /\ probe' = probe
      /\ b # <<>> /\ (c = Probe /\ probe[r] = "open" => ProbeLingers)
      /\ backlog' = [backlog EXCEPT ![r] = Tail(@)]
      /\ channels' = IF HungUp(r, c) THEN channels
                     ELSE [channels EXCEPT ![r] = Append(@, c)]
  BY DEF serve, PoolInv, LineInv, reqVars
<1>2. /\ b \in Seq(Hosts \cup {Probe}) /\ s \in Seq(Hosts \cup {Probe})
      /\ c \in Hosts \cup {Probe}
  BY <1>1, QueueTypes DEF TInv
<1>3. backlog'[r] = Tail(b)
  BY <1>1 DEF TInv
<1>4. channels'[r] = IF HungUp(r, c) THEN s ELSE Append(s, c)
  BY <1>1 DEF TInv
<1>5. \A q \in Requests : Hung(q)' <=> Hung(q)
  BY <1>1 DEF Hung
<1>6. /\ \A x : Among(b, x) <=> Among(Tail(b), x) \/ x = c
      /\ Once(b) => Once(Tail(b)) /\ (c # Probe => ~Among(Tail(b), c))
      /\ Leads(b) => c \in {Probe, 1}
      /\ Leads(b) /\ c # 1 => Leads(Tail(b))
  BY <1>1, <1>2, Left
<1>7. CASE c = Probe
  <2>1. HungUp(r, c)
    <3>1. probe[r] # "none" /\ probe[r] # "open"
      BY <1>1, <1>6, <1>7 DEF Line
    <3>2. probe[r] = "closed"
      BY <1>1, <3>1 DEF TInv
    <3> QED BY <1>7, <3>2 DEF HungUp
  <2>2. c \notin Hosts /\ c # 1
    BY <1>7, Ranks
  <2>3. channels'[r] = s
    BY <1>4, <2>1
  <2> HIDE DEF b, s, c
  <2>4. s = channels[r] /\ b = backlog[r]
    BY DEF s, b
  <2> QED BY <1>1, <1>3, <1>5, <1>6, <2>2, <2>3, <2>4 DEF Line
<1>8. CASE c # Probe
  <2>1. c \in Hosts
    BY <1>2, <1>8
  <2>2. PICK q \in Requests : holds[q] = r /\ conn[q][c] # "none"
    BY <1>1, <1>6, <2>1 DEF Line
  <2>3. \A p \in Requests : holds[p] = r => p = q
    BY <2>2, Ids DEF PoolInv, Placed
  <2>4. HungUp(r, c) <=> conn[q][c] = "shut"
    BY <1>8, <2>2, <2>3 DEF HungUp, HolderOf
  <2>5. CASE HungUp(r, c)
    <3>1. Hung(q)
      BY <2>1, <2>4, <2>5 DEF LineInv, Conns
    <3>2. channels'[r] = s
      BY <1>4, <2>5
    <3> HIDE DEF b, s, c
    <3>3. s = channels[r] /\ b = backlog[r]
      BY DEF s, b
    <3>4. \A p \in Requests : holds[p] = r => Hung(p)'
      BY <1>5, <2>3, <3>1
    <3>5. \E p \in Requests : holds'[p] = r /\ Hung(p)'
      BY <1>1, <1>5, <2>2, <3>1
    <3> QED BY <1>1, <1>3, <1>6, <3>2, <3>3, <3>4, <3>5 DEF Line
  <2>6. CASE ~HungUp(r, c)
    <3>1. ~Hung(q)
      BY <2>1, <2>2, <2>4, <2>6 DEF Hung
    <3>2. channels'[r] = Append(s, c)
      BY <1>4, <2>6
    <3> HIDE DEF b, s, c
    <3>3. /\ \A x : Among(Append(s, c), x) <=> Among(s, x) \/ x = c
          /\ Append(s, c) # <<>>
          /\ s # <<>> => Append(s, c)[1] = s[1]
          /\ s = <<>> => Append(s, c)[1] = c
          /\ Once(s) /\ ~Among(s, c) => Once(Append(s, c))
      BY <1>2, Joined
    <3>4. s = channels[r] /\ b = backlog[r]
      BY DEF s, b
    <3>5. s = <<>> => c = 1
      BY <1>1, <1>6, <1>8, <2>3, <3>1, <3>4 DEF Line
    <3>6. ~Among(s, c)
      BY <1>1, <1>6, <2>1, <3>4 DEF Line
    <3>7. \A x \in Hosts : Among(Tail(b), x) \/ Among(Append(s, c), x) =>
            \E p \in Requests : holds'[p] = r /\ conn'[p][x] # "none"
      BY <1>1, <1>6, <3>3, <3>4 DEF Line
    <3>8. \A x \in Hosts : ~(Among(Tail(b), x) /\ Among(Append(s, c), x))
      BY <1>1, <1>6, <1>8, <3>3, <3>4 DEF Line
    <3>9. /\ Once(Tail(b)) /\ Once(Append(s, c)) /\ ~Among(Append(s, c), Probe)
          /\ (Among(Tail(b), Probe) => probe'[r] # "none")
          /\ Append(s, c)[1] = 1
      BY <1>1, <1>6, <1>8, <3>3, <3>4, <3>5, <3>6 DEF Line
    <3> QED BY <1>3, <3>2, <3>3, <3>7, <3>8, <3>9 DEF Line
  <2> QED BY <2>5, <2>6
<1> QED BY <1>7, <1>8

\* The exchange is over for everyone who got in, and that is everyone.
LEMMA ExchangedKeeps ==
    ASSUME PoolInv, LineInv, NEW r \in Runners, Exchanged(r)
    PROVE  Line(r)'
<1>1. /\ TInv /\ Line(r) /\ proc[r] = "handle" /\ holds' = holds /\ probe' = probe
      /\ backlog' = backlog /\ channels' = [channels EXCEPT ![r] = <<>>]
      /\ conn' = [q \in Requests |->
                    IF holds[q] # r THEN conn[q]
                    ELSE [h \in Hosts |-> IF h \in Range(channels[r]) THEN "shut"
                                          ELSE conn[q][h]]]
  BY DEF Exchanged, PoolInv, LineInv
<1>2. \A h \in Hosts : Among(channels[r], h) /\ h \in Range(channels[r])
  BY <1>1, EveryoneIsIn
<1>3. channels'[r] = <<>> /\ \A x : ~Among(<<>>, x)
  BY <1>1 DEF TInv, Among
<1>4. Once(<<>>)
  BY DEF Once
<1>5. \A q \in Requests : holds[q] = r => Hung(q)'
  BY <1>1, <1>2 DEF Hung
<1>6. \A h \in Hosts : ~Among(backlog[r], h)
  BY <1>1, <1>2 DEF Line
<1>7. Leads(backlog[r])
  <2>1. \A i \in 1..Len(backlog[r]) : backlog[r][i] \in Hosts \cup {Probe}
    BY <1>1 DEF TInv
  <2> QED BY <1>6, <2>1 DEF Leads, Among
<1> QED BY <1>1, <1>3, <1>4, <1>5, <1>6, <1>7 DEF Line

\* The probe stands in line once, and last.
LEMMA ProbeKeeps ==
    ASSUME PoolInv, LineInv, NEW r \in Runners, ProbeConnects(r)
    PROVE  Line(r)'
<1>1. /\ TInv /\ Line(r) /\ UNCHANGED <<holds, conn, channels>>
      /\ probe' = [probe EXCEPT ![r] = "open"]
      /\ backlog' = [backlog EXCEPT ![r] = Append(@, Probe)]
  BY DEF ProbeConnects, PoolInv, LineInv, reqVars
<1>2. backlog[r] \in Seq(Hosts \cup {Probe})
  BY <1>1 DEF TInv
<1>3. backlog'[r] = Append(backlog[r], Probe) /\ probe'[r] = "open"
  BY <1>1 DEF TInv
<1>4. /\ \A x : Among(backlog'[r], x) <=> Among(backlog[r], x) \/ x = Probe
      /\ Once(backlog[r]) => Once(backlog'[r])
      /\ Leads(backlog[r]) => Leads(backlog'[r])
  BY <1>2, <1>3, Joined
<1>5. \A q \in Requests : Hung(q)' <=> Hung(q)
  BY <1>1 DEF Hung
<1>6. \A x \in Hosts : Among(backlog'[r], x) <=> Among(backlog[r], x)
  BY <1>4, Ranks
<1> QED BY <1>1, <1>3, <1>4, <1>5, <1>6, Ranks DEF Line

\* Rank 0 connects to a runner that no other host stands in line for.
LEMMA connectionKeeps ==
    ASSUME PoolInv, LineInv, NEW q \in Requests, connection(q), NEW r \in Runners,
           holds[q] = r
    PROVE  Line(r)'
<1> DEFINE s == channels[r]
           b == backlog[r]
<1>1. /\ TInv /\ Line(r) /\ Conns(q) /\ thread[q] = "connect"
      /\ UNCHANGED <<holds, channels, probe>>
      /\ conn' = [conn EXCEPT ![q][1] = "open"]
      /\ backlog' = [backlog EXCEPT ![r] = Append(@, 1)]
  BY DEF connection, Connects, At, PoolInv, LineInv
<1>2. \A p \in Requests : holds[p] = r => p = q
  BY Ids DEF PoolInv, Placed
<1>3. /\ b \in Seq(Hosts \cup {Probe}) /\ s \in Seq(Hosts \cup {Probe})
      /\ backlog'[r] = Append(b, 1) /\ conn'[q][1] = "open"
  BY <1>1, Ranks DEF TInv
<1>4. \A h \in Hosts : conn[q][h] = "none"
  BY <1>1 DEF Conns, Unconnected
<1> HIDE DEF s, b
<1>5. \A h \in Hosts : ~Among(b, h) /\ ~Among(s, h)
  BY <1>1, <1>2, <1>4 DEF Line, s, b
<1>6. s = <<>>
  <2>1. \A i \in 1..Len(s) : s[i] \in Hosts \cup {Probe}
    BY <1>3
  <2>2. ~Among(s, Probe)
    BY <1>1 DEF Line, s
  <2>3. 1 \notin 1..Len(s)
    BY <1>5, <2>1, <2>2 DEF Among
  <2>4. Len(s) \in Nat /\ (s # <<>> => Len(s) > 0)
    BY <1>3
  <2> QED BY <2>3, <2>4
<1>7. Leads(b) /\ Once(b)
  <2>1. \A i \in 1..Len(b) : b[i] \in Hosts \cup {Probe}
    BY <1>3
  <2>2. Once(b)
    BY <1>1 DEF Line, b
  <2> QED BY <1>5, <2>1, <2>2 DEF Leads, Among
<1>8. /\ \A x : Among(Append(b, 1), x) <=> Among(b, x) \/ x = 1
      /\ Once(Append(b, 1)) /\ Leads(Append(b, 1))
  <2>1. 1 \in Hosts \cup {Probe}
    BY Ranks
  <2> QED BY <1>3, <1>5, <1>7, <2>1, Ranks, Joined
<1>9. /\ channels'[r] = <<>> /\ \A x : ~Among(<<>>, x)
      /\ Once(<<>>) /\ probe'[r] = probe[r]
  BY <1>1, <1>6 DEF Among, Once, s
<1>10. Among(b, Probe) => probe[r] # "none"
  BY <1>1 DEF Line, b
<1>11. holds'[q] = r /\ conn'[q][1] # "none" /\ Probe # 1
  BY <1>1, <1>3, Ranks
<1> QED BY <1>3, <1>5, <1>8, <1>9, <1>10, <1>11 DEF Line

\* A shard gets in line once, behind rank 0.
LEMMA before_payloadKeeps ==
    ASSUME PoolInv, LineInv, NEW q \in Requests, NEW h \in Hosts, before_payload(q, h),
           NEW r \in Runners, holds[q] = r
    PROVE  Line(r)'
<1> DEFINE s == channels[r]
           b == backlog[r]
<1>1. /\ TInv /\ Line(r) /\ Conns(q) /\ thread[q] = "shards" /\ actor = "up"
      /\ UNCHANGED <<holds, channels, probe>> /\ h # 1 /\ conn[q][h] = "none"
      /\ conn' = [conn EXCEPT ![q][h] = "open"]
      /\ backlog' = [backlog EXCEPT ![r] = Append(@, h)]
  BY DEF before_payload, Connects, At, PoolInv, LineInv
<1>2. \A p \in Requests : holds[p] = r => p = q
  BY Ids DEF PoolInv, Placed
<1>3. /\ b \in Seq(Hosts \cup {Probe}) /\ backlog'[r] = Append(b, h)
      /\ \A c \in Hosts : conn'[q][c] = IF c = h THEN "open" ELSE conn[q][c]
  BY <1>1 DEF TInv
<1>4. ~Hung(q)
  BY <1>1, Ranks DEF Conns, Hung
<1> HIDE DEF s, b
<1>5. ~Among(b, h) /\ ~Among(s, h)
  BY <1>1, <1>2 DEF Line, s, b
<1>6. s # <<>> \/ Among(b, 1)
  BY <1>1, <1>4 DEF Line, Conns, s, b
<1>7. s = <<>> => Leads(b)
  BY <1>1, <1>2, <1>4 DEF Line, s, b
<1>8. /\ \A x : Among(Append(b, h), x) <=> Among(b, x) \/ x = h
      /\ Once(b) => Once(Append(b, h))
      /\ s = <<>> => Leads(Append(b, h))
  <2>1. h \in Hosts \cup {Probe}
    OBVIOUS
  <2> QED BY <1>3, <1>5, <1>6, <1>7, <2>1, Joined
<1>9. \A c \in Hosts : Among(Append(b, h), c) \/ Among(s, c) =>
          holds'[q] = r /\ conn'[q][c] # "none"
  BY <1>1, <1>2, <1>3, <1>8 DEF Line, s, b
<1>10. \A c \in Hosts : ~(Among(Append(b, h), c) /\ Among(s, c))
  BY <1>1, <1>5, <1>8 DEF Line, s, b
<1>11. /\ channels'[r] = s /\ Once(s) /\ Once(b) /\ ~Among(s, Probe)
       /\ s # <<>> => s[1] = 1
       /\ Among(Append(b, h), Probe) => probe'[r] # "none"
  BY <1>1, <1>8, Ranks DEF Line, s, b
<1> QED BY <1>3, <1>6, <1>8, <1>9, <1>10, <1>11 DEF Line

\* The line of a runner, whatever a request does.
LEMMA LineRequest ==
    ASSUME PoolInv, LineInv, NEW q \in Requests, RequestNext(q), NEW r \in Runners
    PROVE  Line(r)'
<1> USE DEF reqVars, procVars, Goes, At
<1>0. /\ TInv /\ Begun /\ Line(r) /\ Conns(q) /\ r # 0
  BY Ids DEF PoolInv, LineInv
<1>1. \A p \in Requests \ {q} : SameTo(r, p)
  BY <1>0, OthersStay DEF SameTo, Hung
<1>2. CASE Takes(q) \/ SpawnsOne(q)
  <2>1. /\ UNCHANGED <<backlog, channels, probe, conn>> /\ thread[q] = "acquire"
    BY <1>2 DEF Takes, SpawnsOne
  <2>2. holds[q] # r /\ conn'[q][1] = "none"
    BY <1>0, <2>1, Ranks DEF Begun, Conns, Unconnected
  <2>3. SameTo(r, q)
    BY <2>2 DEF SameTo
  <2> QED BY <1>0, <1>1, <2>1, <2>3, LineStays
<1>3. CASE connection(q)
  <2>1. CASE holds[q] = r
    BY <1>3, <2>1, connectionKeeps
  <2>2. CASE holds[q] # r
    <3>1. /\ UNCHANGED <<channels, probe, holds>>
          /\ backlog' = [backlog EXCEPT ![holds[q]] = Append(@, 1)]
      BY <1>3 DEF connection, Connects
    <3>2. backlog'[r] = backlog[r]
      BY <1>0, <2>2, <3>1 DEF TInv
    <3>3. SameTo(r, q)
      BY <2>2, <3>1 DEF SameTo
    <3> QED BY <1>0, <1>1, <3>1, <3>2, <3>3, LineStays
  <2> QED BY <2>1, <2>2
<1>4. ASSUME NEW h \in Hosts, before_payload(q, h) PROVE Line(r)'
  <2>1. CASE holds[q] = r
    BY <1>4, <2>1, before_payloadKeeps
  <2>2. CASE holds[q] # r
    <3>1. /\ UNCHANGED <<channels, probe, holds>>
          /\ backlog' = [backlog EXCEPT ![holds[q]] = Append(@, h)]
      BY <1>4 DEF before_payload, Connects
    <3>2. backlog'[r] = backlog[r]
      BY <1>0, <2>2, <3>1 DEF TInv
    <3>3. SameTo(r, q)
      BY <2>2, <3>1 DEF SameTo
    <3> QED BY <1>0, <1>1, <3>1, <3>2, <3>3, LineStays
  <2> QED BY <2>1, <2>2
<1>5. CASE SendsPayload(q)
  <2>1. /\ UNCHANGED <<backlog, channels, probe, holds>>
        /\ \A h \in Hosts : conn[q][h] = "open"
        /\ conn' = [conn EXCEPT ![q][1] = "sent"]
    BY <1>5 DEF SendsPayload
  <2>2. \A h \in Hosts : conn'[q][h] \in {"open", "sent"}
    BY <1>0, <2>1 DEF TInv
  <2>3. SameTo(r, q)
    BY <2>1, <2>2, Ranks DEF SameTo, Hung
  <2> QED BY <1>0, <1>1, <2>1, <2>3, LineStays
<1>6. CASE run_in_runner(q) \/ Torn(q)
  <2>1. UNCHANGED <<backlog, channels, probe, holds>> /\ Shut(q)
    BY <1>6 DEF run_in_runner, Torn
  <2>2. \A h \in Hosts : conn'[q][h] = IF conn[q][h] = "none" THEN "none" ELSE "shut"
    BY <1>0, <2>1, ShutTyped
  <2>3. SameTo(r, q)
    BY <2>1, <2>2 DEF SameTo, Hung
  <2> QED BY <1>0, <1>1, <2>1, <2>3, LineStays
<1>7. CASE Starts(q) \/ SpawnEnds(q) \/ Acquired(q) \/ Cleanup(q) \/ interrupt(q)
  <2>1. UNCHANGED <<backlog, channels, probe, holds, conn>>
    BY <1>7 DEF Starts, SpawnEnds, Acquired, Cleanup, interrupt
  <2>2. SameTo(r, q)
    BY <2>1 DEF SameTo, Hung
  <2> QED BY <1>0, <1>1, <2>1, <2>2, LineStays
<1> QED BY <1>2, <1>3, <1>4, <1>5, <1>6, <1>7 DEF RequestNext

\* Every step keeps the connections and the lines, if a probe has closed before
\* it is accepted.
LEMMA LineNext ==
    ASSUME PoolInv, LineInv, ProbeLingers = FALSE, [Next]_vars
    PROVE  LineInv'
<1> SUFFICES ASSUME NEW r \in Runners PROVE Line(r)'
  BY ConnsNext DEF LineInv
<1> USE DEF reqVars, procVars
<1>0. TInv /\ Line(r)
  BY DEF PoolInv, LineInv
<1>1. ASSUME UNCHANGED <<holds, conn, probe, backlog, channels>> PROVE Line(r)'
  BY <1>0, <1>1 DEF Line, Hung
<1>2. CASE UNCHANGED vars \/ close
  BY <1>1, <1>2 DEF vars, close
<1>3. CASE ActorDies
  <2>1. /\ UNCHANGED <<holds, backlog, channels>>
        /\ probe'[r] = "none" => probe[r] = "none"
        /\ \A q \in Requests : \A h \in Hosts :
              conn'[q][h] = IF conn[q][h] = "none" THEN "none" ELSE "shut"
    BY <1>3 DEF ActorDies
  <2>2. \A q \in Requests : SameTo(r, q)
    BY <2>1 DEF SameTo, Hung
  <2> QED BY <1>0, <2>1, <2>2, LineStays
<1>4. ASSUME NEW x \in Runners, RunnerNext(x) PROVE Line(r)'
  <2>1. CASE x = r /\ (serve(r) \/ Exchanged(r) \/ ProbeConnects(r))
    BY <2>1, serveKeeps, ExchangedKeeps, ProbeKeeps
  <2>2. CASE x # r /\ (serve(x) \/ Exchanged(x) \/ ProbeConnects(x))
    <3>1. /\ UNCHANGED holds
          /\ probe'[r] = probe[r] /\ backlog'[r] = backlog[r]
          /\ channels'[r] = channels[r]
      BY <1>0, <2>2 DEF serve, Exchanged, ProbeConnects, TInv
    <3>2. \A q \in Requests : holds[q] = r => conn'[q] = conn[q]
      BY <2>2 DEF serve, Exchanged, ProbeConnects
    <3>3. \A q \in Requests : SameTo(r, q)
      BY <3>1, <3>2 DEF SameTo, Hung
    <3> QED BY <1>0, <3>1, <3>3, LineStays
  <2>3. CASE ProbeCloses(x)
    <3>1. /\ UNCHANGED <<holds, conn, backlog, channels>> /\ probe[x] = "open"
          /\ probe' = [probe EXCEPT ![x] = "closed"]
      BY <2>3 DEF ProbeCloses
    <3>2. probe'[r] = "none" => probe[r] = "none"
      BY <1>0, <3>1 DEF TInv
    <3>3. \A q \in Requests : SameTo(r, q)
      BY <3>1 DEF SameTo, Hung
    <3> QED BY <1>0, <3>1, <3>2, <3>3, LineStays
  <2>4. CASE \/ die_with_parent(x) \/ Watch(x) \/ Runner_init(x) \/ handle(x)
             \/ WarmCounts(x) \/ WarmPuts(x)
    BY <1>1, <2>4 DEF die_with_parent, Watch, Runner_init, handle, WarmCounts, WarmPuts
  <2> QED BY <1>4, <2>1, <2>2, <2>3, <2>4 DEF RunnerNext
<1> QED BY <1>2, <1>3, <1>4, LineRequest DEF Next

\* At first nobody stands anywhere.
LEMMA LineInit == Init => LineInv
<1> SUFFICES ASSUME Init PROVE LineInv
  OBVIOUS
<1>1. \A q \in Requests : thread[q] = "none" /\ \A h \in Hosts : conn[q][h] = "none"
  BY DEF Init
<1>2. \A q \in Requests : Conns(q)
  BY <1>1 DEF Conns, Hung
<1>3. \A r \in Runners : backlog[r] = <<>> /\ channels[r] = <<>>
  BY DEF Init
<1>4. /\ \A x : ~Among(<<>>, x)
      /\ Once(<<>>) /\ Leads(<<>>)
  BY DEF Among, Once, Leads
<1>5. \A r \in Runners : Line(r)
  BY <1>1, <1>3, <1>4, Ranks DEF Line
<1> QED BY <1>2, <1>5 DEF LineInv

\* Rank 0 is the first of the peers a runner serves.
LEMMA RankZeroLeads == PoolInv /\ LineInv => LeaderIsRankZero
BY EveryoneIsIn DEF LineInv, LeaderIsRankZero

\* A request and its ranks have a runner of their own for as long as the
\* request lasts (Pool.acquire of sandbox/host.py, SandboxModel.run and
\* interrupt of sandbox/model.py, Runner.serve of sandbox/runner.py), where
\* interrupt() finds the runner it is to stop and a probe has closed by the time
\* it is accepted.
THEOREM RequestsOwnTheirRunner ==
    EarlyStops = FALSE /\ ProbeLingers = FALSE /\ Spec => []OwnRunner
<1> DEFINE SInv == PoolInv /\ StopInv /\ LineInv
<1>1. ASSUME EarlyStops = FALSE, ProbeLingers = FALSE PROVE Spec => []OwnRunner
  <2>1. Init => SInv
    BY PoolInit, StopInit, LineInit
  <2>2. SInv /\ [Next]_vars => SInv'
    BY <1>1, PoolNext, StopNext, LineNext
  <2>3. SInv => OwnRunner
    BY RunnersAreOwn, RunnersGo, RankZeroLeads DEF OwnRunner
  <2> QED BY <2>1, <2>2, <2>3, PTL DEF Spec
<1> QED BY <1>1

-----------------------------------------------------------------------------
(* Who outlives the actor *)

\* A runner whose parent is not the actor, which its watching thread never ends,
\* was never reached: nobody has connected to it, it has no block, and the actor
\* that could give it one is gone.
OrphansAreIdle ==
    \A r \in Runners : Alive(r) /\ proc[r] # "import" /\ ~watched[r] =>
        /\ actor = "gone" /\ proc[r] \in {"boot", "accept"}
        /\ backlog[r] = <<>> /\ channels[r] = <<>> /\ paid[r] = {}

\* A socket is there only once the process has looked for its parent.
Looked ==
    \A r \in Runners :
        /\ proc[r] \in {"boot", "accept", "handle"} /\ ~watched[r] => actor = "gone"
        /\ proc[r] \in {"none", "import", "boot"} => probe[r] = "none"
        /\ ~watched[r] => probe[r] = "none"

\* The probe comes first, and until it has come nobody is given the runner.
Hidden(r) ==
    /\ proc[r] # "handle" /\ ~InPool(r) /\ warm[r] # "counted"
    /\ backlog[r] = <<>> /\ channels[r] = <<>> /\ paid[r] = {}
Given(q) ==
    /\ thread[q] \in {"spawn", "taken", "connect", "shards", "pump"} =>
          holds[q] \in Runners
    /\ thread[q] \in {"taken", "connect", "shards", "pump"} => probe[holds[q]] # "none"
Probed == /\ \A r \in Runners : probe[r] = "none" => Hidden(r)
          /\ \A q \in Requests : Given(q)

OrphanInv == PoolInv /\ Looked /\ Probed

\* What goes on in the actor, and between it and a process, before and after.
LEMMA ProbesStay ==
    ASSUME TInv, Looked, Probed,
           UNCHANGED <<watched, actor, probe, backlog, channels, paid>>,
           \A r \in Runners :
              \/ proc'[r] = proc[r] \/ proc'[r] = "dead"
              \/ proc[r] = "none" /\ proc'[r] = "import"
              \/ proc[r] = "boot" /\ proc'[r] = "accept",
           \A r \in Runners : InPool(r)' => InPool(r) \/ probe[r] # "none",
           \A r \in Runners : warm'[r] = "counted" => warm[r] = "counted" \/ probe[r] # "none",
           \A q \in Requests : Given(q)'
    PROVE  Looked' /\ Probed'
<1>1. Looked'
  BY DEF Looked, TInv
<1>2. ASSUME NEW r \in Runners, probe[r] = "none" PROVE Hidden(r)'
  BY <1>2 DEF Probed, Hidden
<1> QED BY <1>1, <1>2 DEF Probed

\* A process goes on.
LEMMA ProcProbes ==
    ASSUME PoolInv, TInv', Looked, Probed, NEW r \in Runners,
           \/ die_with_parent(r) \/ Watch(r) \/ Runner_init(r) \/ serve(r)
           \/ handle(r) \/ Exchanged(r) \/ ProbeConnects(r) \/ ProbeCloses(r)
    PROVE  Looked' /\ Probed'
<1> USE DEF reqVars, procVars, poolVars
<1>0. TInv
  BY DEF PoolInv
<1>1. CASE die_with_parent(r)
  <2>1. /\ proc[r] = "import" /\ proc' = [proc EXCEPT ![r] = "boot"]
        /\ watched' = [watched EXCEPT ![r] = actor = "up"]
        /\ UNCHANGED <<ready, warm, probe, backlog, channels, paid, actor, thread, holds>>
    BY <1>1 DEF die_with_parent
  <2>2. Looked'
    <3>0. probe'[r] = "none" /\ proc'[r] = "boot"
      BY <1>0, <2>1 DEF Looked, TInv
    <3>a. watched'[r] = (actor = "up")
      BY <1>0, <2>1 DEF TInv
    <3>1. probe'[r] = "none" /\ proc'[r] = "boot" /\ (watched'[r] <=> actor = "up")
      BY <3>0, <3>a
    <3>2. ~watched'[r] => actor' = "gone"
      BY <1>0, <2>1, <3>1 DEF TInv
    <3>3. \A x \in Runners \ {r} : proc'[x] = proc[x] /\ watched'[x] = watched[x]
      BY <1>0, <2>1 DEF TInv
    <3> QED BY <2>1, <3>1, <3>2, <3>3 DEF Looked
  <2>3. ASSUME NEW x \in Runners, probe[x] = "none" PROVE Hidden(x)'
    BY <1>0, <2>1, <2>3 DEF Probed, Hidden, InPool, TInv
  <2> QED BY <2>1, <2>2, <2>3 DEF Probed, Given
<1>2. CASE Watch(r) \/ Runner_init(r)
  <2>1. UNCHANGED <<ready, warm, watched, actor, probe, backlog, channels, paid,
                    thread, holds>>
    BY <1>2 DEF Watch, Runner_init
  <2>2. \A x \in Runners : \/ proc'[x] = proc[x] \/ proc'[x] = "dead"
                           \/ proc[x] = "boot" /\ proc'[x] = "accept"
    BY <1>0, <1>2 DEF Watch, Runner_init, TInv
  <2>3. \A q \in Requests : Given(q)'
    BY <2>1 DEF Probed, Given
  <2> QED BY <1>0, <2>1, <2>2, <2>3, ProbesStay DEF InPool
<1>3. CASE serve(r) \/ handle(r) \/ Exchanged(r)
  <2>1. /\ UNCHANGED <<ready, warm, watched, actor, probe, thread, holds>>
        /\ \A x \in Runners \ {r} : /\ proc'[x] = proc[x] /\ backlog'[x] = backlog[x]
                                    /\ channels'[x] = channels[x] /\ paid'[x] = paid[x]
    BY <1>0, <1>3 DEF serve, handle, Exchanged, TInv
  <2>2. /\ proc[r] = "handle" \/ backlog[r] # <<>>
        /\ proc[r] \in {"accept", "handle"}
    BY <1>3 DEF serve, handle, Exchanged
  <2>3. proc'[r] \in {"accept", "handle"}
    BY <1>0, <1>3 DEF serve, handle, Exchanged, TInv
  <2>4. probe[r] # "none" /\ watched[r]
    BY <1>0, <2>2 DEF Looked, Probed, Hidden, TInv
  <2>5. Looked'
    BY <1>0, <2>1, <2>3, <2>4 DEF Looked, TInv
  <2>6. ASSUME NEW x \in Runners, probe[x] = "none" PROVE Hidden(x)'
    BY <2>1, <2>4, <2>6 DEF Probed, Hidden, InPool
  <2> QED BY <2>1, <2>5, <2>6 DEF Probed, Given
<1>4. CASE ProbeConnects(r) \/ ProbeCloses(r)
  <2>1. /\ UNCHANGED <<ready, warm, proc, watched, actor, thread, holds, channels, paid>>
        /\ actor = "up" /\ (probe[r] = "none" => proc[r] = "accept")
        /\ probe' \in {[probe EXCEPT ![r] = "open"], [probe EXCEPT ![r] = "closed"]}
        /\ \A x \in Runners \ {r} : backlog'[x] = backlog[x]
    BY <1>0, <1>4 DEF ProbeConnects, ProbeCloses, TInv
  <2>2. /\ probe'[r] # "none" /\ \A x \in Runners \ {r} : probe'[x] = probe[x]
        /\ \A x \in Runners : probe'[x] = "none" => x # r
    BY <1>0, <2>1 DEF TInv
  <2>3. watched[r] /\ proc[r] \notin {"none", "import", "boot"}
    BY <1>0, <2>1 DEF Looked, TInv
  <2>4. Looked'
    BY <2>1, <2>2, <2>3 DEF Looked
  <2>5. ASSUME NEW x \in Runners, probe'[x] = "none" PROVE Hidden(x)'
    BY <2>1, <2>2, <2>5 DEF Probed, Hidden, InPool
  <2>6. \A q \in Requests : Given(q)'
    BY <2>1, <2>2 DEF Probed, Given
  <2> QED BY <2>4, <2>5, <2>6 DEF Probed
<1> QED BY <1>1, <1>2, <1>3, <1>4

\* A thread of the pool goes on.
LEMMA WarmProbes ==
    ASSUME PoolInv, TInv', Looked, Probed, NEW r \in Runners,
           WarmCounts(r) \/ WarmPuts(r)
    PROVE  Looked' /\ Probed'
<1> USE DEF reqVars, procVars, poolVars
<1>0. TInv
  BY DEF PoolInv
<1>1. /\ UNCHANGED <<watched, actor, probe, backlog, channels, paid, thread, holds>>
      /\ proc' = proc \/ proc' = [proc EXCEPT ![r] = "dead"]
  BY DEF WarmCounts, WarmPuts, SpawnFails
<1>2. \A x \in Runners : proc'[x] = proc[x] \/ proc'[x] = "dead"
  BY <1>0, <1>1 DEF TInv
<1>3. \A q \in Requests : Given(q)'
  BY <1>1 DEF Probed, Given
<1>4. CASE WarmCounts(r)
  <2>1. /\ ready' = ready
        /\ \A x \in Runners \ {r} : warm'[x] = warm[x]
        /\ warm'[r] = "counted" => probe[r] # "none"
    BY <1>0, <1>4 DEF WarmCounts, Spawned, TInv
  <2> QED BY <1>0, <1>1, <1>2, <1>3, <2>1, ProbesStay DEF InPool
<1>5. CASE WarmPuts(r)
  <2>1. probe[r] # "none"
    BY <1>5 DEF WarmPuts, Probed, Hidden
  <2>2. \A x \in Runners : warm'[x] = "counted" => warm[x] = "counted"
    BY <1>0, <1>5 DEF WarmPuts, TInv
  <2>3. ~InPool(r)
    BY <1>5 DEF WarmPuts, PoolInv, Placed
  <2>4. \A x \in Runners : InPool(x)' => InPool(x) \/ x = r
    <3>1. CASE ready' = Append(ready, r)
      BY <1>0, <2>3, <3>1, PutIn DEF PoolInv, Placed
    <3>2. CASE ready' = ready
      BY <3>2 DEF InPool
    <3> QED BY <1>5, <3>1, <3>2 DEF WarmPuts
  <2> QED BY <1>0, <1>1, <1>2, <1>3, <2>1, <2>2, <2>4, ProbesStay
<1> QED BY <1>4, <1>5

\* A request goes on.
LEMMA RequestProbes ==
    ASSUME PoolInv, TInv', Looked, Probed, NEW q \in Requests, RequestNext(q)
    PROVE  Looked' /\ Probed'
<1> USE DEF reqVars, procVars, poolVars
<1>0. TInv
  BY DEF PoolInv
<1>1. CASE connection(q) \/ \E h \in Hosts : before_payload(q, h)
  <2>1. /\ UNCHANGED <<ready, warm, proc, watched, actor, probe, channels, paid, holds>>
        /\ \E h \in Hosts : backlog' = [backlog EXCEPT ![holds[q]] = Append(@, h)]
        /\ thread[q] \in {"connect", "shards"}
        /\ thread' \in {thread, [thread EXCEPT ![q] = "shards"]}
    BY <1>1, Ranks DEF connection, before_payload, Connects, At, Goes
  <2>2. holds[q] \in Runners /\ probe[holds[q]] # "none"
    BY <2>1 DEF Probed, Given
  <2>3. \A x \in Runners : x # holds[q] => backlog'[x] = backlog[x]
    BY <1>0, <2>1 DEF TInv
  <2>4. Looked'
    BY <2>1 DEF Looked
  <2>5. ASSUME NEW x \in Runners, probe[x] = "none" PROVE Hidden(x)'
    BY <2>1, <2>2, <2>3, <2>5 DEF Probed, Hidden, InPool
  <2>6. \A p \in Requests : Given(p)'
    BY <1>0, <2>1, <2>2 DEF Probed, Given, TInv
  <2> QED BY <2>1, <2>4, <2>5, <2>6 DEF Probed
<1>2. CASE Takes(q)
  <2>1. /\ UNCHANGED <<warm, proc, watched, actor, probe, backlog, channels, paid>>
        /\ ready # <<>> /\ ready' = Tail(ready)
        /\ holds' = [holds EXCEPT ![q] = Head(ready)]
        /\ thread' = [thread EXCEPT ![q] = "taken"]
    BY <1>2 DEF Takes, Goes
  <2>2. /\ InPool(Head(ready)) /\ Head(ready) \in Runners
        /\ \A x \in Runners : InPool(x)' => InPool(x)
    BY <1>0, <2>1, TakenOut DEF PoolInv, Placed
  <2>3. probe[Head(ready)] # "none"
    BY <2>2 DEF Probed, Hidden
  <2>4. \A p \in Requests : Given(p)'
    BY <1>0, <2>1, <2>2, <2>3 DEF Probed, Given, TInv
  <2> QED BY <1>0, <2>1, <2>2, <2>4, ProbesStay
<1>3. CASE SpawnsOne(q) \/ Acquired(q)
  <2>1. /\ UNCHANGED <<ready, watched, actor, probe, backlog, channels, paid>>
        /\ \A x \in Runners : \/ proc'[x] = proc[x]
                              \/ proc[x] = "none" /\ proc'[x] = "import"
    BY <1>0, <1>3, FreshId DEF SpawnsOne, Acquired, refill, Launch, TInv
  <2>2. \A x \in Runners : warm'[x] = "counted" => warm[x] = "counted"
    BY <1>0, <1>3 DEF SpawnsOne, Acquired, refill, TInv
  <2>3. \A p \in Requests : Given(p)'
    <3>1. CASE SpawnsOne(q)
      <4>1. /\ holds' = [holds EXCEPT ![q] = Fresh] /\ Fresh \in Runners
            /\ thread' = [thread EXCEPT ![q] = "spawn"]
        BY <3>1, FreshId DEF SpawnsOne, Goes
      <4> QED BY <1>0, <2>1, <4>1 DEF Probed, Given, TInv
    <3>2. CASE Acquired(q)
      <4>1. /\ holds' = holds /\ thread[q] = "taken"
            /\ thread' = [thread EXCEPT ![q] = "connect"]
        BY <3>2 DEF Acquired, At, Goes
      <4> QED BY <1>0, <2>1, <4>1 DEF Probed, Given, TInv
    <3> QED BY <1>3, <3>1, <3>2
  <2> QED BY <1>0, <2>1, <2>2, <2>3, ProbesStay DEF InPool
<1>4. CASE \/ Starts(q) \/ SpawnEnds(q) \/ SendsPayload(q) \/ run_in_runner(q)
           \/ Torn(q) \/ Cleanup(q) \/ interrupt(q)
  <2>1. UNCHANGED <<ready, warm, watched, actor, probe, backlog, channels, paid, holds>>
    BY <1>4 DEF Starts, SpawnEnds, SendsPayload, run_in_runner, Torn, Cleanup, interrupt
  <2>2. holds[q] \in Runners \cup {0} /\ sandbox \in Runners \cup {0}
    BY <1>0 DEF TInv
  <2>3. proc' = proc \/ \E r \in Runners \cup {0} : proc' = [proc EXCEPT ![r] = "dead"]
    BY <1>4, <2>2 DEF Starts, SpawnEnds, SpawnFails, SendsPayload, run_in_runner, Torn,
       Cleanup, interrupt, discard_sandbox
  <2>4. \A x \in Runners : proc'[x] = proc[x] \/ proc'[x] = "dead"
    BY <1>0, <2>3 DEF TInv
  <2>5. \/ thread' = thread
        \/ thread' \in {[thread EXCEPT ![q] = "acquire"], [thread EXCEPT ![q] = "done"]}
        \/ /\ thread[q] = "shards" /\ thread' = [thread EXCEPT ![q] = "pump"]
        \/ /\ thread[q] = "spawn" /\ probe[holds[q]] # "none"
           /\ thread' = [thread EXCEPT ![q] = "taken"]
    BY <1>4 DEF Starts, SpawnEnds, Spawned, SendsPayload, run_in_runner, Torn, Cleanup,
       interrupt, Goes, At
  <2>6. \A p \in Requests : Given(p)'
    BY <1>0, <2>1, <2>5 DEF Probed, Given, TInv
  <2> QED BY <1>0, <2>1, <2>4, <2>6, ProbesStay DEF InPool
<1> QED BY <1>1, <1>2, <1>3, <1>4 DEF RequestNext

\* Every step keeps it, whenever the actor dies.
LEMMA OrphanNext == OrphanInv /\ [Next]_vars => OrphanInv'
<1> SUFFICES ASSUME OrphanInv, [Next]_vars PROVE OrphanInv'
  OBVIOUS
<1> USE DEF reqVars, procVars, poolVars
<1>1. PoolInv /\ PoolInv' /\ TInv /\ TInv' /\ Looked /\ Probed
  BY PoolNext DEF OrphanInv, PoolInv
<1>2. CASE UNCHANGED vars
  BY <1>1, <1>2 DEF vars, OrphanInv, Looked, Probed, Hidden, Given, InPool
<1>3. ASSUME NEW r \in Runners, RunnerNext(r) PROVE Looked' /\ Probed'
  BY <1>1, <1>3, ProcProbes, WarmProbes DEF RunnerNext
<1>4. CASE close
  <2>1. /\ UNCHANGED <<warm, watched, actor, probe, backlog, channels, paid, thread, holds>>
        /\ ready' = <<>>
        /\ \A x \in Runners : proc'[x] = proc[x] \/ proc'[x] = "dead"
    BY <1>4 DEF close
  <2>2. \A x \in Runners : ~InPool(x)'
    BY <2>1 DEF InPool
  <2>3. \A q \in Requests : Given(q)'
    BY <1>1, <2>1 DEF Probed, Given
  <2>4. \A x \in Runners : InPool(x)' => InPool(x) \/ probe[x] # "none"
    BY <2>2
  <2>5. \A x \in Runners : warm'[x] = "counted" => warm[x] = "counted" \/ probe[x] # "none"
    BY <2>1
  <2>6. \A x \in Runners :
           \/ proc'[x] = proc[x] \/ proc'[x] = "dead"
           \/ proc[x] = "none" /\ proc'[x] = "import"
           \/ proc[x] = "boot" /\ proc'[x] = "accept"
    BY <2>1
  <2> QED BY <1>1, <2>1, <2>3, <2>4, <2>5, <2>6, ProbesStay DEF OrphanInv
<1>5. CASE ActorDies
  <2>1. /\ UNCHANGED <<ready, warm, proc, watched, backlog, channels, paid, thread, holds>>
        /\ actor' = "gone"
        /\ \A x \in Runners : probe'[x] = "none" <=> probe[x] = "none"
    BY <1>5 DEF ActorDies
  <2>2. Looked'
    BY <1>1, <2>1 DEF Looked
  <2>3. ASSUME NEW x \in Runners, probe'[x] = "none" PROVE Hidden(x)'
    BY <1>1, <2>1, <2>3 DEF Probed, Hidden, InPool
  <2>4. ASSUME NEW q \in Requests PROVE Given(q)'
    <3>1. Given(q) /\ thread'[q] = thread[q] /\ holds'[q] = holds[q]
      BY <1>1, <2>1 DEF Probed
    <3> QED BY <2>1, <3>1 DEF Given
  <2>5. Probed'
    BY <2>3, <2>4 DEF Probed
  <2> QED BY <1>1, <2>2, <2>5 DEF OrphanInv
<1> QED BY <1>1, <1>2, <1>3, <1>4, <1>5, RequestProbes DEF Next, OrphanInv

\* Whenever the actor is killed, a process that still imports included: a runner
\* that found another parent (die_with_parent of sandbox/runner.py), and so is
\* never ended, is one that nobody has reached or ever will (spawn and
\* Pool.acquire of sandbox/host.py hand it out only after a connection to it).
THEOREM NobodyServesAnOrphan == Spec => []OrphansAreIdle
<1>1. Init => OrphanInv
  <2> SUFFICES ASSUME Init PROVE OrphanInv
    OBVIOUS
  <2>1. Looked
    BY DEF Init, Looked
  <2>2. \A r \in Runners : Hidden(r)
    BY DEF Init, Hidden, InPool
  <2>3. \A q \in Requests : Given(q)
    BY DEF Init, Given
  <2> QED BY PoolInit, <2>1, <2>2, <2>3 DEF OrphanInv, Probed
<1>2. OrphanInv => OrphansAreIdle
  BY DEF OrphanInv, OrphansAreIdle, Looked, Probed, Hidden, Alive, PoolInv, TInv
<1> QED BY <1>1, <1>2, OrphanNext, PTL DEF Spec
=============================================================================
