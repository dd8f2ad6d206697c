----------------------------- MODULE Interleave -----------------------------
(***************************************************************************)
(* One untrusted request, split over a socket: the block's workers run in  *)
(* the runner (sandbox/nns.py), the forward pass and the workers' parent   *)
(* side run on the host (sandbox/driver.py).  The two take turns: a worker *)
(* parks on a location, the host serves it when the forward gets there.    *)
(*                                                                         *)
(* A park is [event, loc, pin]; what the values are is left out.  What a   *)
(* block does between two parks is open: it may read, edit, step its       *)
(* tracer.iter loop, meet the others at a barrier, ask for a control event,*)
(* stop the run, raise or return.                                          *)
(***************************************************************************)
EXTENDS Integers, Sequences, SequencesExt, FiniteSets

CONSTANTS
    Workers,        \* mediator ids, 1..n
    Forward,        \* the locations one forward pass reaches, in order
    Controls,       \* control events the blocks use, of SOURCE, CALL, CACHE
    Sizes,          \* the counts a barrier may be built with
    MaxTraces,      \* traces of the session
    StopTraces,     \* bound: those in which a block may call tracer.stop()
    CatchTraces,    \* bound: those in which it may catch an error of a worker
    MaxParks,       \* per worker, bound on its parks after the first in a trace
    MaxStep,        \* bound on the steps of a tracer.iter loop
    MaxKills        \* bound on interrupt() stopping the runner

ASSUME InterleaveAssumption ==
    /\ IsFiniteSet(Workers) /\ Workers = 1..Cardinality(Workers)
    /\ Forward \in Seq({"l", "fn"})
    /\ MaxTraces \in Nat /\ MaxParks \in [Workers -> Nat] /\ MaxStep \in Nat
    /\ MaxKills \in Nat /\ Sizes \subseteq Nat \ {0}
    /\ Controls \subseteq {"SOURCE", "CALL", "CACHE"}

VARIABLES
    \* the host
    hpc,        \* "pump", "work", "await" a reply, "over"
    phase,      \* of interleave(): "idle", "build", "serve", "dangle"
    agenda,     \* what the nested calls still have to do, innermost first
    pend, hpin, \* each proxy's pending (pin: the occurrence) and its pin
    waiting,    \* the proxies parked on the barrier this round, in order
    visit,      \* the place in the forward pass
    sourced, armed,   \* interleaver.sourced[op], and op \in _armed
    caches,     \* proxies with a ShippingCache
    owed,       \* workers whose read of this visit is not yet written back
    outcome,    \* how pump() ended
    \* the runner
    rpc,        \* "block", "pump", "absorb" (in writeback), "over"
    trace, size,      \* the current trace, and the count of its barrier
    wpark, wpin, wstep, left,   \* a worker's park, pin, loop step, budget
    reads,      \* the read each worker's next RESUME answers
    held,       \* the worker in a writeback
    dropped,    \* workers that were ended without an error or a warning
    raised,     \* an EXCEPTION was reported to a host that listens
    course,     \* "left": out of a trace that the host has not ended;
                \* "astray": and gone on, as if it had
    kills,
    \* the socket
    toHost, toRunner

proxyVars == <<pend, hpin, waiting>>
serveVars == <<visit, sourced, armed, caches, owed>>
hostVars == <<hpc, phase, agenda, proxyVars, serveVars, outcome>>
workerVars == <<wpark, wpin, wstep, left, reads, held>>
runVars == <<rpc, trace, size, dropped, raised, course, kills>>
runnerVars == <<workerVars, runVars>>
vars == <<hostVars, runnerVars, toHost, toRunner>>

-----------------------------------------------------------------------------
(* Parks, pins, visits *)

Relaxed == -1       \* the pin None
KEEP_PIN == -2

Park(event, loc, pin) == [event |-> event, loc |-> loc, pin |-> pin]
Finished == Park("none", "-", 0)
ipc_barrier == Park("BARRIER", "-", 0)
\* Control parks: op.source (the drill), module.source, an ad hoc call of a
\* module, tracer.cache().
ipc_recursive_source == Park("SOURCE", "fn", 0)
ipc_module_source == Park("SOURCE", "-", 0)
ad_hoc_call == Park("CALL", "-", 0)
ipc_cache == Park("CACHE", "-", 0)
IsControl(park) == park.event \in {"SOURCE", "CALL", "CACHE"}
IsModel(park) == park.event \in {"VALUE", "SWAP"}

\* The forward's locations, then the one its return value is served at.
Visits == Append(Forward, "result")
\* How often the forward has been at a location before visit i.
Count(loc, i) == Cardinality({j \in 1..(i - 1) : Visits[j] = loc})

\* Mutant: what was read is forgotten.
NoWriteback(park) == Finished

read_of(park) == IF park.event = "VALUE" THEN park ELSE Finished

\* The parks of ipc_event(): a model location with the worker's own pin.
ipc_event(pin) == {Park("VALUE", "l", pin), Park("SWAP", "l", pin),
                   Park("VALUE", "result", pin)}

\* Where a worker may park next, with its pin and loop step then.  A step of
\* tracer.iter sets the pin; a drill is followed by the read of what the op
\* calls, and what the host built is memoized, so that nobody drills again.
NextParks(cur, pin, step) ==
    IF cur = ipc_recursive_source
    THEN {<<Park("VALUE", "fn", pin), pin, step>>}
    ELSE LET Pins == {<<pin, step>>} \cup
                     (IF step < MaxStep THEN {<<step + 1, step + 1>>} ELSE {})
             Others == {ipc_barrier} \cup
                {p \in {ipc_module_source, ad_hoc_call, ipc_cache} :
                    p.event \in Controls}
                \cup (IF "fn" \in Range(Forward) /\ sourced # "built"
                      THEN {ipc_recursive_source} ELSE {})
         IN  {<<p, q[1], q[2]>> : q \in Pins, p \in Others}
             \cup UNION {{<<p, q[1], q[2]>> : p \in ipc_event(q[1])} : q \in Pins}

Nobody == [w \in Workers |-> Finished]
Zeros == [w \in Workers |-> 0]
Task(op, w) == [op |-> op, w |-> w]

Init ==
    /\ hpc = "pump" /\ phase = "idle" /\ agenda = <<>>
    /\ pend = Nobody /\ hpin = Zeros
    /\ waiting = <<>> /\ visit = 1
    /\ sourced = "absent" /\ armed = FALSE
    /\ caches = {} /\ owed = {} /\ outcome = "none"
    /\ rpc = "block" /\ trace = 0 /\ size = 1
    /\ wpark = Nobody /\ wpin = Zeros /\ wstep = Zeros /\ left = Zeros
    /\ reads = Nobody /\ held = 0
    /\ dropped = {} /\ raised = FALSE /\ course = "on" /\ kills = 0
    /\ toHost = <<>> /\ toRunner = <<>>

-----------------------------------------------------------------------------
(* The host: what both phases use *)

Over(why) == hpc' = "over" /\ outcome' = why

\* Sending to a runner that is gone raises; the request is lost.
SendOrLose(message) ==
    \/ /\ rpc # "over"
       /\ toRunner' = Append(toRunner, message)
       /\ hpc' = "await" /\ UNCHANGED outcome
    \/ rpc = "over" /\ Over("lost") /\ UNCHANGED toRunner

Resume(w, pin) == [kind |-> "RESUME", w |-> w, pin |-> pin]

\* Mutant: a barrier park is not kept.
BarrierNotStored(w, park) ==
    IF park.event = "BARRIER" THEN UNCHANGED <<pend, hpin>>
    ELSE pend' = [pend EXCEPT ![w] = park] /\ UNCHANGED hpin

\* A park becomes the proxy's pending: a model park brings its pin, and a
\* relaxed one waits for the next visit the model has not handled.
adopt(w, park) ==
    /\ pend' = [pend EXCEPT ![w] =
                  IF IsModel(park) /\ park.pin = Relaxed
                  THEN [park EXCEPT !.pin = Count(park.loc, visit)] ELSE park]
    /\ hpin' = IF IsModel(park) THEN [hpin EXCEPT ![w] = park.pin] ELSE hpin

\* The round of a barrier is emptied before its waiters are released, the
\* earlier arrivals first; the releases come before whatever adopt() was
\* called from goes on.
barrier_arrival(w, park, rest) ==
    LET round == Append(waiting, w)
        full == Len(round) >= size
    IN  IF park.event # "BARRIER"
        THEN UNCHANGED waiting /\ agenda' = rest
        ELSE /\ waiting' = IF full THEN <<>> ELSE round
             /\ agenda' = IF ~full THEN rest ELSE
                   [i \in DOMAIN round |-> Task("release", round[i])] \o rest

Working(op) == hpc = "work" /\ agenda # <<>> /\ agenda[1].op = op

\* RESUME out of a barrier park, with KEEP_PIN; then adopt and settle.
release ==
    /\ Working("release")
    /\ LET w == agenda[1].w IN
       /\ agenda' = <<Task("settle", w)>> \o Tail(agenda)
       /\ SendOrLose(Resume(w, KEEP_PIN))
    /\ UNCHANGED <<phase, proxyVars, serveVars, runnerVars, toHost>>

install_source(park) ==
    IF park = ipc_recursive_source
    THEN /\ armed' = TRUE
         /\ sourced' = IF sourced = "absent" THEN "armed" ELSE sourced
    ELSE UNCHANGED <<armed, sourced>>

\* A control park is answered at once, with KEEP_PIN, until the worker parks
\* on something else.
attach_cache(w, park) ==
    caches' = IF park.event = "CACHE" THEN caches \cup {w} ELSE caches

\* The trace is stood down for an ad hoc call: it spends no visit.  A call with
\* hook=True, which lets the trace watch it, is left out.
run_module == UNCHANGED <<visit, owed>>

settle_control ==
    /\ Working("settle")
    /\ LET w == agenda[1].w
           park == pend[w]
       IN \/ /\ IsControl(park)
             /\ install_source(park)
             /\ attach_cache(w, park)
             /\ SendOrLose(Resume(w, KEEP_PIN))
             /\ UNCHANGED agenda
          \/ /\ ~IsControl(park)
             /\ agenda' = Tail(agenda)
             /\ UNCHANGED <<armed, sourced, caches, hpc, outcome, toRunner>>
    /\ run_module
    /\ UNCHANGED <<phase, proxyVars, runnerVars, toHost>>

\* The reply to a RESUME.  A STOP unwinds the forward, which swallows it; in
\* _build_proxies() nothing does, and it fails the request.
HostParked ==
    /\ hpc = "await" /\ toHost # <<>> /\ toHost[1].kind = "PARK"
    /\ adopt(agenda[1].w, toHost[1].park)
    /\ barrier_arrival(agenda[1].w, toHost[1].park, agenda)
    /\ hpc' = "work" /\ toHost' = Tail(toHost)
    /\ UNCHANGED <<phase, serveVars, outcome, runnerVars, toRunner>>

HostStopped ==
    /\ hpc = "await" /\ toHost # <<>> /\ toHost[1].kind = "STOP"
    /\ toHost' = Tail(toHost)
    /\ \/ phase = "build" /\ Over("stopped") /\ UNCHANGED <<phase, agenda>>
       \/ /\ phase = "serve" /\ phase' = "dangle" /\ hpc' = "work"
          /\ agenda' = [w \in Workers |-> Task("throw", w)]
          /\ UNCHANGED outcome
    /\ UNCHANGED <<proxyVars, serveVars, runnerVars, toRunner>>

\* Only STOP is told apart: of anything else the second value is adopted.  That
\* of an END, its milliseconds, is no park and raises; so does the list of parks
\* of an INTERLEAVE, if it is shorter than a park is.
Foreign == Park("none", "-", Relaxed)
HostMisreads ==
    /\ hpc = "await" /\ toHost # <<>> /\ toHost[1].kind \in {"INTERLEAVE", "END"}
    /\ toHost' = Tail(toHost)
    /\ \E adopted \in BOOLEAN :
          /\ adopted => toHost[1].kind = "INTERLEAVE" /\ Cardinality(Workers) > 2
          /\ IF adopted
             THEN /\ pend' = [pend EXCEPT ![agenda[1].w] = Foreign]
                  /\ hpin' = [hpin EXCEPT ![agenda[1].w] = Relaxed]
                  /\ hpc' = "work" /\ UNCHANGED outcome
             ELSE Over("misread") /\ UNCHANGED <<pend, hpin>>
    /\ UNCHANGED <<phase, agenda, waiting, serveVars, runnerVars, toRunner>>

\* next_event(): an EXCEPTION raises out of whatever was waiting for it, and
\* so does the end of the stream.
next_event ==
    /\ hpc \in {"pump", "await"}
    /\ \/ /\ toHost # <<>> /\ toHost[1].kind = "EXCEPTION"
          /\ Over("error") /\ toHost' = Tail(toHost)
       \/ toHost = <<>> /\ rpc = "over" /\ Over("lost") /\ UNCHANGED toHost
    /\ UNCHANGED <<phase, agenda, proxyVars, serveVars, runnerVars, toRunner>>

-----------------------------------------------------------------------------
(* The host: one interleave() *)

HostInterleave ==
    /\ hpc = "pump" /\ toHost # <<>> /\ toHost[1].kind = "INTERLEAVE"
    /\ hpc' = "work" /\ phase' = "build" /\ toHost' = Tail(toHost)
    /\ agenda' = [w \in Workers |->
                     [op |-> "adopt", park |-> toHost[1].parks[w], w |-> w]]
                  \o [w \in Workers |-> Task("settle", w)]
    /\ waiting' = <<>> /\ armed' = FALSE
    /\ UNCHANGED <<pend, hpin, visit, sourced, caches, owed, outcome, runnerVars,
                   toRunner>>

\* MediatorProxy.__init__ adopts the worker's initial park.
BuildProxy ==
    /\ Working("adopt")
    /\ adopt(agenda[1].w, agenda[1].park)
    /\ barrier_arrival(agenda[1].w, agenda[1].park, Tail(agenda))
    /\ UNCHANGED <<hpc, phase, serveVars, outcome, runnerVars, toHost, toRunner>>

\* Entering the interleaver clears sourced; what was armed is armed again.
HostEnter ==
    /\ hpc = "work" /\ phase = "build" /\ agenda = <<>>
    /\ phase' = "serve"
    /\ sourced' = IF armed THEN "armed" ELSE "absent"
    /\ UNCHANGED <<hpc, agenda, proxyVars, visit, armed, caches, owed, outcome,
                   runnerVars, toHost, toRunner>>

Serving == hpc = "work" /\ phase = "serve" /\ agenda = <<>>
\* An op's callable is only served when the op was armed.
Reached == Visits[visit] # "fn" \/ sourced # "absent"
Matches(w) == /\ IsModel(pend[w]) /\ pend[w].loc = Visits[visit]
              /\ pend[w].pin = Count(pend[w].loc, visit)

\* The callable is described and instrumented once, or refused.
serve_recursive_source(w) ==
    IF pend[w].event = "VALUE" /\ pend[w].loc = "fn" /\ sourced = "armed"
    THEN sourced' \in {"armed", "built"}
    ELSE UNCHANGED sourced

\* Mediator.handle() serves a worker that waits for this visit, for as long
\* as it does (its read and the swap that follows, then the next worker); it
\* may relax the pin of a tracer.iter step, and the RESUME pushes the pin.
switch(w) ==
    /\ Serving /\ Reached /\ Matches(w)
    /\ \A v \in owed \ {w} : ~Matches(v)
    /\ agenda' = <<Task("settle", w)>>
    /\ hpin' \in {hpin} \cup (IF hpin[w] > 0 THEN {[hpin EXCEPT ![w] = Relaxed]}
                               ELSE {})
    /\ SendOrLose(Resume(w, hpin'[w]))
    /\ owed' = IF pend[w].event = "VALUE" THEN owed \cup {w} ELSE owed \ {w}
    /\ serve_recursive_source(w)
    /\ UNCHANGED <<phase, pend, waiting, visit, armed, caches, runnerVars, toHost>>

Hits == SetToSeq({[kind |-> "CACHE_HIT", w |-> w, pin |-> 0] : w \in caches})

\* Mutant: one visit too many.
PastTheEnd ==
    /\ Serving
    /\ Reached => \A w \in Workers : ~Matches(w)
    /\ visit' = visit + 1
    /\ UNCHANGED <<hpc, phase, agenda, proxyVars, sourced, armed, caches, owed,
                   outcome, runnerVars, toHost, toRunner>>

\* Nobody waits for this visit any more: the caches record it, and the model
\* moves on; after its result, what is left dangles.
MoveOn ==
    /\ Serving
    /\ Reached => \A w \in Workers : ~Matches(w)
    /\ LET hits == IF Visits[visit] = "l" THEN Hits ELSE <<>> IN
       (rpc = "over" => hits = <<>>) /\ toRunner' = toRunner \o hits
    /\ \/ /\ visit < Len(Visits) /\ visit' = visit + 1
          /\ UNCHANGED <<phase, agenda>>
       \/ /\ visit = Len(Visits) /\ phase' = "dangle"
          /\ agenda' = [w \in Workers |-> Task("throw", w)]
          /\ UNCHANGED visit
    /\ UNCHANGED <<hpc, proxyVars, sourced, armed, caches, owed, outcome,
                   runnerVars, toHost>>

\* The forward fails, or a record for a cache meets a closed socket.
ForwardFails ==
    /\ Serving /\ Over("model")
    /\ UNCHANGED <<phase, agenda, proxyVars, serveVars, runnerVars, toHost, toRunner>>

\* Mutant: a barrier park is taken for an overrun loop.
BarrierIsALoop(w) == IF hpin[w] # 0 THEN "ITER" ELSE "OUT_OF_ORDER"

Kind(w) == IF pend[w].event = "BARRIER" THEN "BARRIER"
           ELSE IF hpin[w] # 0 THEN "ITER" ELSE "OUT_OF_ORDER"

\* A proxy that is still parked is thrown at; a closed socket ends the loop.
check_dangling ==
    /\ Working("throw")
    /\ LET w == agenda[1].w
           message == [kind |-> "THROW", w |-> w, why |-> Kind(w)]
       IN \/ /\ pend[w] = Finished
             /\ agenda' = Tail(agenda) /\ UNCHANGED toRunner
          \/ /\ pend[w] # Finished /\ rpc # "over"
             /\ toRunner' = Append(toRunner, message) /\ agenda' = Tail(agenda)
          \/ /\ pend[w] # Finished /\ rpc = "over"
             /\ agenda' = <<>> /\ UNCHANGED toRunner
    /\ UNCHANGED <<hpc, phase, proxyVars, serveVars, outcome, runnerVars, toHost>>

\* DONE; a closed socket is not an error here: the report is in the buffer.
HostDone ==
    /\ hpc = "work" /\ phase = "dangle" /\ agenda = <<>>
    /\ hpc' = "pump" /\ phase' = "idle"
    /\ pend' = Nobody /\ hpin' = Zeros /\ caches' = {} /\ owed' = {} /\ visit' = 1
    /\ toRunner' = IF rpc = "over" THEN toRunner
                   ELSE Append(toRunner, [kind |-> "DONE"])
    /\ UNCHANGED <<agenda, waiting, sourced, armed, outcome, runnerVars, toHost>>

HostEnd ==
    /\ hpc = "pump" /\ toHost # <<>> /\ toHost[1].kind = "END"
    /\ Over("saved") /\ toHost' = Tail(toHost)
    /\ UNCHANGED <<phase, agenda, proxyVars, serveVars, runnerVars, toRunner>>

-----------------------------------------------------------------------------
(* The runner *)

Say(message) == toHost' = Append(toHost, message)
Report == Say([kind |-> "EXCEPTION"]) /\ rpc' = "over" /\ raised' = (hpc # "over")

\* The trace is over for the block, and its workers are gone; the host may be
\* in the middle of it.
Cancel ==
    /\ rpc' = "block" /\ held' = 0
    /\ wpark' = Nobody /\ wpin' = Zeros /\ wstep' = Zeros /\ left' = Zeros
    /\ reads' = Nobody
Leave == Cancel /\ course' = IF course = "on" THEN "left" ELSE course

\* Envoy.interleave(): the workers run up to their first parks, which are
\* shipped; a session's block may do so several times.
RunnerInterleave ==
    /\ rpc = "block" /\ trace < MaxTraces
    /\ rpc' = "pump" /\ trace' = trace + 1
    /\ size' \in Sizes
    /\ \E f \in [Workers -> NextParks(Finished, 0, 0) \cup {<<Finished, 0, 0>>}] :
          /\ wpark' = [w \in Workers |-> f[w][1]]
          /\ wpin' = [w \in Workers |-> f[w][2]]
          /\ wstep' = [w \in Workers |-> f[w][3]]
    /\ left' = MaxParks
    /\ reads' = [w \in Workers |-> read_of(wpark'[w])]
    /\ Say([kind |-> "INTERLEAVE", parks |-> wpark'])
    /\ course' = IF course = "on" THEN "on" ELSE "astray"
    /\ UNCHANGED <<hostVars, held, dropped, raised, kills, toRunner>>

Reading(kind) == rpc = "pump" /\ toRunner # <<>> /\ toRunner[1].kind = kind

\* Where the block goes when it is switched in; the read it was parked on is
\* swapped back before its next park is sent.
RunnerResume ==
    /\ Reading("RESUME")
    /\ LET w == toRunner[1].w
           pin == IF toRunner[1].pin = KEEP_PIN THEN wpin[w] ELSE toRunner[1].pin
       IN \E next \in NextParks(wpark[w], pin, wstep[w]) \cup
                      {<<Finished, pin, wstep[w]>>} :
          /\ next[1] # Finished => left[w] > 0
          /\ next[1] = Finished => wpark[w] # ipc_recursive_source
          /\ left' = [left EXCEPT ![w] = IF @ = 0 THEN 0 ELSE @ - 1]
          /\ wpark' = [wpark EXCEPT ![w] = next[1]]
          /\ wpin' = [wpin EXCEPT ![w] = next[2]]
          /\ wstep' = [wstep EXCEPT ![w] = next[3]]
          /\ reads' = [reads EXCEPT ![w] = read_of(next[1])]
          /\ \/ /\ reads[w] = Finished
                /\ Say([kind |-> "PARK", w |-> w, park |-> next[1]])
                /\ UNCHANGED <<rpc, held>>
             \/ /\ reads[w] # Finished
                /\ Say([kind |-> "PARK", w |-> w,
                        park |-> [reads[w] EXCEPT !.event = "SWAP"]])
                /\ rpc' = "absorb" /\ held' = w
    /\ toRunner' = Tail(toRunner)
    /\ UNCHANGED <<hostVars, trace, size, dropped, raised, course, kills>>

\* writeback(): whatever comes next is taken for the resume of the swap.
writeback ==
    /\ rpc = "absorb" /\ toRunner # <<>>
    /\ rpc' = "pump" /\ held' = 0 /\ toRunner' = Tail(toRunner)
    /\ Say([kind |-> "PARK", w |-> held, park |-> wpark[held]])
    /\ UNCHANGED <<hostVars, wpark, wpin, wstep, left, reads,
                   trace, size, dropped, raised, course, kills>>

\* tracer.stop(): the host is told; the block goes on behind the trace.
RunnerStop ==
    /\ Reading("RESUME") /\ trace \in StopTraces
    /\ toRunner' = Tail(toRunner)
    /\ Say([kind |-> "STOP"]) /\ Leave
    /\ UNCHANGED <<hostVars, trace, size, dropped, raised, kills>>

\* Any other error of a worker leaves pump() and the trace without a word to
\* the host.  It fails the block (BlockRaises), or the block catches it.
BlockCatches ==
    /\ Reading("RESUME") /\ trace \in CatchTraces
    /\ toRunner' = Tail(toRunner) /\ Leave
    /\ UNCHANGED <<hostVars, trace, size, dropped, raised, kills, toHost>>

\* The host's THROW.  The worker ends, an overrun loop with a warning, another
\* when its own code catches the error; or it parks again, and nobody looks at
\* that park; or the error leaves it, and fails the block or is caught there.
throw ==
    /\ Reading("THROW") /\ toRunner' = Tail(toRunner)
    /\ LET w == toRunner[1].w
           looped == toRunner[1].why = "ITER"
       IN \/ /\ looped \/ trace \in CatchTraces
             /\ wpark' = [wpark EXCEPT ![w] = Finished]
             /\ dropped' = IF looped /\ wpark[w].event = "BARRIER" THEN dropped \cup {w}
                           ELSE dropped
             /\ UNCHANGED <<rpc, raised, course, wpin, wstep, left, reads, held, toHost>>
          \/ /\ trace \in CatchTraces /\ course' = "astray"
             /\ UNCHANGED <<rpc, raised, dropped, workerVars, toHost>>
          \/ Report /\ UNCHANGED <<workerVars, dropped, course>>
          \/ /\ trace \in CatchTraces /\ Leave
             /\ UNCHANGED <<raised, dropped, toHost>>
    /\ UNCHANGED <<hostVars, trace, size, kills>>

\* A worker that DONE finds still parked is cancelled without a word.
RunnerDone ==
    /\ Reading("DONE")
    /\ Cancel /\ toRunner' = Tail(toRunner)
    /\ dropped' = dropped \cup {w \in Workers : wpark[w] # Finished}
    /\ UNCHANGED <<hostVars, trace, size, raised, course, kills, toHost>>

CacheHit ==
    /\ Reading("CACHE_HIT")
    /\ toRunner' = Tail(toRunner)
    /\ UNCHANGED <<hostVars, runnerVars, toHost>>

\* _run(): the block returned, or it raised; a worker's error is the block's.
RunnerEnd ==
    /\ rpc = "block" /\ rpc' = "over" /\ Say([kind |-> "END"])
    /\ course' = IF course = "left" /\ hpc = "await" /\ toHost = <<>> THEN "astray"
                 ELSE course
    /\ UNCHANGED <<hostVars, workerVars, trace, size, dropped, raised, kills, toRunner>>

BlockRaises ==
    /\ rpc = "block" \/ Reading("RESUME")
    /\ Report
    /\ UNCHANGED <<hostVars, workerVars, trace, size, dropped, course, kills, toRunner>>

\* The actor's interrupt() kills the runner.
Killed ==
    /\ rpc # "over" /\ hpc # "over" /\ kills < MaxKills
    /\ rpc' = "over" /\ kills' = kills + 1
    /\ UNCHANGED <<hostVars, workerVars, trace, size, dropped, raised, course,
                   toHost, toRunner>>

\* The host went away: the runner's next receive or send fails.
RunnerLost ==
    /\ rpc # "over" /\ hpc = "over" /\ rpc' = "over"
    /\ UNCHANGED <<hostVars, workerVars, trace, size, dropped, raised, course, kills,
                   toHost, toRunner>>

HostNext ==
    \/ HostInterleave \/ BuildProxy \/ release \/ settle_control
    \/ HostParked \/ HostStopped \/ HostMisreads \/ next_event \/ HostEnter
    \/ \E w \in Workers : switch(w)
    \/ MoveOn \/ ForwardFails \/ check_dangling \/ HostDone \/ HostEnd
RunnerNext ==
    \/ RunnerInterleave \/ RunnerResume \/ writeback \/ RunnerStop \/ throw
    \/ RunnerDone \/ CacheHit \/ RunnerEnd \/ BlockRaises \/ BlockCatches
    \/ Killed \/ RunnerLost
Next == HostNext \/ RunnerNext

Spec == Init /\ [][Next]_vars

-----------------------------------------------------------------------------
(* Properties *)

Pins == {Relaxed} \cup 0..(MaxStep + Len(Visits))
Parks == [event : {"none", "VALUE", "SWAP", "BARRIER", "SOURCE", "CALL", "CACHE"},
          loc : {"-", "l", "fn", "result"}, pin : Pins]

\* The types of the variables.
TypeOK ==
    /\ hpc \in {"pump", "work", "await", "over"}
    /\ phase \in {"idle", "build", "serve", "dangle"}
    /\ \A i \in DOMAIN agenda :
          /\ agenda[i].op \in {"adopt", "settle", "release", "throw"}
          /\ agenda[i].w \in Workers
    /\ pend \in [Workers -> Parks] /\ hpin \in [Workers -> Pins]
    /\ waiting \in Seq(Workers) /\ visit \in 1..Len(Visits)
    /\ sourced \in {"absent", "armed", "built"} /\ armed \in BOOLEAN
    /\ caches \subseteq Workers /\ owed \subseteq Workers
    /\ outcome \in {"none", "saved", "error", "stopped", "model", "lost", "misread"}
    /\ rpc \in {"block", "pump", "absorb", "over"}
    /\ trace \in 0..MaxTraces /\ size \in Sizes \cup {1}
    /\ wpark \in [Workers -> Parks] /\ wpin \in [Workers -> Pins]
    /\ wstep \in [Workers -> 0..MaxStep] /\ \A w \in Workers : left[w] \in 0..MaxParks[w]
    /\ reads \in [Workers -> Parks] /\ held \in Workers \cup {0}
    /\ dropped \subseteq Workers /\ raised \in BOOLEAN
    /\ course \in {"on", "left", "astray"} /\ kills \in 0..MaxKills

\* Whenever the forward is running, every proxy waits for what its worker is
\* parked on: no worker moves without the host hearing of it (#294).
Lockstep ==
    Serving /\ rpc = "pump" =>
        \A w \in Workers : /\ pend[w].event = wpark[w].event
                          /\ pend[w].loc = wpark[w].loc

\* A worker in a tracer.iter loop has the pin of the step it is in, or a
\* relaxed one; nothing the host pushes winds it back (#296).
PinIsCurrentStep == \A w \in Workers : wpin[w] \in {wstep[w], Relaxed}

\* While the forward runs, the workers parked on the barrier are those of the
\* current round, and the round is not full: nobody waits for a release that
\* already happened.
WaitersWait ==
    Serving /\ rpc = "pump" =>
        /\ Len(waiting) < size
        /\ {w \in Workers : wpark[w].event = "BARRIER"} = Range(waiting)
        /\ Cardinality(Range(waiting)) = Len(waiting)

\* The model leaves a visit only when every read of it was written back: an
\* in-place edit is never applied too late.
EditsApplied ==
    [][phase = "serve" /\ visit' # visit /\ course # "astray" => owed = {}]_vars

\* The model leaves no visit behind that a worker is waiting for, a drilled
\* op's callable included.
NobodyPassed ==
    [][phase = "serve" /\ visit' # visit /\ rpc = "pump" /\ course # "astray" =>
        \A w \in Workers :
            ~(/\ wpark[w].event \in {"VALUE", "SWAP"}
              /\ wpark[w].loc = Visits[visit]
              /\ pend[w].pin = Count(wpark[w].loc, visit))]_vars

\* Both: the model leaves a visit when everything that was asked of it is done,
\* unless the block has gone on out of step with the host.
VisitsComplete == EditsApplied /\ NobodyPassed

\* No worker is ended in silence: one that is still parked after the run is
\* unwound with a warning if its loop outran the model, else its error is
\* raised; one parked on a barrier always raises (#294).
NothingDropped == dropped = {}

\* An error the runner reported is what the request fails with, although the
\* runner's socket was closed while the host was still sending (#280); a
\* tracer.stop() before the forward has then failed the request already.
RealErrorSurfaces == hpc = "over" /\ raised => outcome \in {"error", "stopped"}

\* The two never wait for each other, and neither receives what it does not
\* expect where it is.
TurnsAlternate ==
    /\ hpc = "pump" /\ toHost # <<>> =>
          toHost[1].kind \in {"INTERLEAVE", "END", "EXCEPTION"}
    /\ hpc = "await" /\ toHost # <<>> =>
          toHost[1].kind \in {"PARK", "STOP", "EXCEPTION"}
    /\ rpc = "absorb" /\ toRunner # <<>> => toRunner[1].kind = "RESUME"
    /\ ~(/\ hpc \in {"pump", "await"} /\ toHost = <<>>
         /\ rpc \in {"pump", "absorb"} /\ toRunner = <<>>)

\* All of them: host and runner stay in lock step, until a block that has left
\* a trace by a stop or by an error it caught goes on all the same: with the
\* next trace, or to its end while the host waits for the worker that raised.
InStep ==
    course # "astray" => Lockstep /\ PinIsCurrentStep /\ WaitersWait /\ TurnsAlternate

\* Both: however a run ends, the user hears of what went wrong in it; a block
\* that leaves a trace and ends, or fails, is no exception.
EndsAreTold == course # "astray" => NothingDropped /\ RealErrorSurfaces

\* Not so (see the README), nor are the parts of InStep and EndsAreTold without
\* their exception.  A DONE that the runner reads belongs to the run it
\* is in: the host is not about to start it, nor in the middle of it.
DoneEndsItsOwnRun ==
    Reading("DONE") => /\ hpc \in {"pump", "over"}
                       /\ \A i \in DOMAIN toHost : toHost[i].kind # "INTERLEAVE"
=============================================================================
