-------------------------- MODULE InterleaveProofs --------------------------
(***************************************************************************)
(* Host and runner of a sandboxed request stay in lock step, no visit is   *)
(* left before what was asked of it is done, and no end is silent, for any *)
(* number of workers, traces, parks and steps and any forward pass.        *)
(***************************************************************************)
EXTENDS Interleave, FiniteSetTheorems, TLAPS

-----------------------------------------------------------------------------
(* The invariant *)

Tasks == [op : {"settle", "release", "throw"}, w : Workers]
            \cup [op : {"adopt"}, park : Parks, w : Workers]
ToHost == [kind : {"INTERLEAVE"}, parks : [Workers -> Parks]]
            \cup [kind : {"PARK"}, w : Workers, park : Parks]
            \cup [kind : {"STOP", "EXCEPTION", "END"}]
ToRunner == [kind : {"RESUME", "CACHE_HIT"}, w : Workers, pin : Pins \cup {KEEP_PIN}]
            \cup [kind : {"THROW"}, w : Workers, why : {"BARRIER", "ITER", "OUT_OF_ORDER"}]
            \cup [kind : {"DONE"}]

\* TypeOK, with the tasks and the messages.
THost ==
    /\ hpc \in {"pump", "work", "await", "over"}
    /\ phase \in {"idle", "build", "serve", "dangle"}
    /\ agenda \in Seq(Tasks)
    /\ pend \in [Workers -> Parks] /\ hpin \in [Workers -> Pins]
    /\ waiting \in Seq(Workers) /\ visit \in 1..Len(Visits)
    /\ sourced \in {"absent", "armed", "built"} /\ armed \in BOOLEAN
    /\ caches \in SUBSET Workers /\ owed \in SUBSET Workers
    /\ outcome \in {"none", "saved", "error", "stopped", "model", "lost", "misread"}
    /\ hpc = "await" => agenda # <<>>
TRunner ==
    /\ rpc \in {"block", "pump", "absorb", "over"}
    /\ trace \in 0..MaxTraces /\ size \in Sizes \cup {1}
    /\ wpark \in [Workers -> Parks] /\ wpin \in [Workers -> Pins]
    /\ wstep \in [Workers -> 0..MaxStep]
    /\ left \in [Workers -> Nat] /\ \A w \in Workers : left[w] <= MaxParks[w]
    /\ reads \in [Workers -> Parks] /\ held \in Workers \cup {0}
    /\ rpc = "absorb" => held \in Workers
    /\ dropped \in SUBSET Workers /\ raised \in BOOLEAN /\ kills \in 0..MaxKills
    /\ course \in {"on", "left", "astray"}
TQueues == toHost \in Seq(ToHost) /\ toRunner \in Seq(ToRunner)
TInv == THost /\ TRunner /\ TQueues

\* What may be on its way to the runner: records of the caches, a RESUME behind
\* them, the end of a trace.
Kinds(s, K) == \A i \in 1..Len(s) : s[i].kind \in K
HitsOnly(s) == Kinds(s, {"CACHE_HIT"})
Asks(s) == /\ s # <<>> /\ s[Len(s)].kind = "RESUME"
           /\ \A i \in 1..(Len(s) - 1) : s[i].kind = "CACHE_HIT"
Unwinds(s) == Kinds(s, {"CACHE_HIT", "THROW"})
Ends(s) == /\ s # <<>> /\ s[Len(s)].kind = "DONE"
           /\ \A i \in 1..(Len(s) - 1) : s[i].kind \in {"CACHE_HIT", "THROW"}
\* To the host: one message at most, or one behind a STOP.
Says(K) == Len(toHost) = 1 /\ toHost[1].kind \in K

\* What an agenda has in it.
Has(s, op, w) == \E i \in 1..Len(s) : s[i].op = op /\ s[i].w = w
Once(s, op) == \A i, j \in 1..Len(s) :
    s[i].op = op /\ s[j].op = op /\ s[i].w = s[j].w => i = j
Brings(s, parks) == \A i \in 1..Len(s) :
    s[i].op = "adopt" => s[i].park = parks[s[i].w]

\* Where the host is, and what it has left to do there.
HostAt ==
    /\ hpc = "pump" => /\ phase = "idle" /\ agenda = <<>> /\ owed = {}
                       /\ pend = Nobody
    /\ hpc = "work" => phase \in {"build", "serve", "dangle"}
    /\ hpc = "await" => /\ phase \in {"build", "serve"} /\ agenda # <<>>
                        /\ agenda[1].op = "settle" /\ pend[agenda[1].w] # Finished
    /\ \A w \in Workers :
          /\ Has(agenda, "adopt", w) => phase = "build"
          /\ Has(agenda, "settle", w) => phase \in {"build", "serve"}
          /\ Has(agenda, "release", w) => phase \in {"build", "serve"}
          /\ Has(agenda, "throw", w) => phase = "dangle"

InForward == hpc = "work" /\ phase \in {"build", "serve"}

\* Whose turn it is.
Blocked ==
    \/ hpc = "pump" /\ toHost = <<>> /\ toRunner = <<>>
    \/ /\ course = "left"
       /\ \/ hpc = "await" /\ (toHost = <<>> \/ Says({"STOP"}))
          \/ hpc = "work" /\ phase = "dangle" /\ toHost = <<>>
          \/ hpc = "pump" /\ toHost = <<>>
          \/ hpc = "over"
Pumping ==
    \/ hpc = "pump" /\ Says({"INTERLEAVE"}) /\ toRunner = <<>>
    \/ hpc = "pump" /\ toHost = <<>> /\ Ends(toRunner)
    \/ InForward /\ toHost = <<>> /\ HitsOnly(toRunner)
    \/ hpc = "work" /\ phase = "dangle" /\ toHost = <<>> /\ Unwinds(toRunner)
    \/ hpc = "await" /\ toHost = <<>> /\ Asks(toRunner)
    \/ hpc = "await" /\ Says({"PARK"}) /\ toRunner = <<>>
    \/ hpc = "over" /\ HitsOnly(toRunner)
Absorbing ==
    \/ hpc = "await" /\ Says({"PARK"}) /\ toRunner = <<>> /\ owed = {held}
    \/ InForward /\ toHost = <<>> /\ toRunner = <<>> /\ owed = {held}
    \/ /\ hpc = "await" /\ toHost = <<>> /\ owed = {} /\ agenda[1].w = held
       /\ Len(toRunner) = 1 /\ toRunner[1].kind = "RESUME"
    \/ hpc = "over" /\ toRunner = <<>>
Gone ==
    \/ hpc = "pump" /\ (toHost = <<>> \/ Says({"INTERLEAVE", "END", "EXCEPTION"}))
    \/ hpc = "work" /\ toHost = <<>>
    \/ hpc = "work" /\ phase = "dangle" /\ Says({"END", "EXCEPTION"})
    \/ hpc = "await" /\ (toHost = <<>> \/ Says({"PARK", "STOP", "EXCEPTION"}))
    \/ /\ hpc = "await" /\ Len(toHost) = 2 /\ toHost[1].kind = "STOP"
       /\ toHost[2].kind \in {"END", "EXCEPTION"}
    \/ hpc = "over"
Turns ==
    /\ rpc = "block" => Blocked
    /\ rpc = "pump" => Pumping
    /\ rpc = "absorb" => Absorbing
    /\ rpc = "over" => Gone
    /\ rpc \in {"pump", "absorb"} => course = "on"

\* An error that was reported is what the host hears last, or has heard.
Surfaces ==
    raised => IF hpc = "over" THEN outcome \in {"error", "stopped"}
              ELSE rpc = "over" /\ toHost # <<>> /\ toHost[Len(toHost)].kind = "EXCEPTION"

\* The messages of a wait are about the worker that is waited for.
LastAsked == toRunner[Len(toRunner)]
Asked ==
    hpc = "await" =>
        /\ toHost # <<>> /\ toHost[1].kind = "PARK" => toHost[1].w = agenda[1].w
        /\ rpc \in {"pump", "absorb"} /\ toHost = <<>> => LastAsked.w = agenda[1].w
        /\ rpc = "pump" /\ toHost = <<>> =>
              LastAsked.pin \in {KEEP_PIN, Relaxed, wpin[agenda[1].w]}

\* A read that is not written back is the visit's, and nothing else goes on.
Current(w) == IsModel(pend[w]) /\ Matches(w) /\ Reached
Owes ==
    /\ phase = "build" => owed = {}
    /\ hpc = "work" /\ phase = "serve" /\ rpc = "pump" => owed = {}
    /\ hpc = "await" => owed = (IF pend[agenda[1].w].event = "VALUE"
                                THEN {agenda[1].w} ELSE {})
    /\ phase = "serve" /\ hpc \in {"work", "await"} => \A w \in owed :
          /\ owed = {w} /\ Current(w)
          /\ hpc = "await" => agenda = <<Task("settle", w)>>
          /\ hpc = "work" => /\ pend[w].event = "SWAP"
                             /\ agenda \in {<<>>, <<Task("settle", w)>>}
    /\ hpc = "await" /\ owed # {} /\ toHost # <<>> /\ toHost[1].kind = "PARK" =>
          /\ toHost[1].park.event = "SWAP" /\ toHost[1].park.loc = Visits[visit]
          /\ toHost[1].park.pin \in {Relaxed, Count(Visits[visit], visit)}
    /\ hpc = "await" /\ rpc = "pump" /\ toHost # <<>> => owed = {}

\* The barrier: who waits for this round, who is being released, whose release
\* is under way.
Among(s, w) == \E i \in 1..Len(s) : s[i] = w
Asking(w) == hpc = "await" /\ agenda[1].w = w
Rounds ==
    hpc \in {"work", "await"} /\ phase \in {"build", "serve"} =>
        /\ Len(waiting) < size
        /\ \A i, j \in 1..Len(waiting) : waiting[i] = waiting[j] => i = j
        /\ \A w \in Workers :
              /\ pend[w].event = "BARRIER" =>
                    Among(waiting, w) \/ Has(agenda, "release", w) \/ Asking(w)
              /\ Among(waiting, w) =>
                    /\ pend[w].event = "BARRIER"
                    /\ ~Has(agenda, "release", w) /\ ~Asking(w)
              /\ Has(agenda, "release", w) => pend[w].event = "BARRIER" /\ ~Asking(w)
              /\ Has(agenda, "adopt", w) => pend[w] = Finished
        /\ Once(agenda, "release") /\ Once(agenda, "adopt")

\* The runner's own bookkeeping.
Steps ==
    \A w \in Workers :
        /\ wpin[w] \in {wstep[w], Relaxed}
        /\ IsModel(wpark[w]) => wpark[w].pin = wpin[w]
        /\ wpark[w] # Finished => reads[w] = read_of(wpark[w])

\* A proxy waits for what its worker is parked on.
Agree(w) ==
    IF IsModel(wpark[w])
    THEN /\ pend[w].event = wpark[w].event /\ pend[w].loc = wpark[w].loc
         /\ wpark[w].pin \in {Relaxed, pend[w].pin}
         /\ hpin[w] \in {Relaxed, wpark[w].pin}
    ELSE pend[w] = wpark[w]

Live == rpc \in {"pump", "absorb"}
Follows ==
    /\ Live /\ hpc \in {"work", "await"} /\ phase \in {"build", "serve"} =>
          /\ Brings(agenda, wpark)
          /\ \A w \in Workers :
                \/ Agree(w) \/ Has(agenda, "adopt", w)
                \/ Asking(w) /\ toHost # <<>>
                \/ rpc = "absorb" /\ w = held
    /\ rpc = "pump" /\ hpc = "await" /\ toHost # <<>> =>
          toHost[1].park = wpark[agenda[1].w]
    /\ rpc = "pump" /\ hpc = "pump" /\ toHost # <<>> => toHost[1].parks = wpark

\* Whoever is still parked when a trace ends is thrown at, and for what it is.
Thrown(s, w) == \E i \in 1..Len(s) : s[i].kind = "THROW" /\ s[i].w = w
Warned(s, w) == \E i \in 1..Len(s) :
    s[i].kind = "THROW" /\ s[i].w = w /\ s[i].why = "ITER"
Unwinding ==
    rpc = "pump" =>
        /\ \A w \in Workers : Warned(toRunner, w) => wpark[w].event # "BARRIER"
        /\ hpc = "work" /\ phase = "dangle" =>
              /\ Once(agenda, "throw")
              /\ \A w \in Workers :
                    /\ Has(agenda, "throw", w) => Agree(w) /\ ~Thrown(toRunner, w)
                    /\ \/ wpark[w] = Finished
                       \/ Has(agenda, "throw", w) \/ Thrown(toRunner, w)
        /\ hpc = "pump" /\ toHost = <<>> =>
              \A w \in Workers : wpark[w] = Finished \/ Thrown(toRunner, w)

\* A worker parked on a drilled op's callable has had it armed.
OnFn(park) == IsModel(park) /\ park.loc = "fn"
FnServed == IF phase = "serve" THEN sourced # "absent" ELSE armed
Drills ==
    /\ Live /\ hpc \in {"work", "await"} /\ phase \in {"build", "serve"} =>
          \A w \in Workers :
              \/ OnFn(wpark[w])
              \/ /\ rpc = "pump" /\ Asking(w) /\ toHost = <<>>
                 /\ wpark[w] = ipc_recursive_source
              => FnServed
    /\ rpc = "pump" /\ hpc = "pump" /\ toHost # <<>> =>
          \A w \in Workers : ~OnFn(wpark[w])

IInv == /\ TInv /\ HostAt /\ Turns /\ Surfaces /\ Asked /\ Owes /\ Rounds /\ Steps
        /\ Follows /\ Unwinding /\ Drills /\ NothingDropped

\* It holds until the block has gone on without the host, and then for good
\* only the types are known.
Inv == TInv /\ (course # "astray" => IInv)

-----------------------------------------------------------------------------
(* Constants *)

\* The bounds are numbers, the workers finitely many numbers from 1.
LEMMA Bounds ==
    /\ MaxTraces \in Nat /\ MaxParks \in [Workers -> Nat] /\ MaxStep \in Nat
    /\ MaxKills \in Nat /\ Sizes \subseteq Nat \ {0}
    /\ IsFiniteSet(Workers) /\ Workers \subseteq Nat \ {0}
    /\ \E n \in Nat : Workers = 1..n
<1>1. Cardinality(Workers) \in Nat
  BY InterleaveAssumption, FS_CardinalityType
<1> QED BY <1>1, InterleaveAssumption

\* The forward visits its locations, then its result.
LEMMA VisitsSeq ==
    /\ Visits \in Seq({"l", "fn", "result"}) /\ Len(Visits) \in Nat \ {0}
    /\ \A i \in 1..Len(Visits) : Visits[i] \in {"l", "fn", "result"}
<1>1. Forward \in Seq({"l", "fn"})
  BY InterleaveAssumption
<1>2. Forward \in Seq({"l", "fn", "result"})
  BY <1>1
<1> QED BY <1>2 DEF Visits

\* How often a location was visited is a number, below that of the visits.
LEMMA CountTyped ==
    ASSUME NEW loc, NEW i \in 1..Len(Visits)
    PROVE  Count(loc, i) \in 0..(Len(Visits) - 1)
<1> DEFINE C == {j \in 1..(i - 1) : Visits[j] = loc}
<1>1. Len(Visits) \in Nat
  BY VisitsSeq
<1>2. IsFiniteSet(1..(i - 1)) /\ Cardinality(1..(i - 1)) = i - 1
  <2>1. i - 1 \in Nat /\ 1 \in Int
    BY <1>1
  <2>2. /\ IsFiniteSet(1..(i - 1))
        /\ Cardinality(1..(i - 1)) = IF 1 > i - 1 THEN 0 ELSE (i - 1) - 1 + 1
    BY <2>1, FS_Interval
  <2> QED BY <2>1, <2>2
<1>3. C \subseteq 1..(i - 1)
  OBVIOUS
<1>4. IsFiniteSet(C) /\ Cardinality(C) <= Cardinality(1..(i - 1))
  <2> HIDE DEF C
  <2>1. C \in SUBSET (1..(i - 1))
    BY <1>3
  <2> QED BY <1>2, <2>1, FS_Subset
<1>5. Cardinality(C) \in Nat
  <2> HIDE DEF C
  <2> QED BY <1>4, FS_CardinalityType
<1>6. Cardinality(C) = Count(loc, i)
  BY DEF Count
<1> QED BY <1>1, <1>2, <1>4, <1>5, <1>6

\* The pins there are.
LEMMA PinsTyped ==
    /\ Pins \subseteq Int /\ Relaxed \in Pins /\ 0 \in Pins
    /\ 0..MaxStep \subseteq Pins /\ 0..(Len(Visits) - 1) \subseteq Pins
    /\ \A p \in Pins : p # KEEP_PIN
BY Bounds, VisitsSeq DEF Pins, Relaxed, KEEP_PIN

\* The fixed parks are parks.
LEMMA FixedParks ==
    /\ Finished \in Parks /\ ipc_barrier \in Parks /\ ipc_recursive_source \in Parks
    /\ ipc_module_source \in Parks /\ ad_hoc_call \in Parks /\ ipc_cache \in Parks
    /\ Nobody \in [Workers -> Parks] /\ Zeros \in [Workers -> Pins]
BY PinsTyped DEF Finished, ipc_barrier, ipc_recursive_source, ipc_module_source,
   ad_hoc_call, ipc_cache, Park, Parks, Nobody, Zeros

\* Where a worker may park next.
LEMMA NextTyped ==
    ASSUME NEW cur \in Parks, NEW pin \in Pins, NEW step \in 0..MaxStep,
           NEW next \in NextParks(cur, pin, step)
    PROVE  /\ next[1] \in Parks /\ next[2] \in Pins /\ next[3] \in 0..MaxStep
           /\ \/ next[2] = pin /\ next[3] = step
              \/ next[2] = next[3]
           /\ IsModel(next[1]) => next[1].pin = next[2]
           /\ OnFn(next[1]) => cur = ipc_recursive_source
           /\ next[1] # Finished
<1> DEFINE QS == {<<pin, step>>} \cup
                 (IF step < MaxStep THEN {<<step + 1, step + 1>>} ELSE {})
           OS == {ipc_barrier, ipc_module_source, ad_hoc_call, ipc_cache,
                  ipc_recursive_source}
<1>1. ASSUME NEW q \in QS
      PROVE  /\ q[1] \in Pins /\ q[2] \in 0..MaxStep
             /\ (q[1] = pin /\ q[2] = step) \/ q[1] = q[2]
  BY <1>1, Bounds, PinsTyped
<1>2. \/ cur = ipc_recursive_source /\ next = <<Park("VALUE", "fn", pin), pin, step>>
      \/ \E q \in QS : \E p \in OS : next = <<p, q[1], q[2]>>
      \/ \E q \in QS : \E p \in ipc_event(q[1]) : next = <<p, q[1], q[2]>>
  <2>1. CASE cur = ipc_recursive_source
    BY <2>1 DEF NextParks
  <2>2. CASE cur # ipc_recursive_source
    BY <2>2 DEF NextParks
  <2> QED BY <2>1, <2>2
<1>3. CASE cur = ipc_recursive_source /\ next = <<Park("VALUE", "fn", pin), pin, step>>
  BY <1>3 DEF Parks, Park, IsModel, Finished
<1>4. ASSUME NEW q \in QS, NEW p \in OS, next = <<p, q[1], q[2]>>
      PROVE  /\ next[1] \in Parks /\ next[1] # Finished
             /\ ~IsModel(next[1])
  BY <1>4, FixedParks DEF Park, IsModel, Finished, ipc_barrier,
     ipc_recursive_source, ipc_module_source, ad_hoc_call, ipc_cache
<1>5. ASSUME NEW q \in QS, NEW p \in ipc_event(q[1]), next = <<p, q[1], q[2]>>
      PROVE  /\ next[1] \in Parks /\ next[1] # Finished
             /\ next[1].pin = q[1] /\ next[1].loc # "fn"
  BY <1>5, <1>1 DEF Park, Parks, Finished, ipc_event
<1> HIDE DEF QS, OS
<1> QED BY <1>1, <1>2, <1>3, <1>4, <1>5 DEF OnFn

-----------------------------------------------------------------------------
(* Sequences *)

\* What is left of a queue without its first element.
LEMMA TailFacts ==
    ASSUME NEW S, NEW s \in Seq(S), s # <<>>
    PROVE  /\ Tail(s) \in Seq(S) /\ s[1] \in S /\ Len(s) \in Nat \ {0}
           /\ Len(Tail(s)) = Len(s) - 1
           /\ \A i \in 1..(Len(s) - 1) : Tail(s)[i] = s[i + 1] /\ i + 1 \in 1..Len(s)
           /\ Len(s) = 1 => Tail(s) = <<>>
<1>1. /\ Tail(s) \in Seq(S) /\ s[1] \in S /\ Len(s) \in Nat \ {0}
      /\ Len(Tail(s)) = Len(s) - 1
  OBVIOUS
<1>2. \A i \in 1..(Len(s) - 1) : i + 1 \in 1..Len(s)
  BY <1>1
<1>3. \A i \in 1..(Len(s) - 1) : Tail(s)[i] = s[i + 1]
  BY <1>1, <1>2
<1>4. Len(s) = 1 => Tail(s) = <<>>
  <2> DEFINE t == Tail(s)
  <2>1. t \in Seq(S) /\ (Len(s) = 1 => Len(t) = 0)
    BY <1>1
  <2> HIDE DEF t
  <2>2. Len(t) = 0 => t = <<>>
    BY <2>1
  <2> QED BY <2>1, <2>2 DEF t
<1> QED BY <1>1, <1>2, <1>3, <1>4

\* One element more.
LEMMA AppendFacts ==
    ASSUME NEW S, NEW s \in Seq(S), NEW e \in S
    PROVE  /\ Append(s, e) \in Seq(S) /\ Len(Append(s, e)) = Len(s) + 1
           /\ Len(s) \in Nat /\ Append(s, e) # <<>>
           /\ \A i \in 1..Len(s) : Append(s, e)[i] = s[i]
           /\ Append(s, e)[Len(s) + 1] = e
OBVIOUS

\* One queue before another.
LEMMA ConcatFacts ==
    ASSUME NEW S, NEW s \in Seq(S), NEW t \in Seq(S)
    PROVE  /\ s \o t \in Seq(S) /\ Len(s \o t) = Len(s) + Len(t)
           /\ Len(s) \in Nat /\ Len(t) \in Nat
           /\ \A i \in 1..Len(s) : (s \o t)[i] = s[i]
           /\ \A i \in 1..Len(t) : (s \o t)[Len(s) + i] = t[i]
           /\ \A i \in 1..Len(s \o t) :
                 i \in 1..Len(s) \/ (i - Len(s) \in 1..Len(t) /\ i \in Int)
<1>1. /\ s \o t \in Seq(S) /\ Len(s \o t) = Len(s) + Len(t)
      /\ Len(s) \in Nat /\ Len(t) \in Nat
  OBVIOUS
<1>2. \A i \in 1..Len(s) : (s \o t)[i] = s[i]
  OBVIOUS
<1>3. \A i \in 1..Len(t) : (s \o t)[Len(s) + i] = t[i]
  OBVIOUS
<1> QED BY <1>1, <1>2, <1>3

\* A task for each worker.
LEMMA PerWorker ==
    ASSUME NEW S, NEW f \in [Workers -> S]
    PROVE  /\ f \in Seq(S) /\ Workers = 1..Len(f) /\ DOMAIN f = Workers
<1> PICK n \in Nat : Workers = 1..n
  BY Bounds
<1> QED OBVIOUS

\* The records for the caches are a queue of CACHE_HITs.
LEMMA HitsTyped ==
    ASSUME caches \in SUBSET Workers
    PROVE  Hits \in Seq(ToRunner) /\ HitsOnly(Hits)
<1> DEFINE H == {[kind |-> "CACHE_HIT", w |-> w, pin |-> 0] : w \in caches}
           fits(f) == f \in [1..Cardinality(H) -> H] /\ IsInjective(f)
<1>1. IsFiniteSet(caches)
  BY Bounds, FS_Subset
<1>2. IsFiniteSet(H)
  <2> DEFINE g == [w \in caches |-> [kind |-> "CACHE_HIT", w |-> w, pin |-> 0]]
  <2>1. H = {g[w] : w \in caches}
    OBVIOUS
  <2>2. \A h \in H : \E w \in caches : g[w] = h
    BY <2>1
  <2>3. g \in Surjection(caches, H)
    BY <2>2 DEF Surjection
  <2> HIDE DEF g, H
  <2> QED BY <1>1, <2>3, FS_Surjection
<1>3. Cardinality(H) \in Nat /\ \E f : fits(f)
  <2>1. Cardinality(H) \in Nat
    <3> HIDE DEF H
    <3> QED BY <1>2, FS_CardinalityType
  <2>2. ExistsBijection(1..Cardinality(H), H)
    <3> HIDE DEF H
    <3> QED BY <1>2, <2>1, FS_CardinalityType
  <2>3. PICK f : f \in Bijection(1..Cardinality(H), H)
    <3> HIDE DEF H
    <3> QED BY <2>2 DEF ExistsBijection
  <2>4. fits(f)
    <3> HIDE DEF H
    <3> QED BY <2>3 DEF Bijection, Injection, IsInjective
  <2> QED BY <2>1, <2>4
<1>4. fits(Hits)
  <2>1. Hits = CHOOSE f \in [1..Cardinality(H) -> H] : IsInjective(f)
    BY DEF Hits, SetToSeq
  <2>2. \E f \in [1..Cardinality(H) -> H] : IsInjective(f)
    <3> HIDE DEF H
    <3> QED BY <1>3
  <2> HIDE DEF H
  <2> QED BY <2>1, <2>2
<1>5. H \subseteq ToRunner /\ \A h \in H : h.kind = "CACHE_HIT"
  BY PinsTyped DEF ToRunner
<1>6. Hits \in Seq(H) /\ Len(Hits) = Cardinality(H)
  <2> HIDE DEF H
  <2> QED BY <1>3, <1>4
<1> HIDE DEF H
<1>7. Hits \in Seq(ToRunner)
  BY <1>5, <1>6
<1>8. \A i \in 1..Len(Hits) : Hits[i] \in H
  BY <1>6
<1> QED BY <1>5, <1>7, <1>8 DEF HitsOnly, Kinds

-----------------------------------------------------------------------------
(* Types *)

\* What an agenda's task and a message name is what it should be.
LEMMA NamesTyped ==
    ASSUME TInv
    PROVE  /\ \A i \in 1..Len(agenda) :
                 /\ agenda[i] \in Tasks /\ agenda[i].w \in Workers
                 /\ agenda[i].op \in {"adopt", "settle", "release", "throw"}
                 /\ agenda[i].op = "adopt" => agenda[i].park \in Parks
           /\ agenda # <<>> => 1 \in 1..Len(agenda)
           /\ \A i \in 1..Len(toHost) :
                 /\ toHost[i] \in ToHost
                 /\ toHost[i].kind = "INTERLEAVE" => toHost[i].parks \in [Workers -> Parks]
                 /\ toHost[i].kind = "PARK" =>
                       toHost[i].w \in Workers /\ toHost[i].park \in Parks
           /\ toHost # <<>> => 1 \in 1..Len(toHost)
           /\ \A i \in 1..Len(toRunner) :
                 /\ toRunner[i] \in ToRunner
                 /\ toRunner[i].kind \in {"RESUME", "CACHE_HIT", "THROW"} =>
                       toRunner[i].w \in Workers
                 /\ toRunner[i].kind = "RESUME" => toRunner[i].pin \in Pins \cup {KEEP_PIN}
           /\ toRunner # <<>> => 1 \in 1..Len(toRunner)
<1>1. /\ agenda \in Seq(Tasks) /\ toHost \in Seq(ToHost) /\ toRunner \in Seq(ToRunner)
  BY DEF TInv, THost, TQueues
<1>2. \A i \in 1..Len(agenda) : agenda[i] \in Tasks
  BY <1>1
<1>3. \A i \in 1..Len(toHost) : toHost[i] \in ToHost
  BY <1>1
<1>4. \A i \in 1..Len(toRunner) : toRunner[i] \in ToRunner
  BY <1>1
<1>5. /\ agenda # <<>> => 1 \in 1..Len(agenda)
      /\ toHost # <<>> => 1 \in 1..Len(toHost)
      /\ toRunner # <<>> => 1 \in 1..Len(toRunner)
  BY <1>1
<1>6. \A t \in Tasks : /\ t.w \in Workers
                       /\ t.op \in {"adopt", "settle", "release", "throw"}
                       /\ t.op = "adopt" => t.park \in Parks
  BY DEF Tasks
<1>7. \A m \in ToHost :
          /\ m.kind = "INTERLEAVE" => m.parks \in [Workers -> Parks]
          /\ m.kind = "PARK" => m.w \in Workers /\ m.park \in Parks
  BY DEF ToHost
<1>8. \A m \in ToRunner :
          /\ m.kind \in {"RESUME", "CACHE_HIT", "THROW"} => m.w \in Workers
          /\ m.kind = "RESUME" => m.pin \in Pins \cup {KEEP_PIN}
  BY DEF ToRunner
<1> QED BY <1>2, <1>3, <1>4, <1>5, <1>6, <1>7, <1>8

\* adopt() keeps the park, but for a relaxed pin.
LEMMA Adopts ==
    ASSUME TInv, NEW w \in Workers, NEW park \in Parks, adopt(w, park)
    PROVE  /\ pend' \in [Workers -> Parks] /\ hpin' \in [Workers -> Pins]
           /\ \A v \in Workers \ {w} : pend'[v] = pend[v] /\ hpin'[v] = hpin[v]
           /\ pend'[w].event = park.event /\ pend'[w].loc = park.loc
           /\ ~IsModel(park) => pend'[w] = park /\ hpin'[w] = hpin[w]
           /\ IsModel(park) => hpin'[w] = park.pin
           /\ IsModel(park) => pend'[w].pin = IF park.pin = Relaxed
                                             THEN Count(park.loc, visit) ELSE park.pin
<1> DEFINE p == IF IsModel(park) /\ park.pin = Relaxed
                THEN [park EXCEPT !.pin = Count(park.loc, visit)] ELSE park
<1>1. Count(park.loc, visit) \in Pins
  BY CountTyped, PinsTyped DEF TInv, THost
<1>2. /\ p \in Parks /\ p.event = park.event /\ p.loc = park.loc
      /\ ~IsModel(park) => p = park
      /\ IsModel(park) => p.pin = IF park.pin = Relaxed
                                  THEN Count(park.loc, visit) ELSE park.pin
  BY <1>1 DEF Parks
<1>3. pend' = [pend EXCEPT ![w] = p]
  BY DEF adopt
<1>4. hpin' = IF IsModel(park) THEN [hpin EXCEPT ![w] = park.pin] ELSE hpin
  BY DEF adopt
<1>5. park.pin \in Pins
  BY DEF Parks
<1> HIDE DEF p
<1> QED BY <1>2, <1>3, <1>4, <1>5 DEF TInv, THost

\* An arrival leaves a round of workers, and tasks to release them.
LEMMA ArrivalTyped ==
    ASSUME TInv, NEW w \in Workers, NEW park, NEW rest \in Seq(Tasks),
           barrier_arrival(w, park, rest)
    PROVE  waiting' \in Seq(Workers) /\ agenda' \in Seq(Tasks)
<1> DEFINE round == Append(waiting, w)
           freed == [i \in DOMAIN round |-> Task("release", round[i])]
<1>1. round \in Seq(Workers) /\ <<>> \in Seq(Workers)
  BY DEF TInv, THost
<1>2. \A v \in Workers : Task("release", v) \in Tasks
  BY DEF Task, Tasks
<1>3. freed \in Seq(Tasks)
  <2> HIDE DEF round
  <2> QED BY <1>1, <1>2
<1>4. freed \o rest \in Seq(Tasks)
  <2> HIDE DEF freed
  <2> QED BY <1>3
<1>5. /\ waiting' \in {waiting, <<>>, round}
      /\ agenda' \in {rest, freed \o rest}
  BY DEF barrier_arrival
<1>6. waiting \in Seq(Workers)
  BY DEF TInv, THost
<1> HIDE DEF round, freed
<1> QED BY <1>1, <1>4, <1>5, <1>6

\* Sending a message, or losing the request.
LEMMA SendTyped ==
    ASSUME TInv, NEW m \in ToRunner, SendOrLose(m)
    PROVE  /\ toRunner' \in Seq(ToRunner) /\ hpc' \in {"await", "over"}
           /\ outcome' \in {outcome, "lost"}
<1>1. toRunner \in Seq(ToRunner)
  BY DEF TInv, TQueues
<1>2. Append(toRunner, m) \in Seq(ToRunner)
  BY <1>1
<1> QED BY <1>1, <1>2 DEF SendOrLose, Over

\* Tasks and messages as they are made.
LEMMA MadeTyped ==
    ASSUME NEW w \in Workers
    PROVE  /\ Task("settle", w) \in Tasks /\ Task("throw", w) \in Tasks
           /\ Task("release", w) \in Tasks
           /\ \A p \in Pins \cup {KEEP_PIN} : Resume(w, p) \in ToRunner
           /\ \A why \in {"BARRIER", "ITER", "OUT_OF_ORDER"} :
                 [kind |-> "THROW", w |-> w, why |-> why] \in ToRunner
           /\ \A p \in Parks : /\ [kind |-> "PARK", w |-> w, park |-> p] \in ToHost
                               /\ [op |-> "adopt", park |-> p, w |-> w] \in Tasks
<1>1. /\ Task("settle", w) \in Tasks /\ Task("throw", w) \in Tasks
      /\ Task("release", w) \in Tasks
  BY DEF Task, Tasks
<1>2. \A p \in Pins \cup {KEEP_PIN} : Resume(w, p) \in ToRunner
  BY DEF Resume, ToRunner
<1>3. \A why \in {"BARRIER", "ITER", "OUT_OF_ORDER"} :
          [kind |-> "THROW", w |-> w, why |-> why] \in ToRunner
  BY DEF ToRunner
<1>4. \A p \in Parks : [kind |-> "PARK", w |-> w, park |-> p] \in ToHost
  BY DEF ToHost
<1>5. \A p \in Parks : [op |-> "adopt", park |-> p, w |-> w] \in Tasks
  BY DEF Tasks
<1> QED BY <1>1, <1>2, <1>3, <1>4, <1>5

\* And the messages that are about nobody.
LEMMA BareTyped ==
    /\ [kind |-> "DONE"] \in ToRunner
    /\ \A f \in [Workers -> Parks] : [kind |-> "INTERLEAVE", parks |-> f] \in ToHost
    /\ \A k \in {"STOP", "EXCEPTION", "END"} : [kind |-> k] \in ToHost
BY DEF ToRunner, ToHost

\* The first states.
LEMMA InitTyped ==
    ASSUME Init
    PROVE  TInv
<1>1. <<>> \in Seq(Tasks) /\ <<>> \in Seq(Workers) /\ <<>> \in Seq(ToHost)
      /\ <<>> \in Seq(ToRunner)
  OBVIOUS
<1>2. /\ Zeros \in [Workers -> 0..MaxStep] /\ Zeros \in [Workers -> Nat]
      /\ \A w \in Workers : Zeros[w] <= MaxParks[w]
  BY Bounds DEF Zeros
<1>3. 1 \in 1..Len(Visits) /\ 0 \in 0..MaxTraces /\ 0 \in 0..MaxKills
  BY Bounds, VisitsSeq
<1>4. THost
  BY <1>1, <1>3, FixedParks DEF Init, THost
<1>5. TRunner
  BY <1>1, <1>2, <1>3, FixedParks DEF Init, TRunner
<1> QED BY <1>1, <1>4, <1>5 DEF Init, TInv, TQueues

\* What a proxy's worker is sent back with is a pin.
LEMMA SwitchPins ==
    ASSUME TInv, NEW w \in Workers, switch(w)
    PROVE  hpin' \in [Workers -> Pins] /\ hpin'[w] \in Pins
           /\ (hpin'[w] = hpin[w] \/ hpin'[w] = Relaxed)
           /\ \A v \in Workers \ {w} : hpin'[v] = hpin[v]
<1>1. hpin \in [Workers -> Pins] /\ Relaxed \in Pins
  BY PinsTyped DEF TInv, THost
<1>2. hpin' \in {hpin, [hpin EXCEPT ![w] = Relaxed]}
  BY DEF switch
<1> QED BY <1>1, <1>2

\* The steps of the host that send nothing.
LEMMA QuietHostTyped ==
    ASSUME TInv,
           \/ HostInterleave \/ BuildProxy \/ HostParked \/ HostStopped
           \/ HostMisreads \/ next_event \/ HostEnter \/ ForwardFails \/ HostEnd
    PROVE  TInv'
<1>1. TRunner'
  BY DEF TInv, TRunner, HostInterleave, BuildProxy, HostParked, HostStopped,
     HostMisreads, next_event, HostEnter, ForwardFails, HostEnd, runnerVars, workerVars, runVars
<1>2. toHost \in Seq(ToHost) /\ toRunner \in Seq(ToRunner) /\ agenda \in Seq(Tasks)
  BY DEF TInv, TQueues, THost
<1>3. toHost # <<>> => Tail(toHost) \in Seq(ToHost)
  BY <1>2
<1>4. TQueues'
  BY <1>2, <1>3 DEF TQueues, HostInterleave, BuildProxy, HostParked, HostStopped,
     HostMisreads, next_event, HostEnter, ForwardFails, HostEnd
<1>5. ASSUME HostInterleave PROVE THost'
  <2> DEFINE parks == toHost[1].parks
             f == [w \in Workers |-> [op |-> "adopt", park |-> parks[w], w |-> w]]
             g == [w \in Workers |-> Task("settle", w)]
  <2>1. parks \in [Workers -> Parks]
    BY <1>5, NamesTyped DEF HostInterleave
  <2>2. \A w \in Workers : /\ [op |-> "adopt", park |-> parks[w], w |-> w] \in Tasks
                           /\ Task("settle", w) \in Tasks
    <3> HIDE DEF parks
    <3> QED BY <2>1, MadeTyped
  <2>3. f \in [Workers -> Tasks] /\ g \in [Workers -> Tasks]
    <3> HIDE DEF parks
    <3> QED BY <2>2
  <2>4. f \in Seq(Tasks) /\ g \in Seq(Tasks)
    <3> HIDE DEF f, g
    <3> QED BY <2>3, PerWorker
  <2>5. f \o g \in Seq(Tasks)
    <3> HIDE DEF f, g
    <3> QED BY <2>4
  <2>6. agenda' = f \o g
    BY <1>5 DEF HostInterleave
  <2>7. <<>> \in Seq(Workers)
    OBVIOUS
  <2> HIDE DEF f, g
  <2> QED BY <1>5, <2>5, <2>6, <2>7 DEF TInv, THost, HostInterleave
<1>6. ASSUME BuildProxy PROVE THost'
  <2> DEFINE w == agenda[1].w
             park == agenda[1].park
  <2>1. w \in Workers /\ park \in Parks
    BY <1>6, NamesTyped DEF BuildProxy, Working
  <2>2. Tail(agenda) \in Seq(Tasks)
    BY <1>2, <1>6 DEF BuildProxy, Working
  <2>3. adopt(w, park) /\ barrier_arrival(w, park, Tail(agenda))
    BY <1>6 DEF BuildProxy
  <2> HIDE DEF w, park
  <2>4. pend' \in [Workers -> Parks] /\ hpin' \in [Workers -> Pins]
    BY <2>1, <2>3, Adopts
  <2>5. waiting' \in Seq(Workers) /\ agenda' \in Seq(Tasks)
    BY <2>1, <2>2, <2>3, ArrivalTyped
  <2> QED BY <1>6, <2>4, <2>5 DEF TInv, THost, BuildProxy, Working, serveVars
<1>7. ASSUME HostParked PROVE THost'
  <2> DEFINE w == agenda[1].w
             park == toHost[1].park
  <2>1. w \in Workers /\ park \in Parks
    BY <1>7, NamesTyped DEF HostParked, TInv, THost
  <2>3. adopt(w, park) /\ barrier_arrival(w, park, agenda)
    BY <1>7 DEF HostParked
  <2> HIDE DEF w, park
  <2>4. pend' \in [Workers -> Parks] /\ hpin' \in [Workers -> Pins]
    BY <2>1, <2>3, Adopts
  <2>5. waiting' \in Seq(Workers) /\ agenda' \in Seq(Tasks)
    BY <1>2, <2>1, <2>3, ArrivalTyped
  <2> QED BY <1>7, <2>4, <2>5 DEF TInv, THost, HostParked, serveVars
<1>8. ASSUME HostStopped PROVE THost'
  <2> DEFINE f == [w \in Workers |-> Task("throw", w)]
  <2>1. f \in [Workers -> Tasks]
    BY MadeTyped
  <2>2. f \in Seq(Tasks)
    <3> HIDE DEF f
    <3> QED BY <2>1, PerWorker
  <2>3. agenda' \in {agenda, f} /\ outcome' \in {outcome, "stopped"}
        /\ hpc' \in {"over", "work"} /\ phase' \in {phase, "dangle"}
    BY <1>8 DEF HostStopped, Over
  <2> HIDE DEF f
  <2> QED BY <1>2, <1>8, <2>2, <2>3 DEF TInv, THost, HostStopped, proxyVars, serveVars
<1>9. ASSUME \/ next_event \/ HostEnter \/ ForwardFails \/ HostEnd
      PROVE  THost'
  BY <1>9 DEF TInv, THost, next_event, HostEnter, ForwardFails, HostEnd, Over,
     proxyVars, serveVars
<1>10. ASSUME HostMisreads PROVE THost'
  <2>1. PICK w \in Workers : w = agenda[1].w
    BY <1>10, NamesTyped DEF HostMisreads, TInv, THost
  <2>2. /\ pend' \in {pend, [pend EXCEPT ![w] = Foreign]}
        /\ hpin' \in {hpin, [hpin EXCEPT ![w] = Relaxed]}
        /\ hpc' \in {"work", "over"} /\ outcome' \in {outcome, "misread"}
    BY <1>10, <2>1 DEF HostMisreads, Over
  <2>3. Foreign \in Parks /\ Relaxed \in Pins
    BY PinsTyped DEF Foreign, Park, Parks
  <2>4. pend' \in [Workers -> Parks] /\ hpin' \in [Workers -> Pins]
    BY <2>2, <2>3 DEF TInv, THost
  <2> QED BY <1>10, <2>2, <2>4 DEF TInv, THost, HostMisreads, serveVars
<1> QED BY <1>1, <1>4, <1>5, <1>6, <1>7, <1>8, <1>9, <1>10 DEF TInv

\* The steps of the host that may send.
LEMMA SendingHostTyped ==
    ASSUME TInv,
           \/ release \/ settle_control \/ MoveOn \/ check_dangling \/ HostDone
           \/ \E w \in Workers : switch(w)
    PROVE  TInv'
<1>1. TRunner'
  BY DEF TInv, TRunner, release, settle_control, MoveOn, check_dangling, HostDone,
     switch, runnerVars, workerVars, runVars
<1>2. toHost \in Seq(ToHost) /\ toRunner \in Seq(ToRunner) /\ agenda \in Seq(Tasks)
  BY DEF TInv, TQueues, THost
<1>3. agenda # <<>> => Tail(agenda) \in Seq(Tasks) /\ agenda[1].w \in Workers
  BY <1>2, NamesTyped
<1>4. toHost' = toHost
  BY DEF release, settle_control, MoveOn, check_dangling, HostDone, switch
<1>5. KEEP_PIN \in Pins \cup {KEEP_PIN}
  OBVIOUS
<1>6. ASSUME release PROVE THost' /\ TQueues'
  <2> PICK w \in Workers : /\ agenda # <<>> /\ w = agenda[1].w
                           /\ agenda' = <<Task("settle", w)>> \o Tail(agenda)
                           /\ SendOrLose(Resume(w, KEEP_PIN))
    BY <1>3, <1>6 DEF release, Working
  <2>1. Task("settle", w) \in Tasks /\ Resume(w, KEEP_PIN) \in ToRunner
    BY <1>5, MadeTyped
  <2>2. /\ toRunner' \in Seq(ToRunner) /\ hpc' \in {"await", "over"}
        /\ outcome' \in {outcome, "lost"}
    BY <2>1, SendTyped
  <2>3. <<Task("settle", w)>> \in Seq(Tasks) /\ Tail(agenda) \in Seq(Tasks)
    BY <1>3, <2>1
  <2>4. agenda' \in Seq(Tasks)
    BY <2>3
  <2> QED BY <1>2, <1>4, <1>6, <2>2, <2>4
          DEF TInv, THost, TQueues, release, proxyVars, serveVars
<1>7. ASSUME settle_control PROVE THost' /\ TQueues'
  <2> PICK w \in Workers : agenda # <<>> /\ w = agenda[1].w
    BY <1>3, <1>7 DEF settle_control, Working
  <2>1. \/ /\ install_source(pend[w]) /\ attach_cache(w, pend[w])
           /\ SendOrLose(Resume(w, KEEP_PIN)) /\ agenda' = agenda
        \/ /\ agenda' = Tail(agenda)
           /\ UNCHANGED <<armed, sourced, caches, hpc, outcome, toRunner>>
    BY <1>7 DEF settle_control
  <2>2. hpc = "work" /\ UNCHANGED <<phase, pend, hpin, waiting, visit, owed>>
    BY <1>7 DEF settle_control, run_module, proxyVars, Working
  <2>3. CASE agenda' = Tail(agenda)
             /\ UNCHANGED <<armed, sourced, caches, hpc, outcome, toRunner>>
    BY <1>2, <1>3, <1>4, <2>2, <2>3 DEF TInv, THost, TQueues
  <2>4. CASE /\ install_source(pend[w]) /\ attach_cache(w, pend[w])
             /\ SendOrLose(Resume(w, KEEP_PIN)) /\ agenda' = agenda
    <3>1. Resume(w, KEEP_PIN) \in ToRunner
      BY <1>5, MadeTyped
    <3>2. /\ toRunner' \in Seq(ToRunner) /\ hpc' \in {"await", "over"}
          /\ outcome' \in {outcome, "lost"}
      BY <2>4, <3>1, SendTyped
    <3>3. sourced' \in {sourced, "armed"} /\ armed' \in {armed, TRUE}
      BY <2>4 DEF install_source
    <3>4. caches' \in SUBSET Workers
      BY <2>4 DEF attach_cache, TInv, THost
    <3> QED BY <1>2, <1>4, <2>2, <2>4, <3>2, <3>3, <3>4 DEF TInv, THost, TQueues
  <2> QED BY <2>1, <2>3, <2>4
<1>8. ASSUME NEW w \in Workers, switch(w) PROVE THost' /\ TQueues'
  <2>1. hpin' \in [Workers -> Pins] /\ hpin'[w] \in Pins
    BY <1>8, SwitchPins
  <2>2. Task("settle", w) \in Tasks /\ Resume(w, hpin'[w]) \in ToRunner
    BY <2>1, MadeTyped
  <2>3. /\ agenda' = <<Task("settle", w)>> /\ SendOrLose(Resume(w, hpin'[w]))
    BY <1>8 DEF switch
  <2>4. /\ toRunner' \in Seq(ToRunner) /\ hpc' \in {"await", "over"}
        /\ outcome' \in {outcome, "lost"}
    <3> DEFINE m == Resume(w, hpin'[w])
    <3>1. m \in ToRunner /\ SendOrLose(m)
      BY <2>2, <2>3
    <3> HIDE DEF m
    <3> QED BY <3>1, SendTyped
  <2>5. agenda' \in Seq(Tasks)
    BY <2>2, <2>3
  <2>6. sourced' \in {sourced, "armed", "built"} /\ owed' \in SUBSET Workers
    BY <1>8 DEF switch, serve_recursive_source, TInv, THost
  <2> QED BY <1>2, <1>4, <1>8, <2>1, <2>4, <2>5, <2>6 DEF TInv, THost, TQueues, switch
<1>9. ASSUME MoveOn PROVE THost' /\ TQueues'
  <2> DEFINE f == [w \in Workers |-> Task("throw", w)]
  <2>1. f \in [Workers -> Tasks]
    BY MadeTyped
  <2>2. f \in Seq(Tasks)
    <3> HIDE DEF f
    <3> QED BY <2>1, PerWorker
  <2>3. Hits \in Seq(ToRunner) /\ <<>> \in Seq(ToRunner)
    BY HitsTyped DEF TInv, THost
  <2>4. toRunner \o Hits \in Seq(ToRunner) /\ toRunner \o <<>> \in Seq(ToRunner)
    BY <1>2, <2>3
  <2>5. toRunner' \in {toRunner \o Hits, toRunner \o <<>>}
    BY <1>9 DEF MoveOn
  <2>6. /\ phase' \in {phase, "dangle"} /\ agenda' \in {agenda, f}
        /\ visit' = visit \/ (visit < Len(Visits) /\ visit' = visit + 1)
    BY <1>9 DEF MoveOn
  <2>7. visit' \in 1..Len(Visits)
    BY <2>6, VisitsSeq DEF TInv, THost
  <2>8. toRunner' \in Seq(ToRunner)
    BY <2>4, <2>5
  <2> HIDE DEF f
  <2> QED BY <1>2, <1>4, <1>9, <2>2, <2>6, <2>7, <2>8
          DEF TInv, THost, TQueues, MoveOn, Serving, proxyVars
<1>10. ASSUME check_dangling PROVE THost' /\ TQueues'
  <2> PICK w \in Workers : agenda # <<>> /\ w = agenda[1].w
    BY <1>3, <1>10 DEF check_dangling, Working
  <2> DEFINE m == [kind |-> "THROW", w |-> w, why |-> Kind(w)]
  <2>1. m \in ToRunner
    BY MadeTyped DEF Kind
  <2>2. Append(toRunner, m) \in Seq(ToRunner)
    <3> HIDE DEF m
    <3> QED BY <1>2, <2>1
  <2>3. toRunner' \in {toRunner, Append(toRunner, m)} /\ agenda' \in {Tail(agenda), <<>>}
    BY <1>10 DEF check_dangling
  <2>4. <<>> \in Seq(Tasks)
    OBVIOUS
  <2> HIDE DEF m
  <2> QED BY <1>2, <1>3, <1>4, <1>10, <2>2, <2>3, <2>4
          DEF TInv, THost, TQueues, check_dangling, Working, proxyVars, serveVars
<1>11. ASSUME HostDone PROVE THost' /\ TQueues'
  <2>1. Append(toRunner, [kind |-> "DONE"]) \in Seq(ToRunner)
    BY <1>2, BareTyped
  <2>2. toRunner' \in {toRunner, Append(toRunner, [kind |-> "DONE"])}
    BY <1>11 DEF HostDone
  <2>3. 1 \in 1..Len(Visits)
    BY VisitsSeq
  <2> QED BY <1>2, <1>4, <1>11, <2>1, <2>2, <2>3, FixedParks
          DEF TInv, THost, TQueues, HostDone
<1> QED BY <1>1, <1>6, <1>7, <1>8, <1>9, <1>10, <1>11 DEF TInv

\* Saying something to the host.
LEMMA SayTyped ==
    ASSUME TInv, NEW m \in ToHost, Say(m)
    PROVE  toHost' \in Seq(ToHost)
<1>1. toHost \in Seq(ToHost)
  BY DEF TInv, TQueues
<1> QED BY <1>1 DEF Say

\* Where the resumed worker goes: it parks there, with that pin and loop step.
ResumesTo(w, park, pin, step) ==
    /\ rpc = "pump" /\ toRunner # <<>> /\ toRunner[1].kind = "RESUME"
    /\ w = toRunner[1].w
    /\ wpark' = [wpark EXCEPT ![w] = park] /\ wpin' = [wpin EXCEPT ![w] = pin]
    /\ wstep' = [wstep EXCEPT ![w] = step]
    /\ reads' = [reads EXCEPT ![w] = read_of(park)]
    /\ \/ pin = step
       \/ /\ step = wstep[w]
          /\ pin = IF toRunner[1].pin = KEEP_PIN THEN wpin[w] ELSE toRunner[1].pin
    /\ IsModel(park) => park.pin = pin
    /\ OnFn(park) => wpark[w] = ipc_recursive_source
    /\ \/ /\ reads[w] = Finished /\ UNCHANGED <<rpc, held>>
          /\ Say([kind |-> "PARK", w |-> w, park |-> park])
       \/ /\ reads[w] # Finished /\ rpc' = "absorb" /\ held' = w
          /\ Say([kind |-> "PARK", w |-> w,
                  park |-> [reads[w] EXCEPT !.event = "SWAP"]])

\* It does go somewhere.
LEMMA ResumeGoes ==
    ASSUME TInv, RunnerResume
    PROVE  \E w \in Workers, park \in Parks, pin \in Pins, step \in 0..MaxStep :
               ResumesTo(w, park, pin, step)
<1> DEFINE w == toRunner[1].w
           pin == IF toRunner[1].pin = KEEP_PIN THEN wpin[w] ELSE toRunner[1].pin
<1>1. /\ rpc = "pump" /\ toRunner # <<>> /\ toRunner[1].kind = "RESUME"
  BY DEF RunnerResume, Reading
<1>2. w \in Workers /\ toRunner[1].pin \in Pins \cup {KEEP_PIN}
  BY <1>1, NamesTyped
<1>3. /\ wpark[w] \in Parks /\ pin \in Pins /\ wstep[w] \in 0..MaxStep
  BY <1>2 DEF TInv, TRunner
<1>4. PICK next \in NextParks(wpark[w], pin, wstep[w]) \cup {<<Finished, pin, wstep[w]>>} :
        /\ wpark' = [wpark EXCEPT ![w] = next[1]]
        /\ wpin' = [wpin EXCEPT ![w] = next[2]]
        /\ wstep' = [wstep EXCEPT ![w] = next[3]]
        /\ reads' = [reads EXCEPT ![w] = read_of(next[1])]
        /\ \/ /\ reads[w] = Finished /\ UNCHANGED <<rpc, held>>
              /\ Say([kind |-> "PARK", w |-> w, park |-> next[1]])
           \/ /\ reads[w] # Finished /\ rpc' = "absorb" /\ held' = w
              /\ Say([kind |-> "PARK", w |-> w,
                      park |-> [reads[w] EXCEPT !.event = "SWAP"]])
  BY DEF RunnerResume
<1> HIDE DEF pin, w
<1>5. /\ next[1] \in Parks /\ next[2] \in Pins /\ next[3] \in 0..MaxStep
      /\ \/ next[2] = next[3]
         \/ next[3] = wstep[w] /\ next[2] = pin
      /\ IsModel(next[1]) => next[1].pin = next[2]
      /\ OnFn(next[1]) => wpark[w] = ipc_recursive_source
  <2>1. CASE next \in NextParks(wpark[w], pin, wstep[w])
    BY <1>3, <2>1, NextTyped
  <2>2. CASE next = <<Finished, pin, wstep[w]>>
    <3>1. ~IsModel(Finished)
      BY DEF IsModel, Finished, Park
    <3> QED BY <1>3, <2>2, <3>1, FixedParks DEF OnFn
  <2> QED BY <2>1, <2>2
<1>6. \/ next[2] = next[3]
      \/ /\ next[3] = wstep[w]
         /\ next[2] = IF toRunner[1].pin = KEEP_PIN THEN wpin[w] ELSE toRunner[1].pin
  BY <1>5 DEF pin
<1>7. w = toRunner[1].w
  BY DEF w
<1>8. ResumesTo(w, next[1], next[2], next[3])
  BY <1>1, <1>4, <1>5, <1>6, <1>7 DEF ResumesTo
<1> QED BY <1>2, <1>5, <1>8

\* The first parks of a trace.
LEMMA InterleaveGoes ==
    ASSUME TInv, RunnerInterleave
    PROVE  /\ wpark' \in [Workers -> Parks] /\ wpin' \in [Workers -> Pins]
           /\ wstep' \in [Workers -> 0..MaxStep] /\ reads' \in [Workers -> Parks]
           /\ \A w \in Workers : /\ wpin'[w] = wstep'[w]
                                 /\ IsModel(wpark'[w]) => wpark'[w].pin = wpin'[w]
                                 /\ reads'[w] = read_of(wpark'[w])
                                 /\ ~OnFn(wpark'[w])
<1>1. PICK f \in [Workers -> NextParks(Finished, 0, 0) \cup {<<Finished, 0, 0>>}] :
          /\ wpark' = [w \in Workers |-> f[w][1]]
          /\ wpin' = [w \in Workers |-> f[w][2]]
          /\ wstep' = [w \in Workers |-> f[w][3]]
  BY DEF RunnerInterleave
<1>2. /\ Finished \in Parks /\ 0 \in Pins /\ 0 \in 0..MaxStep
      /\ Finished # ipc_recursive_source /\ ~IsModel(Finished)
  BY FixedParks, PinsTyped, Bounds DEF Finished, ipc_recursive_source, Park, IsModel
<1>3. ASSUME NEW w \in Workers
      PROVE  /\ f[w][1] \in Parks /\ f[w][2] \in Pins /\ f[w][3] \in 0..MaxStep
             /\ f[w][2] = f[w][3] /\ (IsModel(f[w][1]) => f[w][1].pin = f[w][2])
             /\ ~OnFn(f[w][1])
  <2>1. CASE f[w] \in NextParks(Finished, 0, 0)
    BY <1>2, <2>1, NextTyped
  <2>2. CASE f[w] = <<Finished, 0, 0>>
    BY <1>2, <2>2 DEF OnFn
  <2> QED BY <2>1, <2>2
<1>4. \A park \in Parks : read_of(park) \in Parks
  BY <1>2 DEF read_of
<1>5. reads' = [w \in Workers |-> read_of(wpark'[w])]
  BY DEF RunnerInterleave
<1>6. /\ wpark' \in [Workers -> Parks] /\ wpin' \in [Workers -> Pins]
      /\ wstep' \in [Workers -> 0..MaxStep]
  BY <1>1, <1>3
<1>7. \A w \in Workers : wpark'[w] = f[w][1] /\ wpin'[w] = f[w][2] /\ wstep'[w] = f[w][3]
  BY <1>1
<1>8. reads' \in [Workers -> Parks] /\ \A w \in Workers : reads'[w] = read_of(wpark'[w])
  BY <1>4, <1>5, <1>6
<1> QED BY <1>3, <1>6, <1>7, <1>8

\* The steps of the runner.
LEMMA RunnerTyped ==
    ASSUME TInv, RunnerNext
    PROVE  TInv'
<1>1. THost'
  BY DEF RunnerNext, RunnerInterleave, RunnerResume, writeback, RunnerStop, throw,
     RunnerDone, CacheHit, RunnerEnd, BlockRaises, BlockCatches, Killed, RunnerLost,
     hostVars, proxyVars, serveVars, TInv, THost
<1>2. toHost \in Seq(ToHost) /\ toRunner \in Seq(ToRunner)
  BY DEF TInv, TQueues
<1>14. \A m \in ToHost : Append(toHost, m) \in Seq(ToHost)
  BY <1>2
<1>3. toRunner # <<>> => Tail(toRunner) \in Seq(ToRunner) /\ toRunner[1] \in ToRunner
  BY <1>2
<1>4. /\ Zeros \in [Workers -> 0..MaxStep] /\ Zeros \in [Workers -> Nat]
      /\ \A w \in Workers : Zeros[w] <= MaxParks[w]
  BY Bounds DEF Zeros
<1>5. ASSUME Cancel PROVE /\ wpark' \in [Workers -> Parks] /\ wpin' \in [Workers -> Pins]
                          /\ wstep' \in [Workers -> 0..MaxStep]
                          /\ left' \in [Workers -> Nat]
                          /\ \A w \in Workers : left'[w] <= MaxParks[w]
                          /\ reads' \in [Workers -> Parks] /\ held' = 0 /\ rpc' = "block"
  BY <1>4, <1>5, FixedParks DEF Cancel
<1>15. ASSUME Leave PROVE Cancel /\ course' \in {"on", "left", "astray"}
  BY <1>15 DEF Leave, TInv, TRunner
<1>6. ASSUME RunnerInterleave PROVE TRunner' /\ TQueues'
  <2>1. Say([kind |-> "INTERLEAVE", parks |-> wpark'])
    BY <1>6 DEF RunnerInterleave
  <2>2. toHost' \in Seq(ToHost)
    <3> DEFINE m == [kind |-> "INTERLEAVE", parks |-> wpark']
    <3>1. m \in ToHost /\ Say(m)
      BY <1>6, <2>1, InterleaveGoes, BareTyped
    <3> HIDE DEF m
    <3> QED BY <3>1, SayTyped
  <2>3. left' \in [Workers -> Nat] /\ \A w \in Workers : left'[w] <= MaxParks[w]
    BY <1>6, Bounds DEF RunnerInterleave
  <2>4. trace' \in 0..MaxTraces
    BY <1>6, Bounds DEF RunnerInterleave, TInv, TRunner
  <2> QED BY <1>2, <1>6, <2>2, <2>3, <2>4, InterleaveGoes
          DEF RunnerInterleave, TInv, TRunner, TQueues
<1>7. ASSUME RunnerResume PROVE TRunner' /\ TQueues'
  <2>1. PICK w \in Workers, park \in Parks, pin \in Pins, step \in 0..MaxStep :
             ResumesTo(w, park, pin, step)
    BY <1>7, ResumeGoes
  <2>2. reads[w] \in Parks /\ read_of(park) \in Parks
    BY FixedParks DEF TInv, TRunner, read_of
  <2>3. [reads[w] EXCEPT !.event = "SWAP"] \in Parks
    BY <2>2 DEF Parks
  <2>4. /\ [kind |-> "PARK", w |-> w, park |-> park] \in ToHost
        /\ [kind |-> "PARK", w |-> w,
            park |-> [reads[w] EXCEPT !.event = "SWAP"]] \in ToHost
    BY <2>3, MadeTyped
  <2>5. toHost' \in Seq(ToHost)
    BY <1>14, <2>1, <2>4 DEF Say, ResumesTo
  <2>6. \E v \in Workers : left' = [left EXCEPT ![v] = IF @ = 0 THEN 0 ELSE @ - 1]
    <3>1. toRunner[1].w \in Workers
      BY <1>7, NamesTyped DEF RunnerResume, Reading
    <3> QED BY <1>7, <3>1 DEF RunnerResume
  <2>7. left' \in [Workers -> Nat] /\ \A v \in Workers : left'[v] <= MaxParks[v]
    BY <2>6, Bounds DEF TInv, TRunner
  <2>8. /\ wpark' \in [Workers -> Parks] /\ wpin' \in [Workers -> Pins]
        /\ wstep' \in [Workers -> 0..MaxStep] /\ reads' \in [Workers -> Parks]
    BY <2>1, <2>2 DEF TInv, TRunner, ResumesTo
  <2>9. /\ rpc' \in {"pump", "absorb"} /\ held' \in Workers \cup {0}
        /\ rpc' = "absorb" => held' \in Workers
    BY <2>1 DEF TInv, TRunner, ResumesTo
  <2>10. toRunner' = Tail(toRunner) /\ UNCHANGED <<trace, size, dropped, raised, course, kills>>
    BY <1>7 DEF RunnerResume
  <2>11. toRunner # <<>>
    BY <2>1 DEF ResumesTo
  <2> QED BY <1>3, <2>5, <2>7, <2>8, <2>9, <2>10, <2>11 DEF TInv, TRunner, TQueues
<1>8. ASSUME writeback PROVE TRunner' /\ TQueues'
  <2>1. held \in Workers /\ wpark[held] \in Parks
    BY <1>8 DEF writeback, TInv, TRunner
  <2>2. toHost' \in Seq(ToHost)
    BY <1>2, <1>14, <1>8, <2>1, MadeTyped DEF writeback, Say
  <2> QED BY <1>3, <1>8, <2>2 DEF writeback, TInv, TRunner, TQueues
<1>9. ASSUME RunnerStop \/ RunnerDone \/ BlockCatches PROVE TRunner' /\ TQueues'
  <2>1. Cancel /\ toRunner # <<>> /\ toRunner' = Tail(toRunner)
        /\ UNCHANGED <<trace, size, raised, kills>> /\ dropped' \in SUBSET Workers
        /\ course' \in {"on", "left", "astray"}
    BY <1>9, <1>15 DEF RunnerStop, RunnerDone, BlockCatches, Reading, TInv, TRunner
  <2>2. toHost' \in Seq(ToHost)
    BY <1>2, <1>14, <1>9, BareTyped DEF RunnerStop, RunnerDone, BlockCatches, Say
  <2> QED BY <1>3, <1>5, <2>1, <2>2 DEF TInv, TRunner, TQueues
<1>10. ASSUME throw PROVE TRunner' /\ TQueues'
  <2>1. /\ toRunner # <<>> /\ toRunner' = Tail(toRunner)
        /\ UNCHANGED <<trace, size, kills>>
    BY <1>10 DEF throw, Reading
  <2>2. PICK w \in Workers : w = toRunner[1].w
    BY <1>10, NamesTyped DEF throw, Reading
  <2>3. toHost' \in Seq(ToHost) /\ raised' \in BOOLEAN
    <3>1. UNCHANGED <<raised, toHost>> \/ Report
      BY <1>10 DEF throw
    <3>2. CASE UNCHANGED <<raised, toHost>>
      BY <1>2, <3>2 DEF TInv, TRunner
    <3>3. CASE Report
      BY <1>14, <3>3, BareTyped DEF Report, Say
    <3> QED BY <3>1, <3>2, <3>3
  <2>4. CASE Leave /\ UNCHANGED dropped
    BY <1>3, <1>5, <1>15, <2>1, <2>3, <2>4 DEF TInv, TRunner, TQueues
  <2>5. CASE /\ UNCHANGED <<wpin, wstep, left, reads, held>>
             /\ wpark' \in {wpark, [wpark EXCEPT ![w] = Finished]}
             /\ dropped' \in {dropped, dropped \cup {w}}
             /\ rpc' \in {rpc, "over"} /\ course' \in {course, "astray"}
    <3>1. wpark' \in [Workers -> Parks] /\ dropped' \in SUBSET Workers
      BY <2>5, FixedParks DEF TInv, TRunner
    <3> QED BY <1>3, <2>1, <2>3, <2>5, <3>1 DEF TInv, TRunner, TQueues
  <2>6. \/ Leave /\ UNCHANGED dropped
        \/ /\ UNCHANGED <<wpin, wstep, left, reads, held>>
           /\ wpark' \in {wpark, [wpark EXCEPT ![w] = Finished]}
           /\ dropped' \in {dropped, dropped \cup {w}}
           /\ rpc' \in {rpc, "over"} /\ course' \in {course, "astray"}
    BY <1>10, <2>2 DEF throw, Report, workerVars
  <2> QED BY <2>4, <2>5, <2>6
<1>11. ASSUME CacheHit PROVE TRunner' /\ TQueues'
  BY <1>2, <1>3, <1>11 DEF CacheHit, Reading, TInv, TRunner, TQueues, runnerVars,
     workerVars, runVars
<1>12. ASSUME RunnerEnd \/ BlockRaises PROVE TRunner' /\ TQueues'
  <2>1. toHost' \in Seq(ToHost)
    BY <1>2, <1>14, <1>12, BareTyped DEF RunnerEnd, BlockRaises, Report, Say
  <2> QED BY <1>2, <1>12, <2>1 DEF RunnerEnd, BlockRaises, Report, TInv, TRunner,
             TQueues, workerVars
<1>13. ASSUME Killed \/ RunnerLost PROVE TRunner' /\ TQueues'
  <2>1. kills' \in 0..MaxKills
    BY <1>13, Bounds DEF Killed, RunnerLost, TInv, TRunner
  <2> QED BY <1>2, <1>13, <2>1 DEF Killed, RunnerLost, TInv, TRunner, TQueues, workerVars
<1> QED BY <1>1, <1>6, <1>7, <1>8, <1>9, <1>10, <1>11, <1>12, <1>13
        DEF RunnerNext, TInv

\* Types are kept by every step.
LEMMA StepTyped ==
    ASSUME TInv, [Next]_vars
    PROVE  TInv'
<1>1. CASE HostNext
  BY <1>1, QuietHostTyped, SendingHostTyped DEF HostNext
<1>2. CASE RunnerNext
  BY <1>2, RunnerTyped
<1>3. CASE UNCHANGED vars
  BY <1>3 DEF vars, hostVars, runnerVars, proxyVars, serveVars, workerVars, runVars,
     TInv, THost, TRunner, TQueues
<1> QED BY <1>1, <1>2, <1>3 DEF Next

\* The variables keep their types (TypeOK), for any number of workers, traces,
\* parks and steps, any forward pass and any use of the controls, of barriers
\* and of tracer.stop(): driver.py and nns.py ship nothing else to each other.
THEOREM InterleaveTyped == Spec => []TypeOK
<1>1. Init => TInv
  BY InitTyped
<1>2. TInv /\ [Next]_vars => TInv'
  BY StepTyped
<1>3. TInv => TypeOK
  <2> SUFFICES ASSUME TInv PROVE TypeOK
    OBVIOUS
  <2>1. \A i \in DOMAIN agenda :
            /\ agenda[i].op \in {"adopt", "settle", "release", "throw"}
            /\ agenda[i].w \in Workers
    BY NamesTyped DEF TInv, THost
  <2>2. \A w \in Workers : left[w] \in 0..MaxParks[w]
    BY Bounds DEF TInv, TRunner
  <2> QED BY <2>1, <2>2 DEF TInv, THost, TRunner, TypeOK
<1> QED BY <1>1, <1>2, <1>3, PTL DEF Spec

-----------------------------------------------------------------------------
(* What is on its way to the runner *)

\* The runner takes the first message.
LEMMA Pop ==
    ASSUME NEW s \in Seq(ToRunner), s # <<>>
    PROVE  /\ HitsOnly(s) => HitsOnly(Tail(s)) /\ s[1].kind = "CACHE_HIT"
           /\ Unwinds(s) => Unwinds(Tail(s)) /\ s[1].kind \in {"CACHE_HIT", "THROW"}
           /\ Ends(s) => /\ s[1].kind \in {"CACHE_HIT", "THROW", "DONE"}
                         /\ s[1].kind # "DONE" => Ends(Tail(s))
                         /\ s[1].kind = "DONE" => Len(s) = 1 /\ Tail(s) = <<>>
           /\ Asks(s) => /\ s[1].kind \in {"CACHE_HIT", "RESUME"}
                         /\ s[1].kind # "RESUME" =>
                               Asks(Tail(s)) /\ Tail(s)[Len(Tail(s))] = s[Len(s)]
                         /\ s[1].kind = "RESUME" => Len(s) = 1 /\ Tail(s) = <<>>
           /\ \A w \in Workers :
                 /\ Thrown(Tail(s), w) => Thrown(s, w)
                 /\ Warned(Tail(s), w) => Warned(s, w)
                 /\ Thrown(s, w) =>
                       Thrown(Tail(s), w) \/ (s[1].kind = "THROW" /\ s[1].w = w)
<1> DEFINE t == Tail(s)
<1>1. /\ t \in Seq(ToRunner) /\ Len(s) \in Nat \ {0} /\ Len(t) = Len(s) - 1
      /\ \A i \in 1..(Len(s) - 1) : t[i] = s[i + 1] /\ i + 1 \in 1..Len(s)
      /\ Len(s) = 1 => t = <<>>
  BY TailFacts
<1>2. Len(s) > 1 => t[Len(t)] = s[Len(s)] /\ t # <<>>
  <2> SUFFICES ASSUME Len(s) > 1 PROVE t[Len(t)] = s[Len(s)] /\ t # <<>>
    OBVIOUS
  <2>1. Len(t) \in 1..(Len(s) - 1) /\ Len(t) + 1 = Len(s)
    BY <1>1
  <2>2. t[Len(t)] = s[Len(t) + 1]
    BY <1>1, <2>1
  <2> HIDE DEF t
  <2>3. t # <<>>
    BY <1>1, <2>1
  <2> QED BY <2>1, <2>2, <2>3
<1>3. /\ 1 \in 1..Len(s) /\ (Len(s) > 1 => 1 \in 1..(Len(s) - 1))
      /\ \A i \in 1..Len(s) : i = 1 \/ (i - 1 \in 1..(Len(s) - 1) /\ (i - 1) + 1 = i)
      /\ \A i \in 1..(Len(s) - 1) : i \in 1..Len(s)
      /\ \A i \in 1..(Len(s) - 2) : i \in 1..(Len(s) - 1) /\ i + 1 \in 1..(Len(s) - 1)
  BY <1>1
<1>4. \A i \in 1..Len(t) : i \in 1..(Len(s) - 1)
  BY <1>1
<1>5. Len(t) - 1 = Len(s) - 2
  BY <1>1
<1> HIDE DEF t
<1>6. HitsOnly(s) => HitsOnly(t) /\ s[1].kind = "CACHE_HIT"
  BY <1>1, <1>3, <1>4 DEF HitsOnly, Kinds
<1>7. Unwinds(s) => Unwinds(t) /\ s[1].kind \in {"CACHE_HIT", "THROW"}
  BY <1>1, <1>3, <1>4 DEF Unwinds, Kinds
<1>8. Ends(s) => /\ s[1].kind \in {"CACHE_HIT", "THROW", "DONE"}
                 /\ s[1].kind # "DONE" => Ends(t)
                 /\ s[1].kind = "DONE" => Len(s) = 1 /\ t = <<>>
  <2> SUFFICES ASSUME Ends(s)
               PROVE  /\ s[1].kind \in {"CACHE_HIT", "THROW", "DONE"}
                      /\ s[1].kind # "DONE" => Ends(t)
                      /\ s[1].kind = "DONE" => Len(s) = 1 /\ t = <<>>
    OBVIOUS
  <2>1. CASE Len(s) = 1
    BY <1>1, <2>1 DEF Ends
  <2>2. CASE Len(s) > 1
    <3>1. s[1].kind \in {"CACHE_HIT", "THROW"}
      BY <1>3, <2>2 DEF Ends
    <3>2. t # <<>> /\ t[Len(t)] = s[Len(s)]
      BY <1>2, <2>2
    <3>3. \A i \in 1..(Len(t) - 1) : t[i].kind \in {"CACHE_HIT", "THROW"}
      <4> TAKE i \in 1..(Len(t) - 1)
      <4>1. i \in 1..(Len(s) - 1) /\ i + 1 \in 1..(Len(s) - 1)
        BY <1>3, <1>5
      <4>2. t[i] = s[i + 1]
        BY <1>1, <4>1
      <4> QED BY <4>1, <4>2 DEF Ends
    <3>4. Ends(t)
      BY <3>2, <3>3 DEF Ends
    <3> QED BY <3>1, <3>4
  <2> QED BY <1>1, <2>1, <2>2
<1>9. Asks(s) => /\ s[1].kind \in {"CACHE_HIT", "RESUME"}
                 /\ s[1].kind # "RESUME" => Asks(t) /\ t[Len(t)] = s[Len(s)]
                 /\ s[1].kind = "RESUME" => Len(s) = 1 /\ t = <<>>
  <2> SUFFICES ASSUME Asks(s)
               PROVE  /\ s[1].kind \in {"CACHE_HIT", "RESUME"}
                      /\ s[1].kind # "RESUME" => Asks(t) /\ t[Len(t)] = s[Len(s)]
                      /\ s[1].kind = "RESUME" => Len(s) = 1 /\ t = <<>>
    OBVIOUS
  <2>1. CASE Len(s) = 1
    BY <1>1, <2>1 DEF Asks
  <2>2. CASE Len(s) > 1
    <3>1. s[1].kind = "CACHE_HIT"
      BY <1>3, <2>2 DEF Asks
    <3>2. t # <<>> /\ t[Len(t)] = s[Len(s)]
      BY <1>2, <2>2
    <3>3. \A i \in 1..(Len(t) - 1) : t[i].kind = "CACHE_HIT"
      <4> TAKE i \in 1..(Len(t) - 1)
      <4>1. i \in 1..(Len(s) - 1) /\ i + 1 \in 1..(Len(s) - 1)
        BY <1>3, <1>5
      <4>2. t[i] = s[i + 1]
        BY <1>1, <4>1
      <4> QED BY <4>1, <4>2 DEF Asks
    <3>4. Asks(t)
      BY <3>2, <3>3 DEF Asks
    <3> QED BY <3>1, <3>2, <3>4
  <2> QED BY <1>1, <2>1, <2>2
<1>10. ASSUME NEW w \in Workers
       PROVE  /\ Thrown(t, w) => Thrown(s, w)
              /\ Warned(t, w) => Warned(s, w)
              /\ Thrown(s, w) => Thrown(t, w) \/ (s[1].kind = "THROW" /\ s[1].w = w)
  <2>1. Thrown(t, w) => Thrown(s, w)
    BY <1>1, <1>4 DEF Thrown
  <2>2. Warned(t, w) => Warned(s, w)
    BY <1>1, <1>4 DEF Warned
  <2>3. ASSUME Thrown(s, w), ~(s[1].kind = "THROW" /\ s[1].w = w)
        PROVE  Thrown(t, w)
    <3>1. PICK i \in 1..Len(s) : s[i].kind = "THROW" /\ s[i].w = w
      BY <2>3 DEF Thrown
    <3>2. i # 1
      BY <2>3, <3>1
    <3>3. i - 1 \in 1..(Len(s) - 1) /\ (i - 1) + 1 = i /\ i - 1 \in 1..Len(t)
      BY <1>1, <3>2
    <3>4. t[i - 1] = s[i]
      BY <1>1, <3>3
    <3> QED BY <3>1, <3>3, <3>4 DEF Thrown
  <2> QED BY <2>1, <2>2, <2>3
<1> QED BY <1>6, <1>7, <1>8, <1>9, <1>10 DEF t

\* The host sends one.
LEMMA Push ==
    ASSUME NEW s \in Seq(ToRunner), NEW m \in ToRunner
    PROVE  /\ HitsOnly(s) /\ m.kind = "RESUME" => Asks(Append(s, m))
           /\ Unwinds(s) /\ m.kind = "THROW" => Unwinds(Append(s, m))
           /\ Unwinds(s) /\ m.kind = "DONE" => Ends(Append(s, m))
           /\ Append(s, m)[Len(Append(s, m))] = m
           /\ s = <<>> => Len(Append(s, m)) = 1 /\ Append(s, m)[1] = m
           /\ \A w \in Workers :
                 /\ Thrown(s, w) => Thrown(Append(s, m), w)
                 /\ m.kind = "THROW" /\ m.w = w => Thrown(Append(s, m), w)
                 /\ Thrown(Append(s, m), w) => Thrown(s, w) \/ (m.kind = "THROW" /\ m.w = w)
                 /\ Warned(Append(s, m), w) =>
                       Warned(s, w) \/ (m.kind = "THROW" /\ m.w = w /\ m.why = "ITER")
<1> DEFINE t == Append(s, m)
<1>1. /\ t \in Seq(ToRunner) /\ Len(t) = Len(s) + 1 /\ Len(s) \in Nat /\ t # <<>>
      /\ \A i \in 1..Len(s) : t[i] = s[i]
      /\ t[Len(s) + 1] = m
  BY AppendFacts
<1>2. /\ Len(t) - 1 = Len(s)
      /\ \A i \in 1..Len(t) : i \in 1..Len(s) \/ i = Len(s) + 1
      /\ \A i \in 1..Len(s) : i \in 1..Len(t)
      /\ Len(s) + 1 \in 1..Len(t)
  BY <1>1
<1>3. s = <<>> => Len(t) = 1 /\ t[1] = m
  OBVIOUS
<1> HIDE DEF t
<1>4. t[Len(t)] = m
  BY <1>1
<1>5. HitsOnly(s) /\ m.kind = "RESUME" => Asks(t)
  BY <1>1, <1>2, <1>4 DEF HitsOnly, Kinds, Asks
<1>6. Unwinds(s) /\ m.kind = "THROW" => Unwinds(t)
  BY <1>1, <1>2 DEF Unwinds, Kinds
<1>7. Unwinds(s) /\ m.kind = "DONE" => Ends(t)
  BY <1>1, <1>2, <1>4 DEF Unwinds, Kinds, Ends
<1>8. ASSUME NEW w \in Workers
      PROVE  /\ Thrown(s, w) => Thrown(t, w)
             /\ m.kind = "THROW" /\ m.w = w => Thrown(t, w)
             /\ Thrown(t, w) => Thrown(s, w) \/ (m.kind = "THROW" /\ m.w = w)
             /\ Warned(t, w) =>
                   Warned(s, w) \/ (m.kind = "THROW" /\ m.w = w /\ m.why = "ITER")
  <2>1. Thrown(s, w) => Thrown(t, w)
    BY <1>1, <1>2 DEF Thrown
  <2>2. m.kind = "THROW" /\ m.w = w => Thrown(t, w)
    BY <1>1, <1>2 DEF Thrown
  <2>3. Thrown(t, w) => Thrown(s, w) \/ (m.kind = "THROW" /\ m.w = w)
    BY <1>1, <1>2 DEF Thrown
  <2>4. Warned(t, w) =>
            Warned(s, w) \/ (m.kind = "THROW" /\ m.w = w /\ m.why = "ITER")
    BY <1>1, <1>2 DEF Warned
  <2> QED BY <2>1, <2>2, <2>3, <2>4
<1> QED BY <1>3, <1>4, <1>5, <1>6, <1>7, <1>8 DEF t

\* Records for the caches are no more than that.
LEMMA OnlyHits ==
    ASSUME NEW s \in Seq(ToRunner), NEW h \in Seq(ToRunner), HitsOnly(s), HitsOnly(h)
    PROVE  /\ HitsOnly(s \o h) /\ Unwinds(s)
           /\ \A w \in Workers : ~Thrown(s, w) /\ ~Warned(s, w)
<1>1. /\ s \o h \in Seq(ToRunner)
      /\ \A i \in 1..Len(s) : (s \o h)[i] = s[i]
      /\ \A i \in 1..Len(h) : (s \o h)[Len(s) + i] = h[i]
      /\ \A i \in 1..Len(s \o h) :
            i \in 1..Len(s) \/ (i - Len(s) \in 1..Len(h) /\ i \in Int)
      /\ Len(s) \in Nat
  BY ConcatFacts
<1>2. ASSUME NEW i \in 1..Len(s \o h) PROVE (s \o h)[i].kind = "CACHE_HIT"
  <2>1. CASE i \in 1..Len(s)
    BY <1>1, <2>1 DEF HitsOnly, Kinds
  <2>2. CASE i - Len(s) \in 1..Len(h) /\ i \in Int
    <3>1. (s \o h)[Len(s) + (i - Len(s))] = h[i - Len(s)]
      BY <1>1, <2>2
    <3>2. Len(s) + (i - Len(s)) = i
      BY <1>1, <2>2
    <3> QED BY <2>2, <3>1, <3>2 DEF HitsOnly, Kinds
  <2> QED BY <1>1, <2>1, <2>2
<1>3. HitsOnly(s \o h)
  BY <1>2 DEF HitsOnly, Kinds
<1> QED BY <1>3 DEF HitsOnly, Unwinds, Kinds, Thrown, Warned

-----------------------------------------------------------------------------
(* The agenda *)

\* What is first on an agenda is on it.
LEMMA HasFirst ==
    ASSUME NEW s \in Seq(Tasks), s # <<>>
    PROVE  Has(s, s[1].op, s[1].w) /\ s[1].w \in Workers
<1>1. 1 \in 1..Len(s) /\ s[1] \in Tasks
  OBVIOUS
<1> QED BY <1>1 DEF Has, Tasks

\* A task is done with.
LEMMA PopTask ==
    ASSUME NEW s \in Seq(Tasks), s # <<>>, NEW op
    PROVE  /\ \A w \in Workers :
                 /\ Has(Tail(s), op, w) => Has(s, op, w)
                 /\ Has(s, op, w) => Has(Tail(s), op, w) \/ (s[1].op = op /\ s[1].w = w)
           /\ Once(s, op) => Once(Tail(s), op)
           /\ Once(s, op) /\ s[1].op = op => ~Has(Tail(s), op, s[1].w)
           /\ \A f : Brings(s, f) => Brings(Tail(s), f)
<1> DEFINE t == Tail(s)
<1>1. /\ t \in Seq(Tasks) /\ Len(s) \in Nat \ {0} /\ Len(t) = Len(s) - 1
      /\ \A i \in 1..(Len(s) - 1) : t[i] = s[i + 1] /\ i + 1 \in 1..Len(s)
  BY TailFacts
<1>2. \A i \in 1..Len(t) : i + 1 \in 1..Len(s) /\ t[i] = s[i + 1] /\ i + 1 # 1
  BY <1>1
<1>3. \A i \in 1..Len(s) : i = 1 \/ (i - 1 \in 1..Len(t) /\ t[i - 1] = s[i])
  BY <1>1
<1>4. 1 \in 1..Len(s)
  BY <1>1
<1> HIDE DEF t
<1>5. ASSUME NEW w \in Workers
      PROVE  /\ Has(t, op, w) => Has(s, op, w)
             /\ Has(s, op, w) => Has(t, op, w) \/ (s[1].op = op /\ s[1].w = w)
  <2>1. Has(t, op, w) => Has(s, op, w)
    BY <1>2 DEF Has
  <2>2. ASSUME Has(s, op, w), ~(s[1].op = op /\ s[1].w = w)
        PROVE  Has(t, op, w)
    <3>1. PICK i \in 1..Len(s) : s[i].op = op /\ s[i].w = w
      BY <2>2 DEF Has
    <3>2. i - 1 \in 1..Len(t) /\ t[i - 1] = s[i]
      BY <1>3, <2>2, <3>1
    <3> QED BY <3>1, <3>2 DEF Has
  <2> QED BY <2>1, <2>2
<1>6. Once(s, op) => Once(t, op)
  <2> SUFFICES ASSUME Once(s, op), NEW i \in 1..Len(t), NEW j \in 1..Len(t),
                      t[i].op = op, t[j].op = op, t[i].w = t[j].w
               PROVE  i = j
    BY DEF Once
  <2>1. i + 1 = j + 1
    BY <1>2 DEF Once
  <2> QED BY <2>1
<1>7. Once(s, op) /\ s[1].op = op => ~Has(t, op, s[1].w)
  <2> SUFFICES ASSUME Once(s, op), s[1].op = op, NEW i \in 1..Len(t),
                      t[i].op = op, t[i].w = s[1].w
               PROVE  FALSE
    BY DEF Has
  <2>1. i + 1 = 1
    BY <1>2, <1>4 DEF Once
  <2> QED BY <1>2, <2>1
<1>8. ASSUME NEW f, Brings(s, f) PROVE Brings(t, f)
  BY <1>2, <1>8 DEF Brings
<1> QED BY <1>5, <1>6, <1>7, <1>8 DEF t

\* A task goes before the others.
LEMMA PutTask ==
    ASSUME NEW t \in Tasks, NEW s \in Seq(Tasks), NEW op
    PROVE  /\ <<t>> \o s # <<>> /\ (<<t>> \o s)[1] = t
           /\ \A w \in Workers :
                 Has(<<t>> \o s, op, w) <=> Has(s, op, w) \/ (t.op = op /\ t.w = w)
           /\ t.op # op /\ Once(s, op) => Once(<<t>> \o s, op)
           /\ t.op # "adopt" => \A f : Brings(s, f) => Brings(<<t>> \o s, f)
<1> DEFINE a == <<t>> \o s
<1>1. /\ <<t>> \in Seq(Tasks) /\ Len(<<t>>) = 1 /\ <<t>>[1] = t
  OBVIOUS
<1>2. /\ a \in Seq(Tasks) /\ Len(a) = 1 + Len(s) /\ Len(s) \in Nat
      /\ \A i \in 1..1 : a[i] = <<t>>[i]
      /\ \A i \in 1..Len(s) : a[1 + i] = s[i]
  BY <1>1, ConcatFacts
<1>3. a[1] = t /\ a # <<>>
  BY <1>1, <1>2
<1>4. \A i \in 1..Len(s) : a[i + 1] = s[i] /\ i + 1 \in 1..Len(a)
  BY <1>2
<1>5. \A i \in 1..Len(a) : i = 1 \/ (i - 1 \in 1..Len(s) /\ a[i] = s[i - 1])
  BY <1>2
<1>6. 1 \in 1..Len(a) /\ \A i, j \in 1..Len(a) : i - 1 = j - 1 => i = j
  BY <1>2
<1> HIDE DEF a
<1>7. ASSUME NEW w \in Workers
      PROVE  Has(a, op, w) <=> Has(s, op, w) \/ (t.op = op /\ t.w = w)
  <2>1. Has(a, op, w) => Has(s, op, w) \/ (t.op = op /\ t.w = w)
    BY <1>3, <1>5 DEF Has
  <2>2. Has(s, op, w) => Has(a, op, w)
    BY <1>4 DEF Has
  <2>3. t.op = op /\ t.w = w => Has(a, op, w)
    BY <1>3, <1>6 DEF Has
  <2> QED BY <2>1, <2>2, <2>3
<1>8. ASSUME t.op # op, Once(s, op) PROVE Once(a, op)
  <2> SUFFICES ASSUME NEW i \in 1..Len(a), NEW j \in 1..Len(a),
                      a[i].op = op, a[j].op = op, a[i].w = a[j].w
               PROVE  i = j
    BY DEF Once
  <2>1. i # 1 /\ j # 1
    BY <1>3, <1>8
  <2>2. i - 1 = j - 1
    BY <1>5, <1>8, <2>1 DEF Once
  <2> QED BY <1>6, <2>2
<1>9. ASSUME t.op # "adopt", NEW f, Brings(s, f) PROVE Brings(a, f)
  BY <1>3, <1>5, <1>9 DEF Brings
<1> QED BY <1>3, <1>7, <1>8, <1>9 DEF a

\* The members of a round are on an agenda, before the rest.
Frees(a, round, s) ==
    /\ \A w \in Workers :
          /\ Has(a, "release", w) <=> Among(round, w) \/ Has(s, "release", w)
          /\ \A op \in {"adopt", "settle", "throw"} : Has(a, op, w) <=> Has(s, op, w)
    /\ \A op \in {"adopt", "settle", "throw"} : Once(s, op) => Once(a, op)
    /\ /\ \A i, j \in 1..Len(round) : round[i] = round[j] => i = j
       /\ \A w \in Workers : Among(round, w) => ~Has(s, "release", w)
       /\ Once(s, "release")
       => Once(a, "release")
    /\ \A f : Brings(s, f) => Brings(a, f)

\* The members of a round are to be released.
LEMMA FreeRound ==
    ASSUME NEW round \in Seq(Workers), NEW s \in Seq(Tasks), NEW a,
           a = [i \in DOMAIN round |-> Task("release", round[i])] \o s
    PROVE  Frees(a, round, s)
<1> DEFINE r == [i \in DOMAIN round |-> Task("release", round[i])]
<1>1. DOMAIN round = 1..Len(round) /\ Len(round) \in Nat
      /\ \A i \in 1..Len(round) : round[i] \in Workers
  OBVIOUS
<1>2. \A i \in 1..Len(round) : /\ r[i] \in Tasks
                               /\ r[i].op = "release" /\ r[i].w = round[i]
  BY <1>1, MadeTyped DEF Task
<1>3. r \in Seq(Tasks) /\ Len(r) = Len(round)
  <2>1. r = [i \in 1..Len(round) |-> Task("release", round[i])]
    BY <1>1
  <2>2. \A i \in 1..Len(round) : Task("release", round[i]) \in Tasks
    BY <1>1, MadeTyped
  <2> QED BY <1>1, <2>1, <2>2
<1>4. a = r \o s
  OBVIOUS
<1> HIDE DEF r
<1>5. /\ a \in Seq(Tasks) /\ Len(a) = Len(r) + Len(s)
      /\ Len(r) \in Nat /\ Len(s) \in Nat
      /\ \A i \in 1..Len(r) : a[i] = r[i]
      /\ \A i \in 1..Len(s) : a[Len(r) + i] = s[i]
      /\ \A i \in 1..Len(a) : i \in 1..Len(r) \/ (i - Len(r) \in 1..Len(s) /\ i \in Int)
  <2> DEFINE rs == r \o s
  <2>1. /\ rs \in Seq(Tasks) /\ Len(rs) = Len(r) + Len(s)
        /\ Len(r) \in Nat /\ Len(s) \in Nat
        /\ \A i \in 1..Len(r) : rs[i] = r[i]
        /\ \A i \in 1..Len(s) : rs[Len(r) + i] = s[i]
        /\ \A i \in 1..Len(rs) :
              i \in 1..Len(r) \/ (i - Len(r) \in 1..Len(s) /\ i \in Int)
    BY <1>3, ConcatFacts
  <2>2. a = rs
    BY <1>4
  <2> HIDE DEF rs
  <2> QED BY <2>1, <2>2
<1> DEFINE n == Len(round)
<1>6. \A i \in 1..n : i \in 1..Len(a) /\ a[i].op = "release" /\ a[i].w = round[i]
  BY <1>2, <1>3, <1>5
<1>7. \A i \in 1..Len(s) : n + i \in 1..Len(a) /\ a[n + i] = s[i]
  BY <1>3, <1>5
<1>8. \A i \in 1..Len(a) : i \in 1..n \/ (i - n \in 1..Len(s) /\ a[i] = s[i - n])
  <2> SUFFICES ASSUME NEW i \in 1..Len(a), i \notin 1..n
               PROVE  i - n \in 1..Len(s) /\ a[i] = s[i - n]
    OBVIOUS
  <2>1. i - n \in 1..Len(s)
    BY <1>3, <1>5
  <2>2. n + (i - n) = i
    BY <1>3, <1>5
  <2> QED BY <1>7, <2>1, <2>2
<1>9. n \in Nat /\ \A i, j \in 1..Len(a) : i - n = j - n => i = j
  BY <1>1, <1>5
<1> HIDE DEF n
<1>11. ASSUME NEW w \in Workers
       PROVE  Has(a, "release", w) <=> Among(round, w) \/ Has(s, "release", w)
  <2>1. Has(a, "release", w) => Among(round, w) \/ Has(s, "release", w)
    BY <1>6, <1>8 DEF Has, Among, n
  <2>2. Among(round, w) => Has(a, "release", w)
    BY <1>6 DEF Has, Among, n
  <2>3. Has(s, "release", w) => Has(a, "release", w)
    BY <1>7 DEF Has
  <2> QED BY <2>1, <2>2, <2>3
<1>12. ASSUME NEW w \in Workers, NEW op \in {"adopt", "settle", "throw"}
       PROVE  Has(a, op, w) <=> Has(s, op, w)
  <2>1. Has(a, op, w) => Has(s, op, w)
    BY <1>6, <1>8 DEF Has
  <2>2. Has(s, op, w) => Has(a, op, w)
    BY <1>7 DEF Has
  <2> QED BY <2>1, <2>2
<1>13. ASSUME NEW op \in {"adopt", "settle", "throw"}, Once(s, op)
       PROVE  Once(a, op)
  <2> SUFFICES ASSUME NEW i \in 1..Len(a), NEW j \in 1..Len(a),
                      a[i].op = op, a[j].op = op, a[i].w = a[j].w
               PROVE  i = j
    BY DEF Once
  <2>1. i \notin 1..n /\ j \notin 1..n
    BY <1>6
  <2>2. i - n = j - n
    BY <1>8, <1>13, <2>1 DEF Once
  <2> QED BY <1>9, <2>2
<1>14. ASSUME \A i, j \in 1..Len(round) : round[i] = round[j] => i = j,
              \A w \in Workers : Among(round, w) => ~Has(s, "release", w),
              Once(s, "release")
       PROVE  Once(a, "release")
  <2> SUFFICES ASSUME NEW i \in 1..Len(a), NEW j \in 1..Len(a),
                      a[i].op = "release", a[j].op = "release", a[i].w = a[j].w
               PROVE  i = j
    BY DEF Once
  <2>1. \A k \in 1..n, l \in 1..Len(s) : s[l].op = "release" => s[l].w # round[k]
    BY <1>1, <1>14 DEF Among, Has, n
  <2>2. CASE i \in 1..n /\ j \in 1..n
    BY <1>6, <1>14, <2>2 DEF n
  <2>3. CASE i \notin 1..n /\ j \notin 1..n
    <3>1. i - n = j - n
      BY <1>8, <1>14, <2>3 DEF Once
    <3> QED BY <1>9, <3>1
  <2>4. CASE i \in 1..n /\ j \notin 1..n
    BY <1>6, <1>8, <2>1, <2>4
  <2>5. CASE i \notin 1..n /\ j \in 1..n
    BY <1>6, <1>8, <2>1, <2>5
  <2> QED BY <2>2, <2>3, <2>4, <2>5
<1>15. ASSUME NEW f, Brings(s, f) PROVE Brings(a, f)
  <2> SUFFICES ASSUME NEW i \in 1..Len(a), a[i].op = "adopt"
               PROVE  a[i].park = f[a[i].w]
    BY DEF Brings
  <2>1. i \notin 1..n
    BY <1>6
  <2>2. i - n \in 1..Len(s) /\ a[i] = s[i - n]
    BY <1>8, <2>1
  <2>3. PICK j \in 1..Len(s) : a[i] = s[j]
    BY <2>2
  <2> QED BY <1>15, <2>3 DEF Brings
<1> HIDE DEF Has, Once, Among, Brings
<1>16. \A w \in Workers :
           /\ Has(a, "release", w) <=> Among(round, w) \/ Has(s, "release", w)
           /\ \A op \in {"adopt", "settle", "throw"} : Has(a, op, w) <=> Has(s, op, w)
  BY <1>11, <1>12
<1>17. \A op \in {"adopt", "settle", "throw"} : Once(s, op) => Once(a, op)
  BY <1>13
<1>18. \A f : Brings(s, f) => Brings(a, f)
  BY <1>15
<1> QED BY <1>14, <1>16, <1>17, <1>18 DEF Frees

\* A task for each worker: each of them once.
LEMMA ForEach ==
    ASSUME NEW op, NEW f \in Seq(Tasks), Workers = 1..Len(f),
           \A w \in Workers : f[w].op = op /\ f[w].w = w
    PROVE  /\ \A w \in Workers : Has(f, op, w)
           /\ \A o : o # op => \A w \in Workers : ~Has(f, o, w)
           /\ \A o : Once(f, o)
BY DEF Has, Once

\* All are to be thrown at.
LEMMA ThrowAll ==
    ASSUME agenda' = [w \in Workers |-> Task("throw", w)]
    PROVE  /\ \A w \in Workers : Has(agenda', "throw", w)
           /\ \A o : o # "throw" => \A w \in Workers : ~Has(agenda', o, w)
           /\ Once(agenda', "throw")
<1> DEFINE f == [w \in Workers |-> Task("throw", w)]
<1>1. f \in [Workers -> Tasks] /\ \A w \in Workers : f[w].op = "throw" /\ f[w].w = w
  BY MadeTyped DEF Task
<1> HIDE DEF f
<1>2. f \in Seq(Tasks) /\ Workers = 1..Len(f)
  BY <1>1, PerWorker
<1>3. /\ \A w \in Workers : Has(f, "throw", w)
      /\ \A o : o # "throw" => \A w \in Workers : ~Has(f, o, w)
      /\ Once(f, "throw")
  BY <1>1, <1>2, ForEach
<1>4. agenda' = f
  BY DEF f
<1> QED BY <1>3, <1>4

\* All proxies are to be built, then settled.
LEMMA BuildAll ==
    ASSUME NEW parks \in [Workers -> Parks],
           agenda' = [w \in Workers |-> [op |-> "adopt", park |-> parks[w], w |-> w]]
                     \o [w \in Workers |-> Task("settle", w)]
    PROVE  /\ \A w \in Workers : Has(agenda', "adopt", w)
           /\ \A w \in Workers : ~Has(agenda', "release", w) /\ ~Has(agenda', "throw", w)
           /\ Once(agenda', "adopt") /\ Once(agenda', "release")
           /\ Brings(agenda', parks)
<1> DEFINE f == [w \in Workers |-> [op |-> "adopt", park |-> parks[w], w |-> w]]
           g == [w \in Workers |-> Task("settle", w)]
<1>1. /\ f \in [Workers -> Tasks]
      /\ \A w \in Workers : f[w].op = "adopt" /\ f[w].w = w /\ f[w].park = parks[w]
  BY MadeTyped
<1>2. g \in [Workers -> Tasks] /\ \A w \in Workers : g[w].op = "settle" /\ g[w].w = w
  BY MadeTyped DEF Task
<1>3. agenda' = f \o g
  OBVIOUS
<1> HIDE DEF f, g
<1>4. f \in Seq(Tasks) /\ Workers = 1..Len(f) /\ g \in Seq(Tasks) /\ Workers = 1..Len(g)
  BY <1>1, <1>2, PerWorker
<1> DEFINE a == agenda'
           n == Len(f)
<1>5. /\ a \in Seq(Tasks) /\ Len(a) = n + Len(g) /\ n \in Nat /\ Len(g) \in Nat
      /\ \A i \in 1..n : a[i] = f[i]
      /\ \A i \in 1..Len(g) : a[n + i] = g[i]
      /\ \A i \in 1..Len(a) : i \in 1..n \/ (i - n \in 1..Len(g) /\ i \in Int)
  <2> DEFINE fg == f \o g
  <2>1. /\ fg \in Seq(Tasks) /\ Len(fg) = Len(f) + Len(g)
        /\ Len(f) \in Nat /\ Len(g) \in Nat
        /\ \A i \in 1..Len(f) : fg[i] = f[i]
        /\ \A i \in 1..Len(g) : fg[Len(f) + i] = g[i]
        /\ \A i \in 1..Len(fg) :
              i \in 1..Len(f) \/ (i - Len(f) \in 1..Len(g) /\ i \in Int)
    BY <1>4, ConcatFacts
  <2>2. a = fg
    BY <1>3
  <2> HIDE DEF fg
  <2> QED BY <2>1, <2>2
<1>6. \A i \in 1..n : /\ i \in 1..Len(a) /\ a[i].op = "adopt" /\ a[i].w = i
                      /\ a[i].park = parks[i]
  BY <1>1, <1>4, <1>5
<1>7. \A i \in 1..Len(a) : i \in 1..n \/ a[i].op = "settle"
  <2> SUFFICES ASSUME NEW i \in 1..Len(a), i \notin 1..n PROVE a[i].op = "settle"
    OBVIOUS
  <2>1. i - n \in 1..Len(g) /\ n + (i - n) = i
    BY <1>5
  <2>2. PICK j \in 1..Len(g) : n + j = i
    BY <2>1
  <2>3. a[i] = g[j] /\ j \in Workers
    BY <1>4, <1>5, <2>2
  <2> QED BY <1>2, <2>3
<1>8. Workers = 1..n
  BY <1>4
<1> HIDE DEF a, n
<1>9. \A w \in Workers : Has(a, "adopt", w)
  BY <1>6, <1>8 DEF Has
<1>10. \A w \in Workers : ~Has(a, "release", w) /\ ~Has(a, "throw", w)
  BY <1>6, <1>7 DEF Has
<1>11. Once(a, "adopt") /\ Once(a, "release")
  BY <1>6, <1>7 DEF Once
<1>12. Brings(a, parks)
  BY <1>6, <1>7 DEF Brings
<1> QED BY <1>9, <1>10, <1>11, <1>12 DEF a

-----------------------------------------------------------------------------
(* Where the other one is *)

\* While the forward runs, the runner reads, or holds a read back, or is gone.
LEMMA InForwardAt ==
    ASSUME IInv, InForward
    PROVE  /\ toHost = <<>> /\ ~raised
           /\ \/ rpc = "pump" /\ HitsOnly(toRunner) /\ owed = {}
              \/ /\ rpc = "absorb" /\ toRunner = <<>> /\ phase = "serve"
                 /\ held \in Workers /\ owed = {held} /\ Current(held)
                 /\ pend[held].event = "SWAP"
                 /\ agenda \in {<<>>, <<Task("settle", held)>>}
              \/ rpc = "over"
<1>1. hpc = "work" /\ phase \in {"build", "serve"}
  BY DEF InForward
<1>2. rpc \in {"block", "pump", "absorb", "over"} /\ (rpc = "absorb" => held \in Workers)
  BY DEF IInv, TInv, TRunner
<1>3. rpc # "block"
  BY <1>1 DEF IInv, Turns, Blocked
<1>4. rpc = "pump" => toHost = <<>> /\ HitsOnly(toRunner)
  BY <1>1 DEF IInv, Turns, Pumping
<1>5. rpc = "absorb" => toHost = <<>> /\ toRunner = <<>> /\ owed = {held}
  BY <1>1 DEF IInv, Turns, Absorbing
<1>6. rpc = "over" => toHost = <<>>
  BY <1>1 DEF IInv, Turns, Gone
<1>7. rpc = "pump" => owed = {}
  BY <1>1 DEF IInv, Owes
<1>8. ASSUME rpc = "absorb"
      PROVE  /\ phase = "serve" /\ Current(held) /\ pend[held].event = "SWAP"
             /\ agenda \in {<<>>, <<Task("settle", held)>>}
  BY <1>1, <1>5, <1>8 DEF IInv, Owes
<1>9. ~raised
  BY <1>1, <1>2, <1>3, <1>4, <1>5, <1>6 DEF IInv, Surfaces
<1> QED BY <1>2, <1>3, <1>4, <1>5, <1>6, <1>7, <1>8, <1>9

\* While the host waits for a reply, it has one message or two, from a runner
\* it sent back, or from one that is gone.
LEMMA AwaitAt ==
    ASSUME IInv, hpc = "await"
    PROVE  /\ agenda # <<>> /\ agenda[1].w \in Workers /\ agenda[1].op = "settle"
           /\ pend[agenda[1].w] # Finished /\ phase \in {"build", "serve"}
           /\ \/ /\ rpc = "block" /\ course = "left"
                 /\ toHost = <<>> \/ Says({"STOP"})
              \/ rpc = "pump" /\ toHost = <<>> /\ Asks(toRunner)
              \/ rpc = "pump" /\ Says({"PARK"}) /\ toRunner = <<>>
              \/ /\ rpc = "absorb" /\ Says({"PARK"}) /\ toRunner = <<>>
                 /\ owed = {held} /\ held = agenda[1].w
              \/ /\ rpc = "absorb" /\ toHost = <<>> /\ owed = {} /\ held = agenda[1].w
                 /\ Len(toRunner) = 1 /\ toRunner[1].kind = "RESUME"
              \/ rpc = "over" /\ (toHost = <<>> \/ Says({"PARK", "STOP", "EXCEPTION"}))
              \/ /\ rpc = "over" /\ Len(toHost) = 2 /\ toHost[1].kind = "STOP"
                 /\ toHost[2].kind \in {"END", "EXCEPTION"}
<1>1. /\ agenda # <<>> /\ agenda[1].op = "settle" /\ pend[agenda[1].w] # Finished
      /\ phase \in {"build", "serve"}
  BY DEF IInv, HostAt
<1>2. agenda[1].w \in Workers
  BY <1>1, NamesTyped DEF IInv
<1>3. owed \in {{}, {agenda[1].w}}
  BY DEF IInv, Owes
<1>4. rpc \in {"block", "pump", "absorb", "over"}
  BY DEF IInv, TInv, TRunner
<1>5. CASE rpc = "block"
  BY <1>1, <1>2, <1>5 DEF IInv, Turns, Blocked
<1>6. CASE rpc = "pump"
  BY <1>1, <1>2, <1>6 DEF IInv, Turns, Pumping, InForward
<1>7. CASE rpc = "absorb"
  <2>1. owed = {held} => held = agenda[1].w
    BY <1>3
  <2> QED BY <1>1, <1>2, <1>7, <2>1 DEF IInv, Turns, Absorbing, InForward
<1>8. CASE rpc = "over"
  BY <1>1, <1>2, <1>8 DEF IInv, Turns, Gone
<1> QED BY <1>4, <1>5, <1>6, <1>7, <1>8

\* The worker whose reply is awaited is parked on what its proxy waits for.
LEMMA AskedAgrees ==
    ASSUME IInv, hpc = "await", rpc = "pump", toHost = <<>>
    PROVE  LET w == agenda[1].w IN
           /\ Agree(w) /\ wpark[w] # Finished /\ ~Has(agenda, "adopt", w)
           /\ wpark[w].event = "VALUE" <=> pend[w].event = "VALUE"
           /\ reads[w] = read_of(wpark[w])
<1> DEFINE w == agenda[1].w
<1>1. w \in Workers /\ pend[w] # Finished /\ phase \in {"build", "serve"}
  BY AwaitAt
<1> HIDE DEF w
<1>2. ~Has(agenda, "adopt", w)
  BY <1>1 DEF IInv, Rounds
<1>3. Agree(w)
  BY <1>1, <1>2 DEF IInv, Follows, Live
<1>4. wpark[w].event = "VALUE" <=> pend[w].event = "VALUE"
  BY <1>3 DEF Agree, IsModel
<1>5. wpark[w] # Finished
  BY <1>1, <1>3 DEF Agree, IsModel, Finished, Park
<1>6. reads[w] = read_of(wpark[w])
  BY <1>1, <1>5 DEF IInv, Steps
<1> QED BY <1>2, <1>3, <1>4, <1>5, <1>6 DEF w

\* The tasks an agenda has are where they belong.
AgendaFits ==
    \A w \in Workers :
          /\ Has(agenda, "adopt", w) => phase = "build"
          /\ Has(agenda, "settle", w) => phase \in {"build", "serve"}
          /\ Has(agenda, "release", w) => phase \in {"build", "serve"}
          /\ Has(agenda, "throw", w) => phase = "dangle"

\* The host is through, whatever the runner is at.
LEMMA HostLeaves ==
    ASSUME IInv, TInv', hpc' = "over", UNCHANGED <<phase, owed, runnerVars>>,
           AgendaFits', Turns', raised => outcome' \in {"error", "stopped"},
           \A w \in Workers : Warned(toRunner', w) => Warned(toRunner, w)
    PROVE  IInv'
<1> USE DEF IInv
<1>1. HostAt'
  BY DEF HostAt, AgendaFits
<1>2. Surfaces' /\ Asked' /\ Rounds'
  BY DEF Surfaces, Asked, Rounds, runnerVars, runVars
<1>3. Owes'
  BY DEF Owes
<1>4. Steps' /\ NothingDropped'
  BY DEF Steps, NothingDropped, runnerVars, workerVars, runVars
<1>5. Follows' /\ Drills'
  BY DEF Follows, Drills
<1>6. Unwinding'
  BY DEF Unwinding, runnerVars, workerVars, runVars
<1> QED BY <1>1, <1>2, <1>3, <1>4, <1>5, <1>6

\* The runner is out of the trace, wherever the host is.
LEMMA RunnerLeaves ==
    ASSUME IInv, TInv', rpc' \in {"block", "over"},
           UNCHANGED <<hostVars, size, dropped>>, Turns', Surfaces', Steps',
           \/ UNCHANGED toHost
           \/ toHost' # <<>> => toHost'[1].kind # "PARK"
    PROVE  IInv'
<1> USE DEF IInv
<1>1. UNCHANGED <<hpc, phase, agenda, pend, hpin, waiting, visit, sourced, armed,
                  caches, owed, outcome>>
  BY DEF hostVars, proxyVars, serveVars
<1>2. HostAt'
  BY <1>1 DEF HostAt
<1>3. Asked'
  BY <1>1 DEF Asked
<1>4. Owes'
  BY <1>1 DEF Owes, Current, Matches, Reached
<1>5. Rounds'
  BY <1>1 DEF Rounds, Asking
<1>6. Follows' /\ Drills' /\ Unwinding' /\ NothingDropped'
  BY DEF Follows, Drills, Unwinding, Live, NothingDropped
<1> QED BY <1>2, <1>3, <1>4, <1>5, <1>6

-----------------------------------------------------------------------------
(* The host takes a park *)

\* A round, as it is known to the proxies: who waits, who is to be released,
\* who is to be built; and one worker beside.
RoundOf(tasks, w) ==
    /\ Len(waiting) < size
    /\ \A i, j \in 1..Len(waiting) : waiting[i] = waiting[j] => i = j
    /\ Once(tasks, "release") /\ Once(tasks, "adopt")
    /\ ~Among(waiting, w) /\ ~Has(tasks, "release", w) /\ ~Has(tasks, "adopt", w)
    /\ \A v \in Workers \ {w} :
          /\ pend[v].event = "BARRIER" => Among(waiting, v) \/ Has(tasks, "release", v)
          /\ Among(waiting, v) => /\ pend[v].event = "BARRIER"
                                  /\ ~Has(tasks, "release", v)
          /\ Has(tasks, "release", v) => pend[v].event = "BARRIER"
          /\ Has(tasks, "adopt", v) => pend[v] = Finished

\* An arrival at the barrier keeps the round, or frees all of it at once; the
\* other tasks stay.
LEMMA Arrives ==
    ASSUME TInv, NEW w \in Workers, NEW park \in Parks, NEW rest \in Seq(Tasks),
           adopt(w, park), barrier_arrival(w, park, rest), RoundOf(rest, w),
           UNCHANGED size, hpc' = "work"
    PROVE  /\ Rounds'
           /\ \A v \in Workers : \A op \in {"adopt", "settle", "throw"} :
                 Has(agenda', op, v) <=> Has(rest, op, v)
           /\ \A f : Brings(rest, f) => Brings(agenda', f)
           /\ park.event # "BARRIER" => agenda' = rest
<1> DEFINE round == Append(waiting, w)
           freed == [i \in DOMAIN round |-> Task("release", round[i])]
<1>1. /\ waiting \in Seq(Workers) /\ size \in Nat \ {0}
  BY Bounds DEF TInv, THost, TRunner
<1>2. /\ round \in Seq(Workers) /\ Len(round) = Len(waiting) + 1
      /\ Len(waiting) \in Nat /\ round # <<>>
      /\ \A i \in 1..Len(waiting) : round[i] = waiting[i]
      /\ round[Len(waiting) + 1] = w
  BY <1>1, AppendFacts
<1>3. \A i \in 1..Len(round) : i \in 1..Len(waiting) \/ i = Len(waiting) + 1
  BY <1>2
<1>4. \A v \in Workers : Among(round, v) <=> Among(waiting, v) \/ v = w
  <2> HIDE DEF round
  <2> TAKE v \in Workers
  <2>1. Among(round, v) => Among(waiting, v) \/ v = w
    BY <1>2, <1>3 DEF Among
  <2>2. Among(waiting, v) => Among(round, v)
    BY <1>2 DEF Among
  <2>3. v = w => Among(round, v)
    <3>1. Len(waiting) + 1 \in 1..Len(round)
      BY <1>2
    <3> QED BY <1>2, <3>1 DEF Among
  <2> QED BY <2>1, <2>2, <2>3
<1>5. \A i, j \in 1..Len(round) : round[i] = round[j] => i = j
  <2> HIDE DEF round
  <2>1. \A i \in 1..Len(waiting) : waiting[i] # w
    BY DEF RoundOf, Among
  <2> QED BY <1>2, <1>3, <2>1 DEF RoundOf
<1>6. /\ pend'[w].event = park.event
      /\ \A v \in Workers \ {w} : pend'[v] = pend[v]
  BY Adopts
<1>7. \A v \in Workers : ~Asking(v)'
  BY DEF Asking
<1>8. CASE park.event # "BARRIER"
  <2>1. waiting' = waiting /\ agenda' = rest
    BY <1>8 DEF barrier_arrival
  <2>2. \A v \in Workers :
            /\ pend'[v].event = "BARRIER" =>
                  Among(waiting', v) \/ Has(agenda', "release", v)
            /\ Among(waiting', v) => /\ pend'[v].event = "BARRIER"
                                     /\ ~Has(agenda', "release", v)
            /\ Has(agenda', "release", v) => pend'[v].event = "BARRIER"
            /\ Has(agenda', "adopt", v) => pend'[v] = Finished
    BY <1>6, <1>8, <2>1 DEF RoundOf
  <2>3. Rounds'
    BY <1>7, <2>1, <2>2 DEF Rounds, RoundOf
  <2> QED BY <1>8, <2>1, <2>3
<1>9. CASE park.event = "BARRIER" /\ ~(Len(round) >= size)
  <2>1. waiting' = round /\ agenda' = rest
    BY <1>9 DEF barrier_arrival
  <2> HIDE DEF round
  <2>2. Len(waiting') < size'
    BY <1>1, <1>2, <1>9, <2>1
  <2>3. \A v \in Workers :
            /\ pend'[v].event = "BARRIER" =>
                  Among(waiting', v) \/ Has(agenda', "release", v)
            /\ Among(waiting', v) => /\ pend'[v].event = "BARRIER"
                                     /\ ~Has(agenda', "release", v)
            /\ Has(agenda', "release", v) => pend'[v].event = "BARRIER"
            /\ Has(agenda', "adopt", v) => pend'[v] = Finished
    BY <1>4, <1>6, <1>9, <2>1 DEF RoundOf
  <2>4. /\ \A i, j \in 1..Len(waiting') : waiting'[i] = waiting'[j] => i = j
        /\ Once(agenda', "release") /\ Once(agenda', "adopt")
    BY <1>5, <2>1 DEF RoundOf
  <2>5. Rounds'
    BY <1>7, <2>2, <2>3, <2>4 DEF Rounds
  <2> QED BY <1>9, <2>1, <2>5
<1>10. CASE park.event = "BARRIER" /\ Len(round) >= size
  <2>1. waiting' = <<>> /\ agenda' = freed \o rest
    BY <1>10 DEF barrier_arrival
  <2> HIDE DEF round
  <2>2. /\ \A v \in Workers :
              /\ Has(agenda', "release", v) <=>
                    Among(round, v) \/ Has(rest, "release", v)
              /\ \A op \in {"adopt", "settle", "throw"} :
                    Has(agenda', op, v) <=> Has(rest, op, v)
        /\ \A op \in {"adopt", "settle", "throw"} : Once(rest, op) => Once(agenda', op)
        /\ /\ \A i, j \in 1..Len(round) : round[i] = round[j] => i = j
           /\ \A v \in Workers : Among(round, v) => ~Has(rest, "release", v)
           /\ Once(rest, "release")
           => Once(agenda', "release")
        /\ \A f : Brings(rest, f) => Brings(agenda', f)
    <3>1. round \in Seq(Workers)
      BY <1>2
    <3>2. Frees(agenda', round, rest)
      BY <2>1, <3>1, FreeRound
    <3> QED BY <3>2 DEF Frees
  <2>3. Once(agenda', "release")
    <3>1. \A v \in Workers : Among(round, v) => ~Has(rest, "release", v)
      BY <1>4 DEF RoundOf
    <3> QED BY <1>5, <2>2, <3>1 DEF RoundOf
  <2>4. Once(agenda', "adopt")
    BY <2>2 DEF RoundOf
  <2>5. Len(waiting') = 0 /\ Len(waiting') < size' /\ \A v \in Workers : ~Among(waiting', v)
    BY <1>1, <2>1 DEF Among
  <2>6. \A v \in Workers :
            /\ pend'[v].event = "BARRIER" => Has(agenda', "release", v)
            /\ Has(agenda', "release", v) => pend'[v].event = "BARRIER"
            /\ Has(agenda', "adopt", v) => pend'[v] = Finished
    BY <1>4, <1>6, <1>10, <2>2 DEF RoundOf
  <2>7. Rounds'
    BY <1>7, <2>3, <2>4, <2>5, <2>6 DEF Rounds
  <2> QED BY <1>10, <2>2, <2>7
<1> QED BY <1>8, <1>9, <1>10

\* A worker's park is adopted: its proxy waits for that, the others as before.
LEMMA AdoptAgrees ==
    ASSUME TInv, NEW w \in Workers, NEW park \in Parks, adopt(w, park), UNCHANGED wpark
    PROVE  /\ park = wpark[w] => Agree(w)'
           /\ \A v \in Workers \ {w} : Agree(v) => Agree(v)'
<1>1. /\ \A v \in Workers \ {w} : pend'[v] = pend[v] /\ hpin'[v] = hpin[v]
      /\ pend'[w].event = park.event /\ pend'[w].loc = park.loc
      /\ ~IsModel(park) => pend'[w] = park
      /\ IsModel(park) => hpin'[w] = park.pin
      /\ IsModel(park) => pend'[w].pin = IF park.pin = Relaxed
                                        THEN Count(park.loc, visit) ELSE park.pin
  BY Adopts
<1>2. ASSUME park = wpark[w] PROVE Agree(w)'
  BY <1>1, <1>2 DEF Agree
<1> QED BY <1>1, <1>2 DEF Agree

-----------------------------------------------------------------------------
(* The host's steps: what it receives *)

\* A proxy is built, and its worker's first park adopted.
LEMMA BuildProxyKeeps ==
    ASSUME IInv, TInv', BuildProxy
    PROVE  IInv'
<1> USE DEF IInv
<1>1. PICK w \in Workers, park \in Parks : w = agenda[1].w /\ park = agenda[1].park
  BY NamesTyped DEF BuildProxy, Working
<1>2. /\ hpc = "work" /\ agenda # <<>> /\ agenda[1].op = "adopt"
      /\ adopt(w, park) /\ barrier_arrival(w, park, Tail(agenda))
      /\ UNCHANGED <<hpc, phase, visit, sourced, armed, caches, owed, outcome,
                     toHost, toRunner>>
      /\ UNCHANGED <<rpc, trace, size, dropped, raised, course, kills>>
      /\ UNCHANGED <<wpark, wpin, wstep, left, reads, held>>
  BY <1>1 DEF BuildProxy, Working, serveVars, runnerVars, workerVars, runVars
<1>3. agenda \in Seq(Tasks) /\ Tail(agenda) \in Seq(Tasks)
  BY <1>2 DEF TInv, THost
<1>4. Has(agenda, "adopt", w)
  BY <1>1, <1>2, <1>3, HasFirst
<1>5. phase = "build" /\ owed = {}
  BY <1>4 DEF HostAt, Owes
<1>6. toHost = <<>> /\ ((rpc = "pump" /\ HitsOnly(toRunner)) \/ rpc = "over")
  BY <1>2, <1>5, InForwardAt DEF InForward
<1>7. /\ pend[w] = Finished /\ ~Among(waiting, w) /\ ~Has(agenda, "release", w)
      /\ Once(agenda, "release") /\ Once(agenda, "adopt")
  BY <1>2, <1>4, <1>5 DEF Rounds, Finished, Park
<1>8. /\ \A op : \A v \in Workers :
            /\ Has(Tail(agenda), op, v) => Has(agenda, op, v)
            /\ Has(agenda, op, v) =>
                  Has(Tail(agenda), op, v) \/ (agenda[1].op = op /\ agenda[1].w = v)
      /\ Once(Tail(agenda), "release") /\ Once(Tail(agenda), "adopt")
      /\ ~Has(Tail(agenda), "adopt", w)
      /\ \A f : Brings(agenda, f) => Brings(Tail(agenda), f)
  BY <1>1, <1>2, <1>3, <1>7, PopTask
<1>9. RoundOf(Tail(agenda), w)
  <2>1. \A v \in Workers \ {w} :
            /\ pend[v].event = "BARRIER" =>
                  Among(waiting, v) \/ Has(Tail(agenda), "release", v)
            /\ Among(waiting, v) => /\ pend[v].event = "BARRIER"
                                    /\ ~Has(Tail(agenda), "release", v)
            /\ Has(Tail(agenda), "release", v) => pend[v].event = "BARRIER"
            /\ Has(Tail(agenda), "adopt", v) => pend[v] = Finished
    BY <1>1, <1>2, <1>5, <1>8 DEF Rounds, Asking
  <2> QED BY <1>2, <1>5, <1>7, <1>8, <2>1 DEF RoundOf, Rounds
<1>10. /\ Rounds'
       /\ \A v \in Workers : \A op \in {"adopt", "settle", "throw"} :
             Has(agenda', op, v) <=> Has(Tail(agenda), op, v)
       /\ \A f : Brings(Tail(agenda), f) => Brings(agenda', f)
  BY <1>2, <1>3, <1>9, Arrives
<1>11. HostAt'
  BY <1>2, <1>5, <1>8, <1>10 DEF HostAt
<1>12. Turns'
  BY <1>2, <1>5, <1>6 DEF Turns, Pumping, Gone, InForward, HitsOnly, Kinds
<1>13. Surfaces' /\ Asked' /\ Steps' /\ NothingDropped'
  BY <1>2 DEF Surfaces, Asked, Steps, NothingDropped
<1>14. Owes'
  BY <1>2, <1>5 DEF Owes
<1>15. Follows'
  <2>1. CASE rpc = "over"
    BY <1>2, <2>1 DEF Follows, Live
  <2>2. CASE rpc = "pump"
    <3>1. Brings(agenda, wpark)
      BY <1>2, <1>5, <2>2 DEF Follows, Live
    <3>2. park = wpark[w]
      <4>1. 1 \in 1..Len(agenda)
        BY <1>2, <1>3
      <4> QED BY <1>1, <1>2, <3>1, <4>1 DEF Brings
    <3>3. Agree(w)' /\ \A v \in Workers \ {w} : Agree(v) => Agree(v)'
      BY <1>2, <3>2, AdoptAgrees
    <3>4. \A v \in Workers \ {w} : Agree(v) \/ Has(agenda, "adopt", v)
      BY <1>2, <1>5, <2>2 DEF Follows, Live, Asking
    <3>5. \A v \in Workers : Agree(v)' \/ Has(agenda', "adopt", v)
      BY <1>1, <1>8, <1>10, <3>3, <3>4
    <3>6. Brings(agenda', wpark')
      BY <1>2, <1>8, <1>10, <3>1
    <3> QED BY <1>2, <2>2, <3>5, <3>6 DEF Follows
  <2> QED BY <1>6, <2>1, <2>2
<1>16. Unwinding'
  BY <1>2, <1>5 DEF Unwinding
<1>17. Drills'
  BY <1>2, <1>5 DEF Drills, Live, FnServed, Asking
<1> QED BY <1>10, <1>11, <1>12, <1>13, <1>14, <1>15, <1>16, <1>17

\* The reply to a RESUME is adopted.
LEMMA HostParkedKeeps ==
    ASSUME IInv, TInv', HostParked
    PROVE  IInv'
<1> USE DEF IInv
<1>1. PICK w \in Workers, park \in Parks : w = agenda[1].w /\ park = toHost[1].park
  BY NamesTyped DEF HostParked, TInv, THost
<1>2. /\ hpc = "await" /\ toHost # <<>> /\ toHost[1].kind = "PARK" /\ hpc' = "work"
      /\ adopt(w, park) /\ barrier_arrival(w, park, agenda) /\ toHost' = Tail(toHost)
      /\ UNCHANGED <<phase, visit, sourced, armed, caches, owed, outcome, toRunner>>
      /\ UNCHANGED <<rpc, trace, size, dropped, raised, course, kills>>
      /\ UNCHANGED <<wpark, wpin, wstep, left, reads, held>>
  BY <1>1 DEF HostParked, serveVars, runnerVars, workerVars, runVars
<1>3. /\ w = agenda[1].w /\ agenda # <<>> /\ pend[w] # Finished
      /\ phase \in {"build", "serve"} /\ Says({"PARK"})
      /\ \/ rpc = "pump" /\ toRunner = <<>>
         \/ rpc = "absorb" /\ toRunner = <<>> /\ owed = {held} /\ held = w
         \/ rpc = "over"
  <2>1. w = agenda[1].w
    BY <1>1
  <2>2. agenda # <<>> /\ pend[w] # Finished /\ phase \in {"build", "serve"}
    BY <1>2, <2>1, AwaitAt
  <2>3. /\ Says({"PARK"})
        /\ \/ rpc = "pump" /\ toRunner = <<>>
           \/ rpc = "absorb" /\ toRunner = <<>> /\ owed = {held} /\ held = w
           \/ rpc = "over"
    BY <1>2, <2>1, AwaitAt DEF Says
  <2> QED BY <2>1, <2>2, <2>3
<1>4. agenda \in Seq(Tasks) /\ toHost' = <<>>
  <2>1. toHost \in Seq(ToHost) /\ Len(toHost) = 1
    BY <1>3 DEF TInv, TQueues, Says
  <2> QED BY <1>2, <2>1, TailFacts DEF TInv, THost
<1>5. ~raised
  BY <1>2, <1>3 DEF Surfaces, Says
<1>6. RoundOf(agenda, w)
  <2>1. Asking(w)
    BY <1>2, <1>3 DEF Asking
  <2>2. ~Among(waiting, w) /\ ~Has(agenda, "release", w) /\ ~Has(agenda, "adopt", w)
    BY <1>2, <1>3, <2>1 DEF Rounds
  <2>3. \A v \in Workers \ {w} :
            /\ pend[v].event = "BARRIER" =>
                  Among(waiting, v) \/ Has(agenda, "release", v)
            /\ Among(waiting, v) => /\ pend[v].event = "BARRIER"
                                    /\ ~Has(agenda, "release", v)
            /\ Has(agenda, "release", v) => pend[v].event = "BARRIER"
            /\ Has(agenda, "adopt", v) => pend[v] = Finished
    BY <1>2, <1>3 DEF Rounds, Asking
  <2> QED BY <1>2, <1>3, <2>2, <2>3 DEF RoundOf, Rounds
<1>7. /\ Rounds'
      /\ \A v \in Workers : \A op \in {"adopt", "settle", "throw"} :
            Has(agenda', op, v) <=> Has(agenda, op, v)
      /\ \A f : Brings(agenda, f) => Brings(agenda', f)
      /\ park.event # "BARRIER" => agenda' = agenda
  BY <1>2, <1>4, <1>6, Arrives
<1>8. HostAt'
  BY <1>2, <1>3, <1>7 DEF HostAt
<1>9. Turns'
  <2>1. HitsOnly(<<>>)
    BY DEF HitsOnly, Kinds
  <2>2. rpc = "pump" => Pumping'
    BY <1>2, <1>3, <1>4, <2>1 DEF Pumping, InForward
  <2>3. rpc = "absorb" => Absorbing'
    BY <1>2, <1>3, <1>4 DEF Absorbing, InForward
  <2>4. rpc = "over" => Gone'
    BY <1>2, <1>4 DEF Gone
  <2> QED BY <1>2, <1>3, <2>2, <2>3, <2>4 DEF Turns
<1>10. Surfaces' /\ Asked' /\ Steps' /\ NothingDropped'
  BY <1>2, <1>5 DEF Surfaces, Asked, Steps, NothingDropped
<1>11. Owes'
  <2>1. phase' = "build" => owed' = {}
    BY <1>2 DEF Owes
  <2>2. rpc' = "pump" => owed' = {}
    BY <1>2 DEF Owes
  <2>3. ASSUME phase = "serve", NEW v \in owed
        PROVE  /\ owed = {v} /\ Current(v)' /\ pend'[v].event = "SWAP"
               /\ agenda' \in {<<>>, <<Task("settle", v)>>}
    <3>1. owed = {v} /\ Current(v) /\ agenda = <<Task("settle", v)>> /\ v = w
      <4>1. v \in Workers
        BY DEF TInv, THost
      <4>2. owed = {v} /\ Current(v) /\ agenda = <<Task("settle", v)>>
        BY <1>2, <2>3, <4>1 DEF Owes
      <4> QED BY <1>3, <4>2 DEF Task
    <3>2. /\ park.event = "SWAP" /\ park.loc = Visits[visit]
          /\ park.pin \in {Relaxed, Count(Visits[visit], visit)}
      BY <1>1, <1>2, <3>1 DEF Owes
    <3>3. /\ pend'[w].event = "SWAP" /\ pend'[w].loc = Visits[visit]
          /\ pend'[w].pin = Count(Visits[visit], visit)
      BY <1>2, <3>2, Adopts DEF IsModel
    <3>4. Current(w)'
      BY <1>2, <3>1, <3>3 DEF Current, IsModel, Matches, Reached
    <3>5. agenda' = <<Task("settle", v)>>
      BY <1>7, <3>1, <3>2
    <3> QED BY <3>1, <3>3, <3>4, <3>5
  <2> QED BY <1>2, <2>1, <2>2, <2>3 DEF Owes
<1>12. Follows'
  <2>1. CASE rpc = "over"
    BY <1>2, <2>1 DEF Follows, Live
  <2>2. CASE rpc \in {"pump", "absorb"}
    <3>1. Brings(agenda', wpark')
      BY <1>2, <1>3, <1>7, <2>2 DEF Follows, Live
    <3>2. \A v \in Workers \ {w} :
              Agree(v) \/ Has(agenda, "adopt", v) \/ (rpc = "absorb" /\ v = held)
      BY <1>2, <1>3, <2>2 DEF Follows, Live, Asking
    <3>3. \A v \in Workers \ {w} :
              Agree(v)' \/ Has(agenda', "adopt", v) \/ (rpc' = "absorb" /\ v = held')
      BY <1>2, <1>7, <3>2, AdoptAgrees
    <3>4. Agree(w)' \/ (rpc' = "absorb" /\ w = held')
      <4>1. CASE rpc = "pump"
        <5>1. park = wpark[w]
          BY <1>1, <1>2, <1>3, <4>1 DEF Follows
        <5> QED BY <1>2, <5>1, AdoptAgrees
      <4>2. CASE rpc = "absorb"
        BY <1>2, <1>3, <4>2
      <4> QED BY <2>2, <4>1, <4>2
    <3> QED BY <1>2, <3>1, <3>3, <3>4 DEF Follows
  <2> QED BY <1>3, <2>1, <2>2
<1>13. Unwinding'
  BY <1>2, <1>3 DEF Unwinding
<1>14. Drills'
  BY <1>2, <1>3 DEF Drills, Live, FnServed, Asking
<1> QED BY <1>7, <1>8, <1>9, <1>10, <1>11, <1>12, <1>13, <1>14

\* An interleave() begins.
LEMMA HostInterleaveKeeps ==
    ASSUME IInv, TInv', HostInterleave
    PROVE  IInv'
<1> USE DEF IInv
<1>1. /\ hpc = "pump" /\ toHost # <<>> /\ toHost[1].kind = "INTERLEAVE"
      /\ hpc' = "work" /\ phase' = "build" /\ toHost' = Tail(toHost)
      /\ waiting' = <<>> /\ armed' = FALSE
      /\ UNCHANGED <<pend, hpin, visit, sourced, caches, owed, outcome, toRunner>>
      /\ UNCHANGED <<rpc, trace, size, dropped, raised, course, kills>>
      /\ UNCHANGED <<wpark, wpin, wstep, left, reads, held>>
  BY DEF HostInterleave, runnerVars, workerVars, runVars
<1>2. owed = {} /\ pend = Nobody
  BY <1>1 DEF HostAt
<1>3. /\ Says({"INTERLEAVE"})
      /\ (rpc = "pump" /\ toRunner = <<>>) \/ rpc = "over"
  <2>1. rpc \in {"block", "pump", "absorb", "over"}
    BY DEF TInv, TRunner
  <2>2. rpc # "block" /\ rpc # "absorb"
    BY <1>1 DEF Turns, Blocked, Absorbing, InForward
  <2>3. rpc = "pump" => Says({"INTERLEAVE"}) /\ toRunner = <<>>
    BY <1>1 DEF Turns, Pumping, InForward
  <2>4. rpc = "over" => Says({"INTERLEAVE"})
    BY <1>1 DEF Turns, Gone, Says
  <2> QED BY <2>1, <2>2, <2>3, <2>4
<1>4. toHost' = <<>>
  <2>1. toHost \in Seq(ToHost) /\ Len(toHost) = 1
    BY <1>3 DEF TInv, TQueues, Says
  <2> QED BY <1>1, <2>1, TailFacts
<1>5. ~raised
  BY <1>1, <1>3 DEF Surfaces, Says
<1>6. PICK parks \in [Workers -> Parks] : parks = toHost[1].parks
  BY <1>1, NamesTyped
<1>7. /\ \A w \in Workers : Has(agenda', "adopt", w)
      /\ \A w \in Workers : ~Has(agenda', "release", w) /\ ~Has(agenda', "throw", w)
      /\ Once(agenda', "adopt") /\ Once(agenda', "release")
      /\ Brings(agenda', parks)
  <2>1. agenda' = [w \in Workers |-> [op |-> "adopt", park |-> parks[w], w |-> w]]
                     \o [w \in Workers |-> Task("settle", w)]
    BY <1>6 DEF HostInterleave
  <2> QED BY <2>1, BuildAll
<1>8. HostAt'
  BY <1>1, <1>7 DEF HostAt
<1>9. Turns'
  <2>1. HitsOnly(<<>>)
    BY DEF HitsOnly, Kinds
  <2> QED BY <1>1, <1>3, <1>4, <2>1 DEF Turns, Pumping, Gone, InForward
<1>10. Surfaces' /\ Asked' /\ Steps' /\ NothingDropped'
  BY <1>1, <1>5 DEF Surfaces, Asked, Steps, NothingDropped
<1>11. Owes'
  BY <1>1, <1>2 DEF Owes
<1>12. Rounds'
  <2>1. Len(waiting') = 0 /\ size' \in Nat \ {0} /\ \A w \in Workers : ~Among(waiting', w)
    BY <1>1, Bounds DEF TInv, TRunner, Among
  <2>2. \A w \in Workers : pend'[w] = Finished /\ pend'[w].event # "BARRIER"
    BY <1>1, <1>2 DEF Nobody, Finished, Park
  <2> QED BY <1>7, <2>1, <2>2 DEF Rounds
<1>13. Follows'
  <2>1. rpc = "pump" => parks = wpark
    BY <1>1, <1>6 DEF Follows
  <2> QED BY <1>1, <1>3, <1>7, <2>1 DEF Follows, Live
<1>14. Unwinding'
  BY <1>1, <1>3 DEF Unwinding
<1>15. Drills'
  <2>1. rpc = "pump" => \A w \in Workers : ~OnFn(wpark[w])
    BY <1>1 DEF Drills
  <2>2. \A w \in Workers : OnFn(wpark[w])' <=> OnFn(wpark[w])
    BY <1>1 DEF OnFn
  <2> QED BY <1>1, <1>3, <2>1, <2>2 DEF Drills, Live, Asking
<1> QED BY <1>8, <1>9, <1>10, <1>11, <1>12, <1>13, <1>14, <1>15

\* The forward is entered.
LEMMA HostEnterKeeps ==
    ASSUME IInv, TInv', HostEnter
    PROVE  IInv'
<1> USE DEF IInv
<1>1. /\ hpc = "work" /\ phase = "build" /\ agenda = <<>> /\ phase' = "serve"
      /\ sourced' = IF armed THEN "armed" ELSE "absent"
      /\ UNCHANGED <<hpc, agenda, pend, hpin, waiting, visit, armed, caches, owed,
                     outcome, toHost, toRunner>>
      /\ UNCHANGED <<rpc, trace, size, dropped, raised, course, kills>>
      /\ UNCHANGED <<wpark, wpin, wstep, left, reads, held>>
  BY DEF HostEnter, proxyVars, runnerVars, workerVars, runVars
<1>2. owed = {}
  BY <1>1 DEF Owes
<1>3. toHost = <<>> /\ ((rpc = "pump" /\ HitsOnly(toRunner)) \/ rpc = "over")
  BY <1>1, InForwardAt DEF InForward
<1>4. HostAt'
  BY <1>1 DEF HostAt, Has
<1>5. Turns'
  BY <1>1, <1>3 DEF Turns, Pumping, Gone, InForward, HitsOnly, Kinds
<1>6. Surfaces' /\ Asked' /\ Steps' /\ NothingDropped'
  BY <1>1 DEF Surfaces, Asked, Steps, NothingDropped
<1>7. Owes'
  BY <1>1, <1>2 DEF Owes
<1>8. Rounds'
  BY <1>1 DEF Rounds, Asking
<1>9. Follows'
  BY <1>1 DEF Follows, Live, Agree, Asking
<1>10. Unwinding'
  BY <1>1 DEF Unwinding
<1>11. Drills'
  BY <1>1 DEF Drills, Live, FnServed, Asking, OnFn
<1> QED BY <1>4, <1>5, <1>6, <1>7, <1>8, <1>9, <1>10, <1>11

\* A STOP unwinds the forward, or fails the request.
LEMMA HostStoppedKeeps ==
    ASSUME IInv, TInv', HostStopped
    PROVE  IInv'
<1> USE DEF IInv
<1>1. /\ hpc = "await" /\ toHost # <<>> /\ toHost[1].kind = "STOP"
      /\ toHost' = Tail(toHost) /\ UNCHANGED <<runnerVars, toRunner>>
      /\ UNCHANGED <<pend, hpin, waiting, visit, sourced, armed, caches, owed>>
  BY DEF HostStopped, proxyVars, serveVars
<1>2. /\ phase \in {"build", "serve"}
      /\ \/ rpc = "block" /\ Len(toHost) = 1 /\ course = "left"
         \/ rpc = "over" /\ Len(toHost) = 1
         \/ /\ rpc = "over" /\ Len(toHost) = 2
            /\ toHost[2].kind \in {"END", "EXCEPTION"}
  BY <1>1, AwaitAt DEF Says
<1>3. toHost \in Seq(ToHost)
  BY DEF TInv, TQueues
<1>4. UNCHANGED <<rpc, trace, size, wpark, wpin, wstep, left, reads, dropped, raised, course>>
  BY <1>1 DEF runnerVars, workerVars, runVars
<1>5. CASE phase = "build" /\ Over("stopped") /\ UNCHANGED <<phase, agenda>>
  <2>1. AgendaFits'
    BY <1>5 DEF AgendaFits, HostAt
  <2>2. Turns'
    BY <1>2, <1>4, <1>5 DEF Turns, Blocked, Gone, Over
  <2> QED BY <1>1, <1>5, <2>1, <2>2, HostLeaves DEF Over
<1>6. CASE /\ phase' = "dangle" /\ hpc' = "work" /\ UNCHANGED outcome
           /\ agenda' = [w \in Workers |-> Task("throw", w)]
  <2>1. /\ \A w \in Workers : Has(agenda', "throw", w)
        /\ \A o : o # "throw" => \A w \in Workers : ~Has(agenda', o, w)
    BY <1>6, ThrowAll
  <2>2. HostAt'
    BY <1>6, <2>1 DEF HostAt
  <2>3. Len(toHost) = 1 => toHost' = <<>>
    BY <1>1, <1>3, TailFacts
  <2>4. Len(toHost) = 2 => Len(toHost') = 1 /\ toHost'[1] = toHost[2]
    <3> SUFFICES ASSUME Len(toHost) = 2
                 PROVE  Len(toHost') = 1 /\ toHost'[1] = toHost[2]
      OBVIOUS
    <3>1. 1 \in 1..(Len(toHost) - 1)
      OBVIOUS
    <3>2. Tail(toHost)[1] = toHost[1 + 1] /\ Len(Tail(toHost)) = 1
      BY <1>1, <1>3, <3>1, TailFacts
    <3> QED BY <1>1, <3>2
  <2>5. Turns'
    BY <1>2, <1>4, <1>6, <2>3, <2>4 DEF Turns, Blocked, Gone, Says
  <2>6. Surfaces'
    <3> SUFFICES ASSUME raised
                 PROVE  rpc = "over" /\ toHost' # <<>>
                        /\ toHost'[Len(toHost')].kind = "EXCEPTION"
      BY <1>4, <1>6 DEF Surfaces
    <3>1. rpc = "over" /\ toHost[Len(toHost)].kind = "EXCEPTION"
      BY <1>1 DEF Surfaces
    <3>2. Len(toHost) = 2
      BY <1>1, <1>2, <3>1
    <3>3. toHost' # <<>>
      <4>1. Len(<<>>) = 0
        OBVIOUS
      <4> QED BY <2>4, <3>2, <4>1
    <3> QED BY <2>4, <3>1, <3>2, <3>3
  <2>7. Asked' /\ Owes' /\ Rounds' /\ Follows' /\ Drills'
    BY <1>6 DEF Asked, Owes, Rounds, Follows, Drills
  <2>8. Steps' /\ NothingDropped'
    BY <1>4 DEF Steps, NothingDropped
  <2>9. Unwinding'
    BY <1>2, <1>4 DEF Unwinding
  <2> QED BY <2>2, <2>5, <2>6, <2>7, <2>8, <2>9
<1> QED BY <1>5, <1>6 DEF HostStopped

\* Nothing the host awaits a park from says anything else.
LEMMA NoneMisread ==
    ASSUME IInv
    PROVE  ~HostMisreads
BY AwaitAt DEF HostMisreads, Says

\* An EXCEPTION, the end of the stream, the END: the host is through.
LEMMA HostHearsTheEnd ==
    ASSUME IInv, TInv', next_event \/ HostEnd
    PROVE  IInv'
<1> USE DEF IInv
<1>1. /\ hpc' = "over" /\ UNCHANGED <<phase, agenda, owed, runnerVars, toRunner>>
  BY DEF next_event, HostEnd, Over, serveVars
<1>2. AgendaFits'
  BY <1>1 DEF AgendaFits, HostAt
<1>3. ASSUME hpc \in {"pump", "await"}, toHost # <<>>,
             toHost[1].kind \in {"EXCEPTION", "END"}
      PROVE  rpc = "over"
  <2>1. rpc \in {"block", "pump", "absorb", "over"}
    BY DEF TInv, TRunner
  <2>2. CASE hpc = "await"
    BY <1>3, <2>2, AwaitAt DEF Says
  <2>3. CASE hpc = "pump"
    BY <1>3, <2>1, <2>3 DEF Turns, Blocked, Pumping, Absorbing, InForward, Says
  <2> QED BY <1>3, <2>2, <2>3
<1>4. rpc = "over"
  BY <1>3 DEF next_event, HostEnd
<1>5. Turns'
  BY <1>1, <1>4 DEF Turns, Gone, runnerVars, runVars
<1>6. raised => outcome' \in {"error", "stopped"}
  <2>1. CASE HostEnd
    <3>1. hpc = "pump" /\ toHost # <<>> /\ toHost[1].kind = "END"
      BY <2>1 DEF HostEnd
    <3>2. Len(toHost) = 1
      BY <1>4, <3>1 DEF Turns, Gone, Says
    <3> QED BY <3>1, <3>2 DEF Surfaces
  <2>2. CASE next_event
    BY <2>2 DEF next_event, Over, Surfaces
  <2> QED BY <2>1, <2>2
<1> QED BY <1>1, <1>2, <1>5, <1>6, HostLeaves

\* The model fails under the request.
LEMMA ForwardFailsKeeps ==
    ASSUME IInv, TInv', ForwardFails
    PROVE  IInv'
<1> USE DEF IInv
<1>1. /\ hpc = "work" /\ phase = "serve" /\ hpc' = "over"
      /\ UNCHANGED <<phase, agenda, owed, runnerVars, toHost, toRunner>>
  BY DEF ForwardFails, Serving, Over, serveVars
<1>2. AgendaFits'
  BY <1>1 DEF AgendaFits, HostAt
<1>3. /\ ~raised
      /\ \/ rpc = "pump" /\ HitsOnly(toRunner)
         \/ rpc = "absorb" /\ toRunner = <<>>
         \/ rpc = "over"
  BY <1>1, InForwardAt DEF InForward
<1>4. Turns'
  BY <1>1, <1>3 DEF Turns, Pumping, Absorbing, Gone, HitsOnly, Kinds, runnerVars, runVars
<1> QED BY <1>1, <1>2, <1>3, <1>4, HostLeaves

-----------------------------------------------------------------------------
(* The host's steps: what it sends *)

\* A worker is sent back out of the barrier.
LEMMA ReleaseKeeps ==
    ASSUME IInv, TInv', release
    PROVE  IInv'
<1> USE DEF IInv
<1>1. PICK w \in Workers : w = agenda[1].w
  BY NamesTyped DEF release, Working
<1>2. /\ hpc = "work" /\ agenda # <<>> /\ agenda[1].op = "release"
      /\ agenda' = <<Task("settle", w)>> \o Tail(agenda)
      /\ SendOrLose(Resume(w, KEEP_PIN))
      /\ UNCHANGED <<phase, pend, hpin, waiting, visit, sourced, armed, caches, owed,
                     toHost>>
      /\ UNCHANGED runnerVars
      /\ UNCHANGED <<rpc, trace, size, dropped, raised, course, kills>>
      /\ UNCHANGED <<wpark, wpin, wstep, left, reads, held>>
  BY <1>1 DEF release, Working, proxyVars, serveVars, runnerVars, workerVars, runVars
<1>3. agenda \in Seq(Tasks) /\ Tail(agenda) \in Seq(Tasks) /\ toRunner \in Seq(ToRunner)
  BY <1>2 DEF TInv, THost, TQueues
<1>4. Has(agenda, "release", w)
  BY <1>1, <1>2, <1>3, HasFirst
<1>5. phase \in {"build", "serve"} /\ InForward
  BY <1>2, <1>4 DEF HostAt, InForward
<1>6. /\ pend[w].event = "BARRIER" /\ ~Among(waiting, w)
      /\ Once(agenda, "release") /\ Once(agenda, "adopt")
  BY <1>2, <1>4, <1>5 DEF Rounds
<1>7. /\ toHost = <<>> /\ ~raised
      /\ (rpc = "pump" /\ HitsOnly(toRunner) /\ owed = {}) \/ rpc = "over"
  <2>1. \A v \in Workers : agenda # <<Task("settle", v)>>
    BY <1>2 DEF Task
  <2> QED BY <1>2, <1>5, <2>1, InForwardAt
<1>8. /\ \A op : \A v \in Workers :
            /\ Has(Tail(agenda), op, v) => Has(agenda, op, v)
            /\ Has(agenda, op, v) =>
                  Has(Tail(agenda), op, v) \/ (agenda[1].op = op /\ agenda[1].w = v)
      /\ Once(Tail(agenda), "release") /\ Once(Tail(agenda), "adopt")
      /\ ~Has(Tail(agenda), "release", w)
      /\ \A f : Brings(agenda, f) => Brings(Tail(agenda), f)
  BY <1>1, <1>2, <1>3, <1>6, PopTask
<1>9. /\ agenda' # <<>> /\ agenda'[1] = Task("settle", w)
      /\ \A op : \A v \in Workers :
            Has(agenda', op, v) <=> Has(Tail(agenda), op, v) \/ (op = "settle" /\ w = v)
      /\ Once(agenda', "release") /\ Once(agenda', "adopt")
      /\ \A f : Brings(Tail(agenda), f) => Brings(agenda', f)
  <2>1. Task("settle", w) \in Tasks
    BY MadeTyped
  <2> DEFINE t == Task("settle", w)
  <2>2. t.op = "settle" /\ t.w = w
    BY DEF Task
  <2>3. t \in Tasks /\ agenda' = <<t>> \o Tail(agenda)
    BY <1>2, <2>1
  <2> HIDE DEF t
  <2>4. /\ agenda' # <<>> /\ agenda'[1] = t
        /\ \A op : \A v \in Workers :
              Has(agenda', op, v) <=> Has(Tail(agenda), op, v) \/ (t.op = op /\ t.w = v)
    BY <1>3, <2>3, PutTask
  <2>5. /\ Once(agenda', "release") /\ Once(agenda', "adopt")
        /\ \A f : Brings(Tail(agenda), f) => Brings(agenda', f)
    BY <1>3, <1>8, <2>2, <2>3, PutTask
  <2> QED BY <2>2, <2>4, <2>5 DEF t
<1>10. AgendaFits'
  BY <1>2, <1>5, <1>8, <1>9 DEF AgendaFits, HostAt
<1>11. CASE rpc = "over"
  <2>1. hpc' = "over" /\ UNCHANGED toRunner
    BY <1>2, <1>11 DEF SendOrLose, Over
  <2>2. Turns'
    BY <1>2, <1>11, <2>1 DEF Turns, Gone
  <2> QED BY <1>2, <1>7, <1>10, <2>1, <2>2, HostLeaves
<1>12. CASE rpc = "pump"
  <2> DEFINE m == Resume(w, KEEP_PIN)
  <2>1. /\ m \in ToRunner /\ m.kind = "RESUME" /\ m.w = w /\ m.pin = KEEP_PIN
    BY MadeTyped DEF Resume
  <2>2. hpc' = "await" /\ toRunner' = Append(toRunner, m)
    BY <1>2, <1>12 DEF SendOrLose
  <2> HIDE DEF m
  <2>3. /\ Asks(toRunner') /\ LastAsked' = m
        /\ \A v \in Workers : Warned(toRunner', v) => Warned(toRunner, v)
    BY <1>3, <1>7, <1>12, <2>1, <2>2, Push DEF LastAsked
  <2>4. HostAt'
    BY <1>2, <1>5, <1>6, <1>9, <1>10, <2>2 DEF HostAt, AgendaFits, Task, Finished, Park
  <2>5. Turns'
    BY <1>2, <1>7, <1>12, <2>2, <2>3 DEF Turns, Pumping
  <2>6. Surfaces' /\ Steps' /\ NothingDropped'
    BY <1>2, <1>7 DEF Surfaces, Steps, NothingDropped
  <2>7. Asked'
    BY <1>2, <1>7, <1>9, <2>1, <2>3 DEF Asked, Task
  <2>8. Owes'
    BY <1>2, <1>6, <1>7, <1>9, <1>12 DEF Owes, Task
  <2>9. Rounds'
    <3>1. \A v \in Workers : Asking(v)' <=> v = w
      BY <1>9, <2>2 DEF Asking, Task
    <3>2. /\ Len(waiting') < size'
          /\ \A i, j \in 1..Len(waiting') : waiting'[i] = waiting'[j] => i = j
      BY <1>2, <1>5 DEF Rounds
    <3>3. ASSUME NEW v \in Workers
          PROVE  /\ pend'[v].event = "BARRIER" =>
                       Among(waiting', v) \/ Has(agenda', "release", v) \/ Asking(v)'
                 /\ Among(waiting', v) =>
                       /\ pend'[v].event = "BARRIER"
                       /\ ~Has(agenda', "release", v) /\ ~Asking(v)'
                 /\ Has(agenda', "release", v) =>
                       pend'[v].event = "BARRIER" /\ ~Asking(v)'
                 /\ Has(agenda', "adopt", v) => pend'[v] = Finished
      BY <1>1, <1>2, <1>5, <1>6, <1>8, <1>9, <3>1 DEF Rounds, Asking
    <3> QED BY <1>9, <3>2, <3>3 DEF Rounds
  <2>10. Follows'
    <3>1. Brings(agenda', wpark')
      BY <1>2, <1>5, <1>8, <1>9, <1>12 DEF Follows, Live
    <3>2. \A v \in Workers : Agree(v) \/ Has(agenda, "adopt", v)
      BY <1>2, <1>5, <1>12 DEF Follows, Live, Asking
    <3>3. \A v \in Workers : Agree(v)' \/ Has(agenda', "adopt", v)
      BY <1>2, <1>8, <1>9, <3>2 DEF Agree
    <3> QED BY <1>2, <1>7, <2>2, <3>1, <3>3 DEF Follows
  <2>11. Unwinding'
    BY <1>2, <2>2, <2>3 DEF Unwinding
  <2>12. Drills'
    <3>1. wpark[w] # ipc_recursive_source
      <4>1. ~Has(agenda, "adopt", w)
        BY <1>2, <1>5, <1>6 DEF Rounds, Finished, Park
      <4>2. Agree(w)
        BY <1>2, <1>5, <1>12, <4>1 DEF Follows, Live, Asking
      <4> QED BY <1>6, <4>2 DEF Agree, IsModel, ipc_recursive_source, Park
    <3>2. \A v \in Workers : Asking(v)' => v = w
      BY <1>9, <2>2 DEF Asking, Task
    <3> QED BY <1>2, <1>5, <1>7, <1>12, <3>1, <3>2 DEF Drills, Live, FnServed, OnFn
  <2> QED BY <2>4, <2>5, <2>6, <2>7, <2>8, <2>9, <2>10, <2>11, <2>12
<1> QED BY <1>7, <1>11, <1>12

\* A control park is answered; any other ends the exchange.
LEMMA SettleControlKeeps ==
    ASSUME IInv, TInv', settle_control
    PROVE  IInv'
<1> USE DEF IInv
<1>1. PICK w \in Workers : w = agenda[1].w
  BY NamesTyped DEF settle_control, Working
<1>2. /\ hpc = "work" /\ agenda # <<>> /\ agenda[1].op = "settle"
      /\ UNCHANGED <<phase, pend, hpin, waiting, visit, owed, toHost>>
      /\ UNCHANGED runnerVars
      /\ UNCHANGED <<rpc, trace, size, dropped, raised, course, kills>>
      /\ UNCHANGED <<wpark, wpin, wstep, left, reads, held>>
  BY DEF settle_control, Working, run_module, proxyVars, runnerVars, workerVars, runVars
<1>3. agenda \in Seq(Tasks) /\ Tail(agenda) \in Seq(Tasks) /\ toRunner \in Seq(ToRunner)
  BY <1>2 DEF TInv, THost, TQueues
<1>4. Has(agenda, "settle", w)
  BY <1>1, <1>2, <1>3, HasFirst
<1>5. phase \in {"build", "serve"} /\ InForward
  BY <1>2, <1>4 DEF HostAt, InForward
<1>6. toHost = <<>> /\ ~raised
  BY <1>5, InForwardAt
<1>7. CASE /\ agenda' = Tail(agenda)
           /\ UNCHANGED <<armed, sourced, caches, hpc, outcome, toRunner>>
  <2>1. /\ \A op : \A v \in Workers :
              /\ Has(agenda', op, v) => Has(agenda, op, v)
              /\ Has(agenda, op, v) =>
                    Has(agenda', op, v) \/ (agenda[1].op = op /\ agenda[1].w = v)
        /\ \A op : Once(agenda, op) => Once(agenda', op)
        /\ \A f : Brings(agenda, f) => Brings(agenda', f)
    BY <1>2, <1>3, <1>7, PopTask
  <2>2. HostAt'
    BY <1>2, <1>5, <1>7, <2>1 DEF HostAt
  <2>3. Turns'
    <3>1. rpc = "pump" => HitsOnly(toRunner)
      BY <1>5, InForwardAt
    <3>2. rpc # "block" /\ (rpc = "absorb" => toRunner = <<>> /\ owed = {held})
      BY <1>5, InForwardAt
    <3> QED BY <1>2, <1>5, <1>6, <1>7, <3>1, <3>2
            DEF Turns, Pumping, Absorbing, Gone, InForward, HitsOnly, Kinds
  <2>4. Surfaces' /\ Asked' /\ Steps' /\ NothingDropped'
    BY <1>2, <1>6, <1>7 DEF Surfaces, Asked, Steps, NothingDropped
  <2>5. Owes'
    <3>1. ASSUME NEW v \in owed, phase = "serve"
          PROVE  /\ owed = {v} /\ Current(v) /\ pend[v].event = "SWAP"
                 /\ agenda' \in {<<>>, <<Task("settle", v)>>}
      <4>1. /\ owed = {v} /\ Current(v) /\ pend[v].event = "SWAP"
            /\ agenda \in {<<>>, <<Task("settle", v)>>}
        BY <1>2, <3>1 DEF Owes, TInv, THost
      <4>2. Len(agenda) = 1
        BY <1>2, <4>1
      <4>3. agenda' = <<>>
        BY <1>2, <1>3, <1>7, <4>2, TailFacts
      <4> QED BY <4>1, <4>3
    <3>2. (phase = "build" => owed = {}) /\ (phase = "serve" /\ rpc = "pump" => owed = {})
      BY <1>2 DEF Owes
    <3> QED BY <1>2, <1>7, <3>1, <3>2 DEF Owes, Current, Matches, Reached
  <2>6. Rounds'
    <3>1. \A v \in Workers : Has(agenda', "release", v) <=> Has(agenda, "release", v)
      BY <1>2, <2>1
    <3> QED BY <1>2, <1>5, <1>7, <2>1, <3>1 DEF Rounds, Asking
  <2>7. Follows'
    <3>1. \A v \in Workers : Has(agenda', "adopt", v) <=> Has(agenda, "adopt", v)
      BY <1>2, <2>1
    <3> QED BY <1>2, <1>5, <1>7, <2>1, <3>1 DEF Follows, Live, Agree, Asking
  <2>8. Unwinding'
    BY <1>2, <1>5, <1>7 DEF Unwinding
  <2>9. Drills'
    BY <1>2, <1>5, <1>7 DEF Drills, Live, FnServed, OnFn, Asking
  <2> QED BY <2>2, <2>3, <2>4, <2>5, <2>6, <2>7, <2>8, <2>9
<1>8. CASE /\ IsControl(pend[w]) /\ install_source(pend[w])
           /\ SendOrLose(Resume(w, KEEP_PIN)) /\ agenda' = agenda
  <2>1. (rpc = "pump" /\ HitsOnly(toRunner) /\ owed = {}) \/ rpc = "over"
    <3>1. ASSUME held \in Workers, pend[held].event = "SWAP",
                 agenda \in {<<>>, <<Task("settle", held)>>}
          PROVE  FALSE
      BY <1>1, <1>2, <1>8, <3>1 DEF Task, IsControl
    <3> QED BY <1>5, <3>1, InForwardAt
  <2>2. AgendaFits'
    BY <1>2, <1>8 DEF AgendaFits, HostAt
  <2>3. CASE rpc = "over"
    <3>1. hpc' = "over" /\ UNCHANGED toRunner
      BY <1>2, <1>8, <2>3 DEF SendOrLose, Over
    <3>2. Turns'
      BY <1>2, <2>3, <3>1 DEF Turns, Gone
    <3> QED BY <1>2, <1>6, <2>2, <3>1, <3>2, HostLeaves
  <2>4. CASE rpc = "pump"
    <3> DEFINE m == Resume(w, KEEP_PIN)
    <3>1. /\ m \in ToRunner /\ m.kind = "RESUME" /\ m.w = w /\ m.pin = KEEP_PIN
      BY MadeTyped DEF Resume
    <3>2. hpc' = "await" /\ toRunner' = Append(toRunner, m)
      BY <1>2, <1>8, <2>4 DEF SendOrLose
    <3> HIDE DEF m
    <3>3. /\ Asks(toRunner') /\ LastAsked' = m
          /\ \A v \in Workers : Warned(toRunner', v) => Warned(toRunner, v)
      BY <1>3, <2>1, <2>4, <3>1, <3>2, Push DEF LastAsked
    <3>4. HostAt'
      BY <1>1, <1>2, <1>5, <1>8, <2>2, <3>2
         DEF HostAt, AgendaFits, IsControl, Finished, Park
    <3>5. Turns'
      BY <1>2, <1>6, <2>4, <3>2, <3>3 DEF Turns, Pumping
    <3>6. Surfaces' /\ Steps' /\ NothingDropped'
      BY <1>2, <1>6 DEF Surfaces, Steps, NothingDropped
    <3>7. Asked'
      BY <1>1, <1>2, <1>6, <1>8, <3>1, <3>3 DEF Asked
    <3>8. Owes'
      BY <1>1, <1>2, <1>6, <1>8, <2>1, <2>4 DEF Owes, IsControl
    <3>9. Rounds'
      <4>1. \A v \in Workers : (Asking(v)' <=> v = w) /\ ~Asking(v)
        BY <1>1, <1>2, <1>8, <3>2 DEF Asking
      <4>2. pend[w].event # "BARRIER"
        BY <1>8 DEF IsControl
      <4> QED BY <1>2, <1>5, <1>8, <4>1, <4>2 DEF Rounds
    <3>10. Follows'
      BY <1>2, <1>5, <1>6, <1>8, <2>4 DEF Follows, Live, Agree, Asking
    <3>11. Unwinding'
      BY <1>2, <3>2, <3>3 DEF Unwinding
    <3>12. Drills'
      <4>1. FnServed => FnServed'
        BY <1>2, <1>8 DEF FnServed, install_source
      <4>2. wpark[w] = ipc_recursive_source => FnServed'
        <5> SUFFICES ASSUME wpark[w] = ipc_recursive_source PROVE FnServed'
          OBVIOUS
        <5>1. ~Has(agenda, "adopt", w)
          BY <1>2, <1>5, <1>8 DEF Rounds, IsControl, Finished, Park
        <5>2. Agree(w)
          BY <1>2, <1>5, <2>4, <5>1 DEF Follows, Live, Asking
        <5>3. pend[w] = ipc_recursive_source
          BY <5>2 DEF Agree, IsModel, ipc_recursive_source, Park
        <5> QED BY <1>2, <1>8, <5>3 DEF install_source, FnServed
      <4>3. \A v \in Workers : Asking(v)' => v = w
        BY <1>1, <1>8 DEF Asking
      <4> QED BY <1>2, <1>5, <2>4, <3>2, <4>1, <4>2, <4>3 DEF Drills, Live, OnFn
    <3> QED BY <3>4, <3>5, <3>6, <3>7, <3>8, <3>9, <3>10, <3>11, <3>12
  <2> QED BY <2>1, <2>3, <2>4
<1> QED BY <1>1, <1>7, <1>8 DEF settle_control

\* A worker is served at the visit.
LEMMA SwitchKeeps ==
    ASSUME IInv, TInv', NEW w \in Workers, switch(w)
    PROVE  IInv'
<1> USE DEF IInv
<1> DEFINE m == Resume(w, hpin'[w])
<1>1. /\ hpc = "work" /\ phase = "serve" /\ agenda = <<>> /\ Reached /\ Matches(w)
      /\ \A v \in owed \ {w} : ~Matches(v)
      /\ agenda' = <<Task("settle", w)>> /\ SendOrLose(m)
      /\ owed' = IF pend[w].event = "VALUE" THEN owed \cup {w} ELSE owed \ {w}
      /\ serve_recursive_source(w)
      /\ UNCHANGED <<phase, pend, waiting, visit, armed, caches, toHost>>
      /\ UNCHANGED runnerVars
      /\ UNCHANGED <<rpc, trace, size, held, dropped, raised, course, kills>>
      /\ UNCHANGED <<wpark, wpin, wstep, left, reads>>
  BY DEF switch, Serving, runnerVars, workerVars, runVars
<1>2. toRunner \in Seq(ToRunner)
  BY DEF TInv, TQueues
<1>3. /\ hpin'[w] \in Pins /\ hpin'[w] \in {hpin[w], Relaxed}
      /\ \A v \in Workers \ {w} : hpin'[v] = hpin[v]
  BY SwitchPins
<1>4. m \in ToRunner /\ m.kind = "RESUME" /\ m.w = w /\ m.pin = hpin'[w]
  BY <1>3, MadeTyped DEF Resume
<1> HIDE DEF m
<1>5. InForward
  BY <1>1 DEF InForward
<1>6. IsModel(pend[w]) /\ pend[w].event # "BARRIER" /\ pend[w] # Finished
  BY <1>1 DEF Matches, IsModel, Finished, Park
<1>7. /\ toHost = <<>> /\ ~raised
      /\ \/ rpc = "pump" /\ HitsOnly(toRunner) /\ owed = {}
         \/ /\ rpc = "absorb" /\ toRunner = <<>> /\ owed = {w} /\ held = w
            /\ pend[w].event = "SWAP"
         \/ rpc = "over"
  BY <1>1, <1>5, InForwardAt DEF Current
<1>8. owed' = IF pend[w].event = "VALUE" THEN {w} ELSE {}
  <2>1. \A v \in owed : owed = {v} /\ Current(v) /\ pend[v].event = "SWAP"
    BY <1>1 DEF Owes, TInv, THost
  <2>2. \A v \in owed : v = w
    BY <1>1, <2>1 DEF Current
  <2>3. owed = {} \/ (owed = {w} /\ pend[w].event = "SWAP")
    BY <2>1, <2>2
  <2> QED BY <1>1, <2>3
<1>9. /\ agenda' # <<>> /\ agenda'[1] = Task("settle", w)
      /\ \A op : \A v \in Workers : Has(agenda', op, v) => op = "settle" /\ v = w
      /\ \A op : Once(agenda', op)
      /\ Brings(agenda', wpark)
  <2>1. Len(agenda') = 1 /\ agenda'[1] = Task("settle", w) /\ agenda' # <<>>
    BY <1>1
  <2>2. agenda'[1].op = "settle" /\ agenda'[1].w = w
    BY <2>1 DEF Task
  <2> QED BY <2>1, <2>2 DEF Has, Once, Brings
<1>10. AgendaFits'
  BY <1>1, <1>9 DEF AgendaFits
<1>11. CASE rpc = "over"
  <2>1. hpc' = "over" /\ UNCHANGED toRunner
    BY <1>1, <1>11 DEF SendOrLose, Over
  <2>2. Turns'
    BY <1>1, <1>11, <2>1 DEF Turns, Gone
  <2>3. owed' \in SUBSET Workers
    BY <1>8
  <2>4. HostAt'
    BY <1>10, <2>1 DEF HostAt, AgendaFits
  <2>5. Surfaces' /\ Asked' /\ Rounds' /\ Follows' /\ Drills'
    BY <1>1, <1>7, <1>11, <2>1 DEF Surfaces, Asked, Rounds, Follows, Drills
  <2>6. Owes' /\ Unwinding' /\ Steps' /\ NothingDropped'
    BY <1>1, <1>11, <2>1 DEF Owes, Unwinding, Steps, NothingDropped
  <2> QED BY <2>2, <2>4, <2>5, <2>6
<1>12. CASE rpc \in {"pump", "absorb"}
  <2>1. hpc' = "await" /\ toRunner' = Append(toRunner, m)
    BY <1>1, <1>12 DEF SendOrLose
  <2>2. /\ LastAsked' = m
        /\ rpc = "pump" => Asks(toRunner')
        /\ rpc = "absorb" => Len(toRunner') = 1 /\ toRunner'[1] = m
        /\ \A v \in Workers : Warned(toRunner', v) => Warned(toRunner, v)
    BY <1>2, <1>4, <1>7, <1>12, <2>1, Push DEF LastAsked
  <2>3. rpc = "pump" => \A v \in Workers : Agree(v)
    BY <1>1 DEF Follows, Live, Asking, Has
  <2>4. rpc = "pump" => IsModel(wpark[w])
    BY <1>6, <2>3 DEF Agree
  <2>5. HostAt'
    BY <1>1, <1>6, <1>9, <1>10, <2>1 DEF HostAt, AgendaFits, Task
  <2>6. Turns'
    <3>1. rpc = "pump" => Pumping'
      BY <1>1, <1>7, <2>1, <2>2 DEF Pumping
    <3>2. rpc = "absorb" => Absorbing'
      BY <1>1, <1>4, <1>7, <1>8, <1>9, <2>1, <2>2 DEF Absorbing, Task
    <3> QED BY <1>1, <1>12, <3>1, <3>2 DEF Turns
  <2>7. Surfaces' /\ Steps' /\ NothingDropped'
    BY <1>1, <1>7 DEF Surfaces, Steps, NothingDropped
  <2>8. Asked'
    <3>1. rpc = "pump" => hpin'[w] \in {Relaxed, wpin[w]}
      BY <1>3, <2>3, <2>4 DEF Agree, Steps
    <3> QED BY <1>1, <1>4, <1>7, <1>9, <2>2, <3>1 DEF Asked, Task
  <2>9. Owes'
    <3>1. Current(w)'
      BY <1>1 DEF Current, Matches, Reached, serve_recursive_source
    <3>2. agenda'[1].w = w
      BY <1>9 DEF Task
    <3> QED BY <1>1, <1>7, <1>8, <2>1, <3>1, <3>2 DEF Owes
  <2>10. Rounds'
    <3>1. \A v \in Workers : Asking(v)' <=> v = w
      BY <1>9, <2>1 DEF Asking, Task
    <3>2. \A op : \A v \in Workers : ~Has(agenda, op, v)
      BY <1>1 DEF Has
    <3> QED BY <1>1, <1>6, <1>9, <3>1, <3>2 DEF Rounds, Asking
  <2>11. Follows'
    <3>1. \A v \in Workers : Agree(v) \/ (rpc = "absorb" /\ v = held)
      BY <1>1, <1>12 DEF Follows, Live, Asking, Has
    <3>2. \A v \in Workers : Agree(v) => Agree(v)'
      BY <1>1, <1>3 DEF Agree
    <3> QED BY <1>1, <1>7, <1>9, <2>1, <3>1, <3>2 DEF Follows
  <2>12. Unwinding'
    BY <1>1, <2>1, <2>2 DEF Unwinding
  <2>13. Drills'
    <3>1. FnServed => FnServed'
      BY <1>1 DEF FnServed, serve_recursive_source
    <3>2. rpc = "pump" => wpark[w] # ipc_recursive_source
      BY <2>4 DEF IsModel, ipc_recursive_source, Park
    <3>3. \A v \in Workers : Asking(v)' => v = w
      BY <1>9 DEF Asking, Task
    <3> QED BY <1>1, <1>12, <2>1, <3>1, <3>2, <3>3 DEF Drills, Live, OnFn
  <2> QED BY <2>5, <2>6, <2>7, <2>8, <2>9, <2>10, <2>11, <2>12, <2>13
<1> QED BY <1>7, <1>11, <1>12

\* At a visit that nobody waits for there is nothing left to write back.
LEMMA NothingOwed ==
    ASSUME IInv, Serving, Reached => \A w \in Workers : ~Matches(w)
    PROVE  owed = {} /\ toHost = <<>> /\ ~raised
           /\ ((rpc = "pump" /\ HitsOnly(toRunner)) \/ rpc = "over")
<1>1. InForward /\ hpc = "work" /\ phase = "serve"
  BY DEF Serving, InForward
<1>2. \A v \in owed : Current(v) /\ v \in Workers
  BY <1>1 DEF IInv, Owes, TInv, THost
<1>3. owed = {}
  BY <1>2 DEF Current
<1> QED BY <1>1, <1>3, InForwardAt

\* The model moves on, or is through.
LEMMA MoveOnKeeps ==
    ASSUME IInv, TInv', MoveOn
    PROVE  IInv'
<1> USE DEF IInv
<1>1. /\ hpc = "work" /\ phase = "serve" /\ agenda = <<>>
      /\ UNCHANGED <<hpc, pend, hpin, waiting, sourced, armed, caches, owed, outcome,
                     toHost>>
      /\ UNCHANGED <<rpc, trace, size, dropped, raised, course, kills>>
      /\ UNCHANGED <<wpark, wpin, wstep, left, reads, held>>
  BY DEF MoveOn, Serving, proxyVars, runnerVars, workerVars, runVars
<1>2. owed = {} /\ toHost = <<>> /\ ~raised
      /\ ((rpc = "pump" /\ HitsOnly(toRunner)) \/ rpc = "over")
  BY NothingOwed DEF MoveOn
<1>3. /\ rpc = "pump" => HitsOnly(toRunner') /\ Unwinds(toRunner')
      /\ rpc = "pump" => \A w \in Workers : ~Thrown(toRunner', w) /\ ~Warned(toRunner', w)
  <2> SUFFICES ASSUME rpc = "pump"
               PROVE  /\ HitsOnly(toRunner') /\ Unwinds(toRunner')
                      /\ \A w \in Workers : ~Thrown(toRunner', w) /\ ~Warned(toRunner', w)
    OBVIOUS
  <2>1. Hits \in Seq(ToRunner) /\ HitsOnly(Hits)
    BY HitsTyped DEF TInv, THost
  <2>2. <<>> \in Seq(ToRunner) /\ HitsOnly(<<>>)
    BY DEF HitsOnly, Kinds
  <2>3. PICK h \in Seq(ToRunner) : HitsOnly(h) /\ toRunner' = toRunner \o h
    BY <2>1, <2>2 DEF MoveOn
  <2>4. toRunner \in Seq(ToRunner) /\ toRunner' \in Seq(ToRunner)
    BY DEF TInv, TQueues
  <2>5. HitsOnly(toRunner')
    BY <1>2, <2>3, <2>4, OnlyHits
  <2> QED BY <2>2, <2>4, <2>5, OnlyHits
<1>4. rpc = "pump" => \A w \in Workers : Agree(w)
  BY <1>1 DEF Follows, Live, Asking, Has
<1>5. CASE phase' = phase /\ agenda' = agenda
  <2>1. HostAt' /\ Turns'
    BY <1>1, <1>2, <1>3, <1>5 DEF HostAt, Turns, Pumping, Gone, InForward
  <2>2. Surfaces' /\ Asked' /\ Owes' /\ Steps' /\ NothingDropped'
    BY <1>1, <1>2, <1>5 DEF Surfaces, Asked, Owes, Steps, NothingDropped
  <2>3. Rounds' /\ Follows' /\ Drills'
    BY <1>1, <1>5 DEF Rounds, Follows, Drills, Live, Agree, Asking, FnServed, OnFn
  <2>4. Unwinding'
    BY <1>1, <1>3, <1>5 DEF Unwinding
  <2> QED BY <2>1, <2>2, <2>3, <2>4
<1>6. CASE phase' = "dangle" /\ agenda' = [w \in Workers |-> Task("throw", w)]
  <2>1. /\ \A w \in Workers : Has(agenda', "throw", w)
        /\ \A o : o # "throw" => \A w \in Workers : ~Has(agenda', o, w)
        /\ Once(agenda', "throw")
    BY <1>6, ThrowAll
  <2>2. HostAt'
    BY <1>1, <1>6, <2>1 DEF HostAt
  <2>3. Turns'
    BY <1>1, <1>2, <1>3, <1>6 DEF Turns, Pumping, Gone
  <2>4. Surfaces' /\ Asked' /\ Owes' /\ Steps' /\ NothingDropped'
    BY <1>1, <1>2, <1>6 DEF Surfaces, Asked, Owes, Steps, NothingDropped
  <2>5. Rounds' /\ Follows' /\ Drills'
    BY <1>1, <1>2, <1>6 DEF Rounds, Follows, Drills
  <2>6. Unwinding'
    BY <1>1, <1>3, <1>4, <1>6, <2>1 DEF Unwinding, Agree
  <2> QED BY <2>2, <2>3, <2>4, <2>5, <2>6
<1> QED BY <1>5, <1>6 DEF MoveOn

\* A worker that is still parked is thrown at.
LEMMA CheckDanglingKeeps ==
    ASSUME IInv, TInv', check_dangling
    PROVE  IInv'
<1> USE DEF IInv
<1>1. PICK w \in Workers : w = agenda[1].w
  BY NamesTyped DEF check_dangling, Working
<1> DEFINE m == [kind |-> "THROW", w |-> w, why |-> Kind(w)]
<1>2. /\ hpc = "work" /\ agenda # <<>> /\ agenda[1].op = "throw"
      /\ \/ pend[w] = Finished /\ agenda' = Tail(agenda) /\ UNCHANGED toRunner
         \/ /\ pend[w] # Finished /\ rpc # "over"
            /\ toRunner' = Append(toRunner, m) /\ agenda' = Tail(agenda)
         \/ rpc = "over" /\ agenda' = <<>>
      /\ UNCHANGED <<hpc, phase, pend, hpin, waiting, visit, sourced, armed, caches,
                     owed, outcome, toHost>>
      /\ UNCHANGED <<rpc, trace, size, dropped, raised, course, kills>>
      /\ UNCHANGED <<wpark, wpin, wstep, left, reads, held>>
  BY <1>1 DEF check_dangling, Working, proxyVars, serveVars, runnerVars, workerVars,
     runVars
<1>3. /\ m \in ToRunner /\ m.kind = "THROW" /\ m.w = w
      /\ m.why = "ITER" => pend[w].event # "BARRIER"
  BY MadeTyped DEF Kind
<1> HIDE DEF m
<1>4. agenda \in Seq(Tasks) /\ Tail(agenda) \in Seq(Tasks) /\ toRunner \in Seq(ToRunner)
  BY <1>2 DEF TInv, THost, TQueues
<1>5. phase = "dangle"
  BY <1>1, <1>2, <1>4, HasFirst DEF HostAt
<1>6. /\ \A op : \A v \in Workers :
            /\ Has(Tail(agenda), op, v) => Has(agenda, op, v)
            /\ Has(agenda, op, v) =>
                  Has(Tail(agenda), op, v) \/ (agenda[1].op = op /\ agenda[1].w = v)
      /\ \A op : Once(agenda, op) => Once(Tail(agenda), op)
      /\ \A op : Once(agenda, op) /\ agenda[1].op = op =>
                    ~Has(Tail(agenda), op, agenda[1].w)
  BY <1>2, <1>4, PopTask
<1>7. HostAt'
  <2>1. agenda' \in {Tail(agenda), <<>>}
    BY <1>2
  <2>2. \A op : \A v \in Workers : ~Has(<<>>, op, v)
    BY DEF Has
  <2>3. \A op \in {"adopt", "settle", "release", "throw"} : \A v \in Workers :
            Has(agenda', op, v) => Has(agenda, op, v)
    BY <1>6, <2>1, <2>2
  <2> QED BY <1>2, <1>5, <2>3 DEF HostAt
<1>8. rpc = "pump" => toHost = <<>> /\ Unwinds(toRunner)
  BY <1>2, <1>5 DEF Turns, Pumping, InForward
<1>9. Turns'
  <2>1. ASSUME rpc = "pump" PROVE Unwinds(toRunner')
    <3>1. toRunner' = toRunner \/ toRunner' = Append(toRunner, m)
      BY <1>2, <2>1
    <3>2. Unwinds(Append(toRunner, m))
      BY <1>3, <1>4, <1>8, <2>1, Push
    <3> QED BY <1>8, <2>1, <3>1, <3>2
  <2>2. rpc # "absorb"
    BY <1>2, <1>5 DEF Turns, Absorbing, InForward
  <2> QED BY <1>2, <1>5, <1>8, <2>1, <2>2 DEF Turns, Blocked, Pumping, Gone, InForward, Says
<1>10. Surfaces' /\ Asked' /\ Owes' /\ Steps' /\ NothingDropped'
  BY <1>2, <1>5 DEF Surfaces, Asked, Owes, Steps, NothingDropped
<1>11. Rounds' /\ Follows' /\ Drills'
  BY <1>2, <1>5 DEF Rounds, Follows, Drills
<1>12. Unwinding'
  <2> SUFFICES ASSUME rpc = "pump" PROVE Unwinding'
    BY <1>2 DEF Unwinding
  <2>1. /\ \A v \in Workers : Warned(toRunner, v) => wpark[v].event # "BARRIER"
        /\ Once(agenda, "throw")
        /\ \A v \in Workers :
              /\ Has(agenda, "throw", v) => Agree(v) /\ ~Thrown(toRunner, v)
              /\ \/ wpark[v] = Finished
                 \/ Has(agenda, "throw", v) \/ Thrown(toRunner, v)
    BY <1>2, <1>5 DEF Unwinding
  <2>2. Agree(w)
    BY <1>1, <1>2, <1>4, <2>1, HasFirst
  <2>3. /\ wpark[w].event = pend[w].event
        /\ pend[w] = Finished => wpark[w] = Finished
    BY <2>2 DEF Agree, IsModel, Finished, Park
  <2>4. /\ Once(Tail(agenda), "throw") /\ ~Has(Tail(agenda), "throw", w)
        /\ \A v \in Workers :
              /\ Has(Tail(agenda), "throw", v) => Has(agenda, "throw", v) /\ v # w
              /\ Has(agenda, "throw", v) => Has(Tail(agenda), "throw", v) \/ v = w
    BY <1>1, <1>2, <1>6, <2>1
  <2>5. CASE pend[w] = Finished /\ agenda' = Tail(agenda) /\ UNCHANGED toRunner
    BY <1>2, <2>1, <2>3, <2>4, <2>5 DEF Unwinding, Agree
  <2>6. CASE /\ pend[w] # Finished
             /\ toRunner' = Append(toRunner, m) /\ agenda' = Tail(agenda)
    <3>1. \A v \in Workers :
              /\ Thrown(toRunner, v) => Thrown(toRunner', v)
              /\ v = w => Thrown(toRunner', v)
              /\ Thrown(toRunner', v) => Thrown(toRunner, v) \/ v = w
              /\ Warned(toRunner', v) => Warned(toRunner, v) \/ (v = w /\ m.why = "ITER")
      BY <1>3, <1>4, <2>6, Push
    <3>2. \A v \in Workers : Warned(toRunner', v) => wpark[v].event # "BARRIER"
      BY <1>3, <2>1, <2>3, <3>1
    <3> QED BY <1>2, <2>1, <2>4, <2>6, <3>1, <3>2 DEF Unwinding, Agree
  <2> QED BY <1>2, <2>5, <2>6
<1> QED BY <1>7, <1>9, <1>10, <1>11, <1>12

\* The run is over for the host.
LEMMA HostDoneKeeps ==
    ASSUME IInv, TInv', HostDone
    PROVE  IInv'
<1> USE DEF IInv
<1> DEFINE m == [kind |-> "DONE"]
<1>1. /\ hpc = "work" /\ phase = "dangle" /\ agenda = <<>> /\ agenda' = <<>>
      /\ hpc' = "pump" /\ phase' = "idle" /\ pend' = Nobody /\ owed' = {}
      /\ toRunner' = IF rpc = "over" THEN toRunner ELSE Append(toRunner, m)
      /\ UNCHANGED <<outcome, toHost>>
      /\ UNCHANGED <<rpc, trace, size, dropped, raised, course, kills>>
      /\ UNCHANGED <<wpark, wpin, wstep, left, reads, held>>
  BY DEF HostDone, runnerVars, workerVars, runVars
<1>2. m \in ToRunner /\ m.kind = "DONE"
  BY BareTyped
<1> HIDE DEF m
<1>3. toRunner \in Seq(ToRunner)
  BY DEF TInv, TQueues
<1>4. rpc = "pump" => toHost = <<>> /\ Unwinds(toRunner)
  BY <1>1 DEF Turns, Pumping, InForward
<1>5. HostAt'
  BY <1>1 DEF HostAt, Has
<1>6. Turns'
  <2>1. rpc = "pump" => Ends(toRunner')
    BY <1>1, <1>2, <1>3, <1>4, Push
  <2>2. rpc # "absorb"
    BY <1>1 DEF Turns, Absorbing, InForward
  <2> QED BY <1>1, <1>4, <2>1, <2>2 DEF Turns, Blocked, Pumping, Gone, Says
<1>7. Surfaces' /\ Asked' /\ Owes' /\ Steps' /\ NothingDropped'
  BY <1>1 DEF Surfaces, Asked, Owes, Steps, NothingDropped
<1>8. Rounds' /\ Follows' /\ Drills'
  BY <1>1, <1>4 DEF Rounds, Follows, Drills
<1>9. Unwinding'
  <2> SUFFICES ASSUME rpc = "pump" PROVE Unwinding'
    BY <1>1 DEF Unwinding
  <2>1. \A v \in Workers :
            /\ Thrown(toRunner, v) => Thrown(toRunner', v)
            /\ Warned(toRunner', v) => Warned(toRunner, v)
    BY <1>1, <1>2, <1>3, Push
  <2> QED BY <1>1, <2>1 DEF Unwinding, Has
<1> QED BY <1>5, <1>6, <1>7, <1>8, <1>9

-----------------------------------------------------------------------------
(* The runner's steps *)

\* What is said to a host that has heard everything is all there is to hear.
LEMMA SayFirst ==
    ASSUME NEW m, toHost = <<>>, Say(m)
    PROVE  toHost' # <<>> /\ Len(toHost') = 1 /\ toHost'[1] = m
BY DEF Say

\* Nobody is thrown at by nothing.
LEMMA NoneWarned == \A w \in Workers : ~Warned(<<>>, w)
BY DEF Warned

\* A RESUME is all there is, and it is for the worker the host waits for.
LEMMA ResumeAt ==
    ASSUME IInv, Reading("RESUME")
    PROVE  /\ rpc = "pump" /\ hpc = "await" /\ toHost = <<>>
           /\ Len(toRunner) = 1 /\ Tail(toRunner) = <<>>
           /\ toRunner[1].w = agenda[1].w
           /\ toRunner[1].pin \in {KEEP_PIN, Relaxed, wpin[agenda[1].w]}
           /\ ~raised
<1>1. rpc = "pump" /\ toRunner # <<>> /\ toRunner[1].kind = "RESUME"
  BY DEF Reading
<1>2. toRunner \in Seq(ToRunner)
  BY DEF IInv, TInv, TQueues
<1>3. /\ ~HitsOnly(toRunner) /\ ~Unwinds(toRunner) /\ ~Ends(toRunner)
      /\ Asks(toRunner) => Len(toRunner) = 1 /\ Tail(toRunner) = <<>>
  BY <1>1, <1>2, Pop
<1>4. hpc = "await" /\ toHost = <<>> /\ Asks(toRunner)
  BY <1>1, <1>3 DEF IInv, Turns, Pumping
<1>5. LastAsked = toRunner[1]
  BY <1>3, <1>4 DEF LastAsked
<1>6. ~raised
  BY <1>1, <1>4 DEF IInv, Surfaces
<1> QED BY <1>1, <1>3, <1>4, <1>5, <1>6 DEF IInv, Asked

\* A trace of the block begins.
LEMMA RunnerInterleaveKeeps ==
    ASSUME IInv, TInv', RunnerInterleave, course' # "astray"
    PROVE  IInv'
<1> USE DEF IInv
<1>1. /\ rpc = "block" /\ trace < MaxTraces /\ rpc' = "pump"
      /\ Say([kind |-> "INTERLEAVE", parks |-> wpark'])
      /\ UNCHANGED <<dropped, raised, toRunner>>
      /\ UNCHANGED <<hpc, phase, agenda, pend, hpin, waiting, visit, sourced, armed,
                     caches, owed, outcome>>
  BY DEF RunnerInterleave, hostVars, proxyVars, serveVars
<1>14. course = "on" /\ course' = "on"
  BY DEF RunnerInterleave
<1>2. hpc = "pump" /\ toHost = <<>> /\ toRunner = <<>>
  BY <1>1, <1>14 DEF Turns, Blocked
<1>3. ~raised
  BY <1>1, <1>2 DEF Surfaces
<1> DEFINE m == [kind |-> "INTERLEAVE", parks |-> wpark']
<1>4. m.kind = "INTERLEAVE" /\ m.parks = wpark'
  OBVIOUS
<1> HIDE DEF m
<1>5. toHost' # <<>> /\ Len(toHost') = 1 /\ toHost'[1] = m
  BY <1>1, <1>2, SayFirst DEF m
<1>6. HostAt'
  BY <1>1 DEF HostAt
<1>7. Turns'
  BY <1>1, <1>2, <1>4, <1>5, <1>14 DEF Turns, Pumping, Says
<1>8. Surfaces' /\ Asked' /\ NothingDropped'
  BY <1>1, <1>2, <1>3 DEF Surfaces, Asked, NothingDropped
<1>9. Owes' /\ Rounds'
  BY <1>1, <1>2 DEF Owes, Rounds, HostAt
<1>10. Steps'
  BY InterleaveGoes DEF Steps
<1>11. Follows'
  BY <1>1, <1>2, <1>4, <1>5 DEF Follows
<1>12. Unwinding'
  BY <1>1, <1>2, <1>5, NoneWarned DEF Unwinding
<1>13. Drills'
  BY <1>1, <1>2, InterleaveGoes DEF Drills, OnFn
<1> QED BY <1>6, <1>7, <1>8, <1>9, <1>10, <1>11, <1>12, <1>13

\* A worker goes on, and parks again; what it has read is sent back first.
LEMMA RunnerResumeKeeps ==
    ASSUME IInv, TInv', RunnerResume
    PROVE  IInv'
<1> USE DEF IInv
<1>1. PICK w \in Workers, park \in Parks, pin \in Pins, step \in 0..MaxStep :
           ResumesTo(w, park, pin, step)
  BY ResumeGoes
<1>2. /\ toRunner' = Tail(toRunner) /\ Reading("RESUME")
      /\ UNCHANGED <<trace, size, dropped, raised, course, kills>>
      /\ UNCHANGED <<hpc, phase, agenda, pend, hpin, waiting, visit, sourced, armed,
                     caches, owed, outcome>>
  BY DEF RunnerResume, hostVars, proxyVars, serveVars
<1>3. /\ rpc = "pump" /\ hpc = "await" /\ toHost = <<>> /\ toRunner' = <<>>
      /\ w = agenda[1].w /\ toRunner[1].pin \in {KEEP_PIN, Relaxed, wpin[w]}
      /\ ~raised
  BY <1>1, <1>2, ResumeAt DEF ResumesTo
<1>4. phase \in {"build", "serve"} /\ agenda # <<>> /\ pend[w] # Finished
  BY <1>3, AwaitAt
<1>5. /\ Agree(w) /\ wpark[w] # Finished /\ ~Has(agenda, "adopt", w)
      /\ wpark[w].event = "VALUE" <=> pend[w].event = "VALUE"
      /\ reads[w] = read_of(wpark[w])
  BY <1>3, AskedAgrees
<1>6. /\ wpark' = [wpark EXCEPT ![w] = park] /\ wpin' = [wpin EXCEPT ![w] = pin]
      /\ wstep' = [wstep EXCEPT ![w] = step]
      /\ reads' = [reads EXCEPT ![w] = read_of(park)]
  BY <1>1 DEF ResumesTo
<1>7. /\ wpark'[w] = park /\ wpin'[w] = pin /\ wstep'[w] = step
      /\ reads'[w] = read_of(park)
      /\ \A v \in Workers \ {w} : /\ wpark'[v] = wpark[v] /\ wpin'[v] = wpin[v]
                                  /\ wstep'[v] = wstep[v] /\ reads'[v] = reads[v]
  BY <1>6 DEF TInv, TRunner
<1>8. reads[w] # Finished <=> pend[w].event = "VALUE"
  BY <1>5 DEF read_of, Finished, Park
<1>9. HostAt'
  BY <1>2 DEF HostAt
<1>10. Surfaces' /\ NothingDropped'
  BY <1>2, <1>3 DEF Surfaces, NothingDropped
<1>11. Rounds'
  BY <1>2 DEF Rounds, Asking
<1>12. Steps'
  <2>1. pin \in {step, Relaxed}
    <3>1. pin = step \/ (step = wstep[w] /\ pin \in {wpin[w], Relaxed})
      BY <1>1, <1>3 DEF ResumesTo
    <3> QED BY <3>1 DEF Steps
  <2>2. IsModel(park) => park.pin = pin
    BY <1>1 DEF ResumesTo
  <2> QED BY <1>7, <2>1, <2>2 DEF Steps
<1>13. Brings(agenda', wpark')
  <2>1. Brings(agenda, wpark) /\ agenda \in Seq(Tasks)
    BY <1>3, <1>4 DEF Follows, Live, TInv, THost
  <2>2. \A i \in 1..Len(agenda) : agenda[i].op = "adopt" =>
            agenda[i].w \in Workers \ {w}
    BY <1>5, NamesTyped DEF Has
  <2> QED BY <1>2, <1>7, <2>1, <2>2 DEF Brings
<1>14. \A v \in Workers \ {w} : Agree(v)' \/ Has(agenda', "adopt", v)
  <2>1. \A v \in Workers \ {w} : Agree(v) \/ Has(agenda, "adopt", v)
    BY <1>3, <1>4 DEF Follows, Live, Asking
  <2> QED BY <1>2, <1>7, <2>1 DEF Agree
<1>15. \A v \in Workers : OnFn(wpark'[v]) => FnServed'
  <2>1. FnServed' <=> FnServed
    BY <1>2 DEF FnServed
  <2>2. OnFn(park) => FnServed
    <3>1. OnFn(park) => wpark[w] = ipc_recursive_source
      BY <1>1 DEF ResumesTo
    <3> QED BY <1>3, <1>4, <3>1 DEF Drills, Live, Asking
  <2>3. \A v \in Workers \ {w} : OnFn(wpark[v]) => FnServed
    BY <1>3, <1>4 DEF Drills, Live
  <2> QED BY <1>7, <2>1, <2>2, <2>3
<1>16. CASE /\ reads[w] = Finished /\ UNCHANGED <<rpc, held>>
            /\ Say([kind |-> "PARK", w |-> w, park |-> park])
  <2>1. /\ toHost' # <<>> /\ Len(toHost') = 1 /\ toHost'[1].kind = "PARK"
        /\ toHost'[1].w = w /\ toHost'[1].park = park
    BY <1>3, <1>16, SayFirst
  <2>2. owed = {}
    BY <1>3, <1>8, <1>16 DEF Owes
  <2>3. Turns'
    BY <1>2, <1>3, <1>16, <2>1 DEF Turns, Pumping, Says
  <2>4. Asked'
    BY <1>2, <1>3, <2>1 DEF Asked
  <2>5. Owes'
    BY <1>2, <1>3, <2>2 DEF Owes
  <2>6. Follows'
    <3>1. Asking(w)'
      BY <1>2, <1>3 DEF Asking
    <3> QED BY <1>2, <1>3, <1>7, <1>13, <1>14, <2>1, <3>1 DEF Follows
  <2>7. Unwinding'
    BY <1>2, <1>3, NoneWarned DEF Unwinding
  <2>8. Drills'
    BY <1>2, <1>3, <1>15, <2>1 DEF Drills
  <2> QED BY <1>9, <1>10, <1>11, <1>12, <2>3, <2>4, <2>5, <2>6, <2>7, <2>8
<1>17. CASE /\ reads[w] # Finished /\ rpc' = "absorb" /\ held' = w
            /\ Say([kind |-> "PARK", w |-> w,
                    park |-> [reads[w] EXCEPT !.event = "SWAP"]])
  <2> DEFINE swap == [reads[w] EXCEPT !.event = "SWAP"]
  <2>1. /\ toHost' # <<>> /\ Len(toHost') = 1 /\ toHost'[1].kind = "PARK"
        /\ toHost'[1].w = w /\ toHost'[1].park = swap
    BY <1>3, <1>17, SayFirst
  <2>2. owed = {w} /\ phase = "serve" /\ Current(w)
    <3>1. owed = {w}
      BY <1>3, <1>8, <1>17 DEF Owes
    <3>2. phase = "serve"
      BY <1>4, <3>1 DEF Owes
    <3> QED BY <1>3, <3>1, <3>2 DEF Owes
  <2>3. /\ swap.event = "SWAP" /\ swap.loc = Visits[visit]
        /\ swap.pin \in {Relaxed, Count(Visits[visit], visit)}
    <3>1. reads[w] \in Parks /\ wpark[w] \in Parks
      BY DEF TInv, TRunner
    <3>2. reads[w] = wpark[w] /\ IsModel(wpark[w])
      BY <1>5, <1>8, <1>17 DEF read_of, IsModel
    <3>3. swap.event = "SWAP" /\ swap.loc = wpark[w].loc /\ swap.pin = wpark[w].pin
      BY <3>1, <3>2 DEF Parks
    <3>4. wpark[w].loc = pend[w].loc /\ wpark[w].pin \in {Relaxed, pend[w].pin}
      BY <1>5, <3>2 DEF Agree
    <3>5. pend[w].loc = Visits[visit] /\ pend[w].pin = Count(Visits[visit], visit)
      BY <2>2 DEF Current, Matches
    <3> QED BY <3>3, <3>4, <3>5
  <2> HIDE DEF swap
  <2>4. Turns'
    BY <1>2, <1>3, <1>17, <2>1, <2>2 DEF Turns, Absorbing, Says
  <2>5. Asked'
    BY <1>2, <1>3, <2>1 DEF Asked
  <2>6. Owes'
    <3>1. Current(w)' <=> Current(w)
      BY <1>2 DEF Current, Matches, Reached
    <3>2. owed' = IF pend'[w].event = "VALUE" THEN {w} ELSE {}
      BY <1>2, <1>8, <1>17, <2>2
    <3>3. agenda' = <<Task("settle", w)>>
      BY <1>2, <1>3, <2>2 DEF Owes
    <3> QED BY <1>2, <1>3, <1>17, <2>1, <2>2, <2>3, <3>1, <3>2, <3>3 DEF Owes
  <2>7. Follows'
    BY <1>2, <1>3, <1>13, <1>14, <1>17 DEF Follows
  <2>8. Unwinding'
    BY <1>17 DEF Unwinding
  <2>9. Drills'
    BY <1>2, <1>3, <1>15, <1>17 DEF Drills
  <2> QED BY <1>9, <1>10, <1>11, <1>12, <2>4, <2>5, <2>6, <2>7, <2>8, <2>9
<1> QED BY <1>1, <1>16, <1>17 DEF ResumesTo

\* The read is written back, and the worker's own park sent.
LEMMA WritebackKeeps ==
    ASSUME IInv, TInv', writeback
    PROVE  IInv'
<1> USE DEF IInv
<1> DEFINE m == [kind |-> "PARK", w |-> held, park |-> wpark[held]]
<1>1. /\ rpc = "absorb" /\ toRunner # <<>> /\ rpc' = "pump" /\ held' = 0
      /\ toRunner' = Tail(toRunner) /\ Say(m)
      /\ UNCHANGED <<wpark, wpin, wstep, left, reads, trace, size, dropped, raised,
                     course>>
      /\ UNCHANGED <<hpc, phase, agenda, pend, hpin, waiting, visit, sourced, armed,
                     caches, owed, outcome>>
  BY DEF writeback, hostVars, proxyVars, serveVars
<1>2. m.kind = "PARK" /\ m.w = held /\ m.park = wpark[held]
  OBVIOUS
<1> HIDE DEF m
<1>3. hpc = "await" /\ toHost = <<>> /\ owed = {} /\ held = agenda[1].w
      /\ Len(toRunner) = 1
  BY <1>1 DEF Turns, Absorbing
<1>4. toRunner' = <<>>
  BY <1>1, <1>3, TailFacts DEF TInv, TQueues
<1>5. toHost' # <<>> /\ Len(toHost') = 1 /\ toHost'[1] = m
  BY <1>1, <1>3, SayFirst
<1>6. phase \in {"build", "serve"}
  BY <1>3, AwaitAt
<1>7. HostAt' /\ Steps' /\ NothingDropped'
  BY <1>1 DEF HostAt, Steps, NothingDropped
<1>8. Surfaces'
  BY <1>1, <1>3 DEF Surfaces
<1>9. Turns'
  BY <1>1, <1>2, <1>3, <1>4, <1>5 DEF Turns, Pumping, Says
<1>10. Asked'
  BY <1>1, <1>2, <1>3, <1>5 DEF Asked
<1>11. Owes'
  BY <1>1, <1>3 DEF Owes
<1>12. Rounds'
  BY <1>1 DEF Rounds, Asking
<1>13. Follows'
  <2>1. Brings(agenda, wpark)
    BY <1>1, <1>3, <1>6 DEF Follows, Live
  <2> PICK h \in Workers : h = held
    BY <1>3, AwaitAt
  <2>2. \A v \in Workers : Agree(v) \/ Has(agenda, "adopt", v) \/ v = h
    BY <1>1, <1>3, <1>6 DEF Follows, Live
  <2>3. Asking(h)' /\ (\A v \in Workers : Agree(v)' <=> Agree(v))
    BY <1>1, <1>3 DEF Asking, Agree
  <2>4. toHost'[1].park = wpark'[agenda'[1].w]
    BY <1>1, <1>2, <1>3, <1>5
  <2>5. \A v \in Workers : Agree(v)' \/ Has(agenda', "adopt", v)
                           \/ (Asking(v)' /\ toHost' # <<>>)
    BY <1>1, <1>5, <2>2, <2>3
  <2> QED BY <1>1, <1>3, <2>1, <2>4, <2>5 DEF Follows
<1>14. Unwinding'
  BY <1>1, <1>3, <1>4, NoneWarned DEF Unwinding
<1>15. Drills'
  BY <1>1, <1>3, <1>5, <1>6 DEF Drills, Live, FnServed, OnFn
<1> QED BY <1>7, <1>8, <1>9, <1>10, <1>11, <1>12, <1>13, <1>14, <1>15

\* Cancelled workers have nothing in their books.
LEMMA CancelSteps ==
    ASSUME Cancel
    PROVE  Steps'
BY DEF Cancel, Steps, Nobody, Zeros, IsModel, Finished, Park

\* The block stops the run.
LEMMA RunnerStopKeeps ==
    ASSUME IInv, TInv', RunnerStop
    PROVE  IInv'
<1> USE DEF IInv
<1> DEFINE m == [kind |-> "STOP"]
<1>1. /\ Reading("RESUME") /\ Say(m) /\ Cancel
      /\ UNCHANGED <<hostVars, trace, size, dropped, raised>>
      /\ UNCHANGED <<hpc, outcome>>
  BY DEF RunnerStop, Leave, hostVars
<1>2. m.kind = "STOP"
  OBVIOUS
<1> HIDE DEF m
<1>3. hpc = "await" /\ toHost = <<>> /\ ~raised
  BY <1>1, ResumeAt
<1>7. course' = "left"
  BY <1>1 DEF RunnerStop, Leave, Reading, Turns
<1>4. toHost' # <<>> /\ Len(toHost') = 1 /\ toHost'[1] = m
  BY <1>1, <1>3, SayFirst
<1>5. Turns'
  BY <1>1, <1>2, <1>3, <1>4, <1>7 DEF Turns, Blocked, Says, Cancel
<1>6. Surfaces'
  BY <1>1, <1>3 DEF Surfaces
<1> QED BY <1>1, <1>2, <1>4, <1>5, <1>6, CancelSteps, RunnerLeaves DEF Cancel

\* The block catches a worker's error: the host is told nothing.
LEMMA BlockCatchesKeeps ==
    ASSUME IInv, TInv', BlockCatches
    PROVE  IInv'
<1> USE DEF IInv
<1>1. /\ Reading("RESUME") /\ Cancel
      /\ UNCHANGED <<hostVars, trace, size, dropped, raised, toHost>>
      /\ UNCHANGED <<hpc, outcome>>
  BY DEF BlockCatches, Leave, hostVars
<1>2. hpc = "await" /\ toHost = <<>> /\ ~raised
  BY <1>1, ResumeAt
<1>3. course' = "left"
  BY <1>1 DEF BlockCatches, Leave, Reading, Turns
<1>4. Turns'
  BY <1>1, <1>2, <1>3 DEF Turns, Blocked, Cancel
<1>5. Surfaces'
  BY <1>1, <1>2 DEF Surfaces
<1> QED BY <1>1, <1>4, <1>5, CancelSteps, RunnerLeaves DEF Cancel

\* The trace is done: nobody was still parked.
LEMMA RunnerDoneKeeps ==
    ASSUME IInv, TInv', RunnerDone
    PROVE  IInv'
<1> USE DEF IInv
<1>1. /\ rpc = "pump" /\ toRunner # <<>> /\ toRunner[1].kind = "DONE"
      /\ toRunner' = Tail(toRunner) /\ Cancel
      /\ dropped' = dropped \cup {w \in Workers : wpark[w] # Finished}
      /\ UNCHANGED <<hostVars, trace, size, raised, toHost>>
      /\ UNCHANGED <<hpc, outcome>>
  BY DEF RunnerDone, Reading, hostVars
<1>2. toRunner \in Seq(ToRunner)
  BY DEF TInv, TQueues
<1>3. /\ ~HitsOnly(toRunner) /\ ~Unwinds(toRunner) /\ ~Asks(toRunner)
      /\ Ends(toRunner) => Len(toRunner) = 1 /\ Tail(toRunner) = <<>>
  BY <1>1, <1>2, Pop
<1>4. hpc = "pump" /\ toHost = <<>> /\ Ends(toRunner)
  <2>1. toRunner # <<>>
    BY <1>1
  <2> QED BY <1>1, <1>3, <2>1 DEF Turns, Pumping
<1>5. dropped' = dropped
  <2>1. \A w \in Workers : ~Thrown(toRunner, w)
    BY <1>1, <1>3, <1>4 DEF Thrown
  <2>2. \A w \in Workers : wpark[w] = Finished
    BY <1>1, <1>4, <2>1 DEF Unwinding
  <2> QED BY <1>1, <2>2
<1>6. Turns'
  BY <1>1, <1>3, <1>4 DEF Turns, Blocked, Cancel
<1>7. Surfaces'
  BY <1>1, <1>4 DEF Surfaces
<1> QED BY <1>1, <1>5, <1>6, <1>7, CancelSteps, RunnerLeaves DEF Cancel

\* A THROW ends the worker, or fails the block, or is caught there.
LEMMA ThrowKeeps ==
    ASSUME IInv, TInv', throw, course' # "astray"
    PROVE  IInv'
<1> USE DEF IInv
<1>1. PICK w \in Workers : w = toRunner[1].w
  BY NamesTyped DEF throw, Reading
<1>2. /\ rpc = "pump" /\ toRunner # <<>> /\ toRunner[1].kind = "THROW"
      /\ toRunner' = Tail(toRunner) /\ course = "on"
      /\ UNCHANGED <<hostVars, trace, size>>
      /\ UNCHANGED <<hpc, phase, agenda, pend, hpin, waiting, visit, sourced, armed,
                     caches, owed, outcome>>
  BY DEF throw, Reading, Turns, hostVars, proxyVars, serveVars
<1>3. toRunner \in Seq(ToRunner)
  BY DEF TInv, TQueues
<1>4. /\ ~HitsOnly(toRunner) /\ ~Asks(toRunner)
      /\ Unwinds(toRunner) => Unwinds(toRunner')
      /\ Ends(toRunner) => Ends(toRunner')
      /\ \A v \in Workers :
            /\ Thrown(toRunner', v) => Thrown(toRunner, v)
            /\ Warned(toRunner', v) => Warned(toRunner, v)
            /\ Thrown(toRunner, v) => Thrown(toRunner', v) \/ v = w
  BY <1>1, <1>2, <1>3, Pop
<1>5. /\ toHost = <<>>
      /\ \/ hpc = "work" /\ phase = "dangle" /\ Unwinds(toRunner)
         \/ hpc = "pump" /\ Ends(toRunner)
  <2>1. hpc # "over"
    BY <1>2, <1>4 DEF Turns, Pumping
  <2> QED BY <1>2, <1>4, <2>1 DEF Turns, Pumping
<1>6. ~raised
  BY <1>2, <1>5 DEF Surfaces
<1>7. CASE /\ Report /\ UNCHANGED <<wpark, wpin, wstep, left, reads, held>>
           /\ UNCHANGED dropped
  <2> DEFINE m == [kind |-> "EXCEPTION"]
  <2>1. Say(m) /\ m.kind = "EXCEPTION" /\ rpc' = "over" /\ raised' = TRUE
    BY <1>5, <1>7 DEF Report
  <2> HIDE DEF m
  <2>2. toHost' # <<>> /\ Len(toHost') = 1 /\ toHost'[1] = m
    BY <1>5, <2>1, SayFirst
  <2>3. Turns'
    BY <1>2, <1>5, <2>1, <2>2 DEF Turns, Gone, Says
  <2>4. Surfaces'
    BY <1>2, <1>5, <2>1, <2>2 DEF Surfaces
  <2>5. Steps'
    BY <1>2, <1>7 DEF Steps
  <2> QED BY <1>2, <1>7, <2>1, <2>2, <2>3, <2>4, <2>5, RunnerLeaves
<1>8. CASE /\ UNCHANGED <<rpc, raised, course, toHost>>
           /\ UNCHANGED <<wpin, wstep, left, reads, held>>
           /\ wpark' = [wpark EXCEPT ![w] = Finished]
           /\ dropped' = IF toRunner[1].why = "ITER" /\ wpark[w].event = "BARRIER"
                         THEN dropped \cup {w} ELSE dropped
  <2>1. wpark'[w] = Finished /\ \A v \in Workers \ {w} : wpark'[v] = wpark[v]
    BY <1>8 DEF TInv, TRunner
  <2>2. /\ toRunner[1].why = "ITER" => Warned(toRunner, w)
        /\ Thrown(toRunner, w)
    <3>1. 1 \in 1..Len(toRunner)
      BY <1>2, <1>3
    <3> QED BY <1>1, <1>2, <1>8, <3>1 DEF Warned, Thrown
  <2>3. NothingDropped'
    BY <1>2, <1>8, <2>2 DEF Unwinding, NothingDropped
  <2>4. HostAt'
    BY <1>2 DEF HostAt
  <2>5. Turns'
    BY <1>2, <1>4, <1>5, <1>8 DEF Turns, Pumping
  <2>6. Surfaces' /\ Asked'
    BY <1>2, <1>5, <1>8 DEF Surfaces, Asked
  <2>7. Owes' /\ Rounds'
    BY <1>2, <1>5 DEF Owes, Rounds, HostAt
  <2>8. Steps'
    <3>1. ~IsModel(Finished)
      BY DEF IsModel, Finished, Park
    <3> QED BY <1>2, <1>8, <2>1, <3>1 DEF Steps
  <2>9. Follows' /\ Drills'
    BY <1>2, <1>5, <1>8 DEF Follows, Drills
  <2>10. Unwinding'
    <3>1. \A v \in Workers : Warned(toRunner', v) => wpark'[v].event # "BARRIER"
      <4>1. Finished.event # "BARRIER"
        BY DEF Finished, Park
      <4> QED BY <1>2, <1>4, <2>1, <4>1 DEF Unwinding
    <3>2. CASE hpc = "work"
      <4>1. /\ Once(agenda, "throw")
            /\ \A v \in Workers :
                  /\ Has(agenda, "throw", v) => Agree(v) /\ ~Thrown(toRunner, v)
                  /\ \/ wpark[v] = Finished
                     \/ Has(agenda, "throw", v) \/ Thrown(toRunner, v)
        BY <1>2, <1>5, <3>2 DEF Unwinding
      <4>2. ASSUME NEW v \in Workers
            PROVE  /\ Has(agenda', "throw", v) => Agree(v)' /\ ~Thrown(toRunner', v)
                   /\ \/ wpark'[v] = Finished
                      \/ Has(agenda', "throw", v) \/ Thrown(toRunner', v)
        <5>1. CASE v = w
          BY <1>2, <2>1, <2>2, <4>1, <5>1
        <5>2. CASE v # w
          <6>1. Agree(v)' <=> Agree(v)
            BY <1>2, <2>1, <5>2 DEF Agree
          <6> QED BY <1>2, <1>4, <2>1, <4>1, <5>2, <6>1
        <5> QED BY <5>1, <5>2
      <4> QED BY <1>2, <1>5, <1>8, <3>1, <3>2, <4>1, <4>2 DEF Unwinding
    <3>3. CASE hpc = "pump"
      <4>1. \A v \in Workers : wpark[v] = Finished \/ Thrown(toRunner, v)
        BY <1>2, <1>5, <3>3 DEF Unwinding
      <4>2. \A v \in Workers : wpark'[v] = Finished \/ Thrown(toRunner', v)
        BY <1>4, <2>1, <4>1
      <4> QED BY <1>2, <3>1, <3>3, <4>2 DEF Unwinding
    <3> QED BY <1>5, <3>2, <3>3
  <2> QED BY <2>3, <2>4, <2>5, <2>6, <2>7, <2>8, <2>9, <2>10
<1>9. CASE Leave /\ UNCHANGED <<raised, dropped, toHost>>
  <2>1. Cancel /\ course' = "left" /\ rpc' = "block"
    BY <1>2, <1>9 DEF Leave, Cancel
  <2>2. Turns'
    BY <1>2, <1>5, <1>9, <2>1 DEF Turns, Blocked
  <2>3. Surfaces'
    BY <1>2, <1>6, <1>9 DEF Surfaces
  <2> QED BY <1>2, <1>9, <2>1, <2>2, <2>3, CancelSteps, RunnerLeaves
<1>10. \/ /\ UNCHANGED <<rpc, raised, course, toHost>>
          /\ UNCHANGED <<wpin, wstep, left, reads, held>>
          /\ wpark' = [wpark EXCEPT ![w] = Finished]
          /\ dropped' = IF toRunner[1].why = "ITER" /\ wpark[w].event = "BARRIER"
                        THEN dropped \cup {w} ELSE dropped
       \/ /\ Report /\ UNCHANGED <<wpark, wpin, wstep, left, reads, held>>
          /\ UNCHANGED dropped
       \/ Leave /\ UNCHANGED <<raised, dropped, toHost>>
  BY <1>1 DEF throw, workerVars
<1> QED BY <1>7, <1>8, <1>9, <1>10

\* A record for a cache is taken in.
LEMMA CacheHitKeeps ==
    ASSUME IInv, TInv', CacheHit
    PROVE  IInv'
<1> USE DEF IInv
<1>1. /\ rpc = "pump" /\ toRunner # <<>> /\ toRunner[1].kind = "CACHE_HIT"
      /\ toRunner' = Tail(toRunner) /\ UNCHANGED toHost
      /\ UNCHANGED <<rpc, trace, size, dropped, raised, course>>
      /\ UNCHANGED <<wpark, wpin, wstep, left, reads, held>>
      /\ UNCHANGED <<hpc, phase, agenda, pend, hpin, waiting, visit, sourced, armed,
                     caches, owed, outcome>>
  BY DEF CacheHit, Reading, hostVars, proxyVars, serveVars, runnerVars, workerVars, runVars
<1>2. toRunner \in Seq(ToRunner)
  BY DEF TInv, TQueues
<1>3. /\ HitsOnly(toRunner) => HitsOnly(toRunner')
      /\ Unwinds(toRunner) => Unwinds(toRunner')
      /\ Ends(toRunner) => Ends(toRunner')
      /\ Asks(toRunner) => Asks(toRunner') /\ LastAsked' = LastAsked
      /\ \A v \in Workers :
            /\ Thrown(toRunner', v) => Thrown(toRunner, v)
            /\ Warned(toRunner', v) => Warned(toRunner, v)
            /\ Thrown(toRunner, v) => Thrown(toRunner', v)
  BY <1>1, <1>2, Pop DEF LastAsked
<1>4. HostAt' /\ Surfaces' /\ Steps' /\ NothingDropped'
  BY <1>1 DEF HostAt, Surfaces, Steps, NothingDropped
<1>5. Turns'
  BY <1>1, <1>3 DEF Turns, Pumping, InForward, Says
<1>6. Asked'
  <2>1. hpc = "await" /\ toHost = <<>> => Asks(toRunner)
    BY <1>1, AwaitAt DEF Says
  <2> QED BY <1>1, <1>3, <2>1 DEF Asked
<1>7. Owes'
  BY <1>1 DEF Owes, Current, Matches, Reached
<1>8. Rounds'
  BY <1>1 DEF Rounds, Asking
<1>9. Follows'
  BY <1>1 DEF Follows, Live, Agree, Asking
<1>10. Unwinding'
  BY <1>1, <1>3 DEF Unwinding, Agree
<1>11. Drills'
  BY <1>1 DEF Drills, Live, FnServed, OnFn, Asking
<1> QED BY <1>4, <1>5, <1>6, <1>7, <1>8, <1>9, <1>10, <1>11

\* The block ends, and says how.
LEMMA RunnerSaysTheEnd ==
    ASSUME IInv, TInv', RunnerEnd \/ BlockRaises, course' # "astray"
    PROVE  IInv'
<1> USE DEF IInv
<1>1. /\ rpc = "block" \/ Reading("RESUME")
      /\ rpc' = "over" /\ UNCHANGED <<hostVars, size, dropped>>
      /\ UNCHANGED <<hpc, phase, outcome>>
      /\ UNCHANGED <<wpark, wpin, wstep, left, reads, held>>
  BY DEF RunnerEnd, BlockRaises, Report, hostVars, workerVars
<1>2. PICK m \in {[kind |-> "END"], [kind |-> "EXCEPTION"]} :
          /\ Say(m)
          /\ \/ /\ rpc = "block" /\ m.kind = "END" /\ raised' = raised
                /\ ~(course = "left" /\ hpc = "await" /\ toHost = <<>>)
             \/ m.kind = "EXCEPTION" /\ raised' = (hpc # "over")
  <2>1. CASE RunnerEnd
    BY <2>1 DEF RunnerEnd
  <2>2. CASE BlockRaises
    BY <2>2 DEF BlockRaises, Report
  <2> QED BY <2>1, <2>2
<1>3. toHost \in Seq(ToHost) /\ m \in ToHost /\ toHost' = Append(toHost, m)
  BY <1>2, BareTyped DEF TInv, TQueues, Say
<1>4. m.kind \in {"END", "EXCEPTION"}
  BY <1>2
<1>5. /\ Len(toHost') = Len(toHost) + 1 /\ Len(toHost) \in Nat
      /\ \A i \in 1..Len(toHost) : toHost'[i] = toHost[i]
      /\ toHost'[Len(toHost) + 1] = m /\ toHost' # <<>>
      /\ toHost'[Len(toHost')] = m
  BY <1>3, AppendFacts
<1>6. \/ hpc = "pump" /\ toHost = <<>>
      \/ hpc = "await" /\ Says({"STOP"})
      \/ hpc = "await" /\ toHost = <<>>
      \/ hpc = "work" /\ phase = "dangle" /\ toHost = <<>>
      \/ hpc = "over"
  <2>1. CASE rpc = "block"
    BY <2>1 DEF Turns, Blocked
  <2>2. CASE Reading("RESUME")
    BY <2>2, ResumeAt
  <2> QED BY <1>1, <2>1, <2>2
<1>7. /\ toHost = <<>> => Len(toHost') = 1 /\ toHost'[1] = m
      /\ Says({"STOP"}) => /\ Len(toHost') = 2 /\ toHost'[1].kind = "STOP"
                           /\ toHost'[2] = m
  <2>1. toHost = <<>> => Len(toHost) = 0
    OBVIOUS
  <2>2. Says({"STOP"}) => 1 \in 1..Len(toHost)
    BY DEF Says
  <2> QED BY <1>5, <2>1, <2>2 DEF Says
<1>8. Turns'
  <2>1. CASE toHost = <<>> /\ hpc \in {"pump", "await", "work"}
    <3>1. hpc = "work" => phase = "dangle"
      BY <1>6, <2>1
    <3>2. Len(toHost') = 1 /\ toHost'[1].kind \in {"END", "EXCEPTION"}
      BY <1>4, <1>7, <2>1
    <3>3. hpc = "await" => toHost'[1].kind = "EXCEPTION"
      <4> SUFFICES ASSUME hpc = "await" PROVE m.kind = "EXCEPTION"
        BY <1>7, <2>1
      <4>1. rpc = "block" => course = "left"
        BY DEF Turns, Blocked
      <4> QED BY <1>2, <2>1, <4>1
    <3> QED BY <1>1, <2>1, <3>1, <3>2, <3>3 DEF Turns, Gone, Says
  <2>2. CASE hpc = "await" /\ Says({"STOP"})
    BY <1>1, <1>4, <1>7, <2>2 DEF Turns, Gone
  <2>3. CASE hpc = "over"
    BY <1>1, <2>3 DEF Turns, Gone
  <2> QED BY <1>6, <2>1, <2>2, <2>3
<1>9. Surfaces'
  <2>1. hpc # "over" => ~raised \/ rpc = "over"
    BY DEF Surfaces
  <2>2. rpc # "over"
    BY <1>1 DEF Reading
  <2>3. CASE m.kind = "EXCEPTION" /\ raised' = (hpc # "over")
    BY <1>1, <1>5, <2>3 DEF Surfaces
  <2>4. CASE m.kind = "END" /\ raised' = raised
    BY <1>1, <2>1, <2>2, <2>4 DEF Surfaces
  <2> QED BY <1>2, <2>3, <2>4
<1>10. Steps'
  BY <1>1 DEF Steps
<1>11. UNCHANGED toHost \/ (toHost' # <<>> => toHost'[1].kind # "PARK") \/ hpc = "over"
  BY <1>4, <1>6, <1>7
<1>12. CASE hpc # "over"
  BY <1>1, <1>8, <1>9, <1>10, <1>11, <1>12, RunnerLeaves
<1>13. CASE hpc = "over"
  <2>1. HostAt' /\ Asked' /\ Owes' /\ Rounds'
    BY <1>1, <1>13 DEF HostAt, Asked, Owes, Rounds, hostVars, proxyVars, serveVars
  <2>2. Follows' /\ Drills' /\ Unwinding' /\ NothingDropped'
    BY <1>1 DEF Follows, Drills, Unwinding, Live, NothingDropped
  <2> QED BY <1>8, <1>9, <1>10, <2>1, <2>2
<1> QED BY <1>12, <1>13

\* The runner dies, or loses its host.
LEMMA RunnerDies ==
    ASSUME IInv, TInv', Killed \/ RunnerLost
    PROVE  IInv'
<1> USE DEF IInv
<1>1. /\ rpc # "over" /\ rpc' = "over"
      /\ UNCHANGED <<hostVars, size, dropped, raised, toHost, toRunner>>
      /\ UNCHANGED <<hpc, phase, outcome>>
      /\ UNCHANGED <<wpark, wpin, wstep, left, reads, held>>
  BY DEF Killed, RunnerLost, hostVars, workerVars
<1>2. rpc \in {"block", "pump", "absorb"}
  BY <1>1 DEF TInv, TRunner
<1>3. Turns'
  BY <1>1, <1>2 DEF Turns, Blocked, Pumping, Absorbing, Gone, InForward, Says
<1>4. Surfaces' /\ Steps'
  BY <1>1 DEF Surfaces, Steps
<1> QED BY <1>1, <1>3, <1>4, RunnerLeaves

-----------------------------------------------------------------------------
(* The invariant *)

\* It holds at first: both are at rest, and nothing was said.
LEMMA InitHolds ==
    ASSUME Init
    PROVE  IInv
<1> USE DEF Init
<1>1. TInv
  BY InitTyped
<1>2. \A w \in Workers : /\ wpin[w] = 0 /\ wstep[w] = 0 /\ wpark[w] = Finished
  BY DEF Nobody, Zeros
<1>3. HostAt
  BY DEF HostAt, Has
<1>4. Turns /\ Surfaces /\ Asked /\ Owes /\ Rounds
  BY DEF Turns, Blocked, Surfaces, Asked, Owes, Rounds
<1>5. Steps
  BY <1>2 DEF Steps, IsModel, Finished, Park
<1>6. Follows /\ Unwinding /\ Drills /\ NothingDropped
  BY DEF Follows, Unwinding, Drills, Live, NothingDropped
<1> QED BY <1>1, <1>3, <1>4, <1>5, <1>6 DEF IInv

\* Every step keeps it, while the block is in step with the host.
LEMMA StepKeeps ==
    ASSUME IInv, [Next]_vars, course' # "astray"
    PROVE  IInv'
<1>1. TInv'
  BY StepTyped DEF IInv
<1>2. CASE HostNext
  BY <1>1, <1>2, HostInterleaveKeeps, BuildProxyKeeps, ReleaseKeeps, SettleControlKeeps,
     HostParkedKeeps, HostStoppedKeeps, NoneMisread, HostHearsTheEnd, HostEnterKeeps,
     SwitchKeeps, MoveOnKeeps, ForwardFailsKeeps, CheckDanglingKeeps, HostDoneKeeps
     DEF HostNext
<1>3. CASE RunnerNext
  BY <1>1, <1>3, RunnerInterleaveKeeps, RunnerResumeKeeps, WritebackKeeps,
     RunnerStopKeeps, BlockCatchesKeeps, ThrowKeeps, RunnerDoneKeeps, CacheHitKeeps, RunnerSaysTheEnd,
     RunnerDies
     DEF RunnerNext
<1>4. CASE UNCHANGED vars
  <2> USE <1>1, <1>4 DEF IInv, vars, hostVars, runnerVars, proxyVars, serveVars,
          workerVars, runVars
  <2>1. HostAt' /\ Turns' /\ Surfaces'
    BY DEF HostAt, Turns, Blocked, Pumping, Absorbing, Gone, Surfaces, InForward, Says
  <2>2. Asked' /\ Owes' /\ Rounds'
    BY DEF Asked, LastAsked, Owes, Current, Matches, Reached, Rounds, Asking
  <2>3. Steps' /\ Follows'
    BY DEF Steps, Follows, Live, Agree, Asking
  <2>4. Unwinding' /\ Drills' /\ NothingDropped'
    BY DEF Unwinding, Agree, Drills, Live, FnServed, OnFn, Asking, NothingDropped
  <2> QED BY <2>1, <2>2, <2>3, <2>4
<1> QED BY <1>2, <1>3, <1>4 DEF Next

\* What is astray stays astray.
LEMMA StaysAstray ==
    ASSUME [Next]_vars, course = "astray"
    PROVE  course' = "astray"
<1>1. CASE HostNext
  BY <1>1 DEF HostNext, HostInterleave, BuildProxy, release, settle_control,
     HostParked, HostStopped, HostMisreads, next_event, HostEnter, switch, MoveOn,
     ForwardFails, check_dangling, HostDone, HostEnd, runnerVars, runVars
<1>2. CASE RunnerNext
  BY <1>2 DEF RunnerNext, RunnerInterleave, RunnerResume, writeback, RunnerStop, Leave,
     throw, RunnerDone, CacheHit, RunnerEnd, BlockRaises, BlockCatches, Killed,
     RunnerLost, runnerVars, runVars
<1>3. CASE UNCHANGED vars
  BY <1>3 DEF vars, runnerVars, runVars
<1> QED BY <1>1, <1>2, <1>3 DEF Next

\* It is the invariant of the specification.
LEMMA Holds == Spec => []Inv
<1>1. Init => Inv
  BY InitHolds DEF Inv, IInv
<1>2. Inv /\ [Next]_vars => Inv'
  <2> SUFFICES ASSUME Inv, [Next]_vars PROVE Inv'
    OBVIOUS
  <2>1. TInv'
    BY StepTyped DEF Inv
  <2>2. ASSUME course' # "astray" PROVE IInv'
    <3>1. course # "astray"
      BY <2>2, StaysAstray
    <3> QED BY <2>2, <3>1, StepKeeps DEF Inv
  <2> QED BY <2>1, <2>2 DEF Inv
<1> QED BY <1>1, <1>2, PTL DEF Spec

-----------------------------------------------------------------------------
(* What it says *)

\* The round has each of the workers that are parked on the barrier, once.
LEMMA RoundIsSet ==
    ASSUME IInv, Serving, rpc = "pump"
    PROVE  /\ {w \in Workers : wpark[w].event = "BARRIER"} = Range(waiting)
           /\ Cardinality(Range(waiting)) = Len(waiting)
<1>1. hpc = "work" /\ phase = "serve" /\ agenda = <<>> /\ waiting \in Seq(Workers)
  BY DEF Serving, IInv, TInv, THost
<1>2. \A w \in Workers : Agree(w) /\ ~Has(agenda, "release", w) /\ ~Asking(w)
  BY <1>1 DEF IInv, Follows, Live, Asking, Has
<1>3. \A w \in Workers : wpark[w].event = "BARRIER" <=> Among(waiting, w)
  <2>1. \A w \in Workers : pend[w].event = "BARRIER" <=> Among(waiting, w)
    BY <1>1, <1>2 DEF IInv, Rounds
  <2> QED BY <1>2, <2>1 DEF Agree, IsModel
<1>4. /\ DOMAIN waiting = 1..Len(waiting) /\ Len(waiting) \in Nat
      /\ \A i \in 1..Len(waiting) : waiting[i] \in Workers
  BY <1>1
<1>5. \A w : w \in Range(waiting) <=> w \in Workers /\ Among(waiting, w)
  BY <1>4 DEF Range, Among
<1>6. \A i, j \in 1..Len(waiting) : waiting[i] = waiting[j] => i = j
  BY <1>1 DEF IInv, Rounds
<1>7. waiting \in Bijection(1..Len(waiting), Range(waiting))
  <2>1. waiting \in [1..Len(waiting) -> Range(waiting)]
    BY <1>1, <1>4 DEF Range
  <2>2. \A e \in Range(waiting) : \E i \in 1..Len(waiting) : waiting[i] = e
    BY <1>4 DEF Range
  <2> QED BY <1>6, <2>1, <2>2 DEF Bijection, Injection, Surjection, IsInjective
<1>8. Cardinality(Range(waiting)) = Len(waiting)
  <2>1. ExistsBijection(1..Len(waiting), Range(waiting))
    BY <1>7 DEF ExistsBijection
  <2> QED BY <1>4, <2>1, FS_CountingElements
<1> QED BY <1>3, <1>5, <1>8

\* Host and runner stay in lock step (InStep): whenever the forward runs, each
\* proxy waits for what its worker is parked on, the barrier has this round's
\* waiters and is not full, no pin is wound back, and neither side waits for
\* the other in vain or gets what it does not expect.  It is so whatever the
\* blocks stop, raise or catch, until one that has left a trace which the host
\* is still in goes on as if the trace were over.
THEOREM HostAndRunnerInStep == Spec => []InStep
<1>1. Spec => []Inv
  BY Holds
<1>2. Inv => InStep
  <2> SUFFICES ASSUME IInv
               PROVE  Lockstep /\ PinIsCurrentStep /\ WaitersWait /\ TurnsAlternate
    BY DEF Inv, InStep
  <2>1. Lockstep
    <3> SUFFICES ASSUME Serving, rpc = "pump"
                 PROVE  \A w \in Workers : /\ pend[w].event = wpark[w].event
                                           /\ pend[w].loc = wpark[w].loc
      BY DEF Lockstep
    <3>1. \A w \in Workers : Agree(w)
      BY DEF Serving, IInv, Follows, Live, Asking, Has
    <3> QED BY <3>1 DEF Agree
  <2>2. PinIsCurrentStep
    BY DEF IInv, Steps, PinIsCurrentStep
  <2>3. WaitersWait
    <3>1. Serving => Len(waiting) < size
      BY DEF Serving, IInv, Rounds
    <3> QED BY <3>1, RoundIsSet DEF WaitersWait
  <2>4. TurnsAlternate
    <3>1. rpc \in {"block", "pump", "absorb", "over"}
      BY DEF IInv, TInv, TRunner
    <3>2. hpc = "pump" /\ toHost # <<>> =>
              toHost[1].kind \in {"INTERLEAVE", "END", "EXCEPTION"}
      BY <3>1 DEF IInv, Turns, Blocked, Pumping, Absorbing, Gone, InForward, Says
    <3>3. hpc = "await" /\ toHost # <<>> =>
              toHost[1].kind \in {"PARK", "STOP", "EXCEPTION"}
      BY AwaitAt DEF Says
    <3>4. rpc = "absorb" /\ toRunner # <<>> => toRunner[1].kind = "RESUME"
      BY DEF IInv, Turns, Absorbing
    <3>5. ~(/\ hpc \in {"pump", "await"} /\ toHost = <<>>
            /\ rpc \in {"pump", "absorb"} /\ toRunner = <<>>)
      <4>1. Says({"INTERLEAVE"}) \/ Says({"PARK"}) => toHost # <<>>
        BY DEF Says
      <4>2. Ends(toRunner) \/ Asks(toRunner) \/ Len(toRunner) = 1 => toRunner # <<>>
        BY DEF Ends, Asks
      <4> QED BY <4>1, <4>2 DEF IInv, Turns, Pumping, Absorbing, InForward
    <3> QED BY <3>2, <3>3, <3>4, <3>5 DEF TurnsAlternate
  <2> QED BY <2>1, <2>2, <2>3, <2>4
<1> QED BY <1>1, <1>2, PTL

\* However a run ends, the user hears of it (EndsAreTold): no worker is ended
\* without a warning or an error, and an error the runner reported is what the
\* request fails with, although its socket was closed meanwhile; until a block
\* has gone on out of step, as above.
THEOREM NoEndIsSilent == Spec => []EndsAreTold
<1>1. Spec => []Inv
  BY Holds
<1>2. Inv => EndsAreTold
  BY DEF Inv, IInv, Surfaces, EndsAreTold, RealErrorSurfaces
<1> QED BY <1>1, <1>2, PTL

\* The model leaves a visit when all that was asked of it is done
\* (VisitsComplete): every read is written back, and nobody is parked on it;
\* until a block has gone on out of step, as above.
THEOREM VisitsAreComplete == Spec => VisitsComplete
<1>1. Spec => []Inv
  BY Holds
<1> DEFINE Applied == phase = "serve" /\ visit' # visit /\ course # "astray" =>
                          owed = {}
           Passed == phase = "serve" /\ visit' # visit /\ rpc = "pump"
                     /\ course # "astray" =>
                        \A w \in Workers :
                            ~(/\ wpark[w].event \in {"VALUE", "SWAP"}
                              /\ wpark[w].loc = Visits[visit]
                              /\ pend[w].pin = Count(wpark[w].loc, visit))
<1>2. Inv /\ [Next]_vars => [Applied]_vars /\ [Passed]_vars
  <2> SUFFICES ASSUME IInv, Next, phase = "serve", visit' # visit
               PROVE  Applied /\ Passed
    BY DEF Inv, vars, hostVars, serveVars
  <2>1. MoveOn
    BY DEF Next, HostNext, HostInterleave, BuildProxy, release, settle_control,
       run_module, HostParked, HostStopped, HostMisreads, next_event, HostEnter, switch,
       ForwardFails, check_dangling, HostDone, HostEnd, RunnerNext, RunnerInterleave,
       RunnerResume, writeback, RunnerStop, throw, RunnerDone, CacheHit, RunnerEnd,
       BlockRaises, BlockCatches, Killed, RunnerLost, hostVars, serveVars
  <2>2. Applied
    BY <2>1, NothingOwed DEF MoveOn
  <2>3. Passed
    <3> SUFFICES ASSUME rpc = "pump", NEW w \in Workers, IsModel(wpark[w]),
                        wpark[w].loc = Visits[visit],
                        pend[w].pin = Count(wpark[w].loc, visit)
                 PROVE  FALSE
      BY DEF IsModel
    <3>1. hpc = "work" /\ agenda = <<>>
      BY <2>1 DEF MoveOn, Serving
    <3>2. Agree(w)
      BY <3>1 DEF IInv, Follows, Live, Asking, Has
    <3>3. Matches(w)
      BY <3>2 DEF Agree, Matches, IsModel
    <3>4. Reached
      BY <3>1 DEF IInv, Drills, Live, OnFn, FnServed, Reached
    <3> QED BY <2>1, <3>3, <3>4 DEF MoveOn
  <2> QED BY <2>2, <2>3
<1>3. Spec => [][Applied]_vars /\ [][Passed]_vars
  BY <1>1, <1>2, PTL DEF Spec
<1> QED BY <1>3 DEF VisitsComplete, EditsApplied, NobodyPassed

=============================================================================
