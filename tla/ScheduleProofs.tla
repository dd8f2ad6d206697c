--------------------------- MODULE ScheduleProofs ---------------------------
(***************************************************************************)
(* A pass writes only what it read, and puts no second replica beside one  *)
(* that is up, for any number of events, models and background passes.     *)
(***************************************************************************)
EXTENDS Schedule, TLAPS

\* A pass marks only events that were active when it read, so that there is a
\* result to stamp on them.
Pinned(v) == \A e \in v.marks : v.active[e] # None
MarksArePinned == \A p \in Passes : Pinned(view[p])

TInv == TypeOK /\ MarksArePinned

\* The pass that rewrites schedule.json holds its lock, so the copy is current.
CopyIsCurrent ==
    \A p \in Passes : pc[p] = "marking" => storeLock = p /\ copy = calendar

\* One pass at a time: whoever is past reconcile_lock() holds the lock, also
\* when a call of it hangs.
OnePass == \A p \in Passes : pc[p] \notin {"idle", "wait"} <=> passLock = p

HungHolds == \A p \in hung : pc[p] \notin {"idle", "wait"}
LockInv == OnePass /\ HungHolds

\* The steps after a deploy, up to the end of the save.
Late == {"load", "mark", "marking", "save", "saving"}
LatePass(p) == pc[p] \in Late

\* What is up is known: from the state file when no pass has deployed since it
\* was saved, and else from what the pass that has is about to save.
UpIsSaved ==
    (\A p \in Passes : ~LatePass(p)) =>
        ~truncated /\ \A m \in Models : up[m] > 0 => m \in saved
UpIsWanted ==
    \A p \in Passes : LatePass(p) =>
        \A m \in Models : up[m] > 0 => m \in Keys(view[p].active)

\* What is up and not wanted is to be evicted, and then is.
UnwantedIsEvicted ==
    \A p \in Passes : pc[p] \in {"status", "evict", "deploy"} =>
        \A m \in Models : up[m] > 0 =>
            \/ m \in Keys(view[p].active)
            \/ pc[p] # "deploy" /\ m \in view[p].evict

\* What is to be deployed is wanted and down.
DeployedIsDown ==
    \A p \in Passes : pc[p] \in {"evict", "deploy"} =>
        \A m \in view[p].deploy : m \in Keys(view[p].active) /\ up[m] = 0

Accounted == UpIsSaved /\ UpIsWanted /\ UnwantedIsEvicted /\ DeployedIsDown

\* Unless a pass was cut off, or an admin deployed by hand.
SInv == TInv /\ LockInv /\ (cutOff \/ byHand \/ Accounted)

-----------------------------------------------------------------------------
(* Types *)

Statuses == {None, "READY", "ERROR"}
EventType == [model : Models \cup {None}, status : Statuses]
Views == [active : [Events -> Models \cup {None}],
          evict : SUBSET Models, deploy : SUBSET Models,
          results : [Models -> Statuses], marks : SUBSET Events]

\* What a pass knows before it reads, and after it returns.
LEMMA BlankTyped == Blank \in Views
  BY DEF Blank, Views, Statuses

\* The types of the records.
LEMMA RecordsTyped ==
    ASSUME TypeOK
    PROVE  /\ view \in [Passes -> Views]
           /\ calendar \in [Events -> EventType] /\ copy \in [Events -> EventType]
  BY DEF TypeOK, Views, EventType, Statuses

\* A pass that learns something.
LEMMA SeesTyped ==
    ASSUME TypeOK, NEW p \in Passes, NEW seen \in Views, Sees(p, seen)
    PROVE  view' \in [Passes -> Views]
  BY RecordsTyped DEF Sees

\* What a pass may still have to do.
LEMMA UpdatesTyped ==
    ASSUME NEW v \in Views
    PROVE  /\ \A ms \in SUBSET Models : /\ [v EXCEPT !.evict = ms] \in Views
                                        /\ [v EXCEPT !.deploy = ms] \in Views
           /\ \A es \in SUBSET Events : [v EXCEPT !.marks = es] \in Views
           /\ \A rs \in [Models -> Statuses] : [v EXCEPT !.results = rs] \in Views
  BY DEF Views

\* A pass that returns has nothing in hand.
LEMMA ReturnsTyped ==
    ASSUME TypeOK, NEW p \in Passes, Returns(p)
    PROVE  /\ pc' \in [Passes -> {"idle", "wait", "read", "status", "evict",
                          "deploy", "load", "mark", "marking", "save", "saving"}]
           /\ view' \in [Passes -> Views]
           /\ passLock' = None
  BY BlankTyped DEF TypeOK, Returns, Goes, Sees, Views, Statuses

\* The admins, the clock and what happens to the cluster keep the types.
LEMMA OutsideKeepsTypes ==
    ASSUME TypeOK,
           \/ \E e \in Events : Create(e) \/ Update(e) \/ Delete(e) \/ TimePasses(e)
           \/ \E m \in Models : AdminDeploys(m) \/ Drifts(m)
           \/ CronTick
    PROVE  TypeOK'
<1>1. ASSUME NEW e \in Events, NEW m \in Models \cup {None}, Write(e, m),
             window' \in [Events -> When]
      PROVE  TypeOK'
  <2>1. calendar' \in [Events -> EventType]
    <3>1. \A x \in EventType : [x EXCEPT !.model = m] \in EventType
      BY DEF EventType
    <3>2. calendar' = [calendar EXCEPT ![e] = [calendar[e] EXCEPT !.model = m]]
      BY <1>1 DEF Write
    <3> QED BY <3>1, <3>2, RecordsTyped
  <2>2. pc' \in [Passes -> {"idle", "wait", "read", "status", "evict", "deploy",
                            "load", "mark", "marking", "save", "saving"}]
    BY <1>1 DEF Write, Triggers, Goes, TypeOK, Passes
  <2>3. writes' \in 0..MaxWrites
    BY <1>1, ScheduleAssumption DEF Write, TypeOK
  <2> QED BY <1>1, <2>1, <2>2, <2>3
    DEF Write, TypeOK, EventType, Statuses, fileVars, ghosts
<1>2. ASSUME NEW e \in Events, Create(e) \/ Update(e) \/ Delete(e)
      PROVE  TypeOK'
  <2>1. window' \in [Events -> When]
    BY <1>2 DEF Create, Update, Delete, TypeOK, When
  <2>2. \E m \in Models \cup {None} : Write(e, m)
    BY <1>2 DEF Create, Update, Delete
  <2> QED BY <1>1, <2>1, <2>2
<1>3. ASSUME NEW e \in Events, TimePasses(e) PROVE TypeOK'
  BY <1>3 DEF TimePasses, When, TypeOK, fileVars, passVars, ghosts, counters
<1>4. ASSUME NEW m \in Models, AdminDeploys(m) \/ Drifts(m) PROVE TypeOK'
  <2>1. up' \in [Models -> 0..MaxReplicas]
    BY <1>4, ScheduleAssumption DEF AdminDeploys, Drifts, TypeOK
  <2>2. faults' \in 0..MaxFaults
    BY <1>4, ScheduleAssumption DEF AdminDeploys, Drifts, Fault, TypeOK
  <2>3. ours' \subseteq Models /\ {cutOff', byHand'} \subseteq BOOLEAN
    BY <1>4 DEF AdminDeploys, Drifts, TypeOK
  <2> QED BY <1>4, <2>1, <2>2, <2>3
    DEF AdminDeploys, Drifts, TypeOK, storeVars, fileVars, passVars
<1>5. CronTick => TypeOK'
  BY DEF CronTick, Goes, Passes, TypeOK, storeVars, fileVars, ghosts, counters
<1> QED BY <1>2, <1>3, <1>4, <1>5

\* A pass up to its evictions keeps the types.
LEMMA FirstHalfKeepsTypes ==
    ASSUME TypeOK, NEW p \in Passes,
           \/ reconcile_once(p) \/ Reads(p) \/ fetch_hot_model_keys(p)
           \/ evict(p) \/ Evicted(p)
    PROVE  TypeOK'
<1>1. CASE reconcile_once(p)
  BY <1>1 DEF reconcile_once, Goes, TypeOK, storeVars, fileVars, ghosts, counters
<1>2. CASE Reads(p)
  <2>1. [Blank EXCEPT !.active = Active, !.evict = Prev \ Keys(Active)] \in Views
    BY BlankTyped DEF Blank, Views, TypeOK, Active, Prev, Statuses
  <2>2. view' \in [Passes -> Views]
    BY <1>2, <2>1 DEF Reads, Sees, TypeOK, Views, Statuses
  <2> QED BY <1>2, <2>2
    DEF Reads, Goes, TypeOK, storeVars, fileVars, ghosts, counters, Views, Statuses
<1>3. CASE fetch_hot_model_keys(p)
  <2>1. faults' \in 0..MaxFaults
    BY <1>3, ScheduleAssumption DEF fetch_hot_model_keys, Fault, TypeOK
  <2>2. CASE Returns(p)
    BY <1>3, <2>1, <2>2, ReturnsTyped
    DEF fetch_hot_model_keys, TypeOK, storeVars, fileVars, ghosts, Views, Statuses
  <2>3. CASE ~Returns(p)
    <3> DEFINE deploying == to_deploy(Keys(view[p].active), {m \in Models : up[m] > 0})
    <3>1. deploying \subseteq Models
      BY DEF to_deploy, Keys, TypeOK
    <3>2. /\ view' = [view EXCEPT ![p] = [view[p] EXCEPT !.deploy = deploying]]
          /\ UNCHANGED passLock
          /\ \E where \in {"save", "evict"} : Goes(p, where)
      BY <1>3, <2>3 DEF fetch_hot_model_keys, Sees
    <3>3. view' \in [Passes -> Views]
      <4>1. view[p] \in Views
        BY RecordsTyped
      <4> HIDE DEF deploying
      <4>2. [view[p] EXCEPT !.deploy = deploying] \in Views
        BY <3>1, <4>1, UpdatesTyped
      <4> QED BY <3>2, <4>2, SeesTyped DEF Sees
    <3>4. pc' \in [Passes -> {"idle", "wait", "read", "status", "evict", "deploy",
                              "load", "mark", "marking", "save", "saving"}]
      BY <3>2 DEF Goes, TypeOK
    <3> HIDE DEF deploying
    <3> QED BY <1>3, <2>1, <3>2, <3>3, <3>4
      DEF fetch_hot_model_keys, TypeOK, storeVars, fileVars, ghosts, Views, Statuses
  <2> QED BY <2>2, <2>3
<1>4. CASE evict(p)
  <2>1. faults' \in 0..MaxFaults
    BY <1>4, ScheduleAssumption DEF evict, Fault, TypeOK
  <2>2. CASE Returns(p) /\ UNCHANGED <<up, ours>>
    BY <1>4, <2>1, <2>2, ReturnsTyped
    DEF evict, TypeOK, storeVars, fileVars, Views, Statuses
  <2>3. CASE ~(Returns(p) /\ UNCHANGED <<up, ours>>)
    <3>1. PICK m \in view[p].evict :
                /\ up' = [up EXCEPT ![m] = 0] /\ ours' = ours \ {m}
                /\ Sees(p, [view[p] EXCEPT !.evict = @ \ {m}])
                /\ UNCHANGED <<pc, passLock>>
      BY <1>4, <2>3 DEF evict
    <3>2. view' \in [Passes -> Views]
      <4>1. view[p] \in Views /\ view[p].evict \ {m} \in SUBSET Models
        BY RecordsTyped DEF Views
      <4>2. [view[p] EXCEPT !.evict = @ \ {m}] \in Views
        BY <4>1 DEF Views
      <4> QED BY <3>1, <4>2, SeesTyped
    <3>3. up' \in [Models -> 0..MaxReplicas] /\ ours' \subseteq Models
      BY <3>1, ScheduleAssumption DEF TypeOK
    <3> QED BY <1>4, <2>1, <3>1, <3>2, <3>3
      DEF evict, TypeOK, storeVars, fileVars, Views, Statuses
  <2> QED BY <2>2, <2>3
<1>5. CASE Evicted(p)
  BY <1>5 DEF Evicted, Goes, TypeOK, storeVars, fileVars, ghosts, counters
<1> QED BY <1>1, <1>2, <1>3, <1>4, <1>5

\* A pass that deploys, marks and saves keeps the types.
LEMMA SecondHalfKeepsTypes ==
    ASSUME TInv, NEW p \in Passes,
           \/ deploy(p) \/ wait_for_replica_ready(p) \/ mark_status(p)
           \/ MarkWrites(p) \/ Marked(p) \/ persist_state(p) \/ Persisted(p)
    PROVE  TypeOK'
<1> USE DEF TInv
<1>v. view[p] \in Views
  BY RecordsTyped
<1>1. CASE deploy(p)
  <2> DEFINE room == {m \in view[p].deploy : up[m] < MaxReplicas}
             found == [m \in Models |-> IF m \in view[p].deploy THEN Entry(m, room)
                                        ELSE None]
  <2>1. faults' \in 0..MaxFaults
    BY <1>1, ScheduleAssumption DEF deploy, Fault, TypeOK
  <2>2. room \subseteq Models /\ found \in [Models -> Statuses]
    BY <1>v DEF Views, Entry, Statuses
  <2>3. \/ Placed(room) /\ Sees(p, [view[p] EXCEPT !.results = found])
           /\ Goes(p, "load")
        \/ (Placed(room) \/ Placed({})) /\ UNCHANGED view /\ Goes(p, "save")
    BY <1>1 DEF deploy
  <2>4. pc' \in [Passes -> {"idle", "wait", "read", "status", "evict", "deploy",
                            "load", "mark", "marking", "save", "saving"}]
    BY <2>3 DEF Goes, TypeOK
  <2>5. up' \in [Models -> 0..MaxReplicas] /\ ours' \subseteq Models
    BY <2>2, <2>3, ScheduleAssumption DEF Placed, TypeOK
  <2>6. view' \in [Passes -> Views]
    <3>1. [view[p] EXCEPT !.results = found] \in Views
      <4> HIDE DEF found
      <4> QED BY <1>v, <2>2, UpdatesTyped
    <3> HIDE DEF found, room
    <3> QED BY <2>3, <3>1, SeesTyped, RecordsTyped
  <2> HIDE DEF found, room
  <2> QED BY <1>1, <2>1, <2>4, <2>5, <2>6
    DEF deploy, TypeOK, storeVars, fileVars, Views, Statuses
<1>2. CASE wait_for_replica_ready(p)
  <2> DEFINE marks == {e \in Events : view[p].active[e] # None
                                /\ view[p].results[view[p].active[e]] # None}
  <2>1. faults' \in 0..MaxFaults
    <3>1. UNCHANGED faults \/ Fault
      BY <1>2 DEF wait_for_replica_ready
    <3> QED BY <3>1, ScheduleAssumption DEF Fault, TypeOK
  <2>2. up' \in [Models -> 0..MaxReplicas] /\ ours' \subseteq Models
    <3>1. CASE UNCHANGED <<up, ours>>
      BY <3>1 DEF TypeOK
    <3>2. CASE \E m \in Models :
                  /\ up[m] > 0 /\ up' = [up EXCEPT ![m] = @ - 1]
                  /\ ours' = IF up[m] = 1 THEN ours \ {m} ELSE ours
      BY <3>2, ScheduleAssumption DEF TypeOK
    <3> QED BY <1>2, <3>1, <3>2 DEF wait_for_replica_ready
  <2>3. /\ [view[p] EXCEPT !.marks = marks] \in Views
        /\ \A m \in Models :
              [view[p] EXCEPT !.marks = marks, !.results[m] = "ERROR"] \in Views
    BY <1>v DEF Views, Statuses
  <2>4. \E seen \in Views : Sees(p, seen)
    BY <1>2, <2>3 DEF wait_for_replica_ready
  <2>5. view' \in [Passes -> Views]
    BY <2>4, SeesTyped
  <2> QED BY <1>2, <2>1, <2>2, <2>5
    DEF wait_for_replica_ready, Goes, TypeOK, storeVars, fileVars, Views, Statuses
<1>3. CASE mark_status(p)
  BY <1>3 DEF mark_status, locked, Goes, TypeOK, fileVars, ghosts, counters
<1>4. CASE MarkWrites(p)
  <2>1. PICK e \in view[p].marks :
          /\ calendar' = IF copy[e].model = None THEN copy
                         ELSE [copy EXCEPT ![e].status =
                                  view[p].results[view[p].active[e]]]
          /\ Sees(p, [view[p] EXCEPT !.marks = @ \ {e}])
    BY <1>4 DEF MarkWrites
  <2>2. calendar' \in [Events -> EventType]
    <3>1. e \in Events /\ view[p].active[e] \in Models
      BY <1>v DEF MarksArePinned, Pinned, Views
    <3> DEFINE found == view[p].results[view[p].active[e]]
    <3>2. found \in Statuses
      BY <1>v, <3>1 DEF Views
    <3> HIDE DEF found
    <3>3. [copy[e] EXCEPT !.status = found] \in EventType
      BY <3>1, <3>2, RecordsTyped DEF EventType
    <3>4. [copy EXCEPT ![e] = [copy[e] EXCEPT !.status = found]]
             \in [Events -> EventType]
      BY <3>3, RecordsTyped
    <3> QED BY <2>1, <3>4, RecordsTyped DEF found
  <2>3. [view[p] EXCEPT !.marks = @ \ {e}] \in Views
    BY <1>v DEF Views
  <2>4. view' \in [Passes -> Views]
    BY <2>1, <2>3, SeesTyped
  <2> QED BY <1>4, <2>2, <2>4
    DEF MarkWrites, Goes, TypeOK, fileVars, ghosts, counters, Views, Statuses,
        EventType
<1>5. CASE Marked(p)
  BY <1>5 DEF Marked, Goes, TypeOK, storeVars, fileVars, ghosts, counters
<1>5a. CASE persist_state(p)
  BY <1>5a DEF persist_state, Goes, TypeOK, storeVars, ghosts, counters
<1>6. CASE Persisted(p)
  <2>1. saved' \subseteq Models
    BY <1>v, <1>6 DEF Persisted, Keys, Views
  <2>2. Returns(p) /\ truncated' = FALSE
    BY <1>6 DEF Persisted
  <2>3. /\ UNCHANGED <<calendar, copy, window, storeLock, up, hung, ours, cutOff, byHand>>
        /\ UNCHANGED <<writes, faults, crashes>>
    BY <1>6 DEF Persisted, storeVars, ghosts, counters
  <2> QED BY <2>1, <2>2, <2>3, ReturnsTyped DEF TypeOK, Views, Statuses
<1> QED BY <1>1, <1>2, <1>3, <1>4, <1>5, <1>5a, <1>6

\* A pass that hangs, times out or is killed keeps the types.
LEMMA FailuresKeepTypes ==
    ASSUME TypeOK, NEW p \in Passes, Hangs(p) \/ Killed(p) \/ TimesOut
    PROVE  TypeOK'
<1>1. CASE Hangs(p)
  <2>1. faults' \in 0..MaxFaults
    BY <1>1, ScheduleAssumption DEF Hangs, Fault, TypeOK
  <2> QED BY <1>1, <2>1 DEF Hangs, TypeOK, storeVars, fileVars, ghosts
<1>2. ASSUME NEW q \in Passes, Dies(q), crashes' \in 0..MaxCrashes
      PROVE  TypeOK'
  BY <1>2, ReturnsTyped DEF Dies, TypeOK, fileVars, Views, Statuses
<1>3. CASE Killed(p)
  BY <1>2, <1>3, ScheduleAssumption DEF Killed, TypeOK
<1>4. CASE TimesOut
  BY <1>2, <1>4 DEF TimesOut, TypeOK, Passes
<1> QED BY <1>1, <1>3, <1>4

\* No pass marks an event that was not active when it read.
LEMMA MarksStayPinned ==
    ASSUME TInv, Next
    PROVE  MarksArePinned'
<1> USE DEF TInv
<1>1. ASSUME NEW p \in Passes, NEW seen \in Views, Pinned(seen), Sees(p, seen)
      PROVE  MarksArePinned'
  BY <1>1, RecordsTyped DEF Sees, MarksArePinned, Pinned
<1>2. Pinned(Blank)
  BY DEF Pinned, Blank
<1>3. ASSUME NEW p \in Passes, Returns(p) PROVE MarksArePinned'
  BY <1>1, <1>2, <1>3, BlankTyped DEF Returns
<1>4. ASSUME UNCHANGED view PROVE MarksArePinned'
  BY <1>4 DEF MarksArePinned
<1>5. ASSUME NEW p \in Passes, PassNext(p) PROVE MarksArePinned'
  <2>v. view[p] \in Views /\ Pinned(view[p])
    BY RecordsTyped DEF MarksArePinned
  <2>1. CASE Reads(p)
    <3> DEFINE seen == [Blank EXCEPT !.active = Active, !.evict = Prev \ Keys(Active)]
    <3>1. seen \in Views /\ Pinned(seen)
      BY BlankTyped
      DEF Blank, Views, TypeOK, Active, Prev, Statuses, Pinned
    <3> HIDE DEF seen
    <3> QED BY <1>1, <2>1, <3>1 DEF Reads, seen
  <2>2. CASE fetch_hot_model_keys(p)
    <3> DEFINE deploying == to_deploy(Keys(view[p].active), {m \in Models : up[m] > 0})
               seen == [view[p] EXCEPT !.deploy = deploying]
    <3>1. deploying \subseteq Models
      BY DEF to_deploy, Keys, TypeOK
    <3>2. seen \in Views /\ Pinned(seen)
      <4> HIDE DEF deploying
      <4> QED BY <2>v, <3>1 DEF Views, Pinned
    <3>3. Sees(p, seen) \/ Returns(p)
      BY <2>2 DEF fetch_hot_model_keys
    <3> HIDE DEF seen
    <3> QED BY <1>1, <1>3, <3>2, <3>3
  <2>3. CASE evict(p)
    <3>1. ASSUME NEW m \in Models
          PROVE  LET seen == [view[p] EXCEPT !.evict = @ \ {m}]
                 IN  seen \in Views /\ Pinned(seen)
      BY <2>v DEF Views, Pinned
    <3>2. Returns(p) \/ \E m \in Models : Sees(p, [view[p] EXCEPT !.evict = @ \ {m}])
      BY <2>3, <2>v DEF evict, Views
    <3> QED BY <1>1, <1>3, <3>1, <3>2
  <2>4. CASE deploy(p)
    <3> DEFINE room == {m \in view[p].deploy : up[m] < MaxReplicas}
               found == [m \in Models |-> IF m \in view[p].deploy
                                          THEN Entry(m, room) ELSE None]
               seen == [view[p] EXCEPT !.results = found]
    <3>1. found \in [Models -> Statuses]
      BY DEF Entry, Statuses
    <3>2. seen \in Views /\ Pinned(seen)
      <4> HIDE DEF found
      <4> QED BY <2>v, <3>1 DEF Views, Pinned
    <3>3. Sees(p, seen) \/ UNCHANGED view
      BY <2>4 DEF deploy
    <3> HIDE DEF seen
    <3> QED BY <1>1, <1>4, <3>2, <3>3
  <2>5. CASE wait_for_replica_ready(p)
    <3> DEFINE marks == {e \in Events : view[p].active[e] # None
                                /\ view[p].results[view[p].active[e]] # None}
               marking == [view[p] EXCEPT !.marks = marks]
               failing(m) == [view[p] EXCEPT !.marks = marks, !.results[m] = "ERROR"]
    <3>1. marking \in Views /\ Pinned(marking)
      BY <2>v DEF Views, Pinned
    <3>2. \A m \in Models : failing(m) \in Views /\ Pinned(failing(m))
      BY <2>v DEF Views, Pinned, Statuses
    <3>3. Sees(p, marking) \/ \E m \in Models : Sees(p, failing(m))
      BY <2>5 DEF wait_for_replica_ready
    <3> HIDE DEF marking, failing
    <3> QED BY <1>1, <3>1, <3>2, <3>3
  <2>6. CASE MarkWrites(p)
    <3>1. ASSUME NEW e \in Events
          PROVE  LET seen == [view[p] EXCEPT !.marks = @ \ {e}]
                 IN  seen \in Views /\ Pinned(seen)
      BY <2>v DEF Views, Pinned
    <3>2. \E e \in Events : Sees(p, [view[p] EXCEPT !.marks = @ \ {e}])
      BY <2>6, <2>v DEF MarkWrites, Views
    <3> QED BY <1>1, <3>1, <3>2
  <2>7. CASE Persisted(p)
    BY <1>3, <2>7 DEF Persisted
  <2>8. CASE \/ reconcile_once(p) \/ Evicted(p) \/ mark_status(p) \/ Marked(p)
             \/ persist_state(p)
    BY <1>4, <2>8
    DEF reconcile_once, Evicted, mark_status, Marked, persist_state
  <2> QED BY <1>5, <2>1, <2>2, <2>3, <2>4, <2>5, <2>6, <2>7, <2>8 DEF PassNext
<1>6. ASSUME NEW p \in Passes, Hangs(p) \/ Killed(p) PROVE MarksArePinned'
  BY <1>3, <1>4, <1>6 DEF Hangs, Killed, Dies
<1>7. CASE TimesOut
  BY <1>3, <1>7 DEF TimesOut, Dies, Passes
<1>8. CASE \/ \E e \in Events : Create(e) \/ Update(e) \/ Delete(e) \/ TimePasses(e)
           \/ \E m \in Models : AdminDeploys(m) \/ Drifts(m)
           \/ CronTick
  BY <1>4, <1>8
  DEF Create, Update, Delete, Write, TimePasses, AdminDeploys, Drifts, CronTick,
      passVars
<1> QED BY <1>5, <1>6, <1>7, <1>8 DEF Next

\* Types, with what they rest on, at the start ...
LEMMA TInvStarts == Init => TInv
<1> SUFFICES ASSUME Init PROVE TInv
  OBVIOUS
<1>1. TypeOK
  <2>1. view \in [Passes -> Views]
    BY BlankTyped DEF Init
  <2>2. calendar \in [Events -> EventType] /\ copy \in [Events -> EventType]
    BY DEF Init, EventType, Statuses
  <2>3. up \in [Models -> 0..MaxReplicas]
        /\ writes \in 0..MaxWrites /\ faults \in 0..MaxFaults
        /\ crashes \in 0..MaxCrashes
    BY ScheduleAssumption DEF Init
  <2> QED BY <2>1, <2>2, <2>3 DEF Init, TypeOK, When, Views, EventType, Statuses
<1>2. MarksArePinned
  BY DEF Init, MarksArePinned, Pinned, Blank
<1> QED BY <1>1, <1>2 DEF TInv

\* ... and after every step.
LEMMA TInvKept ==
    ASSUME TInv, [Next]_vars
    PROVE  TInv'
<1>1. CASE UNCHANGED vars
  BY <1>1 DEF vars, storeVars, fileVars, passVars, ghosts, counters, TInv, TypeOK,
              MarksArePinned
<1>2. CASE Next
  <2>1. TypeOK'
    BY <1>2, OutsideKeepsTypes, FirstHalfKeepsTypes, SecondHalfKeepsTypes,
       FailuresKeepTypes
    DEF Next, PassNext, TInv, Passes
  <2> QED BY <1>2, <2>1, MarksStayPinned DEF TInv
<1> QED BY <1>1, <1>2

\* The types hold although statuses are looked up by model, for a pass marks no
\* event that pinned none when it read (reconcile.py).
THEOREM ScheduleTypes == Spec => []TypeOK
<1>1. TInv => TypeOK
  BY DEF TInv
<1>2. TInv /\ [Next]_vars => TInv'
  BY TInvKept
<1> QED BY <1>1, <1>2, TInvStarts, PTL DEF Spec

-----------------------------------------------------------------------------
(* One pass at a time *)

Outside(p) == pc[p] \in {"idle", "wait"}
Steps == {"read", "status", "evict", "deploy", "load", "mark", "marking", "save",
          "saving"}

\* A step of a pass that holds the lock: on to the next one, or to the end.
Inside(p) == \/ /\ \E where \in Steps : Goes(p, where)
                /\ passLock' = passLock /\ hung' \subseteq hung \cup {p}
             \/ Returns(p) /\ hung' \subseteq hung \ {p}

\* What a step may do to the lock of the state file.
LEMMA LockSteps ==
    ASSUME TypeOK, LockInv, Next
    PROVE  \/ UNCHANGED <<pc, passLock, hung>>
           \/ \E p \in Passes : pc[p] = "idle" /\ Goes(p, "wait")
                                /\ UNCHANGED <<passLock, hung>>
           \/ \E p \in Passes : reconcile_once(p)
           \/ \E p \in Passes : ~Outside(p) /\ Inside(p)
<1>1. ASSUME NEW p \in Passes, PassNext(p) \/ Hangs(p), ~reconcile_once(p)
      PROVE  ~Outside(p) /\ Inside(p)
  <2>1. CASE Reads(p) \/ Evicted(p) \/ mark_status(p) \/ MarkWrites(p)
             \/ Marked(p) \/ persist_state(p)
    BY <2>1
    DEF Reads, Evicted, mark_status, MarkWrites, Marked, persist_state, Running,
        Outside, Inside, Steps
  <2>2. CASE fetch_hot_model_keys(p) \/ evict(p) \/ Persisted(p)
    BY <2>2
    DEF fetch_hot_model_keys, evict, Persisted, Running, Outside, Inside, Steps,
        Goes, TypeOK
  <2>3. CASE deploy(p) \/ wait_for_replica_ready(p)
    BY <2>3
    DEF deploy, wait_for_replica_ready, Running, Outside, Inside, Steps
  <2>4. CASE Hangs(p)
    BY <2>4 DEF Hangs, Running, Outside, Inside, Steps, Goes, TypeOK
  <2> QED BY <1>1, <2>1, <2>2, <2>3, <2>4 DEF PassNext
<1>2. ASSUME NEW p \in Passes, Killed(p) PROVE ~Outside(p) /\ Inside(p)
  BY <1>2 DEF Killed, Dies, Inside, LockInv, OnePass, Outside
<1>3. CASE TimesOut
  BY <1>3 DEF TimesOut, Dies, Inside, LockInv, HungHolds, Outside, Passes
<1>4. CASE \/ \E e \in Events : Create(e) \/ Update(e) \/ Delete(e)
           \/ CronTick
  BY <1>4
  DEF Create, Update, Delete, Write, Triggers, CronTick, Passes
<1>5. CASE \/ \E e \in Events : TimePasses(e)
           \/ \E m \in Models : AdminDeploys(m) \/ Drifts(m)
  BY <1>5 DEF TimePasses, AdminDeploys, Drifts, passVars
<1> QED BY <1>1, <1>2, <1>3, <1>4, <1>5 DEF Next

\* The lock is held from reconcile_lock() to the end of the pass.
LEMMA LockInvKept ==
    ASSUME TypeOK, LockInv, [Next]_vars
    PROVE  LockInv'
<1>1. CASE UNCHANGED <<pc, passLock, hung>>
  BY <1>1 DEF LockInv, OnePass, HungHolds
<1>2. CASE \E p \in Passes : pc[p] = "idle" /\ Goes(p, "wait")
                             /\ UNCHANGED <<passLock, hung>>
  BY <1>2 DEF LockInv, OnePass, HungHolds, Goes, TypeOK
<1>3. ASSUME NEW p \in Passes, reconcile_once(p) PROVE LockInv'
  <2>1. /\ pc[p] = "wait" /\ passLock = None /\ passLock' = p
        /\ pc' = [pc EXCEPT ![p] = "read"] /\ hung' = hung
    BY <1>3 DEF reconcile_once, reconcile_lock, Goes
  <2>2. \A q \in Passes : Outside(q)
    BY <2>1, ScheduleAssumption DEF LockInv, OnePass, Outside, Passes
  <2> QED BY <2>1, <2>2 DEF LockInv, OnePass, HungHolds, Outside, TypeOK
<1>4. ASSUME NEW p \in Passes, ~Outside(p), Inside(p) PROVE LockInv'
  <2>1. passLock = p /\ \A q \in Passes \ {p} : Outside(q)
    BY <1>4 DEF LockInv, OnePass, Outside
  <2>2. CASE Returns(p) /\ hung' \subseteq hung \ {p}
    BY <2>1, <2>2, ScheduleAssumption
    DEF Returns, Goes, LockInv, OnePass, HungHolds, Outside, TypeOK, Passes
  <2>3. CASE /\ \E where \in Steps : Goes(p, where)
             /\ passLock' = passLock /\ hung' \subseteq hung \cup {p}
    BY <2>1, <2>3 DEF Goes, Steps, LockInv, OnePass, HungHolds, Outside, TypeOK
  <2> QED BY <1>4, <2>2, <2>3 DEF Inside
<1>5. CASE UNCHANGED vars
  BY <1>1, <1>5 DEF vars, passVars
<1> QED BY <1>1, <1>2, <1>3, <1>4, <1>5, LockSteps

-----------------------------------------------------------------------------
(* What the admins wrote *)

\* A pass that has read schedule.json to rewrite it is the only one to touch it.
LEMMA CopyStaysCurrent ==
    ASSUME TypeOK, LockInv, CopyIsCurrent, [Next]_vars
    PROVE  CopyIsCurrent'
<1>a. \A p, q \in Passes : ~Outside(p) /\ ~Outside(q) => p = q
  BY DEF LockInv, OnePass, Outside
<1>1. ASSUME NEW p \in Passes, Goes(p, "marking"), ~Outside(p),
             storeLock' = p, copy' = calendar, calendar' = calendar
      PROVE  CopyIsCurrent'
  <2>1. \A q \in Passes \ {p} : pc'[q] # "marking"
    BY <1>1, <1>a DEF Outside, Goes, TypeOK
  <2> QED BY <1>1, <2>1 DEF CopyIsCurrent
<1>2. ASSUME NEW p \in Passes, NEW where, where # "marking", Goes(p, where),
             ~Outside(p)
      PROVE  CopyIsCurrent'
  <2>1. \A q \in Passes : pc'[q] # "marking"
    BY <1>2, <1>a DEF Outside, Goes, TypeOK
  <2> QED BY <2>1 DEF CopyIsCurrent
<1>3. ASSUME NEW p \in Passes, NEW where, where # "marking", Goes(p, where),
             UNCHANGED storeLock, UNCHANGED <<calendar, copy>> \/ storeLock = None
      PROVE  CopyIsCurrent'
  <2>1. \A q \in Passes : pc'[q] = "marking" => pc[q] = "marking"
    BY <1>3 DEF Goes, TypeOK
  <2> QED BY <1>3, <2>1, ScheduleAssumption DEF CopyIsCurrent, Passes
<1>4. ASSUME UNCHANGED <<pc, storeLock, calendar, copy>> PROVE CopyIsCurrent'
  BY <1>4 DEF CopyIsCurrent
<1>5. ASSUME NEW p \in Passes, PassNext(p) \/ Hangs(p) PROVE CopyIsCurrent'
  <2>1. CASE mark_status(p)
    BY <1>1, <2>1 DEF mark_status, locked, Running, Outside
  <2>2. CASE reconcile_once(p)
    BY <1>3, <2>2 DEF reconcile_once, storeVars
  <2>3. CASE Reads(p) \/ Evicted(p) \/ MarkWrites(p) \/ Marked(p)
             \/ persist_state(p) \/ Persisted(p)
    BY <1>2, <2>3
    DEF Reads, Evicted, MarkWrites, Marked, persist_state, Persisted, Returns,
        Running, Outside
  <2>4. CASE fetch_hot_model_keys(p) \/ deploy(p) \/ wait_for_replica_ready(p)
    BY <1>2, <2>4
    DEF fetch_hot_model_keys, deploy, wait_for_replica_ready, Returns, Running,
        Outside
  <2>5. CASE evict(p)
    BY <1>2, <1>4, <2>5 DEF evict, Returns, Running, Outside, storeVars
  <2>6. CASE Hangs(p)
    BY <1>4, <2>6 DEF Hangs, storeVars
  <2> QED BY <1>5, <2>1, <2>2, <2>3, <2>4, <2>5, <2>6 DEF PassNext
<1>6. ASSUME NEW p \in Passes, Killed(p) PROVE CopyIsCurrent'
  BY <1>2, <1>6 DEF Killed, Dies, Returns, LockInv, OnePass, Outside
<1>7. CASE TimesOut
  BY <1>2, <1>7 DEF TimesOut, Dies, Returns, LockInv, HungHolds, Outside, Passes
<1>8. CASE \/ \E e \in Events : Create(e) \/ Update(e) \/ Delete(e)
           \/ CronTick
  BY <1>3, <1>8
  DEF Create, Update, Delete, Write, Triggers, CronTick, Passes, storeVars
<1>9. CASE \/ \E e \in Events : TimePasses(e)
           \/ \E m \in Models : AdminDeploys(m) \/ Drifts(m)
           \/ UNCHANGED vars
  BY <1>4, <1>9
  DEF TimePasses, AdminDeploys, Drifts, passVars, storeVars, vars
<1> QED BY <1>5, <1>6, <1>7, <1>8, <1>9 DEF Next

\* mark_status() reads, changes and writes schedule.json under its lock, so a
\* status that it stamps undoes no write (event_store.py, reconcile.py).
THEOREM WritesAreKept == Spec => WritesStand
<1>1. Init => LockInv /\ CopyIsCurrent
  BY ScheduleAssumption
  DEF Init, LockInv, OnePass, HungHolds, CopyIsCurrent, Passes
<1>2. TypeOK /\ LockInv /\ CopyIsCurrent /\ [Next]_vars
      => LockInv' /\ CopyIsCurrent'
  BY LockInvKept, CopyStaysCurrent
<1>3. TypeOK /\ CopyIsCurrent /\ [Next]_vars
      => [\A e \in Events : calendar'[e].model # calendar[e].model
                            => writes' # writes]_vars
  <2> SUFFICES ASSUME TypeOK, CopyIsCurrent, Next, NEW e \in Events,
                      calendar'[e].model # calendar[e].model
               PROVE  writes' # writes
    BY DEF vars, storeVars
  <2>1. CASE \E d \in Events : Create(d) \/ Update(d) \/ Delete(d)
    BY <2>1, ScheduleAssumption DEF Create, Update, Delete, Write, TypeOK
  <2>2. CASE UNCHANGED calendar
    BY <2>2
  <2>3. ASSUME NEW p \in Passes, MarkWrites(p) PROVE FALSE
    <3>1. copy = calendar
      BY <2>3 DEF MarkWrites, Running, CopyIsCurrent
    <3>2. PICK d \in view[p].marks :
             calendar' = IF copy[d].model = None THEN copy
                         ELSE [copy EXCEPT ![d].status =
                                  view[p].results[view[p].active[d]]]
      BY <2>3 DEF MarkWrites
    <3> DEFINE found == view[p].results[view[p].active[d]]
    <3> HIDE DEF found
    <3>3. calendar' = [calendar EXCEPT ![d] = [calendar[d] EXCEPT !.status = found]]
      BY <3>1, <3>2 DEF found
    <3>4. calendar'[e] \in {calendar[e], [calendar[e] EXCEPT !.status = found]}
      BY <3>3, RecordsTyped
    <3>5. calendar[e] \in EventType
      BY RecordsTyped
    <3>6. [calendar[e] EXCEPT !.status = found].model = calendar[e].model
      BY <3>5 DEF EventType
    <3> QED BY <3>4, <3>6
  <2>4. ASSUME NEW p \in Passes,
               (PassNext(p) /\ ~MarkWrites(p)) \/ Hangs(p) \/ Dies(p)
        PROVE  UNCHANGED calendar
    BY <2>4
    DEF PassNext, reconcile_once, Reads, fetch_hot_model_keys, evict, Evicted,
        deploy, wait_for_replica_ready, mark_status, Marked, persist_state,
        Persisted, Hangs, Dies, storeVars
  <2>5. CASE \/ \E d \in Events : TimePasses(d)
             \/ \E m \in Models : AdminDeploys(m) \/ Drifts(m)
             \/ CronTick
    BY <2>2, <2>5 DEF TimePasses, AdminDeploys, Drifts, CronTick, storeVars
  <2>6. CASE TimesOut
    BY <2>2, <2>4, <2>6 DEF TimesOut, Passes
  <2> QED BY <2>1, <2>2, <2>3, <2>4, <2>5, <2>6 DEF Next, Killed
<1> QED BY <1>1, <1>2, <1>3, ScheduleTypes, PTL DEF Spec, WritesStand

-----------------------------------------------------------------------------
(* What is up *)

\* While a pass holds the lock, what is up has to be accounted for by it alone.
LEMMA AccountedByOne ==
    ASSUME TypeOK, LockInv, NEW p \in Passes, ~Outside(p), NEW where, Goes(p, where),
           where \in Late =>
              \A m \in Models : up'[m] > 0 => m \in Keys(view'[p].active),
           where \notin Late =>
              ~truncated' /\ \A m \in Models : up'[m] > 0 => m \in saved',
           where \in {"status", "evict", "deploy"} =>
              \A m \in Models : up'[m] > 0 =>
                 \/ m \in Keys(view'[p].active)
                 \/ where # "deploy" /\ m \in view'[p].evict,
           where \in {"evict", "deploy"} =>
              \A m \in view'[p].deploy : m \in Keys(view'[p].active) /\ up'[m] = 0
    PROVE  Accounted'
<1>1. pc'[p] = where /\ \A q \in Passes \ {p} : pc'[q] \in {"idle", "wait"}
  BY DEF LockInv, OnePass, Outside, Goes, TypeOK
<1>2. \A q \in Passes : pc'[q] \notin {"idle", "wait"} => q = p
  BY <1>1
<1>3. UpIsSaved'
  BY <1>1 DEF UpIsSaved, LatePass
<1>4. UpIsWanted'
  BY <1>1, <1>2 DEF UpIsWanted, LatePass, Late
<1>5. UnwantedIsEvicted'
  BY <1>1, <1>2 DEF UnwantedIsEvicted
<1>6. DeployedIsDown'
  BY <1>1, <1>2 DEF DeployedIsDown
<1> QED BY <1>3, <1>4, <1>5, <1>6 DEF Accounted

\* A step that brings nothing up, reads and saves nothing, and takes no pass into
\* what it does to the cluster.
LEMMA QuietKeepsAccounts ==
    ASSUME TypeOK, Accounted, UNCHANGED <<saved, truncated, view>>,
           \A m \in Models : up'[m] > 0 => up[m] > 0,
           \A m \in Models : up[m] = 0 => up'[m] = 0,
           \A p \in Passes : \/ pc'[p] = pc[p]
                             \/ {pc[p], pc'[p]} \subseteq {"idle", "wait", "read"}
    PROVE  Accounted'
<1>1. \A p \in Passes : LatePass(p)' <=> LatePass(p)
  BY DEF LatePass, Late
<1>2. \A p \in Passes : \A m \in view[p].deploy : m \in Models
  BY RecordsTyped DEF Views
<1>3. UpIsSaved' /\ UpIsWanted'
  BY <1>1 DEF Accounted, UpIsSaved, UpIsWanted
<1>4. UnwantedIsEvicted'
  BY DEF Accounted, UnwantedIsEvicted
<1>5. DeployedIsDown'
  BY <1>2 DEF Accounted, DeployedIsDown
<1> QED BY <1>3, <1>4, <1>5 DEF Accounted

\* A pass keeps the accounts up to the end of its evictions ...
LEMMA EvictingKeepsAccounts ==
    ASSUME TInv, LockInv, Accounted, NEW p \in Passes,
           Reads(p) \/ fetch_hot_model_keys(p) \/ evict(p) \/ Evicted(p)
    PROVE  Accounted'
<1> USE DEF TInv
<1>o. ~Outside(p)
  BY DEF Reads, fetch_hot_model_keys, evict, Evicted, Running, Outside
<1>l. ~LatePass(p) /\ \A q \in Passes \ {p} : ~LatePass(q)
  BY <1>o
  DEF Reads, fetch_hot_model_keys, evict, Evicted, Running, LatePass, Late, LockInv,
      OnePass, Outside
<1>s. ~truncated /\ \A m \in Models : up[m] > 0 => m \in saved
  BY <1>l DEF Accounted, UpIsSaved
<1>v. view[p] \in Views
  BY RecordsTyped
<1>0. Prev = saved
  BY <1>s DEF Prev
\* A pass that gives up leaves everything as the last one saved it.
<1>r. ASSUME Returns(p), UNCHANGED <<up, saved, truncated>> PROVE Accounted'
  BY <1>r, <1>o, <1>s, AccountedByOne DEF Returns, Late
<1>1. CASE Reads(p)
  <2> DEFINE seen == [Blank EXCEPT !.active = Active, !.evict = Prev \ Keys(Active)]
  <2>1. seen.active = Active /\ seen.evict = Prev \ Keys(Active)
    BY DEF Blank
  <2> HIDE DEF seen
  <2>2. view'[p] = seen /\ Goes(p, "status") /\ UNCHANGED <<up, saved, truncated>>
    BY <1>1, RecordsTyped DEF Reads, Sees, seen, fileVars
  <2> QED BY <1>o, <1>s, <1>0, <2>1, <2>2, AccountedByOne DEF Late
<1>2. CASE fetch_hot_model_keys(p)
  <2> DEFINE deploying == to_deploy(Keys(view[p].active), {m \in Models : up[m] > 0})
             seen == [view[p] EXCEPT !.deploy = deploying]
  <2>1. \A m \in deploying : m \in Keys(view[p].active) /\ up[m] = 0
    BY <1>v, <1>s, <1>0 DEF to_deploy, TypeOK, Keys, Views
  <2>2. \A m \in Models : up[m] > 0 =>
           m \in Keys(view[p].active) \/ m \in view[p].evict
    BY <1>2 DEF fetch_hot_model_keys, Running, Accounted, UnwantedIsEvicted
  <2>3. CASE Returns(p)
    BY <1>r, <1>2, <2>3 DEF fetch_hot_model_keys, fileVars
  <2>4. CASE ~Returns(p)
    <3>1. /\ Sees(p, seen) /\ UNCHANGED <<up, saved, truncated>>
          /\ Goes(p, IF view[p].evict \cup deploying = {} THEN "save" ELSE "evict")
      BY <1>2, <2>4 DEF fetch_hot_model_keys, fileVars
    <3> HIDE DEF deploying
    <3>2. /\ seen.active = view[p].active /\ seen.evict = view[p].evict
          /\ seen.deploy = deploying
      BY <1>v DEF Views
    <3>3. view'[p] = seen
      BY <3>1, RecordsTyped DEF Sees
    <3> HIDE DEF seen
    <3> QED BY <1>o, <1>s, <2>1, <2>2, <3>1, <3>2, <3>3, AccountedByOne DEF Late
  <2> QED BY <2>3, <2>4
<1>3. CASE evict(p)
  <2>1. CASE Returns(p) /\ UNCHANGED <<up, ours>>
    BY <1>r, <1>3, <2>1 DEF evict, fileVars
  <2>2. CASE ~(Returns(p) /\ UNCHANGED <<up, ours>>)
    <3>1. PICK m \in view[p].evict :
            /\ up' = [up EXCEPT ![m] = 0]
            /\ Sees(p, [view[p] EXCEPT !.evict = @ \ {m}])
            /\ UNCHANGED <<pc, saved, truncated>>
      BY <1>3, <2>2 DEF evict, fileVars
    <3> DEFINE seen == [view[p] EXCEPT !.evict = @ \ {m}]
    <3>2. /\ seen.active = view[p].active /\ seen.evict = view[p].evict \ {m}
          /\ seen.deploy = view[p].deploy
      BY <1>v DEF Views
    <3>3. view'[p] = seen
      BY <3>1, RecordsTyped DEF Sees
    <3> HIDE DEF seen
    <3>4. m \in Models /\ view[p].deploy \subseteq Models
      BY <1>v DEF Views
    <3>5. /\ \A x \in Models \ {m} : up'[x] = up[x]
          /\ up'[m] = 0
      BY <3>1, <3>4 DEF TypeOK
    <3>6. Goes(p, "evict") /\ pc[p] = "evict"
      BY <1>3, <3>1 DEF evict, Running, Goes, TypeOK
    <3>7. /\ \A x \in Models : up[x] > 0 =>
                x \in Keys(view[p].active) \/ x \in view[p].evict
          /\ \A x \in view[p].deploy : x \in Keys(view[p].active) /\ up[x] = 0
      BY <3>6 DEF Accounted, UnwantedIsEvicted, DeployedIsDown
    <3> QED BY <1>o, <1>s, <3>1, <3>2, <3>3, <3>4, <3>5, <3>6, <3>7, AccountedByOne
      DEF Late
  <2> QED BY <2>1, <2>2
<1>4. CASE Evicted(p)
  <2>1. /\ pc[p] = "evict" /\ view[p].evict = {}
        /\ Goes(p, IF view[p].deploy = {} THEN "save" ELSE "deploy")
        /\ UNCHANGED <<up, view, saved, truncated>>
    BY <1>4 DEF Evicted, Running, fileVars
  <2>2. /\ \A x \in Models : up[x] > 0 => x \in Keys(view[p].active)
        /\ \A x \in view[p].deploy : x \in Keys(view[p].active) /\ up[x] = 0
    BY <2>1 DEF Accounted, UnwantedIsEvicted, DeployedIsDown
  <2> QED BY <1>o, <1>s, <2>1, <2>2, AccountedByOne DEF Late
<1> QED BY <1>1, <1>2, <1>3, <1>4

\* ... and from its deploy to its end.
LEMMA DeployingKeepsAccounts ==
    ASSUME TInv, LockInv, Accounted, NEW p \in Passes,
           \/ deploy(p) \/ wait_for_replica_ready(p) \/ mark_status(p)
           \/ MarkWrites(p) \/ Marked(p) \/ persist_state(p) \/ Persisted(p)
    PROVE  Accounted'
<1> USE DEF TInv
<1>o. ~Outside(p)
  BY DEF deploy, wait_for_replica_ready, mark_status, MarkWrites, Marked,
         persist_state, Persisted, Running, Outside
<1>v. view[p] \in Views
  BY RecordsTyped
<1>w. \A m \in Models : up[m] > 0 => m \in Keys(view[p].active)
  BY DEF deploy, wait_for_replica_ready, mark_status, MarkWrites, Marked,
         persist_state, Persisted, Running, Accounted, UpIsWanted,
         UnwantedIsEvicted, LatePass, Late
\* What the pass still has to do changes, what it wants does not.
<1>k. ASSUME NEW where \in Late, Goes(p, where), view'[p].active = view[p].active,
             \A m \in Models : up'[m] > 0 => m \in Keys(view[p].active)
      PROVE  Accounted'
  BY <1>o, <1>k, AccountedByOne DEF Late
<1>1. CASE deploy(p)
  <2> DEFINE room == {m \in view[p].deploy : up[m] < MaxReplicas}
             found == [m \in Models |-> IF m \in view[p].deploy
                                        THEN Entry(m, room) ELSE None]
             seen == [view[p] EXCEPT !.results = found]
  <2>1. /\ Placed(room) \/ Placed({})
        /\ Sees(p, seen) \/ UNCHANGED view
        /\ Goes(p, "load") \/ Goes(p, "save")
    BY <1>1 DEF deploy
  <2>2. seen.active = view[p].active
    BY <1>v DEF Views
  <2>3. room \subseteq Keys(view[p].active)
    BY <1>1 DEF deploy, Running, Accounted, DeployedIsDown
  <2> HIDE DEF seen, room
  <2>4. view'[p].active = view[p].active
    BY <2>1, <2>2, RecordsTyped DEF Sees
  <2>5. \A m \in Models : up'[m] > 0 => m \in Keys(view[p].active)
    BY <1>w, <2>1, <2>3 DEF Placed, TypeOK
  <2> QED BY <1>k, <2>1, <2>4, <2>5 DEF Late
<1>2. CASE wait_for_replica_ready(p)
  <2>1. view'[p].active = view[p].active
    <3> DEFINE marks == {e \in Events : view[p].active[e] # None
                                  /\ view[p].results[view[p].active[e]] # None}
               marking == [view[p] EXCEPT !.marks = marks]
               failing(m) == [view[p] EXCEPT !.marks = marks, !.results[m] = "ERROR"]
    <3>1. marking.active = view[p].active
      BY <1>v DEF Views
    <3>2. \A m \in Models : failing(m).active = view[p].active
      BY <1>v DEF Views
    <3>3. Sees(p, marking) \/ \E m \in Models : Sees(p, failing(m))
      BY <1>2 DEF wait_for_replica_ready
    <3> HIDE DEF marking, failing
    <3> QED BY <3>1, <3>2, <3>3, RecordsTyped DEF Sees
  <2>2. \A m \in Models : up'[m] > 0 => up[m] > 0
    BY <1>2 DEF wait_for_replica_ready, TypeOK
  <2> QED BY <1>k, <1>w, <1>2, <2>1, <2>2 DEF wait_for_replica_ready, Late
<1>3. CASE mark_status(p) \/ Marked(p) \/ persist_state(p)
  BY <1>k, <1>w, <1>3 DEF mark_status, Marked, persist_state, Late
<1>4. CASE MarkWrites(p)
  <2>1. view'[p].active = view[p].active
    BY <1>4, <1>v, RecordsTyped DEF MarkWrites, Sees, Views
  <2> QED BY <1>k, <1>w, <1>4, <2>1 DEF MarkWrites, Late
<1>5. CASE Persisted(p)
  BY <1>o, <1>w, <1>5, AccountedByOne DEF Persisted, Returns, Late
<1> QED BY <1>1, <1>2, <1>3, <1>4, <1>5

\* Whatever happens, what is up stays accounted for, until a pass is cut off or an
\* admin deploys by hand.
LEMMA AccountsKept ==
    ASSUME TInv, LockInv, Accounted, Next, ~cutOff', ~byHand'
    PROVE  Accounted'
<1> USE DEF TInv
<1>1. ASSUME NEW p \in Passes, PassNext(p) PROVE Accounted'
  <2>1. CASE reconcile_once(p)
    BY <2>1, QuietKeepsAccounts DEF reconcile_once, Goes, TypeOK, fileVars
  <2> QED BY <1>1, <2>1, EvictingKeepsAccounts, DeployingKeepsAccounts DEF PassNext
<1>2. ASSUME NEW p \in Passes, Dies(p), ~Outside(p) PROVE Accounted'
  <2>1. ~LatePass(p) /\ Goes(p, "idle") /\ UNCHANGED <<up, saved, truncated>>
    BY <1>2 DEF Dies, Returns, LatePass, Late, fileVars
  <2>2. \A q \in Passes : ~LatePass(q)
    BY <1>2, <2>1 DEF LockInv, OnePass, Outside, LatePass, Late
  <2>3. ~truncated /\ \A m \in Models : up[m] > 0 => m \in saved
    BY <2>2 DEF Accounted, UpIsSaved
  <2> QED BY <1>2, <2>1, <2>3, AccountedByOne DEF Late
<1>3. ASSUME NEW p \in Passes, Hangs(p) \/ Killed(p) PROVE Accounted'
  BY <1>2, <1>3, QuietKeepsAccounts
  DEF Hangs, Killed, LockInv, OnePass, Outside, fileVars
<1>4. CASE TimesOut
  BY <1>2, <1>4 DEF TimesOut, LockInv, HungHolds, Outside, Passes
<1>5. CASE \/ \E e \in Events : Create(e) \/ Update(e) \/ Delete(e) \/ TimePasses(e)
           \/ CronTick
  BY <1>5, QuietKeepsAccounts
  DEF Create, Update, Delete, Write, Triggers, TimePasses, CronTick, Goes, TypeOK,
      Passes, fileVars, passVars
<1>6. ASSUME NEW m \in Models, AdminDeploys(m) \/ Drifts(m) PROVE Accounted'
  <2>1. Drifts(m)
    BY <1>6 DEF AdminDeploys
  <2>2. \A x \in Models : up'[x] \in {0, up[x]}
    BY <2>1 DEF Drifts, TypeOK
  <2> QED BY <2>1, <2>2, QuietKeepsAccounts DEF Drifts, fileVars, passVars
<1> QED BY <1>1, <1>3, <1>4, <1>5, <1>6 DEF Next

\* What excuses a second replica is not forgotten.
LEMMA ExcusesLast ==
    ASSUME TypeOK, Next
    PROVE  (cutOff => cutOff') /\ (byHand => byHand')
<1>1. CASE UNCHANGED <<cutOff, byHand>>
  BY <1>1
<1>2. ASSUME NEW p \in Passes, PassNext(p) \/ Hangs(p)
      PROVE  UNCHANGED <<cutOff, byHand>>
  BY <1>2
  DEF PassNext, reconcile_once, Reads, fetch_hot_model_keys, evict, Evicted, deploy,
      wait_for_replica_ready, mark_status, MarkWrites, Marked, persist_state,
      Persisted, Hangs, ghosts
<1>3. ASSUME NEW p \in Passes, Dies(p)
      PROVE  (cutOff => cutOff') /\ UNCHANGED byHand
  BY <1>3 DEF Dies
<1>4. ASSUME NEW m \in Models, AdminDeploys(m) \/ Drifts(m)
      PROVE  UNCHANGED cutOff /\ (byHand => byHand')
  BY <1>4 DEF AdminDeploys, Drifts
<1>5. CASE \/ \E e \in Events : \/ Create(e) \/ Update(e) \/ Delete(e)
                                 \/ TimePasses(e)
           \/ CronTick
  BY <1>5 DEF Create, Update, Delete, Write, TimePasses, CronTick, ghosts
<1> QED BY <1>1, <1>2, <1>3, <1>4, <1>5 DEF Next, Killed, TimesOut, Passes

\* The inductive invariant behind NoStacking.
LEMMA SInvHolds == Spec => []SInv
<1>1. Init => SInv
  <2>1. Init => LockInv
    BY ScheduleAssumption DEF Init, LockInv, OnePass, HungHolds, Passes
  <2>2. Init => Accounted
    BY DEF Init, Accounted, UpIsSaved, UpIsWanted, UnwantedIsEvicted,
           DeployedIsDown, LatePass, Late
  <2>3. Init => TInv
    BY TInvStarts
  <2> QED BY <2>1, <2>2, <2>3 DEF SInv
<1>2. SInv /\ [Next]_vars => SInv'
  <2> SUFFICES ASSUME SInv, [Next]_vars PROVE SInv'
    OBVIOUS
  <2>1. TInv' /\ LockInv'
    BY TInvKept, LockInvKept DEF SInv, TInv
  <2>2. CASE Next
    <3>1. (cutOff => cutOff') /\ (byHand => byHand')
      BY <2>2, ExcusesLast DEF SInv, TInv
    <3>2. {cutOff, byHand, cutOff', byHand'} \subseteq BOOLEAN
      BY <2>1 DEF SInv, TInv, TypeOK
    <3>3. CASE cutOff \/ byHand
      BY <2>1, <3>1, <3>3 DEF SInv
    <3>4. CASE Accounted
      BY <2>1, <2>2, <3>2, <3>4, AccountsKept DEF SInv
    <3> QED BY <3>3, <3>4 DEF SInv
  <2>3. CASE UNCHANGED vars
    BY <2>1, <2>3
    DEF vars, fileVars, passVars, ghosts, SInv, Accounted, UpIsSaved, UpIsWanted,
        UnwantedIsEvicted, DeployedIsDown, LatePass
  <2> QED BY <2>2, <2>3
<1> QED BY <1>1, <1>2, PTL DEF Spec

\* A pass deploys only what it found down: what it takes for newly added because
\* no pass saved it is not up, and what was HOT when it asked is left alone.  This
\* is what prev_model_keys, the lock of the whole pass and the save after a failed
\* deploy are for (reconcile.py).
THEOREM NothingStacks == Spec => NoStacking
<1>1. SInv /\ [Next]_vars
      => [\A p \in Passes, m \in Models :
             pc[p] = "deploy" /\ pc'[p] # "deploy" /\ up'[m] > up[m] =>
                 up[m] = 0 \/ cutOff \/ byHand]_vars
  <2> SUFFICES ASSUME SInv, Next, NEW p \in Passes, NEW m \in Models,
                      pc[p] = "deploy", pc'[p] # "deploy", up'[m] > up[m],
                      Accounted
               PROVE  up[m] = 0
    BY DEF SInv, vars
  <2> USE DEF SInv, TInv
  <2>1. ASSUME NEW q \in Passes, deploy(q) PROVE up[m] = 0
    <3>1. p = q
      BY <2>1 DEF deploy, Goes, TypeOK
    <3>2. m \in view[p].deploy
      BY <2>1, <3>1 DEF deploy, Placed, TypeOK
    <3> QED BY <3>2 DEF Accounted, DeployedIsDown
  <2>2. ASSUME UNCHANGED up \/ \A x \in Models : up'[x] \in {0, up[x], up[x] - 1}
        PROVE  FALSE
    <3>1. up[m] \in Nat
      BY ScheduleAssumption DEF TypeOK
    <3> QED BY <2>2, <3>1
  <2>3. ASSUME NEW q \in Passes,
               (PassNext(q) /\ ~deploy(q)) \/ Hangs(q) \/ Dies(q)
        PROVE  FALSE
    <3>1. ASSUME evict(q) \/ wait_for_replica_ready(q)
          PROVE  \/ UNCHANGED up
                 \/ \E y \in Models : \/ up' = [up EXCEPT ![y] = 0]
                                      \/ up' = [up EXCEPT ![y] = @ - 1]
      BY <3>1, RecordsTyped DEF evict, wait_for_replica_ready, Views
    <3>2. CASE evict(q) \/ wait_for_replica_ready(q)
      BY <2>2, <3>1, <3>2 DEF TypeOK
    <3> QED BY <2>2, <2>3, <3>2
      DEF PassNext, reconcile_once, Reads, fetch_hot_model_keys, Evicted,
          mark_status, MarkWrites, Marked, persist_state, Persisted, Hangs, Dies
  <2>4. CASE \E x \in Models : AdminDeploys(x) \/ Drifts(x)
    BY <2>4 DEF AdminDeploys, Drifts, passVars
  <2>5. CASE \/ \E e \in Events : \/ Create(e) \/ Update(e) \/ Delete(e)
                                   \/ TimePasses(e)
             \/ CronTick
    BY <2>2, <2>5 DEF Create, Update, Delete, Write, TimePasses, CronTick
  <2>6. CASE TimesOut
    BY <2>3, <2>6 DEF TimesOut, Passes
  <2>7. CASE \E q \in Passes : PassNext(q) \/ Hangs(q) \/ Killed(q)
    BY <2>1, <2>3, <2>7 DEF Killed
  <2> QED BY <2>4, <2>5, <2>6, <2>7 DEF Next
<1> QED BY <1>1, SInvHolds, PTL DEF Spec, NoStacking
=============================================================================
