------------------------------ MODULE Schedule ------------------------------
(***************************************************************************)
(* The dashboard's calendar.  Admins write events to schedule.json, each   *)
(* pinning a model for a window of time; reconcile passes, one per write   *)
(* in the web server and one per cron tick, diff the active events against *)
(* what the last pass pinned and what the controller has HOT, and evict    *)
(* and deploy through the CLI's library.                                   *)
(***************************************************************************)
EXTENDS Naturals, FiniteSets

CONSTANTS
    Models, Events,
    None,
    Cron,           \* the pass that cron starts
    Web,            \* at most so many background passes at a time
    MaxReplicas,    \* room for each model on the cluster
    MaxWrites,      \* bound on the admins' writes
    MaxFaults,      \* bound on failed calls, failed loads, lost replicas, hangs,
                    \* and deployments outside the calendar
    MaxCrashes,     \* bound on passes that are killed
    WebHangs        \* may a call of a background pass never return?

ASSUME ScheduleAssumption ==
    /\ IsFiniteSet(Models) /\ IsFiniteSet(Events) /\ IsFiniteSet(Web)
    /\ None \notin Models \cup Web \cup {Cron} /\ Cron \notin Web
    /\ {MaxReplicas, MaxWrites, MaxFaults, MaxCrashes} \subseteq Nat
    /\ WebHangs \in BOOLEAN

Passes == {Cron} \cup Web

VARIABLES
    calendar,   \* of each event: the model it pins (None: no such event) and
                \* the last_status a pass stamped on it
    window,     \* is now "before", "during" or "after" its window?
    storeLock,  \* who holds the lock of schedule.json
    copy,       \* the calendar, as the pass that marks an event has read it
    up,         \* replicas of each model that the controller has HOT
    saved,      \* prev_model_keys
    truncated,  \* the state file is cut off and reads as {}
    passLock,   \* who holds the lock of the state file
    pc,         \* of each pass: "idle", "wait", "read", "status", "evict",
                \* "deploy", "load", "mark", "marking", "save", "saving"
    view,       \* what a pass has read and has to do
    hung,       \* passes whose call to Ray never returns
    ours,       \* models some pass deployed and that are up since
    cutOff,     \* a pass was killed between its deploy and its save
    byHand,     \* an admin deployed a model outside the calendar
    writes, faults, crashes

storeVars == <<calendar, window, storeLock, copy>>
fileVars == <<saved, truncated>>
passVars == <<passLock, pc, view, hung>>
counters == <<writes, faults, crashes>>
ghosts == <<ours, cutOff, byHand>>
vars == <<storeVars, up, fileVars, passVars, ghosts, counters>>

\* active: the model of each event that was active; results: of each deployed model.
Blank == [active |-> [e \in Events |-> None], evict |-> {}, deploy |-> {},
          results |-> [m \in Models |-> None], marks |-> {}]
Keys(active) == {active[e] : e \in Events} \ {None}

Init ==
    /\ calendar = [e \in Events |-> [model |-> None, status |-> None]]
    /\ window = [e \in Events |-> "before"] /\ storeLock = None
    /\ copy = calendar /\ up = [m \in Models |-> 0] /\ saved = {} /\ truncated = FALSE
    /\ passLock = None /\ pc = [p \in Passes |-> "idle"]
    /\ view = [p \in Passes |-> Blank] /\ hung = {}
    /\ ours = {} /\ cutOff = FALSE /\ byHand = FALSE
    /\ writes = 0 /\ faults = 0 /\ crashes = 0

Fault == faults < MaxFaults /\ faults' = faults + 1
Goes(p, where) == pc' = [pc EXCEPT ![p] = where]
Sees(p, seen) == view' = [view EXCEPT ![p] = seen]

\* is_active: in [start, end).
Active == [e \in Events |-> IF window[e] = "during" THEN calendar[e].model ELSE None]

-----------------------------------------------------------------------------
(* The calendar *)

\* Each write triggers a pass in the background.
Triggers == \E p \in Web : pc[p] = "idle" /\ Goes(p, "wait")

Write(e, model) ==
    /\ writes < MaxWrites /\ writes' = writes + 1
    /\ storeLock = None
    /\ calendar' = [calendar EXCEPT ![e].model = model]
    /\ Triggers
    /\ UNCHANGED <<storeLock, copy, up, fileVars, passLock, view, hung, ghosts, faults,
                   crashes>>

\* Only the order of start and end is validated: a window may be over already.
When == {"before", "during", "after"}

Create(e) ==
    /\ calendar[e].model = None
    /\ \E m \in Models : Write(e, m)
    /\ \E w \in When : window' = [window EXCEPT ![e] = w]
\* Model, start and end are replaced at once, the status stays.
Update(e) ==
    /\ calendar[e].model # None
    /\ \E m \in Models : Write(e, m)
    /\ \E w \in When : window' = [window EXCEPT ![e] = w]
Delete(e) ==
    /\ calendar[e].model # None
    /\ Write(e, None) /\ window' = [window EXCEPT ![e] = "before"]

TimePasses(e) ==
    /\ calendar[e].model # None
    /\ \/ window[e] = "before" /\ window' = [window EXCEPT ![e] = "during"]
       \/ window[e] = "during" /\ window' = [window EXCEPT ![e] = "after"]
    /\ UNCHANGED <<calendar, storeLock, copy, up, fileVars, passVars, ghosts, counters>>

-----------------------------------------------------------------------------
(* The cluster, outside the calendar *)

AdminDeploys(m) ==
    /\ Fault /\ byHand' = TRUE
    /\ up[m] < MaxReplicas /\ up' = [up EXCEPT ![m] = @ + 1]
    /\ UNCHANGED <<storeVars, fileVars, passVars, ours, cutOff, writes, crashes>>

\* An admin evicts a model, or its last replica is lost.
Drifts(m) ==
    /\ up[m] > 0 /\ Fault
    /\ up' = [up EXCEPT ![m] = 0] /\ ours' = ours \ {m}
    /\ UNCHANGED <<storeVars, fileVars, passVars, cutOff, byHand, writes, crashes>>

-----------------------------------------------------------------------------
(* A pass *)

\* flock -n: no tick while the last one runs.
CronTick ==
    /\ pc[Cron] = "idle" /\ Goes(Cron, "wait")
    /\ UNCHANGED <<storeVars, up, fileVars, passLock, view, hung, ghosts, counters>>

\* Mutant: the passes are not serialized.
TakesNoLock(p) == TRUE

\* A blocking exclusive lock around the whole pass.
reconcile_lock(p) == passLock = None

reconcile_once(p) ==
    /\ pc[p] = "wait" /\ reconcile_lock(p)
    /\ passLock' = p /\ Goes(p, "read")
    /\ UNCHANGED <<storeVars, up, fileVars, view, hung, ghosts, counters>>

Running(p, where) == pc[p] = where /\ p \notin hung

\* The pass returns: the lock is released, what it knew is gone.
Returns(p) == Goes(p, "idle") /\ Sees(p, Blank) /\ passLock' = None

\* prev_model_keys; a file that does not parse is an empty one.
Prev == IF truncated THEN {} ELSE saved

\* The active events, and from the last pass what it pinned.
Reads(p) ==
    /\ Running(p, "read") /\ storeLock = None
    /\ Sees(p, [Blank EXCEPT !.active = Active,
                             !.evict = Prev \ Keys(Active)])
    /\ Goes(p, "status")
    /\ UNCHANGED <<storeVars, up, fileVars, passLock, hung, ghosts, counters>>

\* Mutant: only what was added, not what drifted out.
OnlyAdded(keys, hot) == keys \ Prev

\* Newly added, or no longer HOT.
to_deploy(keys, hot) == {m \in keys : m \notin Prev \/ m \notin hot}

\* A controller that does not answer ends the pass: the next one tries again.
fetch_hot_model_keys(p) ==
    /\ Running(p, "status")
    /\ \/ /\ LET deploy == to_deploy(Keys(view[p].active), {m \in Models : up[m] > 0})
             IN  /\ Sees(p, [view[p] EXCEPT !.deploy = deploy])
                 /\ Goes(p, IF view[p].evict \cup deploy = {} THEN "save" ELSE "evict")
          /\ UNCHANGED <<passLock, faults>>
       \/ Fault /\ Returns(p)
    /\ UNCHANGED <<storeVars, up, fileVars, hung, ghosts, writes, crashes>>

\* One call per model, which takes every replica.  A failed one ends the pass,
\* nothing is saved, the next one retries.
evict(p) ==
    /\ Running(p, "evict") /\ view[p].evict # {}
    /\ \/ /\ \E m \in view[p].evict :
                /\ up' = [up EXCEPT ![m] = 0] /\ ours' = ours \ {m}
                /\ Sees(p, [view[p] EXCEPT !.evict = @ \ {m}])
          /\ UNCHANGED <<pc, passLock, faults>>
       \/ Fault /\ Returns(p) /\ UNCHANGED <<up, ours>>
    /\ UNCHANGED <<storeVars, fileVars, hung, cutOff, byHand, writes, crashes>>

Evicted(p) ==
    /\ Running(p, "evict") /\ view[p].evict = {}
    /\ Goes(p, IF view[p].deploy = {} THEN "save" ELSE "deploy")
    /\ UNCHANGED <<storeVars, up, fileVars, passLock, view, hung, ghosts, counters>>

\* Mutant: the entry is read before its replicas were waited for.
Pending(m, placed) == IF m \in placed THEN "PENDING" ELSE "ERROR"

\* What becomes of an entry, if its replicas load.
Entry(m, placed) == IF m \in placed THEN "READY" ELSE "ERROR"

Placed(placed) ==
    /\ up' = [m \in Models |-> up[m] + (IF m \in placed THEN 1 ELSE 0)]
    /\ ours' = ours \cup placed

\* One additive call: one more replica of every model for which there is room.
\* If it raises, before or after the controller acted, nothing is marked, but
\* as the evictions are done the pass is saved.
deploy(p) ==
    /\ Running(p, "deploy")
    /\ LET room == {m \in view[p].deploy : up[m] < MaxReplicas}
       IN  \/ /\ Placed(room) /\ Goes(p, "load") /\ UNCHANGED faults
              /\ Sees(p, [view[p] EXCEPT !.results = [m \in Models |->
                     IF m \in view[p].deploy THEN Entry(m, room) ELSE None]])
           \/ /\ Fault /\ (Placed(room) \/ Placed({}))
              /\ Goes(p, "save") /\ UNCHANGED view
    /\ UNCHANGED <<storeVars, fileVars, passLock, hung, cutOff, byHand, writes, crashes>>

\* The pass waits until every replica it placed serves or will never.
wait_for_replica_ready(p) ==
    /\ Running(p, "load")
    /\ LET results == view[p].results
           marks == {e \in Events : view[p].active[e] # None
                                    /\ results[view[p].active[e]] # None}
       IN  \/ /\ Sees(p, [view[p] EXCEPT !.marks = marks])
              /\ UNCHANGED <<up, ours, faults>>
           \/ \E m \in Models :
                /\ results[m] # None /\ results[m] # "ERROR" /\ up[m] > 0 /\ Fault
                /\ up' = [up EXCEPT ![m] = @ - 1]
                /\ ours' = IF up[m] = 1 THEN ours \ {m} ELSE ours
                /\ Sees(p, [view[p] EXCEPT !.marks = marks, !.results[m] = "ERROR"])
    /\ Goes(p, "mark")
    /\ UNCHANGED <<storeVars, fileVars, passLock, hung, cutOff, byHand, writes, crashes>>

\* Mutant: mark_status() rewrites the file it has read without the lock.
MarksUnlocked(p) == UNCHANGED storeLock

\* The lock of schedule.json is held from the read to the write.
locked(p) == storeLock' = p

\* mark_status() of one event: read ...
mark_status(p) ==
    /\ Running(p, "mark") /\ view[p].marks # {} /\ storeLock = None
    /\ locked(p) /\ copy' = calendar /\ Goes(p, "marking")
    /\ UNCHANGED <<calendar, window, up, fileVars, passLock, view, hung, ghosts,
                   counters>>

\* ... and write, by id; an event that is gone stays gone.
MarkWrites(p) ==
    /\ Running(p, "marking")
    /\ \E e \in view[p].marks :
          /\ calendar' = IF copy[e].model = None THEN copy
                         ELSE [copy EXCEPT ![e].status = view[p].results[view[p].active[e]]]
          /\ Sees(p, [view[p] EXCEPT !.marks = @ \ {e}])
    /\ copy' = [e \in Events |-> [model |-> None, status |-> None]]
    /\ storeLock' = None /\ Goes(p, "mark")
    /\ UNCHANGED <<window, up, fileVars, passLock, hung, ghosts, counters>>

Marked(p) ==
    /\ Running(p, "mark") /\ view[p].marks = {} /\ Goes(p, "save")
    /\ UNCHANGED <<storeVars, up, fileVars, passLock, view, hung, ghosts, counters>>

\* The state file is cut off when it is opened ...
persist_state(p) ==
    /\ Running(p, "save") /\ truncated' = TRUE /\ Goes(p, "saving")
    /\ UNCHANGED <<storeVars, up, saved, passLock, view, hung, ghosts, counters>>

\* ... and holds all the active models once it is written, and so the pass ends.
Persisted(p) ==
    /\ Running(p, "saving") /\ truncated' = FALSE
    /\ saved' = Keys(view[p].active)
    /\ Returns(p)
    /\ UNCHANGED <<storeVars, up, hung, ghosts, counters>>

\* Ray is gone and a call does not return; cron's timeout ends its pass.
Hangs(p) ==
    /\ Running(p, "status") \/ Running(p, "evict") \/ Running(p, "deploy")
    /\ (p = Cron \/ WebHangs) /\ Fault /\ hung' = hung \cup {p}
    /\ UNCHANGED <<storeVars, up, fileVars, passLock, pc, view, ghosts, writes,
                   crashes>>

\* A pass dies: the locks it holds are released.
Dies(p) ==
    /\ Returns(p) /\ hung' = hung \ {p}
    /\ storeLock' = IF storeLock = p THEN None ELSE storeLock
    /\ copy' = [e \in Events |-> [model |-> None, status |-> None]]
    /\ cutOff' = (cutOff \/ pc[p] \in {"load", "mark", "marking", "save", "saving"})
    /\ UNCHANGED <<calendar, window, up, fileVars, ours, byHand, writes, faults>>
TimesOut == Cron \in hung /\ Dies(Cron) /\ UNCHANGED crashes
Killed(p) == /\ passLock = p /\ crashes < MaxCrashes /\ crashes' = crashes + 1
             /\ Dies(p)

-----------------------------------------------------------------------------
PassNext(p) ==
    \/ reconcile_once(p) \/ Reads(p) \/ fetch_hot_model_keys(p) \/ evict(p)
    \/ Evicted(p) \/ deploy(p) \/ wait_for_replica_ready(p) \/ mark_status(p)
    \/ MarkWrites(p) \/ Marked(p) \/ persist_state(p) \/ Persisted(p)

Next ==
    \/ \E e \in Events : Create(e) \/ Update(e) \/ Delete(e) \/ TimePasses(e)
    \/ \E m \in Models : AdminDeploys(m) \/ Drifts(m)
    \/ \E p \in Passes : PassNext(p) \/ Hangs(p) \/ Killed(p)
    \/ CronTick \/ TimesOut

\* Cron ticks for ever, a pass goes on unless Ray is gone, and a hung cron job
\* times out.  Nothing is assumed of the admins and of the clock.
Fairness ==
    /\ WF_vars(CronTick) /\ WF_vars(TimesOut)
    /\ \A p \in Passes : /\ SF_vars(reconcile_once(p))
                         /\ WF_vars(PassNext(p))
Spec == Init /\ [][Next]_vars
FairSpec == Spec /\ Fairness

-----------------------------------------------------------------------------
(* Properties *)

\* The types of the variables.
TypeOK ==
    /\ calendar \in [Events -> [model : Models \cup {None},
                                status : {None, "READY", "ERROR"}]]
    /\ copy \in [Events -> [model : Models \cup {None},
                            status : {None, "READY", "ERROR"}]]
    /\ window \in [Events -> When]
    /\ {storeLock, passLock} \subseteq Passes \cup {None}
    /\ up \in [Models -> 0..MaxReplicas] /\ {saved, ours} \subseteq SUBSET Models
    /\ {truncated, cutOff, byHand} \subseteq BOOLEAN /\ hung \subseteq Passes
    /\ pc \in [Passes -> {"idle", "wait", "read", "status", "evict", "deploy",
                          "load", "mark", "marking", "save", "saving"}]
    /\ view \in [Passes -> [active : [Events -> Models \cup {None}],
                            evict : SUBSET Models, deploy : SUBSET Models,
                            results : [Models -> {None, "READY", "ERROR"}],
                            marks : SUBSET Events]]
    /\ writes \in 0..MaxWrites /\ faults \in 0..MaxFaults
    /\ crashes \in 0..MaxCrashes

\* What the admins wrote is changed by nobody else: a status that a pass stamps
\* on one event never undoes a write, nor brings a deleted event back.
WritesStand ==
    [][\A e \in Events : calendar'[e].model # calendar[e].model => writes' # writes]_vars

\* No pass puts a second replica beside one that is up, unless an admin deployed
\* the model by hand or a pass was cut off before it had saved what it did.
NoStacking ==
    [][\A p \in Passes, m \in Models :
          pc[p] = "deploy" /\ pc'[p] # "deploy" /\ up'[m] > up[m] =>
              up[m] = 0 \/ cutOff \/ byHand]_vars

\* A model that stays pinned by active events is up in the end, whatever failed,
\* was lost or was killed before; a model that passes have brought up for events that
\* are over goes down, unless a pass was cut off before it had saved.
Converges ==
    \A m \in Models :
        /\ <>[](m \in Keys(Active)) => []<>(up[m] > 0)
        /\ <>[](m \notin Keys(Active)) => []<>(m \notin ours \/ cutOff)
=============================================================================
