--------------------------- MODULE CoalescedFetch ---------------------------
(***************************************************************************)
(* /status and /env.  The API cannot reach Ray: a caller that finds no     *)
(* cached answer in Redis subscribes, and the first of them takes a lock   *)
(* and triggers the dispatcher's worker, which asks the controller, caches *)
(* the answer, drops the lock and wakes everybody.  Both endpoints are     *)
(* this protocol under different keys.                                     *)
(***************************************************************************)
EXTENDS Naturals, Sequences, FiniteSets

CONSTANTS
    Callers,    \* concurrent requests of the API's processes
    MaxFaults   \* bound on failed fetches, lapsed locks, lost callers, reconnects

ASSUME FetchAssumption == IsFiniteSet(Callers) /\ MaxFaults \in Nat

VARIABLES
    connected,  \* the flag ray:connected
    cached,     \* is there an answer under STATUS_KEY?
    requested,  \* is the lock STATUS_REQUESTED_KEY taken?
    triggers,   \* entries of the trigger stream that the worker has not read
    worker,     \* the await of the worker
    caller,     \* the await of each caller
    inbox,      \* what was published since a caller subscribed
    lapsed,     \* the lock went while the refresh it stands for goes on
    orphan,     \* the lock is one whose refresh was lost
    astray,     \* callers that may have lost the refresh they wait for
    faults

redis == <<cached, requested, triggers>>
ghosts == <<lapsed, orphan, astray>>
fetchVars == <<connected, redis, worker, caller, inbox, ghosts, faults>>

FetchInit ==
    /\ connected = TRUE /\ cached = FALSE /\ requested = FALSE /\ triggers = 0
    /\ worker = "boot" /\ caller = [c \in Callers |-> "idle"]
    /\ inbox = [c \in Callers |-> <<>>]
    /\ lapsed = FALSE /\ orphan = FALSE /\ astray = {} /\ faults = 0

Fault == faults < MaxFaults /\ faults' = faults + 1

\* The lock's holder, an entry of the stream, or the worker stands for a refresh
\* that is still to be done.
Adding == {c \in Callers : caller[c] = "add"}
InHand == worker \in {"fetch", "cache", "unlock", "fail"}
Waiting == {c \in Callers : caller[c] \in {"again", "lock", "add", "listen", "look"}}
Refreshing == Adding # {} \/ triggers > 0 \/ InHand

-----------------------------------------------------------------------------
(* A caller *)

At(c, where) == caller' = [caller EXCEPT ![c] = where]

\* The answer is returned, or 503 or 504; the finally clause unsubscribes.
Leaves(c) ==
    /\ At(c, "idle") /\ inbox' = [inbox EXCEPT ![c] = <<>>]
    /\ astray' = astray \ {c}

\* require_ray_connection answers 503 while the dispatcher reconnects.
Calls(c) ==
    /\ caller[c] = "idle" /\ connected /\ At(c, "get")
    /\ UNCHANGED <<connected, redis, worker, inbox, ghosts, faults>>

Gets(c) ==
    /\ caller[c] = "get"
    /\ \/ cached /\ At(c, "idle")
       \/ ~cached /\ At(c, "subscribe")
    /\ UNCHANGED <<connected, redis, worker, inbox, ghosts, faults>>

Subscribes(c) ==
    /\ caller[c] = "subscribe" /\ At(c, "again")
    /\ UNCHANGED <<connected, redis, worker, inbox, ghosts, faults>>

\* A refresh that landed before the subscription is not missed.
GetsAgain(c) ==
    /\ caller[c] = "again"
    /\ \/ cached /\ Leaves(c)
       \/ ~cached /\ At(c, "lock") /\ UNCHANGED <<inbox, astray>>
    /\ UNCHANGED <<connected, redis, worker, lapsed, orphan, faults>>

\* Mutant: everybody triggers.
EverybodyWins(c) ==
    /\ caller[c] = "lock" /\ requested' = TRUE /\ At(c, "add")
    /\ UNCHANGED <<connected, cached, triggers, worker, inbox, ghosts, faults>>

\* SET NX: only the winner triggers a refresh.
Locks(c) ==
    /\ caller[c] = "lock"
    /\ requested' = TRUE
    /\ \/ ~requested /\ At(c, "add") /\ UNCHANGED astray
       \/ /\ requested /\ At(c, "listen")
          /\ astray' = IF orphan THEN astray \cup {c} ELSE astray
    /\ UNCHANGED <<connected, cached, triggers, worker, inbox, lapsed, orphan, faults>>

Adds(c) ==
    /\ caller[c] = "add" /\ triggers' = triggers + 1 /\ At(c, "listen")
    /\ UNCHANGED <<connected, cached, requested, worker, inbox, ghosts, faults>>

Listens(c) ==
    /\ caller[c] = "listen" /\ inbox[c] # <<>>
    /\ \/ Head(inbox[c]) = "error" /\ Leaves(c)
       \/ /\ Head(inbox[c]) = "ok" /\ At(c, "look")
          /\ inbox' = [inbox EXCEPT ![c] = Tail(@)] /\ UNCHANGED astray
    /\ UNCHANGED <<connected, redis, worker, lapsed, orphan, faults>>

\* Woken, the caller reads the cache; if that is empty it goes on listening.
Looks(c) ==
    /\ caller[c] = "look"
    /\ \/ cached /\ Leaves(c)
       \/ ~cached /\ At(c, "listen") /\ UNCHANGED <<inbox, astray>>
    /\ UNCHANGED <<connected, redis, worker, lapsed, orphan, faults>>

TimesOut(c) ==
    /\ caller[c] \in {"listen", "look"} /\ Leaves(c)
    /\ UNCHANGED <<connected, redis, worker, lapsed, orphan, faults>>

\* The process of the API dies under the call.  A lock it has just won stands for
\* a refresh that nobody will ask for: whoever waits for that one waits in vain.
Dies(c) ==
    /\ Fault /\ caller[c] # "idle"
    /\ At(c, "idle") /\ inbox' = [inbox EXCEPT ![c] = <<>>]
    /\ \/ caller[c] = "add" /\ astray' = Waiting \ {c} /\ orphan' = requested
       \/ caller[c] # "add" /\ astray' = astray \ {c} /\ UNCHANGED orphan
    /\ UNCHANGED <<connected, redis, worker, lapsed>>

-----------------------------------------------------------------------------
(* The dispatcher *)

Wakes(message) ==
    inbox' = [c \in Callers |-> IF c \in Waiting
                                THEN Append(inbox[c], message) ELSE inbox[c]]

\* The first xread asks for what comes after it: an earlier entry is never seen.
Boots ==
    /\ worker = "boot" /\ connected
    /\ worker' = "read" /\ triggers' = 0
    /\ \/ triggers = 0 /\ UNCHANGED <<orphan, astray>>
       \/ triggers > 0 /\ orphan' = requested /\ astray' = Waiting
    /\ UNCHANGED <<connected, cached, requested, caller, inbox, lapsed, faults>>

\* Mutant: the worker does not block when there is nothing to read.
ReadsNothing ==
    /\ worker = "read" /\ connected
    /\ worker' = "fetch" /\ triggers' = triggers - 1
    /\ UNCHANGED <<connected, cached, requested, caller, inbox, ghosts, faults>>

Reads ==
    /\ worker = "read" /\ connected /\ triggers > 0
    /\ worker' = "fetch" /\ triggers' = triggers - 1
    /\ UNCHANGED <<connected, cached, requested, caller, inbox, ghosts, faults>>

\* The controller's answer; or it fails, or does not come in time.
Fetches ==
    /\ worker = "fetch" /\ connected
    /\ \/ worker' = "cache" /\ UNCHANGED faults
       \/ worker' = "fail" /\ Fault
    /\ UNCHANGED <<connected, redis, caller, inbox, ghosts>>

Caches ==
    /\ worker = "cache" /\ connected
    /\ worker' = "unlock" /\ cached' = TRUE
    /\ UNCHANGED <<connected, requested, triggers, caller, inbox, ghosts, faults>>

\* The lock of the refresh is dropped, or that of the next one, if its own lapsed.
Drops(then) ==
    /\ connected /\ worker' = then /\ requested' = FALSE /\ orphan' = FALSE
    /\ lapsed' = (lapsed /\ (triggers > 0 \/ Adding # {}))
    /\ UNCHANGED <<connected, cached, triggers, caller, inbox, astray, faults>>
Unlocks == worker = "unlock" /\ Drops("publish")

\* Mutant: the lock of a failed refresh is left to expire.
KeepsLock ==
    /\ worker = "fail" /\ connected /\ worker' = "tell"
    /\ UNCHANGED <<connected, redis, caller, inbox, ghosts, faults>>

\* Mutant: a failure is reported to the dispatcher only.
FailsInSilence == worker = "fail" /\ Drops("read")

Fails == worker = "fail" /\ Drops("tell")

\* The "ok" of an answer that a reconnect dropped since wakes nobody for good.
Publishes ==
    /\ connected /\ worker' = "read"
    /\ \/ /\ worker = "publish" /\ Wakes("ok")
          /\ astray' = IF cached THEN astray ELSE Waiting
       \/ worker = "tell" /\ Wakes("error") /\ UNCHANGED astray
    /\ UNCHANGED <<connected, redis, caller, lapsed, orphan, faults>>

\* connect() holds the event loop; what Redis has of the old cluster is dropped.
Reconnects ==
    /\ Fault /\ connected /\ connected' = FALSE
    /\ cached' = FALSE /\ requested' = FALSE /\ orphan' = FALSE
    /\ lapsed' = (lapsed \/ Refreshing)
    /\ astray' = Waiting
    /\ UNCHANGED <<triggers, worker, caller, inbox>>

Connects ==
    /\ ~connected /\ connected' = TRUE
    /\ UNCHANGED <<redis, worker, caller, inbox, ghosts, faults>>

-----------------------------------------------------------------------------
(* Redis: keys expire *)

\* An answer outlives the calls that it has woken.
AnswerExpires ==
    /\ cached /\ cached' = FALSE
    /\ \A c \in Callers : /\ caller[c] # "look"
                          /\ \A i \in DOMAIN inbox[c] : inbox[c][i] # "ok"
    /\ worker \notin {"unlock", "publish"}
    /\ UNCHANGED <<connected, requested, triggers, worker, caller, inbox, ghosts, faults>>

\* The lock expires, its refresh may still be going on.
LockExpires ==
    /\ requested /\ requested' = FALSE /\ orphan' = FALSE
    /\ \/ Refreshing /\ Fault /\ lapsed' = TRUE
       \/ ~Refreshing /\ UNCHANGED <<lapsed, faults>>
    /\ UNCHANGED <<connected, cached, triggers, worker, caller, inbox, astray>>

-----------------------------------------------------------------------------
CallerNext(c) ==
    \/ Gets(c) \/ Subscribes(c) \/ GetsAgain(c) \/ Locks(c) \/ Adds(c)
    \/ Listens(c) \/ Looks(c)
WorkerNext ==
    \/ Boots \/ Reads \/ Fetches \/ Caches \/ Unlocks \/ Fails \/ Publishes

FetchNext ==
    \/ \E c \in Callers : Calls(c) \/ CallerNext(c) \/ TimesOut(c) \/ Dies(c)
    \/ WorkerNext \/ Reconnects \/ Connects \/ AnswerExpires \/ LockExpires

\* A call and the worker go on, a fetch ends (it is bounded by a timeout), and
\* the dispatcher reconnects.  That a call times out is not assumed, nor that a
\* key expires.
Fairness ==
    /\ \A c \in Callers : WF_fetchVars(CallerNext(c))
    /\ WF_fetchVars(WorkerNext) /\ WF_fetchVars(Connects)
FetchSpec == FetchInit /\ [][FetchNext]_fetchVars
FairSpec == FetchSpec /\ Fairness

-----------------------------------------------------------------------------
(* Properties *)

\* The types of the variables.
FetchTypeOK ==
    /\ connected \in BOOLEAN /\ cached \in BOOLEAN /\ requested \in BOOLEAN
    /\ lapsed \in BOOLEAN /\ orphan \in BOOLEAN
    /\ triggers \in Nat /\ faults \in 0..MaxFaults /\ astray \subseteq Callers
    /\ worker \in {"boot", "read", "fetch", "cache", "unlock", "publish", "fail",
                   "tell"}
    /\ caller \in [Callers -> {"idle", "get", "subscribe", "again", "lock", "add",
                           "listen", "look"}]
    /\ inbox \in [Callers -> Seq({"ok", "error"})]

\* "Fetches at most once per window" (dispatcher.py:234-235): however callers and
\* the worker interleave, no second refresh is asked for before the first is done,
\* unless its lock expired or was dropped by a reconnect meanwhile.
OneRefresh ==
    ~lapsed => /\ \A c, d \in Adding : c = d
               /\ triggers <= 1
               /\ Adding # {} => triggers = 0 /\ ~InHand
               /\ triggers > 0 => ~InHand

\* Whoever listens will hear of a refresh: one is under way or about to be
\* published, or its message is there already (app.py:231-246); except when a
\* reconnect or a death took it away, or the worker was not yet reading.
NobodyWaitsInVain ==
    \A c \in Callers : caller[c] = "listen" =>
        \/ inbox[c] # <<>> \/ Refreshing \/ worker \in {"publish", "tell"}
        \/ c \in astray

\* So a caller is woken without its timeout, with an answer or an error that it
\* returns.
WaitersAreWoken ==
    \A c \in Callers : caller[c] = "listen" ~> caller[c] = "idle" \/ c \in astray
=============================================================================
