# NDIF in TLA+

NDIF serves intervention requests against large language models. A client posts
a request to the API, the API pushes it on a Redis list, a dispatcher process
queues it per model and hands it to a Ray actor that holds the model, and the
actor publishes the result. A controller places the actors on the GPUs of the
cluster. This directory models the parts that decide: the dispatcher, in which
requests wait, move and get lost; the controller, which books memory; the model
actor with its sandboxed and its tensor-parallel variant, where a block runs on
several threads and processes; and, around them, the calendar of the dashboard
and the coalesced `/status` and `/env` of the API.
Paths below are relative to `src/ndif/` of the repository.

## 1. Inventory

| Part | State it keeps | Operations | Talks to |
|---|---|---|---|
| Request queue (`services/api/queue/request_queue.py`) | heap of `(rank, enqueued_at, seq, request)` | put, get, snapshot, oldest, position, remove, clear | processor, replica workers |
| Processor (`queue/processor.py`), one per model | queue, `replicas` by id, `status` | enqueue, ensure_started, start, mark_idle, autoscaling_loop/scale_up, reconcile, adopt, purge, reply | controller (get_deployment, scale), replicas, users |
| Replica (`queue/replica.py`) | `task`, `current_request` | provision, deploy, wait, start, worker, dispatch, cancel | its actor (run, cancel, `__ray_ready__`), its processor |
| Dispatcher (`queue/dispatcher.py`) | processors, error queue | get, dispatch, handle_errors, purge, connect, events worker (kill, reconcile, queue state), status/env workers | Redis, Ray |
| API app (`services/api/app.py`) | none; Redis keys, a lock and a trigger stream | request, response, subscribe; status and env (get, subscribe, lock, trigger, listen) | Redis, the dispatcher's status and env workers |
| Controller (`services/ray/deployments/controller/controller.py`) | deployments, applied state | deploy, scale, evict, get_deployment, build/apply, monitor | cluster, actors |
| Cluster/Node (`controller/cluster/`) | per-node deployments, cache, GPU and CPU accounts | evaluate, deploy, evict, purge | evaluator |
| Model actor (`services/ray/deployments/modeling/base.py`) | `cached`, kill switch, execution thread | run, cancel, to_cache, from_cache, restart, cleanup | users, object store |
| Sandbox (`services/ray/sandbox/`) | pool of runner processes; per request the proxies of the block's workers, their parks, barriers and caches | acquire, refill, close; accept, handle, die_with_parent; interleave, pump, release, writeback, throw, check_dangling | model actor, nnsight |
| Tensor parallelism (`services/ray/tp/`) | shard processes and their sockets, `committed`, `stood_down`, the abort flag | start, wait_ready, prepare, go, release, collect, stop; the shard's loop | model actor, NCCL |
| Dashboard (`services/dashboard/`) | `schedule.json`, the reconcile state file, two file locks | create, update, delete; the reconcile pass; monitor and report jobs | CLI library, controller |
| CLI (`cli/`), providers (`common/providers/`) | process table; connections | start/stop; get/put | everything |

What makes the core hard:

* **Concurrency.** The dispatcher is one asyncio loop, but every request passes
  through the dispatch loop, one `start()`, any number of workers, the
  autoscaler, the events worker and adopt tasks. Each of them reads shared
  fields, awaits, and uses what it read.
* **Failure.** Actors are demoted to CPU (WARM), evicted, die, restart
  themselves on a CUDA fault or fail to load; the Ray connection breaks; the
  controller refuses.
* **Ordering.** Hand-backs must keep a request's place; broadcasts work on
  snapshots; cancels arrive late.
* **Processes.** A sandboxed block runs in a process of its own, a sharded model
  in several; they are joined by sockets on which nobody may wait for a message
  that is not coming, and any of them may be killed.
* **Identity.** Workers and coroutines name a replica by its id, while several
  Replica objects may exist for the same id.

What correctness means here, component by component: the queue serves the
priority group first and each group in order of arrival, whatever is handed
back; no request is forgotten and none has two owners; a block an actor is
still running is not run again; somebody always attends a non-empty queue;
setup never claims to be under way when it is not, and never runs twice; a
replica id has one worker; every request is answered in the end. A stop reaches
the request it was meant for. The memory accounts are exact, no GPU is given to
more than it holds at any moment of an `apply()`, what the controller believes of
a replica is so, and a placement evicts nobody it must spare. The two halves of
a sandboxed request move in lock step, and no edit and no error of a block is
lost between them. A runner serves one request and dies with its actor. The
ranks of a group enter and leave a request together. The calendar's passes bring
the cluster to what it says, without undoing an admin's write. Callers of
`/status` share one refresh, and each of them is woken.

`PROJECT.json` lists every hazard with its line and the properties aimed at it.

## 2. Plan

| Order | Modules | State |
|---|---|---|
| 1 | `RequestQueue`, `QueueService`, `GroupFifo` + `ApiProofs` | done |
| 2 | `PoolState`, `Replica`, `Processor`, `ModelActors`, `Dispatcher`, `MCDispatcher` | done |
| 3 | `DispatcherProofs`: types, `NoLostRequest`, `OneOwner`, `NoSecondRun` for every instance | done |
| 4 | `ActorRun` + `ActorProofs`: timeout, cancel, preemption and the end of a block inside `run()` | done for one `run()` at a time |
| 5 | `Node`, `Controller`, `MCController` + `ControllerProofs`: candidate levels, evictions, WARM promotion, resource accounts, the deployment monitor | done |
| 6 | `Interleave`, `MCInterleave` + `InterleaveProofs`: host and runner of a sandboxed request | done |
| 7 | `Sandbox` + `SandboxProofs`: the runner pool and the processes | done |
| 8 | `TPGroup` + `TPProofs`: the two-phase requests of a shard group | done |
| 9 | `Schedule` + `ScheduleProofs`: the dashboard's calendar and its reconcile passes | done |
| 10 | `CoalescedFetch` + `ApiProofs`: the lock-and-publish protocol of `/status` and `/env` | done |
| 11 | proofs: every safety property of the runs as a theorem | done, under the hypotheses of section 5 |

Abstract specifications: `GroupFifo` for the queue; for the dispatcher a
lifecycle (waiting, held, answered, dropped) that `Dispatcher` would refine is
stated by `NoLostRequest` and `OneOwner` instead.

## 3. Modules

### Request queue

`RequestQueue` has one operator per method of the class. A heap is represented
by the set of its entries: the key `(rank, enqueued_at, seq)` is a total order,
so the list's layout cannot be observed. `QueueService` is the life of one
queue: `PutNew` (first put, stamped by a clock that may stand still), `PutBack`
(`put(prepend=True)`), `Get`, `Finish`, `Kill`, `Clear`. `GroupFifo` is what it
promises, without keys: two groups, first come first served inside each.

### Dispatcher

`PoolState` declares the variables and what all the other modules use. One
model's `Processor` is modelled; processors share nothing but the error queue.
A step is the code between two awaits, as asyncio runs it. A status update takes
effect when its await completes.

| Variable | Code |
|---|---|
| `queue`, `stamp` | `Processor.queue`, `request.enqueued_at` |
| `status`, `pool` | `Processor.status`, `Processor.replicas` |
| `task`, `current` | `Replica.task` (None also once done), `Replica.current_request` |
| `wk[t]` | worker task `t`: its await point, its Replica object, its request, a pending cancel |
| `co[c]` | the other coroutines: each `start()`, each `adopt()`, the dispatch loop, the events worker, the autoscaler |
| `connErr` | whether the error queue holds a connection error |
| `hot`, `actor`, `orphans` | what `get_deployment` lists, the state of each actor, blocks an actor runs with no worker waiting |
| `answered`, `dropped` | requests sent a terminal status; requests a purge cleared without one |
| `budget` | how many requests, commands and faults of each kind are yet to come |

A Replica *object* is `<<id, generation>>`, because the code may hold two
objects for one id and does confuse them (`replica.py:191`).

* `Replica`: the worker. `Loop` is the top of `while not self.dropped`, `Take`
  the return of `queue.get()` with the look-up of the actor, `HandBack` the
  evicted branch with `enqueue(prepend=True)`, `Exit` the `finally`.
* `Processor`: `start()` as `Listed`/`StartListed`/`StartProvisioned`/
  `Broadcast`/`StartReady`/..., the failing branches, `scale_up`, `reconcile`,
  `adopt`, and `purge` cut into its broadcast, the clear, and one step per busy
  replica.
* `ModelActors`: the controller's answers and the actors. A remote call is
  served in one step and its answer is used in a later one.
* `Dispatcher`: composition; the dispatch loop, `handle_errors`, `kill`; the
  properties. `MCDispatcher` gives TLC its instances.

Abstractions: a request is a model value; texts, positions and metrics are left
out; the autoscaler's clock thresholds are left open, so a tick may act whenever
its other conditions hold; fetching from Redis delivers one request per step and
does not fail; the last two steps of `handle_errors` (the purge's end and the
blocking `connect()`) are one step, since `connect()` blocks the loop. A cancel
that lands while an ERROR is being published is taken to land just before it.

### Model actor

`ActorRun` opens up what `ModelActors` takes as one step. `pc[c]` is where the
`run()` of request `c` awaits: its environment (`env`), then the race of
`asyncio.wait()` (`wait`). `thread[c]` is the thread of `execute()`; its first
statement stores `execution_ident`, its last posts the result to the loop.
`killSwitch`, `killReason`, `executionIdent` and `cached` are the fields of the
actor. `killed[c]` is the task that waits for the switch.

`Finishes`, `Stops` and `TimesOut` are the three branches after the race, each
with its answer and `cleanup()`, or `restart()` after a fatal error. `Kill` is an
operator's `cancel()`. `ToCache` cancels and begins to move the weights, which
holds the loop until `Cached`; `FromCache` and `Restored` likewise. Threads go on
meanwhile.

Abstractions: one `run()` at a time, as the queue's worker sends them; the
timeout is longer than the start of a thread; a set switch finishes its task in
the same step; a block may fail in a way that needs its weights to be elsewhere
(`torn`) only while they are.

### Placement

`Node` is the ledger of the nodes: `avail` (bytes left per GPU), `cpu` (bytes
left for WARM replicas), `hot` and `warm` (the `Deployment` objects in
`deployments` and `cache`), `young` (HOT replicas below the minimum deployment
time). Its operators are the methods of `node.py`: `Candidates` is `evaluate()`,
`FindEvictions`, `CacheRoom` and `EvictHot` what they are called there, `Place`
the rest of `deploy()`. Where the code takes the smallest first, ties between
replicas are open (they depend on the order of a dict), ties between GPUs are
not (a stable sort of a list).

`Controller` has the calls and what follows them. The controller is one asyncio
actor and a call does not await between its first change of a ledger and the end
of `apply()`, so `call.pc` steps through one call at a time: `place` and `room`
(`Cluster.deploy()`, replica by replica), `drain` (`evict` of a model), `apply`
(`build()`, the deletions, the `to_cache()` calls), `cache` (the blocking
`ray.get`), `launch` (`from_cache()` and creations). The actors move in between,
and so do their deaths. `mon[i]` is a `_monitor_deployment` task with the
Deployment object it was given, which may be out of date when it resumes.
`state[r]` is the level last applied. `actor[r]` has where the weights are (`at`)
and the arguments of its creation (`born`), with which Ray restarts it, HOT or
WARM. It is `astray` from a restart that loaded it where nothing is booked for it
until a call moves it: the controller is told of neither.

Abstractions: a model's size and the number of ways it shards are constants (the
evaluator's answer); an actor holds of a GPU what is booked for it there, which is
what `set_process_limits()` caps it at (`modeling/util.py:181`); the look-up at the Hub before a deploy changes nothing; time
passes only when a placement looks at it; an id is used again once nothing refers
to it; a new replica or monitor takes the first free name.

### Sandboxed request

`Interleave` is one untrusted request over a socket. The runner (`nns.py`) has
the block's workers, each parked on a location of the model (`wpark`), with the
pin of its `tracer.iter` step (`wpin`). The host (`driver.py`) has the forward
pass (`visit`) and a proxy per worker (`pend`, `hpin`). A step is what one side
does between two receives, except that the host's nested calls (a barrier's
release that adopts a park that arrives at a barrier that ...) are an explicit
stack, `agenda`. `RunnerResume` leaves open what the block does next: read, edit,
step, meet the others, ask for a control event, stop, raise, return. Every
message is a value in `toHost` or `toRunner`. `HostDone` and `check_dangling` end
a trace; a session has `MaxTraces`. What nnsight does is taken from how the
driver uses it: `Matches`, `Count`, `NextParks`.

`pump()` sends nothing for an error of a worker: it leaves the trace, and what
comes next is the block's choice. It fails (`BlockRaises`) or catches the error
(`BlockCatches`; for an error that the host threw, `throw`), and then ends or
starts another trace. The host is still in the trace that was left. `course` is
"left" meanwhile, and "astray" once the block goes on before the host has caught
up, or a worker that was thrown at has parked again, at which nobody looks.
`HostMisreads` is what the host then makes of a message that is not a PARK.

Abstractions: values are left out, so an edit is the obligation `owed` that is
discharged by the write-back; one barrier; a cache is attached or not;
`StopTraces` and `CatchTraces` bound the traces in which a block may stop, or
catch an error.

### Runner processes

`Sandbox` is the pool (`ready`, `spawning`, the threads that warm), the request's
thread (`thread`, `holds`), the connections of its ranks (`conn`, `backlog`,
`channels`) and the runner's life (`proc`: importing, booting, accepting,
handling). `raced` remembers a `refill()` that came between the two statements of
`warm()`. A process counts its peers, drops a connection that was hung up, and
watches the parent it found when it started.

### Tensor parallelism

`TPGroup` is one life of a shard group. `thread[q]` is `execute()` on rank 0:
unhealthy groups refuse, `prepare` collects READY, `commit` sends GO, the
`finally` releases. `run[q]` is the event loop's side with `interrupt` and
`cleanup`. A collective is a step all ranks take together (`MorePasses`,
`Checkpoint`); a rank that is not there makes the others wait, which is the
point. `torn` is a runner stopped under the ranks.

Abstractions: the payload is whether the block raises; a shard that fails alone,
answers late or dies is a fault from one budget; a restart ends the model.

### Calendar

`Schedule` has the events (`calendar`, `window`), the cluster as the number of
HOT replicas per model (`up`), the two files with their locks, and the passes.
`view[p]` is what a pass has read and must do. Its steps are those of
`_reconcile_locked()`: read, ask the controller, evict one by one, deploy in one
call, wait for the replicas, mark each event, save. The state file is cut off
when it is opened for writing, so a pass that is killed there leaves nothing;
`schedule.json` is replaced atomically. A write of an admin may give an event any
model and any window, past, present or future. `ours` and `cutOff` remember what
passes deployed and that one was killed before it had saved.

### Coalesced fetch

`CoalescedFetch` is one of the two endpoints. `caller[c]` is the await of a
caller in `_coalesced_fetch()`, `worker` that of `status_worker()`; the Redis
keys are `cached`, `requested` and `connected`, the stream is the number of
entries not yet read, `inbox[c]` what was published since `c` subscribed.
Keys expire, callers die and give up, fetches fail, and `connect()` drops the
keys while it holds the dispatcher's loop. Three history variables keep apart
what the protocol promises and what it does not: `lapsed` (a lock went before
its refresh was done), `orphan` (a lock whose winner died before it triggered,
or whose trigger was not seen) and `astray` (callers that may have lost the
refresh they wait for).

## 4. Runs

Queue:

* `queue` (two priority and two normal requests, six puts). `ServesInGroupOrder`
  is the refinement of `GroupFifo`. `RequeuedIsOldest` says that `prepend` never
  lets a request jump an older one. `ReportsAgree` is what users and the
  autoscaler are told: positions, the snapshot, and the longest wait.

Dispatcher (two requests, two replica ids, two objects per id). A run has one or
several budgets, named in `MCDispatcher`; each is a scenario that says how many
requests arrive and which faults and commands may come, at any time. Two requests
are the least that show a queue behind a busy replica; the scenarios in which a
second replica meets a broken connection have one.

* `serve`: one replica at a time with a kill, a demotion, a restart and a death;
  or an operator's second replica, a `reconcile` and a demotion around `start()`.
  `PoolSound` (`SetupHasStart`, `OneStart`, `OneWorkerPerReplica`) and `Attended`.
* `faults`: broken connection, failed load or refusal, with an eviction, a kill
  and a model that only a trusted request may deploy; or the first two while the
  autoscaler or an operator adds a replica. `NoLostRequest`, `OneOwner`,
  `NoSecondRun`.
* `live`: `EveryRequestAnswered`, under weak fairness of each coroutine (the
  event loop runs what can continue), of the controller and the actors (they
  answer) and of loading (an actor that loads finishes). Arrivals, commands,
  faults and the autoscaler's clock are not fair. No run assumes more: an actor
  that never answers hangs its worker by design (`replica.py:165`).

Model actor:

* `actor` (two calls, one kill, two HOT to WARM moves: a second call after every
  way the first may end, with its thread lingering). `StopHitsItsTarget`,
  `OneAnswer`, and `EveryRunEnds` under weak fairness of the loop's steps, of the
  start of a thread and of the end of a move. That a block ends is not assumed.

Placement (one node, two GPUs of 2, a CPU budget of 2; models of size 1 and 2 and
one of 4 that shards over both GPUs; four replica ids):

* `placement`: three calls with a failing load and a failing move, with an
  actor that dies, or with a restart (of a replica that is HOT, parked or moved)
  and a failing move; two with a node that goes and comes back.
  Three calls fill the node, clear it for a pinned model that pushes WARM
  replicas out, park a replica and promote it. `Ledger`, `NoOvercommit`,
  `RecordsAndActorsAgree` (`RecordsMatchActors`, `NoLeakedActor`,
  `CachedIsInState`, `NoLostAnswer`) and the action property `PlacementSpares`.

  What three calls do not reach: when a failed `from_cache()` is handled only
  after three more calls have parked the replica, given its GPU away and promoted
  it onto another, the monitor gives back the old GPU and `Ledger` fails. The
  event loop would have to serve those calls before a task that is ready, so it
  is listed as a hazard (`controller.py:504`) and not as a finding. The theorems
  about the accounts exclude it by name (`Prompt`, section 5).

Sandboxed request:

* `interleave` (two workers with up to three and two parks, a forward in which one
  module runs twice with an op between, a barrier of two, sources and caches, two
  traces, a killed runner; seven million states). Two workers are the least that can meet; a
  barrier nobody completes is one that the other worker never reaches; the second
  visit of a module is what pins are for. A block may catch an error in the first
  trace and stop in the second, so that everything that may follow a caught error
  is there, and a stop is met by hosts in and out of step. Calls and
  barriers of three were checked in separate instances. One branch of
  `HostMisreads` is not reached: an INTERLEAVE is as long as a park with three
  workers or more.
  `InStep` (`Lockstep`, `PinIsCurrentStep`, `WaitersWait`, `TurnsAlternate`),
  `EndsAreTold` (`NothingDropped`, `RealErrorSurfaces`), and the action properties
  `EditsApplied` and `NobodyPassed` as `VisitsComplete`. They except behaviours
  that are astray; section 6 says what happens in them.

Runner processes:

* `sandbox` (two requests one after the other on a group of two, a pool of one,
  three processes, one failed spawn or connection, one interrupt, one death of
  the actor). `OwnRunner` (`OneRequestPerRunner`, `RunnerGoesWithItsRequest`,
  `LeaderIsRankZero`), `PoolBound`, and `RunnersDieWithActor` under weak fairness
  of every process, of its watching thread and of the actor's threads. That a
  block ends is not assumed of a runner whose actor is gone.

Tensor parallelism:

* `tp` (two shards, three requests, two forward passes, two faults: one request
  to fail, one to meet what is left, one more). `RanksTogether`
  (`RestBeforeNext`, `NobodyLeftBehind`), the action property `RestartsForCause`,
  and `NoRankWaitsForever` (`PreparedIsReleased`, `NoRankStranded`, `ComesUp`)
  under weak fairness of threads and shards and of the execution timeout, which
  is the only thing that ends a wait in a collective.

Calendar:

* `schedule` (two events, two models, room for two replicas of each, a background
  pass beside cron's, two writes, one fault, one killed pass). `WritesStand` and
  `NoStacking` are action properties. `Converges` assumes that cron ticks for
  ever, that a pass goes on and that a hung cron job is ended by `timeout`; and
  strong fairness for the lock, which `flock` hands to whoever waits. Admins,
  clock and faults are not fair.

Coalesced fetch:

* `fetch` (two callers that call again and again, two faults; three callers with
  one fault and two with three were checked too). `OneRefresh`,
  `NobodyWaitsInVain`, and `WaitersAreWoken` under weak fairness of callers,
  worker and reconnection. A caller's timeout is not assumed, so it is not what
  wakes anybody, nor is the expiry of a lock.

`CHECK_DEADLOCK FALSE` where a service without requests rests; `schedule` and
`fetch`, in which something always goes on, are checked for deadlock.

`purge_drop` shows a disagreement between the code and what it says of itself (see
`findings` in `PROJECT.json`): a request that arrives during purge's broadcast is
cleared and never told. It uses `PromptSpec`, in which a task that needs no I/O
goes before the next I/O, as asyncio schedules it, so that the counterexample is
one of the program's.

## 5. Proofs

`ApiProofs` proves, of the queue for any set of requests, any bound and any priority set:

* `QueueTyped`: `Spec => []TypeOK`.
* `RequeuedFirst`: `Spec => []RequeuedIsOldest`.
* `ReportsAreTrue`: `Spec => []ReportsAgree`.
* `QueueRefinesGroupFifo`: `Spec => ServesInGroupOrder`.

The inductive invariant `QInv` adds to the types that an entry's stamp is its
request's `enqueued_at`, that a request is on the heap at most once and never
while in flight, and that whoever was served is at least as old as every fresh
entry of its group. The last part is what makes `RequeuedIsOldest` inductive: a
hand-back brings a served request into the heap. The refinement follows because
the foremost key then belongs to a request that `GroupFifo` may serve. What users
are told needs the keys to be a total order on a finite heap (`KeysOK`): of two
entries one has more ahead of it, so that no two have the same place.

`DispatcherProofs` proves, for any sets of requests, replica ids and objects and
any budget,

* `DispatcherTyped`: `Spec => []TypeOK`. `TypeOK` is not inductive: a step uses
  the request a worker holds or the replicas a coroutine has left, so `TInv`
  adds what `wk[t]` and `co[c]` hold at each await point.
* `RequestsNeverLost`: `Spec => []NoLostRequest`: an admitted request is queued,
  held by a worker or the kill handler, answered, or among those a purge
  dropped.
* `RequestsHaveOneOwner`: `Spec => []OneOwner`.
* `NothingRunsTwice`: `Spec => []NoSecondRun`.

The invariant `OInv` joins the middle two to `TInv`: a request cannot be shown to
move from one owner to the next unless it had only one. `OkAnswered` (when `run()`
has returned, its request is answered) and `OwnersAdmitted` (nobody owns a request
that has not arrived) close the two remaining gaps: the hand-back of a cancelled
worker and the arrival of a request. `NoSecondRun` says of a worker what it may not
hold; `RInv` says instead of the request that it *lives* no more (it is neither
queued nor at an await of `dispatch()` from which it may still reach an actor). No
step revives an admitted request (`NoneRevives`), and that needs one owner: the
queue must not hold a second copy of what a worker has just given up.

* `PoolStaysSound`: `Calm /\ Spec => []PoolSound`: one `start()` at a time, whose
  status says so, and no two workers on a replica.
* `QueueIsAttended`: `Calm /\ Lasting /\ Spec => []Attended`: a queue that is not
  empty has a worker, a `start()` or an `adopt()` that will get to it.

Both are about who is with each replica: its worker, the `start()` that set it up
and has yet to give it one, or the `adopt()` that waits for it. `CInv` says that
these exclude each other, so that nobody finds a replica another has, and when a
replica may go back to the pool: an object that is out of the pool has a worker
that unwinds and will not come back. `Watched` is the other half, that there is
always one of them, and that nobody queues while the pool is empty and the status
idle; the kill handler is followed through its awaits, since it may take away the
replica that was to serve. A `start()` that gives up leaves the replicas it had
ready to nobody, so `Watched` needs `Firm`: without an operator's replicas a
`start()` has at most one (`Single`), and without losses every known actor is
there and none gives up (`Steady`). TLC checked each part on the budgets of
`serve` before it was proved.

`ActorProofs` proves, for any number of calls, kills and moves,

* `ActorTypes`: `Spec => []TypeOK`;
* `StopsHitTheirTarget`: `Spec => []StopHitsItsTarget`;
* `AnswersOnce`: `Spec => []OneAnswer`.

`AInv` says that the switch, and the task that has seen it, are set only while a
call is under way that the cancel hit, and that at most one call is. `OneAnswer`
rests on a call that is not over having answered nothing (`SilentUntilOver`).

`ScheduleProofs` proves, for any number of events, models and background passes,

* `ScheduleTypes`: `Spec => []TypeOK`. A status is looked up by the model an event
  pinned, so a pass must mark only events it read as active (`MarksArePinned`).
* `WritesAreKept`: `Spec => WritesStand`, because the copy that a pass writes back
  is current while it holds the store's lock (`CopyIsCurrent`).
* `NothingStacks`: `Spec => NoStacking`. The lock admits one pass at a time, also
  when one hangs (`LockInv`); and what is up is accounted for (`Accounted`):
  between passes the state file names it, during a pass its view wants it or is
  to evict it, and after its deploy the view is what it is about to save.

`TPProofs` proves, for any number of shards, requests, passes and faults,

* `GroupTyped`: `Spec => []TypeOK`;
* `RanksStayTogether`: `InTurn /\ Spec => []RanksTogether`;
* `OnlyFaultsRestart`: `InTurn /\ Spec => RestartsForCause`.

The fields of the actor and the channels are shared by all requests, so neither
property is inductive. `TPInv` says, for each point of `execute()`, what a live
shard may be doing and what may be on its two channels (`Hearing`, `IsReady`,
`Released`, `LeftAlone`, `Skipped`), that a shard is late only after a fault, that
the group is quiet between requests, and that a shard's error has a cause.

`SandboxProofs` proves, for any number of runners, requests and peers,

* `PoolTyped`: `Spec => []TypeOK`;
* `PoolKeepsItsSize`: `Spec => []PoolBound`;
* `RequestsOwnTheirRunner`: `EarlyStops = FALSE /\ ProbeLingers = FALSE /\ Spec =>
  []OwnRunner`;
* `NobodyServesAnOrphan`: `Spec => []OrphansAreIdle`.

The pool's size rests on `_spawning` being the number of threads in `spawn()`
(`Counts`) and on a runner being in one place (`Placed`). For `OwnRunner` one must
know which runner `interrupt()` would stop (`Sandboxed`) and how the peers stand in
line: each once, rank 0 ahead of the others, until somebody hangs up (`Line`).

A process that finds another parent than the actor, because the actor died while
it was importing, is never ended by `die_with_parent()`, and section 6 shows it.
`OrphansAreIdle` says how far that goes: such a runner has no connection, no block
and no place with a request. `OrphanInv` follows how a runner is handed out:
`spawn()` returns it only after a probe has connected, which a process can accept
only once it has looked for its parent (`Looked`), and whoever has a runner got it
from a `spawn()` (`Probed`). TLC checked it with an actor that may die at any point
(`DiesEarly`, `EarlyStops`, `ProbeLingers` TRUE; 13 million states).

`InterleaveProofs` proves, for any number of workers, traces, parks and steps, any
forward pass and any sizes of a barrier,

* `InterleaveTyped`: `Spec => []TypeOK`;
* `HostAndRunnerInStep`: `Spec => []InStep`;
* `NoEndIsSilent`: `Spec => []EndsAreTold`;
* `VisitsAreComplete`: `Spec => VisitsComplete`.

Whatever the traces in which a block may stop or catch errors, the three hold as
long as `course` is not "astray"; the invariant is `TInv`, and `IInv` unless
astray. A block that has left a trace and then ends, raises or is killed is inside
the properties. `InStep` talks of the moments at which the forward runs; between them the two sides
disagree, and the proof is about what is then on its way. `IInv` has a part for
each question a step asks. `Turns`: given what the runner does, where the host
is and what may be on the two queues; with `Asked` and `Follows` it says that a reply
is about the worker that is waited for and is what that worker is now parked
on. `HostAt` and `Rounds`: what the nested calls have left to do, and that a
worker parked at the barrier waits for this round, is about to be released, or is
being asked. `Owes`: an edit that is owed belongs to the visit and is awaited.
`Steps`: a pin is its worker's step. No message is misread (`NoneMisread`). `Unwinding` and `Surfaces`: whoever is
still parked at the end is thrown at for what it is parked on, and a reported error
is the last thing the host hears. `Drills`: a worker inside an op's callable has had
it armed. TLC checked the invariant on the instance of `interleave` before it was proved.

`ControllerProofs` proves, for any nodes, GPUs, models, replica ids and monitors,
any sizes, requests of operators, and budgets,

* `PlacementsSpare`: `Spec => PlacementSpares`;
* `NobodyIsForgotten`: `Spec => [](NoLeakedActor /\ CachedIsInState /\ NoLostAnswer)`;
* `LedgersExact`: `Spec /\ [][Prompt]_vars => []Ledger`;
* `ControllerTyped`: `Spec /\ [][Prompt]_vars => []TypeOK`, because in `TypeOK`
  nothing available is negative or more than a GPU has;
* `RecordsAgree`: with `OneSize`, `Spec => []RecordsAndActorsAgree`;
* `NeverOvercommitted`: `Spec /\ [][Prompt]_vars => []NoOvercommit`.

The argument has four layers: 2 and 3 each stand on 1, and 4 on all of them.

1. `IInv`, which needs no hypothesis, is about lists. Between the first change of
   a ledger and the end of `apply()` the nodes, `state`, the monitors and the
   actors' messages disagree; `IInv` says how. `Applies`: what `state` may
   say of a listed replica at each point of a call. `Placing`: who is to make room
   may go. `Launching`: what is about to be launched is listed, and nobody watches
   a replica that is yet to be created. `Posted` and `Awaited`: a message to an
   actor belongs to the monitor that waits for it, or is the last one and
   `apply()` waits for it, and nobody waits for a message that is not there; with
   `Parks` this is why the blocking `ray.get` ends. `Settled`, `Traced`: whom a
   monitor may still fail, and on which node. `Owned`: whoever is alive is listed,
   or `build()` finds it in `state`. TLC checked it, and `Current`
   and `Faithful` below, on the run's instance.
2. `Exact` adds the accounts: each is what the listed replicas leave
   (`Balanced`), and none is negative (`Bounded`). A deploy books a candidate
   computed before its victims were evicted, so `Roomy` follows what is
   still to go; the greedy choice of victims and the order in which GPUs are taken
   (`Choose`, `FirstGpus`, `FindEvictions`) are proved to free enough. A monitor
   books out what its own Deployment object says; `Current` says that this is what
   is booked, and is where `Prompt` is needed.
3. `Faithful` adds where the weights are: for each replica where its actor has
   them or will have them once `from_cache()` is served (`Aim`), by what the
   lists, `state` and the monitors say of it (`Kept`). An actor astray counts as
   one without weights (`Where`) until a call has moved it, after which it is where
   it is booked like any other: restarts do no lasting harm to the records.
4. `Fits` adds up: on no GPU is more, there or on its way, than it holds. What is
   there is covered by what is booked, or `apply()` still waits for it
   (`Covered`); it gets less before it gets more, since the launches come after
   the wait.

The sums over sets of replicas are folds; what is needed of them (one element
more or less, a sum over a subset, a union) follows from an induction over finite
sets that is itself proved in the module, over a set of counterexamples and not
over a predicate.

`ApiProofs` proves, of the coalesced fetch for any number of callers and of faults,

* `FetchTyped`: `Spec => []TypeOK`;
* `RefreshesCoalesce`: `Spec => []OneRefresh`;
* `ListenersAreAttended`: `Spec => []NobodyWaitsInVain`.

The inductive invariant `FInv` adds to them that a lock that has not lapsed
stands for exactly the refresh under way (`LockStands`, `LockCounts`), that only
a subscriber has messages, and that whoever was woken with "ok" finds the answer
unless it is astray. `OneRefresh` alone is not inductive: a caller that finds
the lock free must know that no refresh is left from before. `NobodyWaitsInVain`
needs the same fact the other way round: a caller that finds the lock taken must
know that somebody will publish.

What the proofs assume of the constants is what the modules state of them
(`PriorityAssumption`, `MaxPutsAssumption`, `ConstantsAssumption`,
`ActorAssumption`, `FetchAssumption`, `ScheduleAssumption`, `TPAssumption`,
`SandboxAssumption`, `InterleaveAssumption`, `NodeAssumption`,
`ControllerAssumption`): finite sets, positive bounds, names
that differ, a pool no larger than the number of processes there may be, a
forward made of layers and callables. TLC evaluates them in the runs.

Theorems whose statement has a hypothesis besides `Spec` leave out something the
code may meet. Most switch a behaviour off by a constant, or bound how often the
environment may do something; the runs use the same value. `Prompt` restricts
steps instead: in a behaviour in which such a step never occurs, whatever else
happens, the property holds. Section 6 says what goes wrong without each.

| Hypothesis | What is left out |
|---|---|
| `Calm` | a broken connection to the cluster; the autoscaler |
| `Lasting` | an operator's or reconcile's replicas in the same scenario as lost actors |
| `InTurn` | an `interrupt()` while the group is not committed, a thread that outlives its `run()` |
| `EarlyStops = FALSE` (Sandbox) | an `interrupt()` before the thread has named its runner |
| `ProbeLingers = FALSE` | a readiness probe still open when it is accepted |
| `[][Prompt]_vars` | a call that begins when a deployment has failed, its monitor has not run yet, and the replica is WARM by now |
| `OneSize` | an operator's request for a model at another size (dtype) than `scale()` computes |

Some properties name in their own statement whom they do not speak of, and section
6 says why: actors lost or astray (`RecordsMatchActors`, `NoOvercommit`), blocks
astray (`Interleave`), a refill between two counts (`PoolBound`), passes cut off
and models an admin deployed by hand (`NoStacking`, `Converges`), locks that lapsed
and the callers they leave astray (`OneRefresh`, `NobodyWaitsInVain`).

Only model-checked:

* Everything with fairness (`EveryRequestAnswered`, `EveryRunEnds`,
  `RunnersDieWithActor`, `NoRankWaitsForever`, `Converges`, `WaitersAreWoken`):
  out of the prover's reach.

Reasoning about the model corrected it once: `Controller`'s `Placed` may promote a
WARM replica only on the node of its candidate, since each node has a cache of its
own (`node.py`); with one node in the run the difference does not show. The
size of a replica is positive (`Deployments` in `Node`), like the evaluator's answer
that it is.

## 6. What does not hold

The properties above hold under bounds that leave out some cases, each because
the code does not keep its promise there. A cfg with the constants named here
makes TLC find the counterexample; each was looked up in the code step by step.

| Refuted | With | What happens | Against |
|---|---|---|---|
| `OneWorkerPerReplica` | `MCDispatcher`: `PromptSpec`, `ScaleBudgets`, `MaxReplicas = 2` | the autoscaler promotes a WARM replica whose old worker is still registered (`replica.py:141`) | "leave two workers on one replica" is to be excluded, `processor.py:438-439` |
| `Attended` | `MCDispatcher`: `PromptSpec`, `StrandBudgets` | `start()` fails after its first replica was ready; the others stay registered without a worker and hide an unattended queue (`processor.py:260`) | "so nothing hangs", `processor.py:175-180` |
| `SetupHasStart` | `MCDispatcher`: `PromptSpec`, `ConnBudgets`, three requests | a worker of the purged pool un-registers the replica of the next `start()`, the status stays DEPLOYING (`replica.py:191`) | "the next request re-provisions them", `dispatcher.py:172-173` |
| `PreemptedNotErrored` | `ActorRun`: one call, `MaxKills = 0`, `MaxParks = 1` | a block fails on weights that `to_cache()` is moving; `run()` sees the failure before the switch and answers ERROR (`base.py:259`) | "rather than erroring a user who did nothing wrong", `base.py:381-384` |
| `NobodyAstray` | `MCController`: `ReloadBudgets`, `Deploys = {}` | Ray restarts a WARM replica, or one promoted onto other GPUs, with the arguments of its creation: it loads on its first GPUs (`deployment.py:186`, `base.py:753`) | "so the actor targets those GPUs", `deployment.py:185`; that it may, the comment at `controller.py:758-761` says |
| `NoGpuOverflows` | `MCController`: `ReloadBudgets` | the GPUs of a parked replica are booked for another model when Ray restarts it there: both hold their weights on them | "In an order that frees memory before spending it", `docs/concepts/deployments-and-eviction.md:160-161` |
| `RecordsMatchActors` | `MCController`: `LateBudgets`, `Deploys <- Dtypes` | a deploy of a WARM model at another dtype promotes the replica and books the new size; the actor keeps the weights it has (`node.py:206-227`) | "the memory accounting that places a replica must match what it actually loads", `controller.py:178-180` |
| `Ledger` | `MCController`: `LateBudgets`, `Deploys = {}`, two ids and two monitors | the monitor of a failed `from_cache()` runs after the replica was parked and promoted onto other GPUs, and gives back the ones it had (`controller.py:504-508`) | "return its node resources", `controller.py:497` |
| `DoneEndsItsOwnRun` | `MCInterleave`: `StopTraces = {1, 2}`, `CatchTraces = {}` | a stop ends the runner's trace at once, so the host's DONE of that trace is read as the end of the next one (`driver.py:604-618`, `nns.py:191-197`) | "the forward pass returned ``result``; ends the pump", `protocol.py:90` |
| `DoneEndsItsOwnRun`, `Lockstep` | `MCInterleave`: `StopTraces = {}`, `CatchTraces = {1}` | the same after an error that the host threw and the block caught around the trace (`nns.py:297-301`): the next trace reads what is left of the last | as above |
| `TurnsAlternate` | `MCInterleave`: `StopTraces = {}`, `CatchTraces = {1}` | the block catches an error of its own and starts the next trace (or ends) while the host waits for a PARK; the host takes the parks, or the milliseconds, for one (`driver.py:261-267`) and fails the request with an error of its own | "Resume this worker in the runner ... and return its next park", `driver.py:240-241` |
| `NothingDropped` | `MCInterleave`: `StopTraces = {}`, `CatchTraces = {1}` | a worker catches the error it was thrown and parks again; nobody looks at that park, and DONE cancels the worker without a word (`nns.py:229-264`, `300`) | "Dangling workers are surfaced by the host (THROW)", `nns.py:284-285` |
| `RefusedRestarts` | `TPGroup`, as in `tp` | a shard that dies while the group rests is noticed by the next `execute()`, which refuses; `cleanup()` then asks `stood_down`, which is still that of the request before, and leaves the replica up, refusing for ever (`tp/model.py:222, 356`) | "Whether the group is back at rest and can serve another request", `tp/model.py:334` |
| `RestBeforeNext`, `NobodyLeftBehind` | `TPGroup`: `EarlyStops` or `Lingers` TRUE | `run()` returns while its thread still prepares, and the next request starts on shards that are in the last one | "A request only ends when *every* rank has left it", `tp/model.py:315` |
| `RunnerGoesWithItsRequest` | `Sandbox`: `EarlyStops` TRUE | an interrupt before the thread has its runner stops nothing, and the thread takes one later (`sandbox/model.py:209-215`) | "discard the runner", `sandbox/model.py:179` |
| `LeaderIsRankZero` | `Sandbox`: `ProbeLingers` TRUE | a probe that has not closed when it is accepted takes a place of the group (`runner.py:166-174`) | the comment there |
| `NobodyIsOrphaned` | `Sandbox`: `DiesEarly` TRUE | an actor that dies while a new process still imports is not the parent that process finds (`runner.py:50`) | "Exit when the model actor that spawned this runner goes away", `runner.py:28` |
| `Converges` | `Schedule`: `WebHangs` TRUE | a background pass that hangs on a dead Ray client keeps the lock; only cron's passes have a timeout (`reconcile.py:164`) | "`timeout` ends a hung run so reconcile resumes", `start.sh:69-70` |

Not stated as properties, but seen in the models:

* `PoolBound` excepts a `refill()` between `spawning -= 1` and `ready.put()`
  (`sandbox/host.py:266-271`), which spawns one runner more than the pool's size.
* A trigger that is added before the worker's first `xread` is never read
  (`dispatcher.py:242`); its callers wait for their timeout. A status that was
  fetched before a reconnect is cached after `connect()` dropped the keys
  (`dispatcher.py:259`), where `dispatcher.py:107-108` says "nothing stale is
  served across the reconnect gap". An "ok" or "error" of an earlier window may
  wake a later caller.
* A pass that is killed after its deploy and before its save deploys the model
  again (`cutOff` in `NoStacking`), or leaves it up when its event ends
  (`Converges`). A model that is new in the calendar is deployed although an admin
  already has it HOT (`byHand`). A pass that is killed while it
  saves loses what was saved before as well, since the state file is rewritten in
  place (`reconcile.py:80-82`), where
  `docs/developing/dashboard-internals.md:21-24` has every store renamed
  atomically. The second case contradicts `reconcile.py:12-13` ("new-active −
  currently-HOT"), which the code does only for models that were active before.
  `mark_status` stamps an event by its id, also
  when it was given another model meanwhile.
* `tracer.stop()` before the forward, while the proxies are being built, fails the
  request instead of ending it quietly
  (`docs/developing/sandbox-internals.md:314`).

## 7. Not modelled

The evaluator's arithmetic, serialisation, the sandbox's isolation, torch
collectives, the dashboard's monitor and report jobs and its pages, the CLI's
commands: pure computation or I/O with no protocol of their own. A CALL with
`hook=True` (`driver.py:488-492`), where the trace watches the call as well, so that
other workers' reads of that module are served inside it. The API's
request, response and subscribe endpoints: one Redis or object-store call each.
Redis failures and a restart of the dispatcher: the code has no recovery to
model, every popped request is gone. A restart of the controller: it starts from
an empty cluster (the TODO at `controller.py:102`). Overlapping `run()` calls of
one actor.
