----------------------------- MODULE Controller -----------------------------
(***************************************************************************)
(* The controller: deploy, scale and evict change the ledgers of the nodes,*)
(* build() and apply() turn the difference into calls to the model actors, *)
(* monitors clean up after a deployment that fails, check_nodes follows    *)
(* the nodes (src/ndif/services/ray/deployments/controller/).              *)
(*                                                                         *)
(* The controller is one asyncio actor whose calls never yield between the *)
(* first change of a ledger and the end of apply(): apply() waits for      *)
(* to_cache() with a blocking get.  So a call is a sequence of steps       *)
(* (call.pc) during which nothing else of the controller runs, while the   *)
(* actors go on.                                                           *)
(***************************************************************************)
EXTENDS Node, Sequences, SequencesExt

CONSTANTS
    DefaultSize,    \* a model's size at the default dtype
    Deploys,        \* the sets of Configs operators deploy
    Mons,           \* names for the monitors under way
    Budgets,        \* scenarios: bounds on calls and on each kind of fault
    None

Faults == {"call", "join", "leave", "loadfail", "movefail", "restart", "death"}

ASSUME ControllerAssumption ==
    /\ DefaultSize \in [Models -> Nat \ {0}]
    /\ Deploys \subseteq SUBSET Configs
    /\ \A D \in Deploys : IsFiniteSet(D)
    /\ \A D \in Deploys : \A p, q \in D : p.model = q.model => p = q
    /\ Budgets \subseteq [Faults -> Nat]
    /\ None \notin Mons
    /\ None \notin [dep : Deployments, op : {"create", "from_cache"},
                    fut : {"pending", "ok", "failed"}]

VARIABLES
    state,      \* what was last applied for each replica
    call,       \* the call being served
    mon,        \* the _monitor_deployment tasks
    parking,    \* to_cache() futures that apply() waits for
    actor,      \* the model actors
    budget

vars == <<ledger, state, call, mon, parking, actor, budget>>

Idle == [pc |-> "idle", names |-> {}, todo |-> <<>>, cand |-> None,
         work |-> {}, launch |-> {}, change |-> FALSE]

\* An actor: alive, gone, or lost without anyone waiting for it; where its
\* weights are, where it was told to load them when it was created, their size,
\* and the calls it has yet to serve.  It is astray once Ray has loaded it where
\* it was created although it had left, until a call moves it again.
Nowhere == [gpus |-> {}, share |-> 0]
At(d) == [gpus |-> d.gpus, share |-> d.share]
NoActor == [life |-> "none", node |-> None, at |-> Nowhere, born |-> Nowhere,
            size |-> 0, inbox |-> <<>>, astray |-> FALSE]

Alive(r) == actor[r].life \in {"loading", "up"}

Spend(fault) ==
    /\ budget[fault] > 0
    /\ budget' = [budget EXCEPT ![fault] = @ - 1]

-----------------------------------------------------------------------------
(* Futures and the death of an actor *)

\* Whoever waits for something of these actors gets an error.
Broken(S, m) == [i \in Mons |->
    IF m[i] # None /\ m[i].dep.rid \in S /\ m[i].fut = "pending"
    THEN [m[i] EXCEPT !.fut = "failed"] ELSE m[i]]

\* Deployment.delete() of each.
Delete(S) ==
    /\ actor' = [r \in Rids |->
                    IF r \in S THEN [NoActor EXCEPT !.life = "gone"] ELSE actor[r]]
    /\ mon' = Broken(S, mon)
    /\ parking' = [r \in Rids |->
                    IF r \in S /\ parking[r] = "pending" THEN "failed"
                    ELSE parking[r]]

\* Mutant: the GPUs are given back although the replica has left them.
RemoveFromState_Twice(d) ==
    LET w == {x \in warm : d.node \in up /\ x.rid = d.rid}
    IN  /\ state' = [state EXCEPT ![d.rid] = "none"]
        /\ hot' = {x \in hot : x.rid # d.rid} /\ warm' = warm \ w
        /\ young' = young \ {d.rid}
        /\ avail' = Released(d.node, d.gpus, d.share)
        /\ cpu' = IF w = {} THEN cpu ELSE [cpu EXCEPT ![d.node] = @ + d.size]
        /\ UNCHANGED up

\* _remove_deployment_from_state(): d may be an earlier Deployment object of
\* the replica; it is d's resources that are given back.
RemoveFromState(d) ==
    LET listed == d.node \in up
        h == {x \in hot : listed /\ x.rid = d.rid}
        w == {x \in warm : listed /\ x.rid = d.rid}
    IN  /\ state' = [state EXCEPT ![d.rid] = "none"]
        /\ hot' = hot \ h /\ warm' = warm \ w
        /\ young' = IF h = {} THEN young ELSE young \ {d.rid}
        /\ avail' = IF h = {} THEN avail ELSE Released(d.node, d.gpus, d.share)
        /\ cpu' = IF w = {} THEN cpu ELSE [cpu EXCEPT ![d.node] = @ + d.size]
        /\ UNCHANGED up

-----------------------------------------------------------------------------
(* deploy and scale *)

\* Biggest first; ties are open.  A config has n turns in a row.
Turns(cfgs) ==
    {q \in SetToSeqs({c \in cfgs : c.n > 0}) :
        \A i, j \in DOMAIN q : i < j => q[i].size >= q[j].size}

TurnTaken(todo) ==
    IF Head(todo).n > 1 THEN [todo EXCEPT ![1].n = @ - 1] ELSE Tail(todo)

Deploy(cfgs) ==
    /\ call.pc = "idle" /\ Spend("call")
    /\ \E turns \in Turns(cfgs) :
          call' = [Idle EXCEPT !.pc = "place", !.todo = turns,
                               !.names = {c.model : c \in cfgs}]
    /\ UNCHANGED <<ledger, state, mon, parking, actor>>

\* scale(): one more, like one that is there.
Scale(m) ==
    LET live == {d \in hot : d.model = m}
        Like(size, k) == [model |-> m, size |-> size, gpus |-> k,
                          pinned |-> FALSE, n |-> 1]
    IN  /\ call.pc = "idle" /\ Spend("call")
        /\ \E cfg \in IF live = {} THEN {Like(DefaultSize[m], 0)}
                      ELSE {Like(d.size, Cardinality(d.gpus)) : d \in live} :
              call' = [Idle EXCEPT !.pc = "place", !.todo = <<cfg>>,
                                   !.names = {m}]
        /\ UNCHANGED <<ledger, state, mon, parking, actor>>

\* The best candidates over all nodes.
Best(cfg) ==
    LET all == UNION {Candidates(n, cfg, call.names) : n \in up}
    IN  {c \in all : \A b \in all : c.level <= b.level}

\* One turn of Cluster.deploy(): a candidate is picked at random.
Choose ==
    /\ call.pc = "place" /\ call.todo # <<>>
    /\ \E c \in Best(Head(call.todo)) :
          call' = [call EXCEPT !.pc = "room", !.cand = c,
                               !.work = {d.rid : d \in c.victims}]
    /\ UNCHANGED <<ledger, state, mon, parking, actor, budget>>

\* No node takes it: that ends the model's turns.
CantAccommodate ==
    /\ call.pc = "place" /\ call.todo # <<>>
    /\ Best(Head(call.todo)) = {}
    /\ call' = [call EXCEPT !.todo = Tail(@)]
    /\ UNCHANGED <<ledger, state, mon, parking, actor, budget>>

\* The candidate's victims go first.
MakeRoom(d) ==
    /\ call.pc = "room" /\ d.rid \in call.work
    /\ Evict(d, call.names)
    /\ call' = [call EXCEPT !.work = @ \ {d.rid}]
    /\ UNCHANGED <<state, mon, parking, actor, budget>>

\* A replica id nothing refers to.
Fresh(r) ==
    /\ state[r] = "none" /\ ~Alive(r) /\ parking[r] = "none"
    /\ \A d \in hot \cup warm : d.rid # r
    /\ \A i \in Mons : mon[i] # None => mon[i].dep.rid # r

Placed(r) ==
    /\ call.pc = "room" /\ call.work = {}
    /\ \/ Fresh(r) /\ r = CHOOSE q \in Rids : Fresh(q)
       \/ \E w \in warm : /\ w.rid = r /\ w.model = call.cand.cfg.model
                        /\ w.node = call.cand.node
    /\ Place(call.cand, r)
    /\ call' = [call EXCEPT !.pc = "place", !.todo = TurnTaken(@),
                            !.cand = None, !.change = TRUE]
    /\ UNCHANGED <<state, mon, parking, actor, budget>>

\* apply() only if something changed.
PlacedAll ==
    /\ call.pc = "place" /\ call.todo = <<>>
    /\ call' = IF call.change THEN [call EXCEPT !.pc = "apply"] ELSE Idle
    /\ UNCHANGED <<ledger, state, mon, parking, actor, budget>>

-----------------------------------------------------------------------------
(* evict *)

\* One replica, once: a HOT one may stay as WARM.
EvictOne(d) ==
    /\ call.pc = "idle" /\ Spend("call")
    /\ Evict(d, {})
    /\ call' = [Idle EXCEPT !.pc = "apply"]
    /\ UNCHANGED <<state, mon, parking, actor>>

\* Every replica of a model, each until it is in neither dict.
EvictAll(m) ==
    /\ call.pc = "idle" /\ Spend("call")
    /\ \E d \in hot \cup warm : d.model = m
    /\ call' = [Idle EXCEPT !.pc = "drain",
                            !.work = {d.rid : d \in {x \in hot \cup warm :
                                                        x.model = m}}]
    /\ UNCHANGED <<ledger, state, mon, parking, actor>>

Drain(d) ==
    /\ call.pc = "drain" /\ d.rid \in call.work
    /\ Purge(d)
    /\ UNCHANGED <<state, call, mon, parking, actor, budget>>

Drained ==
    /\ call.pc = "drain"
    /\ \A d \in hot \cup warm : d.rid \notin call.work
    /\ call' = [call EXCEPT !.pc = "apply", !.work = {}]
    /\ UNCHANGED <<ledger, state, mon, parking, actor, budget>>

-----------------------------------------------------------------------------
(* build() and apply() *)

RidsOf(S) == {d.rid : d \in S}

\* cache(): no future if the actor's name does not resolve.
CacheFuture(r) == IF Alive(r) THEN "pending" ELSE "failed"

\* build(), the deletions, and a to_cache() for each replica that is WARM now
\* and was HOT.
Build ==
    LET park == {d \in warm : state[d.rid] = "HOT"}
        restore == {d \in hot : state[d.rid] = "WARM"}
        create == {d \in hot : state[d.rid] = "none"}
        delete == {r \in Rids : state[r] # "none"} \ RidsOf(hot \cup warm)
    IN  /\ call.pc = "apply"
        /\ state' = [r \in Rids |-> IF r \in RidsOf(warm) THEN "WARM"
                                    ELSE IF r \in RidsOf(hot) THEN "HOT"
                                    ELSE "none"]
        /\ mon' = Broken(delete, mon)
        /\ actor' = [r \in Rids |->
              IF r \in delete THEN [NoActor EXCEPT !.life = "gone"]
              ELSE IF r \in RidsOf(park) /\ Alive(r)
              THEN [actor[r] EXCEPT !.inbox =
                        Append(@, [op |-> "to_cache", at |-> Nowhere, mon |-> None])]
              ELSE actor[r]]
        /\ parking' = [r \in Rids |->
              IF r \in RidsOf(park) THEN CacheFuture(r) ELSE "none"]
        /\ call' = [call EXCEPT !.pc = "cache", !.work = RidsOf(park),
              !.launch = {[dep |-> d, op |-> "from_cache"] : d \in restore}
                         \cup {[dep |-> d, op |-> "create"] : d \in create}]
        /\ UNCHANGED <<ledger, budget>>

\* The blocking get of one to_cache() returns, or raises.
Cached(r) ==
    /\ call.pc = "cache" /\ r \in call.work /\ parking[r] = "ok"
    /\ call' = [call EXCEPT !.work = @ \ {r}]
    /\ parking' = [parking EXCEPT ![r] = "none"]
    /\ UNCHANGED <<ledger, state, mon, actor, budget>>

\* Mutant: the error is only logged.
CacheFails_Logged(d) ==
    /\ call.pc = "cache" /\ d \in warm /\ d.rid \in call.work
    /\ parking[d.rid] = "failed"
    /\ call' = [call EXCEPT !.work = @ \ {d.rid}]
    /\ parking' = [parking EXCEPT ![d.rid] = "none"]
    /\ UNCHANGED <<ledger, state, mon, actor, budget>>

CacheFails(d) ==
    /\ call.pc = "cache" /\ d \in warm /\ d.rid \in call.work
    /\ parking[d.rid] = "failed"
    /\ call' = [call EXCEPT !.work = @ \ {d.rid}]
    /\ RemoveFromState(d)
    /\ actor' = [actor EXCEPT ![d.rid] = [NoActor EXCEPT !.life = "gone"]]
    /\ mon' = Broken({d.rid}, mon)
    /\ parking' = [parking EXCEPT ![d.rid] = "none"]
    /\ UNCHANGED budget

\* Mutant: restoring and creating begin while weights are still moving.
CachedAll_Early ==
    /\ call.pc = "cache"
    /\ call' = [call EXCEPT !.pc = "launch"]
    /\ UNCHANGED <<ledger, state, mon, parking, actor, budget>>

CachedAll ==
    /\ call.pc = "cache" /\ call.work = {}
    /\ call' = [call EXCEPT !.pc = "launch"]
    /\ UNCHANGED <<ledger, state, mon, parking, actor, budget>>

\* A task that waits for a future of d's actor.
Monitor(i, d, op) ==
    /\ mon[i] = None /\ i = CHOOSE j \in Mons : mon[j] = None
    /\ mon' = [mon EXCEPT ![i] = [dep |-> d, op |-> op, fut |-> "pending"]]

\* from_cache() goes out to an actor that is there.
Restore(l) ==
    /\ call.pc = "launch" /\ l \in call.launch /\ l.op = "from_cache"
    /\ Alive(l.dep.rid)
    /\ \E i \in Mons :
          /\ Monitor(i, l.dep, l.op)
          /\ actor' = [actor EXCEPT ![l.dep.rid].inbox =
                Append(@, [op |-> l.op, at |-> At(l.dep), mon |-> i])]
    /\ call' = [call EXCEPT !.launch = @ \ {l}]
    /\ UNCHANGED <<ledger, state, parking, budget>>

RestoreFails(l) ==
    /\ call.pc = "launch" /\ l \in call.launch /\ l.op = "from_cache"
    /\ ~Alive(l.dep.rid)
    /\ Delete({l.dep.rid})
    /\ RemoveFromState(l.dep)
    /\ call' = [call EXCEPT !.launch = @ \ {l}]
    /\ UNCHANGED budget

\* Creations come last.  The actor is told its GPUs once and for all.
Create(l) ==
    /\ call.pc = "launch" /\ l \in call.launch
    /\ \A x \in call.launch : x.op = "create"
    /\ \E i \in Mons : Monitor(i, l.dep, l.op)
    /\ actor' = [actor EXCEPT ![l.dep.rid] =
          [life |-> "loading", node |-> l.dep.node, at |-> At(l.dep),
           born |-> At(l.dep), size |-> l.dep.size, inbox |-> <<>>,
           astray |-> FALSE]]
    /\ call' = [call EXCEPT !.launch = @ \ {l}]
    /\ UNCHANGED <<ledger, state, parking, budget>>

\* create() only logs what it raises: there is no actor to wait for.
CreateFails(l) ==
    /\ call.pc = "launch" /\ l \in call.launch /\ Spend("loadfail")
    /\ \A x \in call.launch : x.op = "create"
    /\ Delete({l.dep.rid})
    /\ RemoveFromState(l.dep)
    /\ call' = [call EXCEPT !.launch = @ \ {l}]

Applied ==
    /\ call.pc = "launch" /\ call.launch = {}
    /\ call' = Idle
    /\ UNCHANGED <<ledger, state, mon, parking, actor, budget>>

-----------------------------------------------------------------------------
(* _monitor_deployment and check_nodes *)

Deployed(i) ==
    /\ call.pc = "idle" /\ mon[i] # None /\ mon[i].fut = "ok"
    /\ mon' = [mon EXCEPT ![i] = None]
    /\ UNCHANGED <<ledger, state, call, parking, actor, budget>>

DeployFails(i) ==
    /\ call.pc = "idle" /\ mon[i] # None /\ mon[i].fut = "failed"
    /\ RemoveFromState(mon[i].dep)
    /\ actor' = [actor EXCEPT ![mon[i].dep.rid] = [NoActor EXCEPT !.life = "gone"]]
    /\ mon' = [Broken({mon[i].dep.rid}, mon) EXCEPT ![i] = None]
    /\ UNCHANGED <<call, parking, budget>>

\* update_nodes(): a new node, with nothing booked.
NodeJoins(n) ==
    /\ call.pc = "idle" /\ Spend("join")
    /\ n \notin up
    /\ \A i \in Mons : mon[i] # None => mon[i].dep.node # n
    /\ up' = up \cup {n}
    /\ avail' = [avail EXCEPT ![n] = [g \in Gpus |-> GpuMem]]
    /\ cpu' = [cpu EXCEPT ![n] = CpuMem]
    /\ UNCHANGED <<hot, warm, young, state, call, mon, parking, actor>>

\* update_nodes(): a node that is gone is dropped with all it had.
NodeLeaves(n) ==
    LET lost == {d \in hot \cup warm : d.node = n}
    IN  /\ call.pc = "idle" /\ Spend("leave")
        /\ n \in up /\ up' = up \ {n}
        /\ hot' = hot \ lost /\ warm' = warm \ lost
        /\ young' = young \ RidsOf(lost)
        /\ Delete(RidsOf(lost))
        /\ UNCHANGED <<avail, cpu, state, call>>

\* Time passes; only a placement looks at the clock.
Ages(r) ==
    /\ r \in young /\ call.pc = "place"
    /\ young' = young \ {r}
    /\ UNCHANGED <<up, avail, cpu, hot, warm, state, call, mon, parking, actor,
                   budget>>

-----------------------------------------------------------------------------
(* The actors *)

\* __init__ ends: __ray_ready__ is answered.
Loads(r) ==
    /\ actor[r].life = "loading"
    /\ actor' = [actor EXCEPT ![r].life = "up"]
    /\ mon' = [i \in Mons |->
          IF mon[i] # None /\ mon[i].dep.rid = r /\ mon[i].op = "create"
             /\ mon[i].fut = "pending"
          THEN [mon[i] EXCEPT !.fut = "ok"] ELSE mon[i]]
    /\ UNCHANGED <<ledger, state, call, parking, budget>>

\* The actor is dead and all calls to it fail.
Dead(r) ==
    LET watched == \/ parking[r] = "pending"
                   \/ \E i \in Mons : /\ mon[i] # None /\ mon[i].dep.rid = r
                                      /\ mon[i].fut = "pending"
    IN  /\ actor' = [actor EXCEPT ![r] =
              [NoActor EXCEPT !.life = IF watched THEN "gone" ELSE "lost"]]
        /\ mon' = Broken({r}, mon)
        /\ parking' = [parking EXCEPT ![r] = IF @ = "pending" THEN "failed" ELSE @]
        /\ UNCHANGED <<ledger, state, call>>

\* __init__ raises, at the creation or after a restart.
LoadFails(r) == actor[r].life = "loading" /\ Spend("loadfail") /\ Dead(r)

Dies(r) == actor[r].life = "up" /\ Spend("death") /\ Dead(r)

\* The result of the oldest call, and where it leaves the weights.
Answer(r, fut, at) ==
    LET c == Head(actor[r].inbox)
    IN  /\ actor' = [actor EXCEPT ![r].inbox = Tail(@), ![r].at = at,
                                  ![r].astray = @ /\ fut = "failed"]
        /\ mon' = IF c.mon = None THEN mon ELSE [mon EXCEPT ![c.mon].fut = fut]
        /\ parking' = IF c.mon = None THEN [parking EXCEPT ![r] = fut] ELSE parking

\* to_cache() and from_cache(), in the order they were sent.
Moves(r) ==
    /\ actor[r].life = "up" /\ actor[r].inbox # <<>>
    /\ Answer(r, "ok", Head(actor[r].inbox).at)
    /\ UNCHANGED <<ledger, state, call, budget>>

\* It raises: to_cache() with the weights still on the GPUs, from_cache() with
\* as much as fits on the new ones.
MoveFails(r) ==
    /\ actor[r].life = "up" /\ actor[r].inbox # <<>> /\ Spend("movefail")
    /\ Answer(r, "failed", IF Head(actor[r].inbox).op = "to_cache"
                           THEN actor[r].at ELSE Head(actor[r].inbox).at)
    /\ UNCHANGED <<ledger, state, call>>

\* restart() after a request broke the CUDA context, or the process was killed,
\* HOT or WARM: Ray constructs the actor again from the arguments of its
\* creation, and the controller is not told.
Restarts(r) ==
    /\ actor[r].life = "up" /\ Spend("restart")
    /\ actor' = [actor EXCEPT ![r].life = "loading", ![r].at = actor[r].born,
                              ![r].inbox = <<>>,
                              ![r].astray = @ \/ actor[r].at # actor[r].born]
    /\ mon' = Broken({r}, mon)
    /\ parking' = [parking EXCEPT ![r] = IF @ = "pending" THEN "failed" ELSE @]
    /\ UNCHANGED <<ledger, state, call>>

-----------------------------------------------------------------------------

Init ==
    /\ up \in SUBSET Nodes /\ up # {}
    /\ avail = [n \in Nodes |-> [g \in Gpus |-> GpuMem]]
    /\ cpu = [n \in Nodes |-> CpuMem]
    /\ hot = {} /\ warm = {} /\ young = {}
    /\ state = [r \in Rids |-> "none"]
    /\ call = Idle
    /\ mon = [i \in Mons |-> None]
    /\ parking = [r \in Rids |-> "none"]
    /\ actor = [r \in Rids |-> NoActor]
    /\ budget \in Budgets

ServeCall ==
    \/ Choose \/ CantAccommodate \/ PlacedAll \/ Drained
    \/ \E d \in hot \cup warm : MakeRoom(d) \/ Drain(d) \/ CacheFails(d)
    \/ \E r \in Rids : Placed(r) \/ Cached(r)
    \/ Build \/ CachedAll \/ Applied
    \/ \E l \in call.launch : \/ Restore(l) \/ RestoreFails(l)
                              \/ Create(l) \/ CreateFails(l)

ActorStep(r) == Loads(r) \/ Moves(r)

Next ==
    \/ \E cfgs \in Deploys : Deploy(cfgs)
    \/ \E m \in Models : Scale(m) \/ EvictAll(m)
    \/ \E d \in hot \cup warm : EvictOne(d)
    \/ ServeCall
    \/ \E i \in Mons : Deployed(i) \/ DeployFails(i)
    \/ \E n \in Nodes : NodeJoins(n) \/ NodeLeaves(n)
    \/ \E r \in Rids : \/ Ages(r) \/ ActorStep(r) \/ LoadFails(r)
                       \/ MoveFails(r) \/ Restarts(r) \/ Dies(r)

Spec == Init /\ [][Next]_vars

-----------------------------------------------------------------------------
(* Properties *)

\* The types of the state; nothing available is negative or more than there is.
TypeOK ==
    /\ up \subseteq Nodes
    /\ avail \in [Nodes -> [Gpus -> 0..GpuMem]] /\ cpu \in [Nodes -> 0..CpuMem]
    /\ hot \subseteq Deployments /\ warm \subseteq Deployments
    /\ young \subseteq Rids
    /\ state \in [Rids -> {"none", "HOT", "WARM"}]
    /\ parking \in [Rids -> {"none", "pending", "ok", "failed"}]
    /\ call.pc \in {"idle", "place", "room", "drain", "apply", "cache", "launch"}
    /\ call.names \subseteq Models /\ call.work \subseteq Rids
    /\ \A i \in Mons : mon[i] # None =>
          /\ mon[i].dep \in Deployments
          /\ mon[i].op \in {"create", "from_cache"}
          /\ mon[i].fut \in {"pending", "ok", "failed"}
    /\ budget \in [Faults -> Nat]

\* The ledgers are exact and nothing is booked twice, through evictions,
\* demotions that push other WARM replicas out, promotions and failures: what
\* is available is what the listed replicas leave (node.py:90-112, 280-323,
\* controller.py:496-515).
Ledger ==
    \A n \in up :
        /\ cpu[n] = CpuMem - MapThenSumSet(Bytes, {w \in warm : w.node = n})
        /\ \A g \in Gpus :
              avail[n][g] = GpuMem - MapThenSumSet(Share,
                    {d \in hot : d.node = n /\ g \in d.gpus})

\* "In an order that frees memory before spending it"
\* (docs/concepts/deployments-and-eviction.md:160-161): the weights the actors
\* really hold on a GPU never exceed it, at any point of apply().  The weights
\* of actors astray, which nothing accounts for (controller.py:758-761), come
\* on top until a call moves the actor.
NoOvercommit ==
    \A n \in Nodes, g \in Gpus :
        LET Held(r) == actor[r].at.share
        IN  MapThenSumSet(Held, {r \in Rids : /\ actor[r].node = n
                                              /\ ~actor[r].astray
                                              /\ g \in actor[r].at.gpus}) <= GpuMem

\* Between calls, once its monitor is through, a HOT replica has an actor with
\* its weights, at their size, on the GPUs that are booked for it, and a WARM
\* one an actor with none on any.  Except for one that died when nobody waited
\* for it, which is not noticed (the TODO at controller.py:134-158), and for one
\* that Ray loaded where it no longer belongs, until a call moves it
\* (controller.py:758-761).
RecordsMatchActors ==
    call.pc = "idle" =>
        \A d \in hot \cup warm :
            \/ \E i \in Mons : mon[i] # None /\ mon[i].dep.rid = d.rid
            \/ actor[d.rid].life = "lost"
            \/ /\ Alive(d.rid)
               /\ actor[d.rid].at = At(d) \/ actor[d.rid].astray
               /\ actor[d.rid].size = d.size

\* Between calls no actor is alive that no node lists: nothing would ever free
\* the memory of one.
NoLeakedActor ==
    call.pc = "idle" => \A r \in Rids : Alive(r) => r \in RidsOf(hot \cup warm)

\* "It will always exist in state if it's now cached" (controller.py:358), or
\* build() raises and no call can be applied any more.
CachedIsInState ==
    call.pc = "apply" => \A w \in warm : state[w.rid] # "none"

\* A placement spares pinned replicas, those of the models it deploys, HOT and
\* WARM, and unless it is pinned itself the young ones (node.py:246, 325-336,
\* 358; docs/concepts/deployments-and-eviction.md:124-129).
PlacementSpares ==
    [][call.pc \in {"place", "room"} =>
          /\ \A d \in hot \ hot' :
                /\ ~d.pinned /\ d.model \notin call.names
                /\ d.rid \notin young \/ call.cand.cfg.pinned
          /\ \A w \in warm \ warm' :
                w.model \notin call.names \/ w.rid \in RidsOf(hot')]_vars

\* apply() waits for to_cache() with a blocking get: as long as it does, the
\* actor still has the call to serve, or the answer is there.  Otherwise the
\* controller would never serve another call (controller.py:416).
NoLostAnswer ==
    call.pc = "cache" =>
        \A r \in call.work :
            \/ parking[r] \in {"ok", "failed"}
            \/ /\ parking[r] = "pending" /\ Alive(r)
               /\ \E i \in DOMAIN actor[r].inbox :
                     actor[r].inbox[i].op = "to_cache"

\* All of them: what the controller has on record is what runs, and what it
\* waits for comes.
RecordsAndActorsAgree ==
    RecordsMatchActors /\ NoLeakedActor /\ CachedIsInState /\ NoLostAnswer

\* Not so (see the README): what actors astray hold fits as well, and nobody that
\* is listed is astray.
NoGpuOverflows ==
    \A n \in Nodes, g \in Gpus :
        LET Held(r) == actor[r].at.share
        IN  MapThenSumSet(Held, {r \in Rids : /\ actor[r].node = n
                                              /\ g \in actor[r].at.gpus}) <= GpuMem
NobodyAstray ==
    call.pc = "idle" => \A d \in hot \cup warm : ~actor[d.rid].astray
=============================================================================
