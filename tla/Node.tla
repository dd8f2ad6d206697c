-------------------------------- MODULE Node --------------------------------
(***************************************************************************)
(* The nodes of the cluster and their ledgers: which replicas are HOT on   *)
(* which GPUs and which are WARM in CPU memory, what is left of both, and  *)
(* how a node judges and makes room for one more replica                   *)
(* (src/ndif/services/ray/deployments/controller/cluster/node.py).         *)
(***************************************************************************)
EXTENDS Integers, FiniteSets, FiniteSetsExt

CONSTANTS
    Nodes,      \* node ids, each free again once nothing refers to it
    Gpus,       \* the GPU indices of every node, in the order of its list
    GpuMem,     \* memory of a GPU
    CpuMem,     \* a node's budget for WARM replicas
    Models,
    MaxTp,      \* how many ways a model shards; 0 where it does not
    Rids        \* replica ids

ASSUME NodeAssumption ==
    /\ Gpus \subseteq Nat /\ IsFiniteSet(Gpus) /\ IsFiniteSet(Rids)
    /\ GpuMem \in Nat \ {0} /\ CpuMem \in Nat
    /\ MaxTp \in [Models -> Nat]

VARIABLES
    up,         \* cluster.nodes
    avail,      \* available_memory_bytes of each GPU
    cpu,        \* available_memory_bytes of each node's CPU budget
    hot, warm,  \* the Deployments of all nodes: deployments and cache
    young       \* HOT replicas below minimum_deployment_time_seconds

ledger == <<up, avail, cpu, hot, warm, young>>

\* tp: served by the tensor-parallel actor, which cannot be parked.
Deployments ==
    [rid : Rids, model : Models, node : Nodes, gpus : SUBSET Gpus,
     share : Nat, size : Nat \ {0}, pinned : BOOLEAN, tp : BOOLEAN]

\* What is asked for; gpus = 0 leaves their number to the evaluator.
Configs == [model : Models, size : Nat \ {0}, gpus : Nat, pinned : BOOLEAN,
            n : Nat]

-----------------------------------------------------------------------------
(* How many GPUs *)

CeilDiv(a, b) == (a + b - 1) \div b

\* tp_degree(): the least divisor of limit that is at least k; 0 for None.
TpDegree(limit, k) ==
    LET degrees == {d \in k..limit : limit % d = 0}
    IN  IF limit = 0 \/ k < 2 \/ degrees = {} THEN 0 ELSE Min(degrees)

\* A number asked for must be one the model splits into.
Splits(cfg) ==
    cfg.gpus > 1 /\ MaxTp[cfg.model] # 0
        => TpDegree(MaxTp[cfg.model], cfg.gpus) = cfg.gpus

GpusNeeded(cfg) ==
    IF cfg.gpus # 0 THEN cfg.gpus
    ELSE LET k == CeilDiv(cfg.size, GpuMem)
             d == TpDegree(MaxTp[cfg.model], k)
         IN  IF d > k THEN d ELSE k

\* actor_class(): sharded over exactly these cards, or the default class.
Sharded(m, k) == k >= 2 /\ TpDegree(MaxTp[m], k) = k

-----------------------------------------------------------------------------
(* Choosing *)

\* Smallest first until the need is met; ties are open.  No choice at all if
\* it cannot be met.
Greedy(S, need, weight) ==
    LET Total(T) == MapThenSumSet(LAMBDA x : weight[x], T)
    IN  IF need <= 0 THEN {{}}
        ELSE {T \in SUBSET S :
                /\ Total(T) >= need
                /\ \A x \in T, y \in S \ T : weight[x] <= weight[y]
                /\ \E x \in T :
                      /\ \A y \in T : weight[y] <= weight[x]
                      /\ Total(T \ {x}) < need}

\* The first k GPUs by key; a stable sort leaves ties in the order of the list.
FirstGpus(k, S, key) ==
    CHOOSE H \in kSubset(k, S) : \A g \in H, h \in S \ H :
        key[g] < key[h] \/ (key[g] = key[h] /\ g < h)

Share(d) == d.share
Bytes(d) == d.size

\* Mutant: the minimum deployment time is not looked at.
Evictable_AnyAge(d, pinned) == ~d.pinned

Evictable(d, pinned) == ~d.pinned /\ (pinned \/ d.rid \notin young)

\* find_evictions(): for each GPU who would have to go, then the GPUs for
\* which the fewest must.
FindEvictions(n, k, share, pinned, names) ==
    LET occupants == {d \in hot : /\ d.node = n /\ d.model \notin names
                                  /\ Evictable(d, pinned)}
        Plans(g) == Greedy({d \in occupants : g \in d.gpus},
                           share - avail[n][g], [d \in occupants |-> d.share])
        feasible == {g \in Gpus : Plans(g) # {}}
        length == [g \in feasible |-> Cardinality(CHOOSE p \in Plans(g) : TRUE)]
        G == FirstGpus(k, feasible, length)
    IN  IF Cardinality(feasible) < k THEN {}
        ELSE {[gpus |-> G, victims |-> UNION {p[g] : g \in G}] : p \in
                {q \in [G -> SUBSET occupants] : \A g \in G : q[g] \in Plans(g)}}

\* evaluate(): the candidates of one node, of one level; none if it cannot
\* accommodate.  Levels as in CandidateLevel.
Candidates(n, cfg, names) ==
    LET k == GpusNeeded(cfg)
        share == CeilDiv(cfg.size, k)
        fitting == {g \in Gpus : avail[n][g] >= share}
        cached == \E w \in warm : w.node = n /\ w.model = cfg.model
        C(level, G, V) == [node |-> n, level |-> level, gpus |-> G,
                           share |-> share, victims |-> V, cfg |-> cfg]
    IN  IF ~Splits(cfg) \/ k > Cardinality(Gpus) THEN {}
        ELSE IF Cardinality(fitting) >= k
        THEN {C(IF cached THEN 1 ELSE 2, FirstGpus(k, fitting, avail[n]), {})}
        ELSE {C(IF cached THEN 3 ELSE 4, e.gpus, e.victims) : e \in
                FindEvictions(n, k, share, cfg.pinned, names)}

-----------------------------------------------------------------------------
(* Booking *)

Booked(n, gpus, bytes) ==
    [avail EXCEPT ![n] = [g \in Gpus |-> IF g \in gpus THEN @[g] - bytes
                                                       ELSE @[g]]]
Released(n, gpus, bytes) == Booked(n, gpus, 0 - bytes)

\* find_cache_evictions(): which WARM replicas give way to this one.
CacheRoom(d, names) ==
    IF d.tp THEN {}
    ELSE Greedy({w \in warm : w.node = d.node /\ w.model \notin names},
                d.size - cpu[d.node], [w \in warm |-> w.size])

\* The WARM copy of a HOT replica.
Parked(d) == [d EXCEPT !.gpus = {}, !.share = 0, !.pinned = FALSE]

\* Mutant: the weights that made room stay on the account.
EvictHot_KeepsBytes(d, names) ==
    /\ hot' = hot \ {d} /\ young' = young \ {d.rid}
    /\ avail' = Released(d.node, d.gpus, d.share)
    /\ \E T \in CacheRoom(d, names) :
          /\ warm' = (warm \ T) \cup {Parked(d)}
          /\ cpu' = [cpu EXCEPT ![d.node] = @ - d.size]

\* evict() of a HOT replica: to WARM where the CPU has or can make room.
EvictHot(d, names) ==
    /\ hot' = hot \ {d} /\ young' = young \ {d.rid}
    /\ avail' = Released(d.node, d.gpus, d.share)
    /\ \/ /\ CacheRoom(d, names) = {}
          /\ UNCHANGED <<warm, cpu>>
       \/ \E T \in CacheRoom(d, names) :
          /\ warm' = (warm \ T) \cup {Parked(d)}
          /\ cpu' = [cpu EXCEPT ![d.node] =
                        @ + MapThenSumSet(Bytes, T) - d.size]

\* evict() of a WARM replica.
EvictWarm(d) ==
    /\ warm' = warm \ {d}
    /\ cpu' = [cpu EXCEPT ![d.node] = @ + d.size]
    /\ UNCHANGED <<avail, hot, young>>

Evict(d, names) ==
    /\ \/ d \in warm /\ EvictWarm(d)
       \/ d \in hot /\ EvictHot(d, names)
    /\ UNCHANGED up

\* evict() until the replica is in neither dict: a HOT one is parked, at the
\* price of the WARM ones that give way, and then thrown out as well.
Purge(d) ==
    /\ \/ d \in warm /\ EvictWarm(d)
       \/ /\ d \in hot /\ hot' = hot \ {d} /\ young' = young \ {d.rid}
          /\ avail' = Released(d.node, d.gpus, d.share)
          /\ \/ CacheRoom(d, {}) = {} /\ UNCHANGED <<warm, cpu>>
             \/ \E T \in CacheRoom(d, {}) :
                /\ warm' = warm \ T
                /\ cpu' = [cpu EXCEPT ![d.node] = @ + MapThenSumSet(Bytes, T)]
    /\ UNCHANGED up

\* deploy() once the victims are gone: book the GPUs and promote a WARM copy
\* of the model, which keeps its id, or begin a new replica.
Place(c, r) ==
    LET d == [rid |-> r, model |-> c.cfg.model, node |-> c.node,
              gpus |-> c.gpus, share |-> c.share, size |-> c.cfg.size,
              pinned |-> c.cfg.pinned,
              tp |-> Sharded(c.cfg.model, Cardinality(c.gpus))]
        copies == {w \in warm : w.node = c.node /\ w.model = c.cfg.model}
    IN  /\ avail' = Booked(c.node, c.gpus, c.share)
        /\ hot' = hot \cup {d} /\ young' = young \cup {r}
        /\ \/ \E w \in copies :
                /\ w.rid = r
                /\ warm' = warm \ {w}
                /\ cpu' = [cpu EXCEPT ![c.node] = @ + w.size]
           \/ copies = {} /\ UNCHANGED <<warm, cpu>>
        /\ UNCHANGED up
=============================================================================
