--------------------------- MODULE QueueService ---------------------------
(***************************************************************************)
(* The life of one RequestQueue: requests are put once when they arrive,   *)
(* taken by get(), re-put with prepend=True when the replica that took     *)
(* them is evicted, removed by an operator's kill and cleared by a purge.  *)
(***************************************************************************)
EXTENDS RequestQueue

CONSTANT
    MaxPuts     \* bound on the number of put() calls (the seq counter)

ASSUME MaxPutsAssumption == MaxPuts \in Nat \ {0}

VARIABLES
    heap,       \* the entries of the PriorityQueue
    enqueuedAt, \* request.enqueued_at, 0 while None
    seq,        \* itertools.count()
    inflight,   \* requests get() has returned and nobody has finished
    clock       \* time.time() at the last first put

vars == <<heap, enqueuedAt, seq, inflight, clock>>

Init ==
    /\ heap = {}
    /\ enqueuedAt = [r \in Requests |-> 0]
    /\ seq = 0
    /\ inflight = {}
    /\ clock = 1

\* put(): the request goes on the heap under the next sequence number.
Push(r, prepend, at) ==
    /\ seq < MaxPuts
    /\ seq' = seq + 1
    /\ heap' = heap \cup {Entry(r, prepend, at, seq)}

\* put() of a request that has no enqueued_at yet: time.time() stamps it.
\* Two puts may read the same time.
PutNew(r) ==
    /\ enqueuedAt[r] = 0
    /\ clock' \in {clock, clock + 1}
    /\ enqueuedAt' = [enqueuedAt EXCEPT ![r] = clock']
    /\ Push(r, FALSE, clock')
    /\ UNCHANGED inflight

\* Mutant: the handed-back request is stamped again.
PutBack_Restamp(r) ==
    /\ r \in inflight
    /\ inflight' = inflight \ {r}
    /\ Push(r, TRUE, clock)
    /\ UNCHANGED <<enqueuedAt, clock>>

\* put(prepend=True) of a request whose replica was evicted; it keeps its
\* original enqueued_at.
PutBack(r) ==
    /\ r \in inflight
    /\ inflight' = inflight \ {r}
    /\ Push(r, TRUE, enqueuedAt[r])
    /\ UNCHANGED <<enqueuedAt, clock>>

Get ==
    /\ \E e \in Foremost(heap) :
          /\ heap' = heap \ {e}
          /\ inflight' = inflight \cup {e.req}
    /\ UNCHANGED <<enqueuedAt, seq, clock>>

\* The request that was taken has been answered.
Finish(r) ==
    /\ r \in inflight
    /\ inflight' = inflight \ {r}
    /\ UNCHANGED <<heap, enqueuedAt, seq, clock>>

Kill(r) ==
    /\ r \in Queued(heap)
    /\ heap' = Remove(heap, r)
    /\ UNCHANGED <<enqueuedAt, seq, inflight, clock>>

Clear ==
    /\ heap # {}
    /\ heap' = {}
    /\ UNCHANGED <<enqueuedAt, seq, inflight, clock>>

Next ==
    \/ \E r \in Requests : PutNew(r) \/ PutBack(r) \/ Finish(r) \/ Kill(r)
    \/ Get
    \/ Clear

Spec == Init /\ [][Next]_vars

-----------------------------------------------------------------------------

\* The types of the queue's fields.
TypeOK ==
    /\ heap \subseteq Entries
    /\ enqueuedAt \in [Requests -> Nat]
    /\ seq \in 0..MaxPuts
    /\ inflight \subseteq Requests
    /\ clock \in Nat \ {0}

Fresh(e) == e.rank \in {1, 3}
SameGroup(e, f) == e.req \in Priority <=> f.req \in Priority

\* A handed-back request is at least as old as every request of its group
\* that has not been served yet: the explicit rank of prepend only restates
\* what keeping enqueued_at already gives (request_queue.py:28-30).
RequeuedIsOldest ==
    \A e, f \in heap :
        SameGroup(e, f) /\ ~Fresh(e) /\ Fresh(f) => e.at <= f.at

\* The places that position() tells the callers are those of the service
\* order that snapshot() lists: each is the index of its request, so no two
\* callers are told the same place (request_queue.py:84-86, 103-109).
PositionsAgree ==
    \A r \in Queued(heap) : Snapshot(heap)[Position(heap, r)] = r

\* The request whose wait the autoscaler reads has waited at least as long as
\* every queued request, also those of the other group and those handed back
\* (request_queue.py:88-101).
OldestIsOldest ==
    heap # {} => \A r \in Queued(heap) : enqueuedAt[Oldest(heap)] <= enqueuedAt[r]

\* Both: what users and the autoscaler are told is true of the queue.
ReportsAgree == PositionsAgree /\ OldestIsOldest

\* The keyed heap implements the two-group queue: whoever is served arrived
\* no later than everyone of the group still waiting, through any sequence of
\* hand-backs, kills and purges (request_queue.py:11-22).
Groups == INSTANCE GroupFifo WITH
    arrival <- enqueuedAt, waiting <- Queued(heap), serving <- inflight

ServesInGroupOrder == Groups!Spec
=============================================================================
