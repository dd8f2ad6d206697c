--------------------------- MODULE RequestQueue ---------------------------
(***************************************************************************)
(* The per-model request queue of the dispatcher                           *)
(* (src/ndif/services/api/queue/request_queue.py): an asyncio              *)
(* PriorityQueue whose key is (rank, enqueued_at, seq).                    *)
(*                                                                         *)
(* The heap is represented by the set of its entries.  A heap hands out    *)
(* its least element whatever the layout of its list, so the layout is     *)
(* not state; every operation of the class is an operator on that set.     *)
(***************************************************************************)
EXTENDS Integers, FiniteSets

CONSTANTS
    Requests,   \* the identities of the requests
    Priority    \* the requests whose `priority` flag is set

ASSUME PriorityAssumption == Priority \subseteq Requests

\* Mutant: a plain "+1" collides a re-queued normal request with a fresh
\* priority one.
Rank_PlainSum(r, prepend) ==
    (IF r \in Priority THEN 0 ELSE 1) + (IF prepend THEN 0 ELSE 1)

\* Mutant: a rank outside the four tiers.
Rank_Tripled(r, prepend) ==
    (IF r \in Priority THEN 0 ELSE 1) * 3 + (IF prepend THEN 0 ELSE 1)

\* rank: the group doubled, plus one unless the request goes in front of it.
Rank(r, prepend) ==
    (IF r \in Priority THEN 0 ELSE 1) * 2 + (IF prepend THEN 0 ELSE 1)

\* The element put() pushes: the key and the request.
Entry(r, prepend, at, seq) ==
    [req |-> r, rank |-> Rank(r, prepend), at |-> at, seq |-> seq]

Entries == [req : Requests, rank : 0..3, at : Nat, seq : Nat]

\* Python's comparison of the key tuples.
Before(e, f) ==
    \/ e.rank < f.rank
    \/ e.rank = f.rank /\ e.at < f.at
    \/ e.rank = f.rank /\ e.at = f.at /\ e.seq < f.seq

\* What get() may return: the least entry (none only when the queue is empty).
Foremost(q) == {e \in q : \A f \in q \ {e} : Before(e, f)}

\* snapshot(): the requests in the order they will be served, by the place
\* each takes in the sorted list.
Snapshot(q) ==
    [i \in 1..Cardinality(q) |->
        (CHOOSE e \in q : Cardinality({f \in q : Before(f, e)}) = i - 1).req]

\* oldest(): the least enqueued_at over both groups.
Oldest(q) == (CHOOSE e \in q : \A f \in q : e.at <= f.at).req

Queued(q) == {e.req : e \in q}

\* Mutant: the depth of the queue instead of the place in it.
Position_Depth(q, r) == Cardinality(q)

\* position(): one more than the number of keys below the request's key.
Position(q, r) ==
    LET key == CHOOSE e \in q : e.req = r
    IN  1 + Cardinality({f \in q : Before(f, key)})

\* remove(): the queue without the request.
Remove(q, r) == {e \in q : e.req # r}
=============================================================================
