------------------------------ MODULE ApiProofs ------------------------------
(***************************************************************************)
(* Proofs about what stands between a user and the cluster.  QueueService, *)
(* for any set of requests and any bound on the number of puts: a          *)
(* handed-back request is the oldest of its group, and the keyed heap      *)
(* implements the two-group queue of GroupFifo.  CoalescedFetch, for any   *)
(* set of callers and any number of faults: no second refresh is asked for *)
(* while one is under way, and nobody waits in vain.                       *)
(***************************************************************************)
EXTENDS QueueService, CoalescedFetch, FiniteSetTheorems, WellFoundedInduction,
        TLAPS

-----------------------------------------------------------------------------
(* The request queue *)

\* What an entry is: one per request, keyed by the stamp of its request.
EntriesOK ==
    /\ \A e \in heap :
          /\ e.at = enqueuedAt[e.req]
          /\ e.at # 0
          /\ e.rank \in IF e.req \in Priority THEN {0, 1} ELSE {2, 3}
    /\ \A e, f \in heap : e.req = f.req => e = f

\* The clock has seen every stamp, and what is in flight is not queued.
StampsOK ==
    /\ \A r \in Requests : enqueuedAt[r] <= clock
    /\ \A r \in inflight : enqueuedAt[r] # 0
    /\ \A e \in heap : e.req \notin inflight

\* What was served is no younger than what its group has not been served yet.
ServedIsOldest ==
    \A r \in inflight, f \in heap :
        (r \in Priority <=> f.req \in Priority) /\ Fresh(f)
            => enqueuedAt[r] <= f.at

\* The inductive invariant.
QInv == TypeOK /\ EntriesOK /\ StampsOK /\ ServedIsOldest /\ RequeuedIsOldest

-----------------------------------------------------------------------------

\* The entries put() pushes for a request: fresh, or handed back.
FreshEntry(r, n, k) ==
    [req |-> r, rank |-> IF r \in Priority THEN 1 ELSE 3, at |-> n, seq |-> k]
RequeuedEntry(r, n, k) ==
    [req |-> r, rank |-> IF r \in Priority THEN 0 ELSE 2, at |-> n, seq |-> k]

\* The fields of an entry that put() pushes.
LEMMA EntryValues ==
    ASSUME NEW r, NEW n, NEW k
    PROVE  /\ Entry(r, FALSE, n, k) = FreshEntry(r, n, k)
           /\ Entry(r, TRUE, n, k) = RequeuedEntry(r, n, k)
<1>1. CASE r \in Priority
  BY <1>1 DEF Entry, Rank, FreshEntry, RequeuedEntry
<1>2. CASE r \notin Priority
  BY <1>2 DEF Entry, Rank, FreshEntry, RequeuedEntry
<1> QED BY <1>1, <1>2

\* The two puts, with the entry they push spelt out.
LEMMA PutNewPushes ==
    ASSUME NEW r, PutNew(r)
    PROVE  /\ heap' = heap \cup {FreshEntry(r, clock', seq)}
           /\ seq < MaxPuts /\ seq' = seq + 1
           /\ enqueuedAt[r] = 0 /\ clock' \in {clock, clock + 1}
           /\ enqueuedAt' = [enqueuedAt EXCEPT ![r] = clock']
           /\ inflight' = inflight
BY EntryValues, Zenon DEF PutNew, Push

\* A hand-back pushes one entry and releases the request.
LEMMA PutBackPushes ==
    ASSUME NEW r, PutBack(r)
    PROVE  /\ heap' = heap \cup {RequeuedEntry(r, enqueuedAt[r], seq)}
           /\ seq < MaxPuts /\ seq' = seq + 1
           /\ r \in inflight /\ inflight' = inflight \ {r}
           /\ enqueuedAt' = enqueuedAt /\ clock' = clock
BY EntryValues, Zenon DEF PutBack, Push

\* Pushing an entry adds its request to the queued ones.
LEMMA QueuedPush ==
    ASSUME NEW q, NEW e
    PROVE  Queued(q \cup {e}) = Queued(q) \cup {e.req}
BY DEF Queued

\* The foremost entry may be served before every other one: its group is the
\* first, and inside the group it is the oldest.
LEMMA ForemostMayPrecede ==
    ASSUME QInv, NEW e \in Foremost(heap), NEW f \in heap
    PROVE  /\ e \in heap
           /\ \/ e.req \in Priority /\ f.req \notin Priority
              \/ SameGroup(e, f) /\ e.at <= f.at
<1>1. e \in heap
  BY DEF Foremost
<1>2. e.req \in Requests /\ f.req \in Requests /\ e.at \in Nat /\ f.at \in Nat
  BY <1>1 DEF QInv, TypeOK, Entries
<1>3. CASE e = f
  BY <1>1, <1>2, <1>3 DEF SameGroup
<1>4. CASE e # f
  <2>1. Before(e, f)
    BY <1>4 DEF Foremost
  <2>2. e.rank \in 0..3 /\ f.rank \in 0..3 /\ e.seq \in Nat /\ f.seq \in Nat
    BY <1>1 DEF QInv, TypeOK, Entries
  <2>3. /\ e.rank \in (IF e.req \in Priority THEN {0, 1} ELSE {2, 3})
        /\ f.rank \in (IF f.req \in Priority THEN {0, 1} ELSE {2, 3})
    BY <1>1, <1>2 DEF QInv, EntriesOK
  <2>4. CASE e.rank = f.rank
    BY <1>1, <1>2, <2>1, <2>2, <2>3, <2>4 DEF Before, SameGroup
  <2>5. CASE e.rank # f.rank
    <3>1. e.rank < f.rank
      BY <2>1, <2>2, <2>5 DEF Before
    <3>2. e.req \in Priority \/ f.req \notin Priority
      BY <2>2, <2>3, <3>1
    <3>3. SameGroup(e, f) => ~Fresh(e) /\ Fresh(f)
      BY <2>2, <2>3, <3>1 DEF SameGroup, Fresh
    <3>4. SameGroup(e, f) => e.at <= f.at
      BY <1>1, <3>3 DEF QInv, RequeuedIsOldest
    <3> QED BY <1>1, <3>2, <3>4 DEF SameGroup
  <2> QED BY <2>4, <2>5
<1> QED BY <1>3, <1>4

-----------------------------------------------------------------------------

\* The empty queue satisfies the invariant.
LEMMA QInvInit == Init => QInv
BY MaxPutsAssumption
   DEF Init, QInv, TypeOK, EntriesOK, StampsOK, ServedIsOldest, RequeuedIsOldest

\* An arrival is younger than everything before it.
LEMMA PutNewKeepsQInv ==
    ASSUME QInv, NEW r \in Requests, PutNew(r)
    PROVE  QInv'
<1>0. PICK e : e = FreshEntry(r, clock', seq)
  OBVIOUS
<1>1. /\ heap' = heap \cup {e} /\ seq' = seq + 1 /\ seq < MaxPuts
      /\ enqueuedAt' = [enqueuedAt EXCEPT ![r] = clock']
      /\ inflight' = inflight /\ enqueuedAt[r] = 0
      /\ clock' \in Nat \ {0} /\ clock <= clock' /\ seq \in Nat /\ clock \in Nat
      /\ enqueuedAt \in [Requests -> Nat] /\ heap \subseteq Entries
  BY <1>0, PutNewPushes, MaxPutsAssumption DEF QInv, TypeOK
<1>2. /\ e \in Entries /\ e.req = r
      /\ e.at = clock' /\ e.rank = IF r \in Priority THEN 1 ELSE 3
  BY <1>0, <1>1 DEF FreshEntry, Entries
<1>3. Fresh(e)
  BY <1>2 DEF Fresh
<1>4. \A f \in heap : f.req # r /\ f.at <= clock /\ f.req \in Requests /\ f.at \in Nat
  BY <1>1 DEF QInv, EntriesOK, StampsOK, Entries
<1>5. r \notin inflight
  BY <1>1 DEF QInv, StampsOK
<1>6. TypeOK'
  BY <1>1, <1>2, MaxPutsAssumption DEF QInv, TypeOK
<1>7. EntriesOK'
  BY <1>1, <1>2, <1>4 DEF QInv, EntriesOK
<1>8. StampsOK'
  BY <1>1, <1>2, <1>4, <1>5 DEF QInv, StampsOK, TypeOK
<1>9. ServedIsOldest'
  <2>1. \A s \in inflight : s \in Requests /\ enqueuedAt'[s] = enqueuedAt[s]
                            /\ enqueuedAt[s] <= clock /\ enqueuedAt[s] \in Nat
    BY <1>1, <1>5 DEF QInv, TypeOK, StampsOK
  <2> QED BY <1>1, <1>2, <2>1 DEF QInv, ServedIsOldest, Fresh
<1>10. RequeuedIsOldest'
  <2>1. \A f \in heap : f.at <= e.at
    BY <1>1, <1>2, <1>4
  <2> QED BY <1>1, <1>3, <2>1 DEF QInv, RequeuedIsOldest, Fresh, SameGroup
<1> QED BY <1>6, <1>7, <1>8, <1>9, <1>10 DEF QInv

\* A request handed back keeps its stamp and goes in front of its group.
LEMMA PutBackKeepsQInv ==
    ASSUME QInv, NEW r \in Requests, PutBack(r)
    PROVE  QInv'
<1>0. PICK e : e = RequeuedEntry(r, enqueuedAt[r], seq)
  OBVIOUS
<1>1. /\ heap' = heap \cup {e} /\ seq' = seq + 1 /\ seq < MaxPuts
      /\ enqueuedAt' = enqueuedAt /\ clock' = clock
      /\ inflight' = inflight \ {r} /\ r \in inflight
      /\ seq \in Nat /\ enqueuedAt \in [Requests -> Nat] /\ heap \subseteq Entries
  BY <1>0, PutBackPushes, MaxPutsAssumption DEF QInv, TypeOK
<1>2. /\ e \in Entries /\ e.req = r
      /\ e.at = enqueuedAt[r] /\ e.rank = IF r \in Priority THEN 0 ELSE 2
  BY <1>0, <1>1 DEF RequeuedEntry, Entries
<1>3. ~Fresh(e)
  BY <1>2 DEF Fresh
<1>4. \A f \in heap : f.req # r
  BY <1>1 DEF QInv, StampsOK
<1>5. enqueuedAt[r] # 0
  BY <1>1 DEF QInv, StampsOK
<1>6. TypeOK'
  BY <1>1, <1>2, MaxPutsAssumption DEF QInv, TypeOK
<1>7. EntriesOK'
  BY <1>1, <1>2, <1>4, <1>5 DEF QInv, EntriesOK
<1>8. StampsOK'
  BY <1>1, <1>2 DEF QInv, StampsOK
<1>9. ServedIsOldest'
  BY <1>1, <1>3 DEF QInv, ServedIsOldest, Fresh
<1>10. RequeuedIsOldest'
  <2>1. \A f \in heap : SameGroup(e, f) /\ Fresh(f) => e.at <= f.at
    BY <1>1, <1>2 DEF QInv, ServedIsOldest, SameGroup
  <2> QED BY <1>1, <1>3, <2>1 DEF QInv, RequeuedIsOldest, Fresh, SameGroup
<1> QED BY <1>6, <1>7, <1>8, <1>9, <1>10 DEF QInv

\* Serving the least entry leaves the others as they are.
LEMMA GetKeepsQInv ==
    ASSUME QInv, Get
    PROVE  QInv'
<1>1. PICK e \in Foremost(heap) : heap' = heap \ {e} /\ inflight' = inflight \cup {e.req}
  BY DEF Get
<1>2. enqueuedAt' = enqueuedAt /\ seq' = seq /\ clock' = clock
  BY DEF Get
<1>3. e \in heap /\ e.req \in Requests /\ e.at = enqueuedAt[e.req] /\ e.at # 0
  BY <1>1 DEF Foremost, QInv, TypeOK, EntriesOK, Entries
<1>4. TypeOK'
  BY <1>1, <1>2, <1>3 DEF QInv, TypeOK
<1>5. EntriesOK'
  BY <1>1, <1>2 DEF QInv, EntriesOK
<1>6. StampsOK'
  BY <1>1, <1>2, <1>3 DEF QInv, StampsOK, EntriesOK
<1>7. \A f \in heap : SameGroup(e, f) => e.at <= f.at
  BY <1>1, ForemostMayPrecede DEF SameGroup
<1>8. ServedIsOldest'
  BY <1>1, <1>2, <1>3, <1>7 DEF QInv, ServedIsOldest, SameGroup
<1>9. RequeuedIsOldest'
  BY <1>1, <1>2 DEF QInv, RequeuedIsOldest
<1> QED BY <1>4, <1>5, <1>6, <1>8, <1>9 DEF QInv

\* Entries and served requests that go away disturb nothing.
LEMMA FewerKeepsQInv ==
    ASSUME QInv, heap' \subseteq heap, inflight' \subseteq inflight,
           UNCHANGED <<enqueuedAt, seq, clock>>
    PROVE  QInv'
BY DEF QInv, TypeOK, EntriesOK, StampsOK, ServedIsOldest, RequeuedIsOldest

\* Every operation of the queue keeps the invariant.
LEMMA QInvNext == QInv /\ [Next]_vars => QInv'
<1> SUFFICES ASSUME QInv, [Next]_vars PROVE QInv'
  OBVIOUS
<1>1. ASSUME NEW r \in Requests, PutNew(r) PROVE QInv'
  BY <1>1, PutNewKeepsQInv
<1>2. ASSUME NEW r \in Requests, PutBack(r) PROVE QInv'
  BY <1>2, PutBackKeepsQInv
<1>3. CASE Get
  BY <1>3, GetKeepsQInv
<1>4. ASSUME NEW r \in Requests, Finish(r) PROVE QInv'
  BY <1>4, FewerKeepsQInv DEF Finish
<1>5. ASSUME NEW r \in Requests, Kill(r) PROVE QInv'
  BY <1>5, FewerKeepsQInv DEF Kill, Remove
<1>6. CASE Clear
  BY <1>6, FewerKeepsQInv DEF Clear
<1>7. CASE UNCHANGED vars
  BY <1>7, FewerKeepsQInv DEF vars
<1> QED BY <1>1, <1>2, <1>3, <1>4, <1>5, <1>6, <1>7 DEF Next

\* The fields of the queue keep their types (request_queue.py:53-76).
THEOREM QueueTyped == Spec => []TypeOK
<1>1. QInv => TypeOK
  BY DEF QInv
<1> QED BY <1>1, QInvInit, QInvNext, PTL DEF Spec

\* A handed-back request is at least as old as every request of its group that
\* has not been served, whatever was put, killed or cleared in between: its
\* rank only restates what its kept enqueued_at gives (request_queue.py:28-30).
THEOREM RequeuedFirst == Spec => []RequeuedIsOldest
<1>1. QInv => RequeuedIsOldest
  BY DEF QInv
<1> QED BY <1>1, QInvInit, QInvNext, PTL DEF Spec

-----------------------------------------------------------------------------
(* Reports *)

\* The queue is finite and no two entries have the same number, which is below
\* the next one: what makes the keys a total order.
KeysOK ==
    /\ IsFiniteSet(heap)
    /\ \A e \in heap : e.seq < seq
    /\ \A e, f \in heap : e.seq = f.seq => e = f

\* Every put takes the next number.
LEMMA PushKeepsKeysOK ==
    ASSUME QInv, KeysOK, NEW e \in Entries, e.seq = seq, seq' = seq + 1,
           heap' = heap \cup {e}
    PROVE  KeysOK'
<1>1. IsFiniteSet(heap')
  BY FS_AddElement DEF KeysOK
<1>2. seq \in Nat /\ \A f \in heap : f.seq \in Nat
  BY MaxPutsAssumption DEF QInv, TypeOK, Entries
<1>3. \A f \in heap : f.seq # e.seq
  BY <1>2 DEF KeysOK
<1> QED BY <1>1, <1>2, <1>3 DEF KeysOK

\* Entries that go away disturb nothing.
LEMMA FewerKeepsKeysOK ==
    ASSUME KeysOK, heap' \subseteq heap, seq' = seq PROVE KeysOK'
<1>1. IsFiniteSet(heap')
  BY FS_Subset DEF KeysOK
<1> QED BY <1>1 DEF KeysOK

\* Every operation of the queue keeps the keys apart.
LEMMA KeysOKNext == QInv /\ KeysOK /\ [Next]_vars => KeysOK'
<1> SUFFICES ASSUME QInv, KeysOK, [Next]_vars PROVE KeysOK'
  OBVIOUS
<1>1. seq \in Nat /\ enqueuedAt \in [Requests -> Nat] /\ clock \in Nat
  BY MaxPutsAssumption DEF QInv, TypeOK
<1>2. ASSUME NEW r \in Requests, PutNew(r) PROVE KeysOK'
  <2>1. PICK e : e = FreshEntry(r, clock', seq)
    OBVIOUS
  <2>2. e \in Entries /\ e.seq = seq
    BY <1>1, <1>2, <2>1, PutNewPushes DEF FreshEntry, Entries
  <2> QED BY <1>2, <2>1, <2>2, PutNewPushes, PushKeepsKeysOK
<1>3. ASSUME NEW r \in Requests, PutBack(r) PROVE KeysOK'
  <2>1. PICK e : e = RequeuedEntry(r, enqueuedAt[r], seq)
    OBVIOUS
  <2>2. e \in Entries /\ e.seq = seq
    BY <1>1, <2>1 DEF RequeuedEntry, Entries
  <2> QED BY <1>3, <2>1, <2>2, PutBackPushes, PushKeepsKeysOK
<1>4. CASE Get
  BY <1>4, FewerKeepsKeysOK DEF Get
<1>5. ASSUME NEW r \in Requests, Finish(r) \/ Kill(r) PROVE KeysOK'
  BY <1>5, FewerKeepsKeysOK DEF Finish, Kill, Remove
<1>6. CASE Clear
  BY <1>6, FewerKeepsKeysOK DEF Clear
<1>7. CASE UNCHANGED vars
  BY <1>7, FewerKeepsKeysOK DEF vars
<1> QED BY <1>2, <1>3, <1>4, <1>5, <1>6, <1>7 DEF Next

\* The entries served before e: as many as the place of e, less one.
Ahead(e) == {f \in heap : Before(f, e)}

\* Of two entries one is served first, and so are the entries ahead of it.
LEMMA KeysAreOrdered ==
    ASSUME QInv, KeysOK, NEW e \in heap, NEW f \in heap, e # f
    PROVE  \/ Ahead(e) \subseteq Ahead(f) /\ e \in Ahead(f) /\ e \notin Ahead(e)
           \/ Ahead(f) \subseteq Ahead(e) /\ f \in Ahead(e) /\ f \notin Ahead(f)
<1>1. \A g \in heap : g.rank \in Int /\ g.at \in Int /\ g.seq \in Int
  BY DEF QInv, TypeOK, Entries
<1>2. e.seq # f.seq
  BY DEF KeysOK
<1>3. Before(e, f) \/ Before(f, e)
  BY <1>1, <1>2 DEF Before
<1>4. \A g, h, i \in heap : Before(g, h) /\ Before(h, i) => Before(g, i)
  BY <1>1 DEF Before
<1>5. \A g \in heap : ~Before(g, g)
  BY <1>1 DEF Before
<1> QED BY <1>3, <1>4, <1>5 DEF Ahead

\* So no two entries have as many ahead of them.
LEMMA PlacesDiffer ==
    ASSUME QInv, KeysOK, NEW e \in heap, NEW f \in heap,
           Cardinality(Ahead(e)) = Cardinality(Ahead(f))
    PROVE  e = f
<1>1. ASSUME NEW g \in heap, NEW h \in heap,
             Ahead(g) \subseteq Ahead(h), g \in Ahead(h), g \notin Ahead(g)
      PROVE  Cardinality(Ahead(g)) # Cardinality(Ahead(h))
  <2>1. IsFiniteSet(Ahead(h))
    BY FS_Subset DEF KeysOK, Ahead
  <2> QED BY <1>1, <2>1, FS_Subset
<1> QED BY <1>1, KeysAreOrdered

\* And each has a place among those of the queue.
LEMMA PlaceInRange ==
    ASSUME KeysOK, QInv, NEW e \in heap
    PROVE  1 + Cardinality(Ahead(e)) \in 1..Cardinality(heap)
<1>1. e \notin Ahead(e)
  BY DEF Ahead, Before, QInv, TypeOK, Entries
<1>2. Ahead(e) \in SUBSET heap /\ Ahead(e) # heap
  BY <1>1 DEF Ahead
<1>3. /\ IsFiniteSet(Ahead(e)) /\ Cardinality(Ahead(e)) # Cardinality(heap)
      /\ Cardinality(Ahead(e)) <= Cardinality(heap)
  BY <1>2, FS_Subset DEF KeysOK
<1>4. Cardinality(Ahead(e)) \in Nat /\ Cardinality(heap) \in Nat
  BY <1>3, FS_CardinalityType DEF KeysOK
<1> QED BY <1>3, <1>4

\* position() is the index of the request in snapshot().
LEMMA PlacesAgree == QInv /\ KeysOK => PositionsAgree
<1> SUFFICES ASSUME QInv, KeysOK, NEW r \in Queued(heap)
             PROVE  Snapshot(heap)[Position(heap, r)] = r
  BY DEF PositionsAgree
<1> DEFINE key == CHOOSE e \in heap : e.req = r
           HeldAt(i) == CHOOSE e \in heap : Cardinality(Ahead(e)) = i - 1
<1>1. key \in heap /\ key.req = r
  BY DEF Queued
<1>2. Position(heap, r) = 1 + Cardinality(Ahead(key))
  BY DEF Position, Ahead
<1>3. Position(heap, r) \in 1..Cardinality(heap)
  <2> HIDE DEF key
  <2>1. 1 + Cardinality(Ahead(key)) \in 1..Cardinality(heap)
    BY <1>1, PlaceInRange
  <2> QED BY <1>2, <2>1
<1>4. \A i \in 1..Cardinality(heap) : Snapshot(heap)[i] = HeldAt(i).req
  BY DEF Snapshot, Ahead
<1> HIDE DEF key
<1>5. HeldAt(Position(heap, r)) = key
  <2> DEFINE p == Position(heap, r)
  <2>1. Cardinality(Ahead(key)) = p - 1
    <3>1. Cardinality(Ahead(key)) \in Nat
      <4>1. IsFiniteSet(Ahead(key))
        BY FS_Subset DEF KeysOK, Ahead
      <4> QED BY <4>1, FS_CardinalityType
    <3> QED BY <1>2, <3>1
  <2> HIDE DEF p
  <2>2. \E e \in heap : Cardinality(Ahead(e)) = p - 1
    BY <1>1, <2>1
  <2>3. HeldAt(p) \in heap /\ Cardinality(Ahead(HeldAt(p))) = p - 1
    BY <2>2
  <2> HIDE DEF HeldAt
  <2>4. HeldAt(p) = key
    BY <1>1, <2>1, <2>3, PlacesDiffer
  <2> QED BY <2>4 DEF p
<1> HIDE DEF HeldAt
<1> QED BY <1>1, <1>3, <1>4, <1>5

\* Some entry of a queue has the least stamp.
LEMMA SomeIsOldest ==
    ASSUME QInv, heap # {}
    PROVE  \E e \in heap : \A f \in heap : e.at <= f.at
<1> DEFINE stamps == {e.at : e \in heap}
<1>1. stamps \subseteq Nat /\ stamps # {}
  BY DEF QInv, TypeOK, Entries
<1> HIDE DEF stamps
<1>2. PICK x \in stamps : \A y \in stamps : ~(<<y, x>> \in OpToRel(<, Nat))
  BY <1>1, WFMin, NatLessThanWellFounded
<1>3. \A y \in stamps : ~(y < x)
  BY <1>1, <1>2 DEF OpToRel
<1>4. \A y \in stamps : x <= y
  BY <1>1, <1>3
<1> QED BY <1>4 DEF stamps

\* What users and the autoscaler are told of the queue is true of it: the
\* places are those of the order of service, and no request has waited longer
\* than oldest() says (request_queue.py:84-109).
THEOREM ReportsAreTrue == Spec => []ReportsAgree
<1>1. Init => KeysOK
  BY FS_EmptySet DEF Init, KeysOK
<1>2. QInv /\ KeysOK => ReportsAgree
  <2> SUFFICES ASSUME QInv, KeysOK, heap # {}, NEW r \in Queued(heap)
               PROVE  enqueuedAt[Oldest(heap)] <= enqueuedAt[r]
    BY PlacesAgree DEF ReportsAgree, OldestIsOldest
  <2> DEFINE first == CHOOSE e \in heap : \A f \in heap : e.at <= f.at
  <2>1. first \in heap /\ \A f \in heap : first.at <= f.at
    BY SomeIsOldest
  <2>2. Oldest(heap) = first.req
    BY DEF Oldest
  <2> HIDE DEF first
  <2> QED BY <2>1, <2>2 DEF QInv, EntriesOK, Queued
<1> QED BY <1>1, <1>2, QInvInit, QInvNext, KeysOKNext, PTL DEF Spec

-----------------------------------------------------------------------------
(* Refinement *)

\* The empty heap maps to two empty groups.
LEMMA InitRefines == Init => Groups!Init
BY DEF Init, Groups!Init, Queued

\* Every operation maps to one of the two-group queue, or to a stutter.
LEMMA NextRefines == QInv /\ [Next]_vars => [Groups!Next]_(Groups!vars)
<1> SUFFICES ASSUME QInv, [Next]_vars
             PROVE  Groups!Next \/ UNCHANGED Groups!vars
  OBVIOUS
<1>1. ASSUME NEW r \in Requests, PutNew(r) PROVE Groups!Arrive(r)
  <2>0. PICK e : e = FreshEntry(r, clock', seq)
    OBVIOUS
  <2>1. /\ heap' = heap \cup {e} /\ seq \in Nat
        /\ enqueuedAt' = [enqueuedAt EXCEPT ![r] = clock']
        /\ enqueuedAt[r] = 0 /\ inflight' = inflight
        /\ clock' \in Nat \ {0} /\ clock <= clock' /\ clock \in Nat
        /\ enqueuedAt \in [Requests -> Nat]
    BY <1>1, <2>0, PutNewPushes, MaxPutsAssumption DEF QInv, TypeOK
  <2>2. Queued(heap') = Queued(heap) \cup {r}
    BY <2>0, <2>1, QueuedPush DEF FreshEntry
  <2>3. enqueuedAt'[r] = clock'
    BY <2>1
  <2>4. \A s \in Requests : enqueuedAt[s] <= clock'
    BY <2>1 DEF QInv, StampsOK
  <2> QED BY <2>1, <2>2, <2>3, <2>4 DEF Groups!Arrive
<1>2. ASSUME NEW r \in Requests, PutBack(r) PROVE Groups!HandBack(r)
  <2>0. PICK e : e = RequeuedEntry(r, enqueuedAt[r], seq)
    OBVIOUS
  <2>1. heap' = heap \cup {e} /\ seq \in Nat /\ enqueuedAt[r] \in Nat
    BY <1>2, <2>0, PutBackPushes, MaxPutsAssumption DEF QInv, TypeOK
  <2>2. Queued(heap') = Queued(heap) \cup {r}
    BY <2>0, <2>1, QueuedPush DEF RequeuedEntry
  <2> QED BY <1>2, <2>2, PutBackPushes DEF Groups!HandBack
<1>3. CASE Get
  <2>1. PICK e \in Foremost(heap) : heap' = heap \ {e} /\ inflight' = inflight \cup {e.req}
    BY <1>3 DEF Get
  <2>2. e \in heap /\ Queued(heap') = Queued(heap) \ {e.req}
    BY <2>1 DEF Foremost, Queued, QInv, EntriesOK
  <2>3. ASSUME NEW f \in heap PROVE Groups!MayPrecede(e.req, f.req)
    BY <2>1, <2>2, ForemostMayPrecede
       DEF Groups!MayPrecede, SameGroup, QInv, EntriesOK
  <2>4. \A s \in Queued(heap) : Groups!MayPrecede(e.req, s)
    BY <2>3 DEF Queued
  <2>5. e.req \in Queued(heap)
    BY <2>2 DEF Queued
  <2> QED BY <1>3, <2>1, <2>2, <2>4, <2>5 DEF Get, Groups!Serve, Groups!Next
<1>4. ASSUME NEW r \in Requests, Finish(r) PROVE Groups!Answer(r)
  BY <1>4 DEF Finish, Groups!Answer, Queued
<1>5. ASSUME NEW r \in Requests, Kill(r) PROVE Groups!GiveUp({r})
  BY <1>5 DEF Kill, Remove, Groups!GiveUp, Queued
<1>6. CASE Clear
  <2>1. Groups!GiveUp(Queued(heap))
    BY <1>6 DEF Clear, Groups!GiveUp, Queued
  <2> QED BY <2>1 DEF Groups!Next
<1>7. CASE UNCHANGED vars
  BY <1>7 DEF vars, Groups!vars, Queued
<1>8. ASSUME NEW r \in Requests, Kill(r) PROVE {r} \in SUBSET Queued(heap)
  BY <1>8 DEF Kill
<1> QED BY <1>1, <1>2, <1>3, <1>4, <1>5, <1>6, <1>7, <1>8 DEF Next, Groups!Next

\* The heap ordered by (rank, enqueued_at, seq) implements the two-group
\* queue: the priority group first, in a group whoever arrived first, however
\* often requests are handed back (request_queue.py:11-22).
THEOREM QueueRefinesGroupFifo == Spec => ServesInGroupOrder
<1>1. Spec => []QInv
  BY QInvInit, QInvNext, PTL DEF Spec
<1> QED BY <1>1, InitRefines, NextRefines, PTL
        DEF Spec, ServesInGroupOrder, Groups!Spec

-----------------------------------------------------------------------------
(* The coalesced fetch: FInv is the inductive invariant *)

\* A refresh that was asked for has its lock, unless that lapsed.
LockStands == ~lapsed /\ Refreshing => requested

\* A lock stands for a refresh, unless that was lost.
LockCounts == requested /\ ~orphan => Refreshing

\* Only subscribers have messages.
MailIsForSubscribers == \A c \in Callers : c \notin Waiting => inbox[c] = <<>>

\* Whoever was told of an answer, or is about to read it, will find it.
AnswerIsThere ==
    \A c \in Callers :
        \/ cached \/ c \in astray
        \/ /\ caller[c] # "look"
           /\ \A i \in DOMAIN inbox[c] : inbox[c][i] # "ok"

\* All of them: the inductive invariant.
FInv ==
    /\ FetchTypeOK /\ LockStands /\ OneRefresh
    /\ LockCounts /\ MailIsForSubscribers /\ AnswerIsThere /\ NobodyWaitsInVain

\* What is published on the ready channel.
Messages == {"ok", "error"}

\* A caller that leaves keeps the types.
LEMMA LeavingTyped ==
  ASSUME FetchTypeOK, NEW c \in Callers, Leaves(c),
         UNCHANGED <<connected, cached, requested, triggers, worker, lapsed,
    orphan, faults>>
  PROVE  FetchTypeOK'
<1>. USE DEF FetchTypeOK
<1>1. caller' \in [Callers -> {"idle", "get", "subscribe", "again", "lock", "add",
                               "listen", "look"}]
  BY DEF Leaves, At
<1>2. inbox' \in [Callers -> Seq({"ok", "error"})]
  BY DEF Leaves
<1>3. astray' \subseteq Callers
  BY DEF Leaves
<1>. QED BY <1>1, <1>2, <1>3

\* Every step keeps the types.
LEMMA TypeStep ==
  ASSUME FetchAssumption, FetchTypeOK, [FetchNext]_fetchVars
  PROVE  FetchTypeOK'
<1>. USE DEF FetchTypeOK, FetchAssumption, Waiting
<1>1. ASSUME NEW c \in Callers, Calls(c) PROVE FetchTypeOK'
  BY <1>1 DEF Calls, At, fetchVars, redis, ghosts
<1>2. ASSUME NEW c \in Callers, Gets(c) PROVE FetchTypeOK'
  BY <1>2 DEF Gets, At, fetchVars, redis, ghosts
<1>3. ASSUME NEW c \in Callers, Subscribes(c) PROVE FetchTypeOK'
  BY <1>3 DEF Subscribes, At, fetchVars, redis, ghosts
<1>4. ASSUME NEW c \in Callers, GetsAgain(c) PROVE FetchTypeOK'
  <2>1. CASE cached
    BY <1>4, <2>1, LeavingTyped DEF GetsAgain, redis
  <2>2. CASE ~cached
    BY <1>4, <2>2 DEF GetsAgain, At, redis
  <2>. QED BY <2>1, <2>2
<1>5. ASSUME NEW c \in Callers, Locks(c) PROVE FetchTypeOK'
  BY <1>5 DEF Locks, At, fetchVars, redis, ghosts
<1>6. ASSUME NEW c \in Callers, Adds(c) PROVE FetchTypeOK'
  BY <1>6 DEF Adds, At, fetchVars, redis, ghosts
<1>7. ASSUME NEW c \in Callers, Listens(c) PROVE FetchTypeOK'
  <2>1. CASE Leaves(c)
    BY <1>7, <2>1, LeavingTyped DEF Listens, redis
  <2>2. CASE Head(inbox[c]) = "ok" /\ At(c, "look")
             /\ inbox' = [inbox EXCEPT ![c] = Tail(@)] /\ UNCHANGED astray
    <3>1. inbox' \in [Callers -> Seq(Messages)]
      BY <1>7, <2>2 DEF Listens, Messages
    <3>. QED BY <1>7, <2>2, <3>1 DEF Listens, At, redis, Messages
  <2>. QED BY <1>7, <2>1, <2>2 DEF Listens
<1>8. ASSUME NEW c \in Callers, Looks(c) PROVE FetchTypeOK'
  <2>1. CASE cached
    BY <1>8, <2>1, LeavingTyped DEF Looks, redis
  <2>2. CASE ~cached
    BY <1>8, <2>2 DEF Looks, At, redis
  <2>. QED BY <2>1, <2>2
<1>9. ASSUME NEW c \in Callers, TimesOut(c) PROVE FetchTypeOK'
  BY <1>9 DEF TimesOut, At, Leaves, fetchVars, redis, ghosts
<1>10. ASSUME NEW c \in Callers, Dies(c) PROVE FetchTypeOK'
  BY <1>10 DEF Dies, At, Fault, fetchVars, redis, ghosts
<1>11. CASE Boots
  BY <1>11 DEF Boots, fetchVars, redis, ghosts
<1>12. CASE Reads
  BY <1>12 DEF Reads, fetchVars, redis, ghosts
<1>13. CASE Fetches
  BY <1>13 DEF Fetches, Fault, fetchVars, redis, ghosts
<1>14. CASE Caches
  BY <1>14 DEF Caches, fetchVars, redis, ghosts
<1>15. CASE Unlocks
  BY <1>15 DEF Unlocks, Drops, fetchVars, redis, ghosts
<1>16. CASE Fails
  BY <1>16 DEF Fails, Drops, fetchVars, redis, ghosts
<1>17. CASE Publishes
  <2>1. ASSUME NEW m \in Messages, Wakes(m) PROVE inbox' \in [Callers -> Seq(Messages)]
    BY <2>1 DEF Wakes, Messages
  <2>2. inbox' \in [Callers -> Seq(Messages)]
    BY <1>17, <2>1 DEF Publishes, Messages
  <2>3. astray' \subseteq Callers
    BY <1>17 DEF Publishes
  <2>. QED BY <1>17, <2>2, <2>3 DEF Publishes, redis, Messages
<1>18. CASE Reconnects
  <2>1. lapsed' \in BOOLEAN
    BY <1>18 DEF Reconnects
  <2>2. faults' \in 0..MaxFaults
    BY <1>18 DEF Reconnects, Fault
  <2>3. astray' \subseteq Callers
    BY <1>18 DEF Reconnects
  <2>. QED BY <1>18, <2>1, <2>2, <2>3 DEF Reconnects
<1>19. CASE Connects
  BY <1>19 DEF Connects, fetchVars, redis, ghosts
<1>20. CASE AnswerExpires
  BY <1>20 DEF AnswerExpires, fetchVars, redis, ghosts
<1>21. CASE LockExpires
  <2>1. faults' \in 0..MaxFaults
    BY <1>21 DEF LockExpires, Fault
  <2>2. lapsed' \in BOOLEAN
    BY <1>21 DEF LockExpires
  <2>. QED BY <1>21, <2>1, <2>2 DEF LockExpires
<1>22. CASE UNCHANGED fetchVars
  BY <1>22 DEF fetchVars, redis, ghosts
<1>. QED BY <1>1, <1>2, <1>3, <1>4, <1>5, <1>6, <1>7, <1>8, <1>9, <1>10, <1>11,
    <1>12, <1>13, <1>14, <1>15, <1>16, <1>17, <1>18, <1>19, <1>20, <1>21, <1>22
    DEF FetchNext, CallerNext, WorkerNext

\* A lock is dropped by the worker once its refresh is done, or lapses.
LEMMA StandsStep ==
  ASSUME FetchTypeOK, LockStands, OneRefresh, [FetchNext]_fetchVars
  PROVE  LockStands'
<1>. USE DEF FetchTypeOK, LockStands, OneRefresh, Refreshing, InHand, Adding
<1>1. ASSUME NEW c \in Callers, Calls(c) PROVE LockStands'
  BY <1>1 DEF Calls, At, fetchVars, redis, ghosts
<1>2. ASSUME NEW c \in Callers, Gets(c) PROVE LockStands'
  BY <1>2 DEF Gets, At, fetchVars, redis, ghosts
<1>3. ASSUME NEW c \in Callers, Subscribes(c) PROVE LockStands'
  BY <1>3 DEF Subscribes, At, fetchVars, redis, ghosts
<1>4. ASSUME NEW c \in Callers, GetsAgain(c) PROVE LockStands'
  BY <1>4 DEF GetsAgain, At, Leaves, fetchVars, redis, ghosts
<1>5. ASSUME NEW c \in Callers, Locks(c) PROVE LockStands'
  BY <1>5 DEF Locks, At, fetchVars, redis, ghosts
<1>6. ASSUME NEW c \in Callers, Adds(c) PROVE LockStands'
  BY <1>6 DEF Adds, At, fetchVars, redis, ghosts
<1>7. ASSUME NEW c \in Callers, Listens(c) PROVE LockStands'
  BY <1>7 DEF Listens, At, Leaves, fetchVars, redis, ghosts
<1>8. ASSUME NEW c \in Callers, Looks(c) PROVE LockStands'
  BY <1>8 DEF Looks, At, Leaves, fetchVars, redis, ghosts
<1>9. ASSUME NEW c \in Callers, TimesOut(c) PROVE LockStands'
  BY <1>9 DEF TimesOut, At, Leaves, fetchVars, redis, ghosts
<1>10. ASSUME NEW c \in Callers, Dies(c) PROVE LockStands'
  BY <1>10 DEF Dies, At, Fault, fetchVars, redis, ghosts
<1>11. CASE Boots
  BY <1>11 DEF Boots, fetchVars, redis, ghosts
<1>12. CASE Reads
  BY <1>12 DEF Reads, fetchVars, redis, ghosts
<1>13. CASE Fetches
  BY <1>13 DEF Fetches, Fault, fetchVars, redis, ghosts
<1>14. CASE Caches
  BY <1>14 DEF Caches, fetchVars, redis, ghosts
<1>15. CASE Unlocks
  BY <1>15 DEF Unlocks, Drops, fetchVars, redis, ghosts
<1>16. CASE Fails
  BY <1>16 DEF Fails, Drops, fetchVars, redis, ghosts
<1>17. CASE Publishes
  BY <1>17 DEF Publishes, Wakes, fetchVars, redis, ghosts
<1>18. CASE Reconnects
  BY <1>18 DEF Reconnects, Fault, fetchVars, redis, ghosts
<1>19. CASE Connects
  BY <1>19 DEF Connects, fetchVars, redis, ghosts
<1>20. CASE AnswerExpires
  BY <1>20 DEF AnswerExpires, fetchVars, redis, ghosts
<1>21. CASE LockExpires
  BY <1>21 DEF LockExpires, Fault, fetchVars, redis, ghosts
<1>22. CASE UNCHANGED fetchVars
  BY <1>22 DEF fetchVars, redis, ghosts
<1>. QED BY <1>1, <1>2, <1>3, <1>4, <1>5, <1>6, <1>7, <1>8, <1>9, <1>10, <1>11,
    <1>12, <1>13, <1>14, <1>15, <1>16, <1>17, <1>18, <1>19, <1>20, <1>21, <1>22
    DEF FetchNext, CallerNext, WorkerNext

\* Only the winner of the lock asks for a refresh, and it wins when there is none.
LEMMA OneStep ==
  ASSUME FetchTypeOK, LockStands, OneRefresh, [FetchNext]_fetchVars
  PROVE  OneRefresh'
<1>. USE DEF FetchTypeOK, LockStands, OneRefresh, Refreshing, InHand, Adding
<1>1. ASSUME NEW c \in Callers, Calls(c) PROVE OneRefresh'
  BY <1>1 DEF Calls, At, fetchVars, redis, ghosts
<1>2. ASSUME NEW c \in Callers, Gets(c) PROVE OneRefresh'
  BY <1>2 DEF Gets, At, fetchVars, redis, ghosts
<1>3. ASSUME NEW c \in Callers, Subscribes(c) PROVE OneRefresh'
  BY <1>3 DEF Subscribes, At, fetchVars, redis, ghosts
<1>4. ASSUME NEW c \in Callers, GetsAgain(c) PROVE OneRefresh'
  BY <1>4 DEF GetsAgain, At, Leaves, fetchVars, redis, ghosts
<1>5. ASSUME NEW c \in Callers, Locks(c) PROVE OneRefresh'
  BY <1>5 DEF Locks, At, fetchVars, redis, ghosts
<1>6. ASSUME NEW c \in Callers, Adds(c) PROVE OneRefresh'
  BY <1>6 DEF Adds, At, fetchVars, redis, ghosts
<1>7. ASSUME NEW c \in Callers, Listens(c) PROVE OneRefresh'
  BY <1>7 DEF Listens, At, Leaves, fetchVars, redis, ghosts
<1>8. ASSUME NEW c \in Callers, Looks(c) PROVE OneRefresh'
  BY <1>8 DEF Looks, At, Leaves, fetchVars, redis, ghosts
<1>9. ASSUME NEW c \in Callers, TimesOut(c) PROVE OneRefresh'
  BY <1>9 DEF TimesOut, At, Leaves, fetchVars, redis, ghosts
<1>10. ASSUME NEW c \in Callers, Dies(c) PROVE OneRefresh'
  BY <1>10 DEF Dies, At, Fault, fetchVars, redis, ghosts
<1>11. CASE Boots
  BY <1>11 DEF Boots, fetchVars, redis, ghosts
<1>12. CASE Reads
  BY <1>12 DEF Reads, fetchVars, redis, ghosts
<1>13. CASE Fetches
  BY <1>13 DEF Fetches, Fault, fetchVars, redis, ghosts
<1>14. CASE Caches
  BY <1>14 DEF Caches, fetchVars, redis, ghosts
<1>15. CASE Unlocks
  BY <1>15 DEF Unlocks, Drops, fetchVars, redis, ghosts
<1>16. CASE Fails
  BY <1>16 DEF Fails, Drops, fetchVars, redis, ghosts
<1>17. CASE Publishes
  BY <1>17 DEF Publishes, Wakes, fetchVars, redis, ghosts
<1>18. CASE Reconnects
  BY <1>18 DEF Reconnects, Fault, fetchVars, redis, ghosts
<1>19. CASE Connects
  BY <1>19 DEF Connects, fetchVars, redis, ghosts
<1>20. CASE AnswerExpires
  BY <1>20 DEF AnswerExpires, fetchVars, redis, ghosts
<1>21. CASE LockExpires
  BY <1>21 DEF LockExpires, Fault, fetchVars, redis, ghosts
<1>22. CASE UNCHANGED fetchVars
  BY <1>22 DEF fetchVars, redis, ghosts
<1>. QED BY <1>1, <1>2, <1>3, <1>4, <1>5, <1>6, <1>7, <1>8, <1>9, <1>10, <1>11,
    <1>12, <1>13, <1>14, <1>15, <1>16, <1>17, <1>18, <1>19, <1>20, <1>21, <1>22
    DEF FetchNext, CallerNext, WorkerNext

\* A refresh leaves its lock only when it is done or lost.
LEMMA CountsStep ==
  ASSUME FetchTypeOK, LockCounts, [FetchNext]_fetchVars
  PROVE  LockCounts'
<1>. USE DEF FetchTypeOK, LockCounts, Refreshing, InHand, Adding
<1>1. ASSUME NEW c \in Callers, Calls(c) PROVE LockCounts'
  BY <1>1 DEF Calls, At, fetchVars, redis, ghosts
<1>2. ASSUME NEW c \in Callers, Gets(c) PROVE LockCounts'
  BY <1>2 DEF Gets, At, fetchVars, redis, ghosts
<1>3. ASSUME NEW c \in Callers, Subscribes(c) PROVE LockCounts'
  BY <1>3 DEF Subscribes, At, fetchVars, redis, ghosts
<1>4. ASSUME NEW c \in Callers, GetsAgain(c) PROVE LockCounts'
  BY <1>4 DEF GetsAgain, At, Leaves, fetchVars, redis, ghosts
<1>5. ASSUME NEW c \in Callers, Locks(c) PROVE LockCounts'
  BY <1>5 DEF Locks, At, fetchVars, redis, ghosts
<1>6. ASSUME NEW c \in Callers, Adds(c) PROVE LockCounts'
  BY <1>6 DEF Adds, At, fetchVars, redis, ghosts
<1>7. ASSUME NEW c \in Callers, Listens(c) PROVE LockCounts'
  BY <1>7 DEF Listens, At, Leaves, fetchVars, redis, ghosts
<1>8. ASSUME NEW c \in Callers, Looks(c) PROVE LockCounts'
  BY <1>8 DEF Looks, At, Leaves, fetchVars, redis, ghosts
<1>9. ASSUME NEW c \in Callers, TimesOut(c) PROVE LockCounts'
  BY <1>9 DEF TimesOut, At, Leaves, fetchVars, redis, ghosts
<1>10. ASSUME NEW c \in Callers, Dies(c) PROVE LockCounts'
  <2>1. CASE caller[c] = "add"
    BY <1>10, <2>1 DEF Dies, redis
  <2>2. CASE caller[c] # "add"
    <3>1. Adding' = Adding
      BY <1>10, <2>2 DEF Dies, At
    <3>2. UNCHANGED <<requested, triggers, worker, orphan>>
      BY <1>10, <2>2 DEF Dies, redis
    <3>. QED BY <3>1, <3>2
  <2>. QED BY <2>1, <2>2
<1>11. CASE Boots
  <2>1. CASE triggers = 0
    BY <1>11, <2>1 DEF Boots
  <2>2. CASE triggers > 0
    BY <1>11, <2>2 DEF Boots
  <2>. QED BY <1>11, <2>1, <2>2
<1>12. CASE Reads
  BY <1>12 DEF Reads, fetchVars, redis, ghosts
<1>13. CASE Fetches
  BY <1>13 DEF Fetches, Fault, fetchVars, redis, ghosts
<1>14. CASE Caches
  BY <1>14 DEF Caches, fetchVars, redis, ghosts
<1>15. CASE Unlocks
  BY <1>15 DEF Unlocks, Drops, fetchVars, redis, ghosts
<1>16. CASE Fails
  BY <1>16 DEF Fails, Drops, fetchVars, redis, ghosts
<1>17. CASE Publishes
  BY <1>17 DEF Publishes, Wakes, fetchVars, redis, ghosts
<1>18. CASE Reconnects
  BY <1>18 DEF Reconnects, Fault, fetchVars, redis, ghosts
<1>19. CASE Connects
  BY <1>19 DEF Connects, fetchVars, redis, ghosts
<1>20. CASE AnswerExpires
  BY <1>20 DEF AnswerExpires, fetchVars, redis, ghosts
<1>21. CASE LockExpires
  BY <1>21 DEF LockExpires, Fault, fetchVars, redis, ghosts
<1>22. CASE UNCHANGED fetchVars
  BY <1>22 DEF fetchVars, redis, ghosts
<1>. QED BY <1>1, <1>2, <1>3, <1>4, <1>5, <1>6, <1>7, <1>8, <1>9, <1>10, <1>11,
    <1>12, <1>13, <1>14, <1>15, <1>16, <1>17, <1>18, <1>19, <1>20, <1>21, <1>22
    DEF FetchNext, CallerNext, WorkerNext

\* Leaving, a caller unsubscribes.
LEMMA MailStep ==
  ASSUME FetchTypeOK, MailIsForSubscribers, [FetchNext]_fetchVars
  PROVE  MailIsForSubscribers'
<1>. USE DEF FetchTypeOK, MailIsForSubscribers, Waiting
<1>1. ASSUME NEW c \in Callers, Calls(c) PROVE MailIsForSubscribers'
  BY <1>1 DEF Calls, At, fetchVars, redis, ghosts
<1>2. ASSUME NEW c \in Callers, Gets(c) PROVE MailIsForSubscribers'
  BY <1>2 DEF Gets, At, fetchVars, redis, ghosts
<1>3. ASSUME NEW c \in Callers, Subscribes(c) PROVE MailIsForSubscribers'
  BY <1>3 DEF Subscribes, At, fetchVars, redis, ghosts
<1>4. ASSUME NEW c \in Callers, GetsAgain(c) PROVE MailIsForSubscribers'
  BY <1>4 DEF GetsAgain, At, Leaves, fetchVars, redis, ghosts
<1>5. ASSUME NEW c \in Callers, Locks(c) PROVE MailIsForSubscribers'
  BY <1>5 DEF Locks, At, fetchVars, redis, ghosts
<1>6. ASSUME NEW c \in Callers, Adds(c) PROVE MailIsForSubscribers'
  BY <1>6 DEF Adds, At, fetchVars, redis, ghosts
<1>7. ASSUME NEW c \in Callers, Listens(c) PROVE MailIsForSubscribers'
  BY <1>7 DEF Listens, At, Leaves, fetchVars, redis, ghosts
<1>8. ASSUME NEW c \in Callers, Looks(c) PROVE MailIsForSubscribers'
  BY <1>8 DEF Looks, At, Leaves, fetchVars, redis, ghosts
<1>9. ASSUME NEW c \in Callers, TimesOut(c) PROVE MailIsForSubscribers'
  BY <1>9 DEF TimesOut, At, Leaves, fetchVars, redis, ghosts
<1>10. ASSUME NEW c \in Callers, Dies(c) PROVE MailIsForSubscribers'
  BY <1>10 DEF Dies, At, Fault, fetchVars, redis, ghosts
<1>11. CASE Boots
  BY <1>11 DEF Boots, fetchVars, redis, ghosts
<1>12. CASE Reads
  BY <1>12 DEF Reads, fetchVars, redis, ghosts
<1>13. CASE Fetches
  BY <1>13 DEF Fetches, Fault, fetchVars, redis, ghosts
<1>14. CASE Caches
  BY <1>14 DEF Caches, fetchVars, redis, ghosts
<1>15. CASE Unlocks
  BY <1>15 DEF Unlocks, Drops, fetchVars, redis, ghosts
<1>16. CASE Fails
  BY <1>16 DEF Fails, Drops, fetchVars, redis, ghosts
<1>17. CASE Publishes
  BY <1>17 DEF Publishes, Wakes, fetchVars, redis, ghosts
<1>18. CASE Reconnects
  BY <1>18 DEF Reconnects, Fault, fetchVars, redis, ghosts
<1>19. CASE Connects
  BY <1>19 DEF Connects, fetchVars, redis, ghosts
<1>20. CASE AnswerExpires
  BY <1>20 DEF AnswerExpires, fetchVars, redis, ghosts
<1>21. CASE LockExpires
  BY <1>21 DEF LockExpires, Fault, fetchVars, redis, ghosts
<1>22. CASE UNCHANGED fetchVars
  BY <1>22 DEF fetchVars, redis, ghosts
<1>. QED BY <1>1, <1>2, <1>3, <1>4, <1>5, <1>6, <1>7, <1>8, <1>9, <1>10, <1>11,
    <1>12, <1>13, <1>14, <1>15, <1>16, <1>17, <1>18, <1>19, <1>20, <1>21, <1>22
    DEF FetchNext, CallerNext, WorkerNext

\* What callers were told of is dropped only by a reconnect.
LEMMA AnswerStep ==
  ASSUME FetchTypeOK, MailIsForSubscribers, AnswerIsThere, [FetchNext]_fetchVars
  PROVE  AnswerIsThere'
<1>. USE DEF FetchTypeOK, MailIsForSubscribers, AnswerIsThere, Waiting
<1>1. ASSUME NEW c \in Callers, Calls(c) PROVE AnswerIsThere'
  BY <1>1 DEF Calls, At, fetchVars, redis, ghosts
<1>2. ASSUME NEW c \in Callers, Gets(c) PROVE AnswerIsThere'
  BY <1>2 DEF Gets, At, fetchVars, redis, ghosts
<1>3. ASSUME NEW c \in Callers, Subscribes(c) PROVE AnswerIsThere'
  BY <1>3 DEF Subscribes, At, fetchVars, redis, ghosts
<1>4. ASSUME NEW c \in Callers, GetsAgain(c) PROVE AnswerIsThere'
  BY <1>4 DEF GetsAgain, At, Leaves, fetchVars, redis, ghosts
<1>5. ASSUME NEW c \in Callers, Locks(c) PROVE AnswerIsThere'
  BY <1>5 DEF Locks, At, fetchVars, redis, ghosts
<1>6. ASSUME NEW c \in Callers, Adds(c) PROVE AnswerIsThere'
  BY <1>6 DEF Adds, At, fetchVars, redis, ghosts
<1>7. ASSUME NEW c \in Callers, Listens(c) PROVE AnswerIsThere'
  <2>1. CASE Leaves(c)
    BY <1>7, <2>1 DEF Listens, Leaves, At, redis
  <2>2. CASE Head(inbox[c]) = "ok" /\ At(c, "look")
             /\ inbox' = [inbox EXCEPT ![c] = Tail(@)] /\ UNCHANGED astray
    <3>1. 1 \in DOMAIN inbox[c] /\ inbox[c][1] = "ok"
      BY <1>7, <2>2 DEF Listens
    <3>2. cached \/ c \in astray
      BY <3>1
    <3>. QED BY <1>7, <2>2, <3>2 DEF Listens, At, redis
  <2>. QED BY <1>7, <2>1, <2>2 DEF Listens
<1>8. ASSUME NEW c \in Callers, Looks(c) PROVE AnswerIsThere'
  BY <1>8 DEF Looks, At, Leaves, fetchVars, redis, ghosts
<1>9. ASSUME NEW c \in Callers, TimesOut(c) PROVE AnswerIsThere'
  BY <1>9 DEF TimesOut, At, Leaves, fetchVars, redis, ghosts
<1>10. ASSUME NEW c \in Callers, Dies(c) PROVE AnswerIsThere'
  BY <1>10 DEF Dies, At, Fault, fetchVars, redis, ghosts
<1>11. CASE Boots
  BY <1>11 DEF Boots, fetchVars, redis, ghosts
<1>12. CASE Reads
  BY <1>12 DEF Reads, fetchVars, redis, ghosts
<1>13. CASE Fetches
  BY <1>13 DEF Fetches, Fault, fetchVars, redis, ghosts
<1>14. CASE Caches
  BY <1>14 DEF Caches, fetchVars, redis, ghosts
<1>15. CASE Unlocks
  BY <1>15 DEF Unlocks, Drops, fetchVars, redis, ghosts
<1>16. CASE Fails
  BY <1>16 DEF Fails, Drops, fetchVars, redis, ghosts
<1>17. CASE Publishes
  <2>1. CASE worker = "publish"
    BY <1>17, <2>1 DEF Publishes, Wakes, redis
  <2>2. CASE worker = "tell"
    <3>1. ASSUME NEW c \in Callers, ~cached, c \notin astray,
                 NEW i \in DOMAIN inbox'[c]
          PROVE  inbox'[c][i] # "ok"
      <4>1. CASE c \in Waiting
        <5>1. inbox'[c] = Append(inbox[c], "error")
          BY <1>17, <2>2, <4>1 DEF Publishes, Wakes
        <5>2. i \in 1..(Len(inbox[c]) + 1)
          BY <3>1, <5>1
        <5>3. CASE i \in 1..Len(inbox[c])
          BY <3>1, <5>1, <5>3
        <5>4. CASE i = Len(inbox[c]) + 1
          BY <5>1, <5>4
        <5>. QED BY <5>2, <5>3, <5>4
      <4>2. CASE c \notin Waiting
        BY <1>17, <2>2, <3>1, <4>2 DEF Publishes, Wakes
      <4>. QED BY <4>1, <4>2
    <3>. QED BY <1>17, <2>2, <3>1 DEF Publishes, redis
  <2>. QED BY <1>17, <2>1, <2>2 DEF Publishes
<1>18. CASE Reconnects
  BY <1>18 DEF Reconnects, Fault, fetchVars, redis, ghosts
<1>19. CASE Connects
  BY <1>19 DEF Connects, fetchVars, redis, ghosts
<1>20. CASE AnswerExpires
  BY <1>20 DEF AnswerExpires, fetchVars, redis, ghosts
<1>21. CASE LockExpires
  BY <1>21 DEF LockExpires, Fault, fetchVars, redis, ghosts
<1>22. CASE UNCHANGED fetchVars
  BY <1>22 DEF fetchVars, redis, ghosts
<1>. QED BY <1>1, <1>2, <1>3, <1>4, <1>5, <1>6, <1>7, <1>8, <1>9, <1>10, <1>11,
    <1>12, <1>13, <1>14, <1>15, <1>16, <1>17, <1>18, <1>19, <1>20, <1>21, <1>22
    DEF FetchNext, CallerNext, WorkerNext

\* A caller that leaves, and was not about to ask for a refresh, takes nothing
\* from the others.
LEMMA LeavingAttends ==
  ASSUME FetchTypeOK, NobodyWaitsInVain, NEW c \in Callers, caller[c] # "add",
         Leaves(c), UNCHANGED <<triggers, worker>>
  PROVE  NobodyWaitsInVain'
<1>. SUFFICES ASSUME NEW x \in Callers, caller'[x] = "listen"
              PROVE  \/ inbox'[x] # <<>> \/ Refreshing'
                     \/ worker' \in {"publish", "tell"} \/ x \in astray'
  BY DEF NobodyWaitsInVain
<1>1. x # c /\ caller[x] = "listen" /\ inbox'[x] = inbox[x]
  BY DEF Leaves, At, FetchTypeOK
<1>2. x \in astray => x \in astray'
  BY <1>1 DEF Leaves
<1>3. Adding' = Adding
  BY DEF Leaves, At, Adding, FetchTypeOK
<1>. QED BY <1>1, <1>2, <1>3 DEF NobodyWaitsInVain, Refreshing, InHand

\* Whoever begins to listen has a refresh to wait for, and hears of its end.
LEMMA VainStep ==
  ASSUME FetchTypeOK, LockCounts, AnswerIsThere, NobodyWaitsInVain,
         [FetchNext]_fetchVars
  PROVE  NobodyWaitsInVain'
<1>. USE DEF FetchTypeOK, LockCounts, AnswerIsThere, NobodyWaitsInVain, Refreshing,
    InHand, Adding, Waiting
<1>1. ASSUME NEW c \in Callers, Calls(c) PROVE NobodyWaitsInVain'
  BY <1>1 DEF Calls, At, fetchVars, redis, ghosts
<1>2. ASSUME NEW c \in Callers, Gets(c) PROVE NobodyWaitsInVain'
  BY <1>2 DEF Gets, At, fetchVars, redis, ghosts
<1>3. ASSUME NEW c \in Callers, Subscribes(c) PROVE NobodyWaitsInVain'
  BY <1>3 DEF Subscribes, At, fetchVars, redis, ghosts
<1>4. ASSUME NEW c \in Callers, GetsAgain(c) PROVE NobodyWaitsInVain'
  <2>1. CASE Leaves(c)
    BY <1>4, <2>1, LeavingAttends DEF GetsAgain, redis
  <2>2. CASE ~Leaves(c)
    BY <1>4, <2>2 DEF GetsAgain, At, redis, ghosts
  <2>. QED BY <2>1, <2>2
<1>5. ASSUME NEW c \in Callers, Locks(c) PROVE NobodyWaitsInVain'
  BY <1>5 DEF Locks, At, fetchVars, redis, ghosts
<1>6. ASSUME NEW c \in Callers, Adds(c) PROVE NobodyWaitsInVain'
  BY <1>6 DEF Adds, At, fetchVars, redis, ghosts
<1>7. ASSUME NEW c \in Callers, Listens(c) PROVE NobodyWaitsInVain'
  <2>1. CASE Leaves(c)
    BY <1>7, <2>1, LeavingAttends DEF Listens, redis
  <2>2. CASE ~Leaves(c)
    BY <1>7, <2>2 DEF Listens, At, redis, ghosts
  <2>. QED BY <2>1, <2>2
<1>8. ASSUME NEW c \in Callers, Looks(c) PROVE NobodyWaitsInVain'
  <2>1. CASE Leaves(c)
    BY <1>8, <2>1, LeavingAttends DEF Looks, redis
  <2>2. CASE ~Leaves(c)
    BY <1>8, <2>2 DEF Looks, At, redis, ghosts
  <2>. QED BY <2>1, <2>2
<1>9. ASSUME NEW c \in Callers, TimesOut(c) PROVE NobodyWaitsInVain'
  BY <1>9, LeavingAttends DEF TimesOut, redis
<1>10. ASSUME NEW c \in Callers, Dies(c) PROVE NobodyWaitsInVain'
  <2>1. CASE caller[c] = "add"
    <3>1. \A x \in Callers : caller'[x] = "listen" => x \in astray'
      BY <1>10, <2>1 DEF Dies, At
    <3> QED BY <3>1
  <2>2. CASE caller[c] # "add"
    BY <1>10, <2>2, LeavingAttends DEF Dies, Leaves, redis
  <2> QED BY <2>1, <2>2
<1>11. CASE Boots
  BY <1>11 DEF Boots, fetchVars, redis, ghosts
<1>12. CASE Reads
  BY <1>12 DEF Reads, fetchVars, redis, ghosts
<1>13. CASE Fetches
  BY <1>13 DEF Fetches, Fault, fetchVars, redis, ghosts
<1>14. CASE Caches
  BY <1>14 DEF Caches, fetchVars, redis, ghosts
<1>15. CASE Unlocks
  BY <1>15 DEF Unlocks, Drops, fetchVars, redis, ghosts
<1>16. CASE Fails
  BY <1>16 DEF Fails, Drops, fetchVars, redis, ghosts
<1>17. CASE Publishes
  BY <1>17 DEF Publishes, Wakes, fetchVars, redis, ghosts
<1>18. CASE Reconnects
  BY <1>18 DEF Reconnects, Fault, fetchVars, redis, ghosts
<1>19. CASE Connects
  BY <1>19 DEF Connects, fetchVars, redis, ghosts
<1>20. CASE AnswerExpires
  BY <1>20 DEF AnswerExpires, fetchVars, redis, ghosts
<1>21. CASE LockExpires
  BY <1>21 DEF LockExpires, Fault, fetchVars, redis, ghosts
<1>22. CASE UNCHANGED fetchVars
  BY <1>22 DEF fetchVars, redis, ghosts
<1>. QED BY <1>1, <1>2, <1>3, <1>4, <1>5, <1>6, <1>7, <1>8, <1>9, <1>10, <1>11,
    <1>12, <1>13, <1>14, <1>15, <1>16, <1>17, <1>18, <1>19, <1>20, <1>21, <1>22
    DEF FetchNext, CallerNext, WorkerNext

\* The initial state.
LEMMA FirstState == ASSUME FetchAssumption, FetchInit PROVE FInv
<1>. USE DEF FetchInit
<1>1. FetchTypeOK
  <2>1. inbox \in [Callers -> Seq({"ok", "error"})]
    OBVIOUS
  <2>2. 0 \in 0..MaxFaults
    BY DEF FetchAssumption
  <2>. QED BY <2>1, <2>2 DEF FetchTypeOK
<1>2. ~Refreshing
  BY DEF Refreshing, InHand, Adding
<1>3. LockStands /\ LockCounts
  BY <1>2 DEF LockStands, LockCounts
<1>4. OneRefresh
  BY DEF OneRefresh, InHand, Adding
<1>5. MailIsForSubscribers /\ AnswerIsThere /\ NobodyWaitsInVain
  BY DEF MailIsForSubscribers, AnswerIsThere, NobodyWaitsInVain
<1>. QED BY <1>1, <1>3, <1>4, <1>5 DEF FInv

\* The invariant of the protocol.
LEMMA FetchInvariant == FetchSpec => []FInv
<1>1. FetchInit => FInv
  BY FirstState, FetchAssumption
<1>2. FInv /\ [FetchNext]_fetchVars => FInv'
  BY FetchAssumption, TypeStep, StandsStep, OneStep, CountsStep, MailStep,
     AnswerStep, VainStep DEF FInv
<1>. QED BY <1>1, <1>2, PTL DEF FetchSpec

\* The keys, the stream, the worker and the callers keep their types, for any
\* number of callers.
THEOREM FetchTyped == FetchSpec => []FetchTypeOK
<1>1. FInv => FetchTypeOK
  BY DEF FInv
<1>. QED BY <1>1, FetchInvariant, PTL

\* However callers, the worker, deaths and reconnects interleave, SET NX lets one
\* refresh through at a time, as long as its lock does not lapse.
THEOREM RefreshesCoalesce == FetchSpec => []OneRefresh
<1>1. FInv => OneRefresh
  BY DEF FInv
<1>. QED BY <1>1, FetchInvariant, PTL

\* Dropping the lock before publishing, and subscribing before looking for the
\* lock, leaves no caller without a message to come.
THEOREM ListenersAreAttended == FetchSpec => []NobodyWaitsInVain
<1>1. FInv => NobodyWaitsInVain
  BY DEF FInv
<1>. QED BY <1>1, FetchInvariant, PTL
=============================================================================
