-------------------------- MODULE ControllerProofs --------------------------
(***************************************************************************)
(* The controller, for any nodes, GPUs, models, replica ids and faults: a  *)
(* placement spares what it must, no actor runs unlisted and apply() never *)
(* waits for nothing, the ledgers are exact, the records agree with the    *)
(* actors, and no GPU is overcommitted.                                    *)
(*                                                                         *)
(* None of this is inductive by itself.  IInv says how lists, state,       *)
(* monitors, futures and inboxes go together at every step of a call:      *)
(* what state knows of the listed replicas (Applies), whose messages are   *)
(* on the way (Posted, Awaited, Parks), who is to be launched (Launching)  *)
(* and that whoever is alive is listed or found by build() (Owned).        *)
(*                                                                         *)
(* Exact adds the accounts.  A candidate fits once its victims are gone    *)
(* (Roomy), and a monitor gives back what is booked for its replica now    *)
(* (Current).  The latter is not so if a replica can be parked and         *)
(* promoted to other GPUs before the monitor of its failed deployment has  *)
(* run: that is Prompt.                                                    *)
(*                                                                         *)
(* Faithful adds the actors: where each one's weights are, or will be once *)
(* from_cache() is served (Aim), is where its replica is listed.  A        *)
(* restart brings the weights back to the GPUs of the creation: where the  *)
(* actor had left them, it is astray, and counts as one that holds nothing *)
(* until a call moves it (Where).                                          *)
(*                                                                         *)
(* The sums over replicas are recursive functions; what is needed of them  *)
(* is proved first, by an induction over finite sets of its own.           *)
(***************************************************************************)
EXTENDS Controller, FiniteSetTheorems, WellFoundedInduction, TLAPS


-----------------------------------------------------------------------------
(* Induction, for sets of numbers and of finite sets *)

\* A set with 0 and every successor has every number.
LEMMA NumbersInduct ==
    ASSUME NEW G, 0 \in G, \A n \in Nat : n \in G => n + 1 \in G
    PROVE  \A n \in Nat : n \in G
<1> SUFFICES ASSUME Nat \ G # {} PROVE FALSE
  OBVIOUS
<1>1. PICK x \in Nat \ G : \A y \in Nat \ G : ~(<<y, x>> \in OpToRel(<, Nat))
  BY WFMin, NatLessThanWellFounded
<1>2. \A y \in Nat \ G : ~(y < x)
  BY <1>1 DEF OpToRel
<1>3. x \in Nat /\ x \notin G
  BY <1>1
<1>4. x # 0
  BY <1>3
<1>5. x - 1 \in Nat /\ x - 1 < x /\ x - 1 + 1 = x
  BY <1>3, <1>4
<1>6. x - 1 \in G
  BY <1>2, <1>5
<1> QED BY <1>3, <1>5, <1>6

\* A set of numbers that is not empty has a least one.
LEMMA LeastNumber ==
    ASSUME NEW S, S \subseteq Nat, S # {}
    PROVE  \E x \in S : \A y \in S : x <= y
<1>1. PICK x \in S : \A y \in S : ~(<<y, x>> \in OpToRel(<, Nat))
  BY WFMin, NatLessThanWellFounded
<1>2. \A y \in S : ~(y < x)
  BY <1>1 DEF OpToRel
<1>3. \A y \in S : x \in Nat /\ y \in Nat
  BY <1>1
<1>4. \A y \in S : x <= y
  BY <1>2, <1>3
<1> QED BY <1>1, <1>4

\* A set without one of its elements.
LEMMA OneFewer ==
    ASSUME NEW S, IsFiniteSet(S), NEW n \in Nat, Cardinality(S) = n + 1, NEW x \in S
    PROVE  Cardinality(S \ {x}) = n
<1>1. Cardinality(S \ {x}) = Cardinality(S) - 1
  BY FS_RemoveElement
<1> QED BY <1>1

\* What holds of the empty set and is kept by adding an element holds of every
\* finite set.
LEMMA SubsetsInduct ==
    ASSUME NEW S, IsFiniteSet(S), NEW G, {} \in G,
           \A T \in SUBSET S, x \in S : T \in G /\ x \notin T => T \cup {x} \in G
    PROVE  S \in G
<1> DEFINE N == {n \in Nat : \A T \in SUBSET S : Cardinality(T) = n => T \in G}
<1>1. \A T \in SUBSET S : IsFiniteSet(T) /\ Cardinality(T) \in Nat
  BY FS_Subset, FS_CardinalityType
<1>2. 0 \in N
  BY <1>1, FS_EmptySet
<1>3. ASSUME NEW n \in Nat, n \in N PROVE n + 1 \in N
  <2> SUFFICES ASSUME NEW T \in SUBSET S, Cardinality(T) = n + 1 PROVE T \in G
    OBVIOUS
  <2>1. IsFiniteSet(T) /\ Cardinality(T) \in Nat /\ n + 1 # 0
    BY <1>1, <1>3
  <2>2. T # {}
    BY <2>1, FS_EmptySet
  <2>3. PICK x \in T : TRUE
    BY <2>2
  <2>4. Cardinality(T \ {x}) = n
    BY <1>3, <2>1, <2>3, OneFewer
  <2>5. T \ {x} \in G
    BY <1>3, <2>4
  <2>6. T = (T \ {x}) \cup {x}
    BY <2>3
  <2> QED BY <2>3, <2>5, <2>6
<1>4. \A n \in Nat : n \in N
  <2> HIDE DEF N
  <2> QED BY <1>2, <1>3, NumbersInduct
<1>5. Cardinality(S) \in Nat
  BY FS_CardinalityType
<1> QED BY <1>4, <1>5

-----------------------------------------------------------------------------
(* Sums *)

\* What MapThenSumSet is, with the weights as a function.
SumBody(w, iter, s) ==
    IF s = {} THEN 0
    ELSE w[CHOOSE x \in s : TRUE] + iter[s \ {CHOOSE x \in s : TRUE}]
IsSum(w, S, f) == f = [s \in SUBSET S |-> SumBody(w, f, s)]
Sum(w, S) == (CHOOSE f : IsSum(w, S, f))[S]

Weighs(w, S) == IsFiniteSet(S) /\ \A x \in S : w[x] \in Nat

\* The recursion has a solution on a finite set.
LEMMA SumExists ==
    ASSUME NEW w, NEW S, IsFiniteSet(S)
    PROVE  \E f : IsSum(w, S, f)
<1> DEFINE Upto(n) == {s \in SUBSET S : Cardinality(s) <= n}
           N == {n \in Nat : \E f : /\ f = [s \in SUBSET S |-> f[s]]
                                    /\ \A s \in Upto(n) : f[s] = SumBody(w, f, s)}
<1>1. \A s \in SUBSET S : IsFiniteSet(s) /\ Cardinality(s) \in Nat
  BY FS_Subset, FS_CardinalityType
<1>2. 0 \in N
  <2> DEFINE f == [s \in SUBSET S |-> 0]
  <2>1. ASSUME NEW s \in Upto(0) PROVE f[s] = SumBody(w, f, s)
    <3>1. s = {}
      BY <1>1, FS_EmptySet
    <3> QED BY <3>1 DEF SumBody
  <2>2. f = [s \in SUBSET S |-> f[s]]
    OBVIOUS
  <2> HIDE DEF f, Upto
  <2> QED BY <2>1, <2>2
<1>3. ASSUME NEW n \in Nat, n \in N PROVE n + 1 \in N
  <2>1. PICK f : \A s \in Upto(n) : f[s] = SumBody(w, f, s)
    BY <1>3
  <2> DEFINE g == [s \in SUBSET S |-> SumBody(w, f, s)]
  <2>2. ASSUME NEW s \in Upto(n + 1) PROVE g[s] = SumBody(w, g, s)
    <3>1. CASE s = {}
      BY <3>1 DEF SumBody
    <3>2. CASE s # {}
      <4> DEFINE x == CHOOSE x \in s : TRUE
      <4>1. x \in s
        BY <3>2
      <4> HIDE DEF x
      <4>2. Cardinality(s \ {x}) <= n /\ s \ {x} \in SUBSET S
        BY <1>1, <4>1, FS_RemoveElement
      <4>3. g[s \ {x}] = f[s \ {x}]
        BY <2>1, <4>2
      <4>4. g[s] = SumBody(w, f, s)
        OBVIOUS
      <4> HIDE DEF g
      <4> QED BY <3>2, <4>3, <4>4 DEF SumBody, x
    <3> QED BY <3>1, <3>2
  <2>3. g = [s \in SUBSET S |-> g[s]]
    OBVIOUS
  <2>4. n + 1 \in Nat
    BY <1>3
  <2> HIDE DEF g, Upto
  <2> QED BY <2>2, <2>3, <2>4
<1>4. \A n \in Nat : n \in N
  <2> HIDE DEF N
  <2> QED BY <1>2, <1>3, NumbersInduct
<1>5. Cardinality(S) \in Nat
  BY <1>1
<1>6. PICK f : /\ f = [s \in SUBSET S |-> f[s]]
               /\ \A s \in Upto(Cardinality(S)) : f[s] = SumBody(w, f, s)
  <2> HIDE DEF Upto
  <2> QED BY <1>4, <1>5
<1>7. \A s \in SUBSET S : s \in Upto(Cardinality(S))
  BY <1>1, FS_Subset
<1>8. f = [s \in SUBSET S |-> SumBody(w, f, s)]
  <2> HIDE DEF Upto
  <2>1. \A s \in SUBSET S : f[s] = SumBody(w, f, s)
    BY <1>6, <1>7
  <2>2. [s \in SUBSET S |-> f[s]] = [s \in SUBSET S |-> SumBody(w, f, s)]
    BY <2>1
  <2> QED BY <1>6, <2>2
<1> QED BY <1>8 DEF IsSum

\* Two solutions agree where their weights do.
LEMMA SumsAgree ==
    ASSUME NEW v, NEW w, NEW S, NEW T, NEW f, NEW g, IsSum(v, S, f), IsSum(w, T, g),
           NEW U, IsFiniteSet(U), U \subseteq S, U \subseteq T,
           \A x \in U : v[x] = w[x]
    PROVE  f[U] = g[U]
<1> DEFINE N == {n \in Nat : \A s \in SUBSET U : Cardinality(s) = n => f[s] = g[s]}
<1>1. \A s \in SUBSET U : IsFiniteSet(s) /\ Cardinality(s) \in Nat
  BY FS_Subset, FS_CardinalityType
<1>2. \A s \in SUBSET U : f[s] = SumBody(v, f, s) /\ g[s] = SumBody(w, g, s)
  BY DEF IsSum
<1>3. 0 \in N
  <2> SUFFICES ASSUME NEW s \in SUBSET U, Cardinality(s) = 0 PROVE f[s] = g[s]
    OBVIOUS
  <2>1. s = {}
    BY <1>1, FS_EmptySet
  <2> QED BY <1>2, <2>1 DEF SumBody
<1>4. ASSUME NEW n \in Nat, n \in N PROVE n + 1 \in N
  <2> SUFFICES ASSUME NEW s \in SUBSET U, Cardinality(s) = n + 1 PROVE f[s] = g[s]
    OBVIOUS
  <2> DEFINE x == CHOOSE x \in s : TRUE
  <2>1. IsFiniteSet(s) /\ Cardinality(s) \in Nat
    BY <1>1
  <2>2. s # {} /\ x \in s
    BY <2>1, FS_EmptySet
  <2> HIDE DEF x
  <2>3. Cardinality(s \ {x}) = n /\ s \ {x} \in SUBSET U
    BY <1>4, <2>1, <2>2, OneFewer
  <2>4. f[s \ {x}] = g[s \ {x}] /\ v[x] = w[x]
    BY <1>4, <2>2, <2>3
  <2>5. f[s] = v[x] + f[s \ {x}] /\ g[s] = w[x] + g[s \ {x}]
    BY <1>2, <2>2 DEF SumBody, x
  <2> QED BY <2>4, <2>5
<1>5. \A n \in Nat : n \in N
  <2> HIDE DEF N
  <2> QED BY <1>3, <1>4, NumbersInduct
<1> QED BY <1>1, <1>5

\* A sum depends on the weights of its elements only.
LEMMA SumCong ==
    ASSUME NEW v, NEW w, NEW S, IsFiniteSet(S), \A x \in S : v[x] = w[x]
    PROVE  Sum(v, S) = Sum(w, S)
<1>1. /\ IsSum(v, S, CHOOSE h : IsSum(v, S, h))
      /\ IsSum(w, S, CHOOSE h : IsSum(w, S, h))
  BY SumExists, Zenon
<1> DEFINE f == CHOOSE h : IsSum(v, S, h)
           g == CHOOSE h : IsSum(w, S, h)
<1>2. Sum(v, S) = f[S] /\ Sum(w, S) = g[S]
  BY DEF Sum
<1> HIDE DEF f, g
<1>3. f[S] = g[S]
  BY <1>1, SumsAgree DEF f, g
<1> QED BY <1>2, <1>3

\* Nothing weighs nothing.
LEMMA SumEmpty == \A w : Sum(w, {}) = 0
<1> TAKE w
<1> DEFINE f == CHOOSE h : IsSum(w, {}, h)
<1>1. IsSum(w, {}, f)
  BY SumExists, FS_EmptySet, Zenon
<1> HIDE DEF f
<1>2. f[{}] = 0
  BY <1>1 DEF IsSum, SumBody
<1> QED BY <1>2 DEF Sum, f

\* One step of the recursion.
LEMMA SumStep ==
    ASSUME NEW w, NEW S, IsFiniteSet(S), S # {}
    PROVE  \E x \in S : Sum(w, S) = w[x] + Sum(w, S \ {x})
<1> DEFINE x == CHOOSE x \in S : TRUE
           f == CHOOSE h : IsSum(w, S, h)
           g == CHOOSE h : IsSum(w, S \ {x}, h)
<1>1. x \in S
  OBVIOUS
<1>2. IsFiniteSet(S \ {x})
  BY FS_Subset
<1>3. IsSum(w, S, f) /\ IsSum(w, S \ {x}, g)
  BY <1>2, SumExists, Zenon
<1>4. f[S] = w[x] + f[S \ {x}]
  <2> HIDE DEF f
  <2>1. f[S] = SumBody(w, f, S)
    BY <1>3 DEF IsSum
  <2> QED BY <2>1 DEF SumBody
<1>5. f[S \ {x}] = g[S \ {x}]
  <2> HIDE DEF f, g, x
  <2> QED BY <1>2, <1>3, SumsAgree
<1>6. Sum(w, S) = f[S] /\ Sum(w, S \ {x}) = g[S \ {x}]
  BY DEF Sum
<1> HIDE DEF f, g, x
<1> QED BY <1>1, <1>4, <1>5, <1>6

\* A sum of numbers is a number.
LEMMA SumNat ==
    ASSUME NEW w, NEW S, Weighs(w, S)
    PROVE  Sum(w, S) \in Nat
<1> DEFINE N == {n \in Nat : \A s \in SUBSET S : Cardinality(s) = n => Sum(w, s) \in Nat}
<1>1. \A s \in SUBSET S : IsFiniteSet(s) /\ Cardinality(s) \in Nat
  BY FS_Subset, FS_CardinalityType DEF Weighs
<1>2. 0 \in N
  <2> SUFFICES ASSUME NEW s \in SUBSET S, Cardinality(s) = 0 PROVE Sum(w, s) \in Nat
    OBVIOUS
  <2>1. s = {}
    BY <1>1, FS_EmptySet
  <2> QED BY <2>1, SumEmpty
<1>3. ASSUME NEW n \in Nat, n \in N PROVE n + 1 \in N
  <2> SUFFICES ASSUME NEW s \in SUBSET S, Cardinality(s) = n + 1
               PROVE  Sum(w, s) \in Nat
    OBVIOUS
  <2>1. s # {} /\ IsFiniteSet(s)
    BY <1>1, FS_EmptySet
  <2>2. PICK x \in s : Sum(w, s) = w[x] + Sum(w, s \ {x})
    BY <2>1, SumStep
  <2>3. Cardinality(s \ {x}) = n /\ s \ {x} \in SUBSET S
    BY <2>1, FS_RemoveElement
  <2>4. Sum(w, s \ {x}) \in Nat /\ w[x] \in Nat
    BY <1>3, <2>3 DEF Weighs
  <2> QED BY <2>2, <2>4
<1>4. \A n \in Nat : n \in N
  <2> HIDE DEF N
  <2> QED BY <1>2, <1>3, NumbersInduct
<1> QED BY <1>1, <1>4

\* Any element may be taken out first.
LEMMA SumRemove ==
    ASSUME NEW w, NEW S, Weighs(w, S), NEW x \in S
    PROVE  Sum(w, S) = w[x] + Sum(w, S \ {x})
<1> DEFINE N == {n \in Nat : \A s \in SUBSET S : Cardinality(s) = n =>
                    \A y \in s : Sum(w, s) = w[y] + Sum(w, s \ {y})}
<1>1. \A s \in SUBSET S : /\ IsFiniteSet(s) /\ Cardinality(s) \in Nat
                          /\ Sum(w, s) \in Nat
  <2> SUFFICES ASSUME NEW s \in SUBSET S
               PROVE  IsFiniteSet(s) /\ Cardinality(s) \in Nat /\ Sum(w, s) \in Nat
    OBVIOUS
  <2>1. IsFiniteSet(s)
    BY FS_Subset DEF Weighs
  <2> QED BY <2>1, FS_CardinalityType, SumNat DEF Weighs
<1>2. 0 \in N
  BY <1>1, FS_EmptySet
<1>3. ASSUME NEW n \in Nat, n \in N PROVE n + 1 \in N
  <2> SUFFICES ASSUME NEW s \in SUBSET S, Cardinality(s) = n + 1, NEW y \in s
               PROVE  Sum(w, s) = w[y] + Sum(w, s \ {y})
    OBVIOUS
  <2>1. s # {} /\ IsFiniteSet(s)
    BY <1>1
  <2>2. PICK z \in s : Sum(w, s) = w[z] + Sum(w, s \ {z})
    BY <2>1, SumStep
  <2>3. CASE z = y
    BY <2>2, <2>3
  <2>4. CASE z # y
    <3>1. /\ Cardinality(s \ {z}) = n /\ s \ {z} \in SUBSET S
          /\ Cardinality(s \ {y}) = n /\ s \ {y} \in SUBSET S
      BY <2>1, FS_RemoveElement
    <3>2. Sum(w, s \ {z}) = w[y] + Sum(w, (s \ {z}) \ {y})
      BY <1>3, <2>4, <3>1
    <3>3. Sum(w, s \ {y}) = w[z] + Sum(w, (s \ {y}) \ {z})
      BY <1>3, <2>4, <3>1
    <3>4. (s \ {z}) \ {y} = (s \ {y}) \ {z} /\ (s \ {y}) \ {z} \in SUBSET S
      BY <3>1
    <3>5. w[z] \in Nat /\ w[y] \in Nat /\ Sum(w, (s \ {y}) \ {z}) \in Nat
      BY <1>1, <3>4 DEF Weighs
    <3> DEFINE rest == Sum(w, (s \ {y}) \ {z})
    <3>6. Sum(w, s) = w[z] + (w[y] + rest) /\ Sum(w, s \ {y}) = w[z] + rest
      BY <2>2, <3>2, <3>3, <3>4
    <3>7. rest \in Nat
      BY <3>5
    <3> HIDE DEF rest
    <3> QED BY <3>5, <3>6, <3>7
  <2> QED BY <2>3, <2>4
<1>4. \A n \in Nat : n \in N
  <2> HIDE DEF N
  <2> QED BY <1>2, <1>3, NumbersInduct
<1> QED BY <1>1, <1>4

\* Adding an element adds its weight.
LEMMA SumAdd ==
    ASSUME NEW w, NEW S, Weighs(w, S), NEW x, x \notin S, w[x] \in Nat
    PROVE  Sum(w, S \cup {x}) = w[x] + Sum(w, S)
<1>1. Weighs(w, S \cup {x})
  BY FS_AddElement DEF Weighs
<1>2. (S \cup {x}) \ {x} = S
  OBVIOUS
<1> QED BY <1>1, <1>2, SumRemove

\* A part and the rest make up the whole.
LEMMA SumSplit ==
    ASSUME NEW w, NEW S, Weighs(w, S), NEW T \in SUBSET S
    PROVE  Sum(w, S) = Sum(w, T) + Sum(w, S \ T)
<1> DEFINE G == {U \in SUBSET T : Sum(w, S) = Sum(w, U) + Sum(w, S \ U)}
<1>1. \A U \in SUBSET S : Weighs(w, U) /\ Sum(w, U) \in Nat
  <2>1. \A U \in SUBSET S : Weighs(w, U)
    BY FS_Subset DEF Weighs
  <2> QED BY <2>1, SumNat
<1>2. {} \in G
  <2>1. S \ {} = S /\ Sum(w, S) \in Nat
    BY <1>1
  <2> QED BY <2>1, SumEmpty
<1>3. ASSUME NEW U \in SUBSET T, NEW x \in T, U \in G, x \notin U
      PROVE  U \cup {x} \in G
  <2>1. Sum(w, U \cup {x}) = w[x] + Sum(w, U)
    BY <1>1, <1>3, SumAdd DEF Weighs
  <2>2. Sum(w, S \ U) = w[x] + Sum(w, (S \ U) \ {x})
    BY <1>1, <1>3, SumRemove
  <2>3. (S \ U) \ {x} = S \ (U \cup {x})
    OBVIOUS
  <2>4. w[x] \in Nat /\ Sum(w, U) \in Nat /\ Sum(w, S \ (U \cup {x})) \in Nat
    BY <1>1 DEF Weighs
  <2>5. \A a, b, c \in Nat : a + (b + c) = (b + a) + c
    OBVIOUS
  <2>6. Sum(w, S) = Sum(w, U) + (w[x] + Sum(w, S \ (U \cup {x})))
    BY <1>3, <2>2, <2>3
  <2> QED BY <1>3, <2>1, <2>4, <2>5, <2>6
<1>4. IsFiniteSet(T)
  BY FS_Subset DEF Weighs
<1>5. T \in G
  <2> HIDE DEF G
  <2> QED BY <1>2, <1>3, <1>4, SubsetsInduct
<1> QED BY <1>5

\* A part weighs no more than the whole, nor does one element.
LEMMA SumPart ==
    ASSUME NEW w, NEW S, Weighs(w, S), NEW T \in SUBSET S
    PROVE  Sum(w, T) <= Sum(w, S)
<1>1. Weighs(w, T) /\ Weighs(w, S \ T)
  BY FS_Subset DEF Weighs
<1>2. Sum(w, T) \in Nat /\ Sum(w, S \ T) \in Nat
  BY <1>1, SumNat
<1> QED BY <1>2, SumSplit

-----------------------------------------------------------------------------
(* The sums of the model *)

shares == [d \in Deployments |-> d.share]
bytes == [d \in Deployments |-> d.size]

\* The sum of a choice's weights.
LEMMA WeightSum ==
    ASSUME NEW w, NEW S
    PROVE  MapThenSumSet(LAMBDA x : w[x], S) = Sum(w, S)
<1>1. \A f : [s \in SUBSET S |-> (IF s = {} THEN 0 ELSE
                  LET x == CHOOSE x \in s : TRUE IN w[x] + f[s \ {x}])]
             = [s \in SUBSET S |-> SumBody(w, f, s)]
  BY DEF SumBody
<1>2. (CHOOSE f : f = [s \in SUBSET S |-> (IF s = {} THEN 0 ELSE
                  LET x == CHOOSE x \in s : TRUE IN w[x] + f[s \ {x}])])
      = CHOOSE f : IsSum(w, S, f)
  BY <1>1, Zenon DEF IsSum
<1>3. MapThenSumSet(LAMBDA x : w[x], S)
      = (CHOOSE f : f = [s \in SUBSET S |-> (IF s = {} THEN 0 ELSE
            LET x == CHOOSE x \in s : TRUE IN w[x] + f[s \ {x}])])[S]
  BY Zenon DEF MapThenSumSet, MapThenFoldSet
<1> QED BY <1>2, <1>3 DEF Sum

\* The sum of the shares of replicas.
LEMMA SharesSum ==
    ASSUME NEW S, S \subseteq Deployments, IsFiniteSet(S)
    PROVE  MapThenSumSet(Share, S) = Sum(shares, S)
<1> DEFINE w == [d \in S |-> d.share]
<1>1. \A s \in SUBSET S : \A f :
         (IF s = {} THEN 0 ELSE
             LET x == CHOOSE x \in s : TRUE IN Share(x) + f[s \ {x}])
         = SumBody(w, f, s)
  BY DEF SumBody, Share
<1> HIDE DEF w
<1>2. \A f : [s \in SUBSET S |-> (IF s = {} THEN 0 ELSE
                  LET x == CHOOSE x \in s : TRUE IN Share(x) + f[s \ {x}])]
             = [s \in SUBSET S |-> SumBody(w, f, s)]
  BY <1>1
<1>3. (CHOOSE f : f = [s \in SUBSET S |-> (IF s = {} THEN 0 ELSE
                  LET x == CHOOSE x \in s : TRUE IN Share(x) + f[s \ {x}])])
      = CHOOSE f : IsSum(w, S, f)
  BY <1>2, Zenon DEF IsSum
<1>4. MapThenSumSet(Share, S)
      = (CHOOSE f : f = [s \in SUBSET S |-> (IF s = {} THEN 0 ELSE
            LET x == CHOOSE x \in s : TRUE IN Share(x) + f[s \ {x}])])[S]
  BY Zenon DEF MapThenSumSet, MapThenFoldSet
<1>5. MapThenSumSet(Share, S) = Sum(w, S)
  BY <1>3, <1>4 DEF Sum
<1>6. \A d \in S : w[d] = shares[d]
  BY DEF w, shares
<1> QED BY <1>5, <1>6, SumCong

\* The sum of the sizes of replicas.
LEMMA BytesSum ==
    ASSUME NEW S, S \subseteq Deployments, IsFiniteSet(S)
    PROVE  MapThenSumSet(Bytes, S) = Sum(bytes, S)
<1> DEFINE w == [d \in S |-> d.size]
<1>1. \A s \in SUBSET S : \A f :
         (IF s = {} THEN 0 ELSE
             LET x == CHOOSE x \in s : TRUE IN Bytes(x) + f[s \ {x}])
         = SumBody(w, f, s)
  BY DEF SumBody, Bytes
<1> HIDE DEF w
<1>2. \A f : [s \in SUBSET S |-> (IF s = {} THEN 0 ELSE
                  LET x == CHOOSE x \in s : TRUE IN Bytes(x) + f[s \ {x}])]
             = [s \in SUBSET S |-> SumBody(w, f, s)]
  BY <1>1
<1>3. (CHOOSE f : f = [s \in SUBSET S |-> (IF s = {} THEN 0 ELSE
                  LET x == CHOOSE x \in s : TRUE IN Bytes(x) + f[s \ {x}])])
      = CHOOSE f : IsSum(w, S, f)
  BY <1>2, Zenon DEF IsSum
<1>4. MapThenSumSet(Bytes, S)
      = (CHOOSE f : f = [s \in SUBSET S |-> (IF s = {} THEN 0 ELSE
            LET x == CHOOSE x \in s : TRUE IN Bytes(x) + f[s \ {x}])])[S]
  BY Zenon DEF MapThenSumSet, MapThenFoldSet
<1>5. MapThenSumSet(Bytes, S) = Sum(w, S)
  BY <1>3, <1>4 DEF Sum
<1>6. \A d \in S : w[d] = bytes[d]
  BY DEF w, bytes
<1> QED BY <1>5, <1>6, SumCong

\* Replicas weigh what sums need.
LEMMA ReplicasWeigh ==
    ASSUME NEW S, S \subseteq Deployments, IsFiniteSet(S)
    PROVE  /\ Weighs(shares, S) /\ Weighs(bytes, S)
           /\ Sum(shares, S) \in Nat /\ Sum(bytes, S) \in Nat
           /\ \A d \in S : shares[d] = d.share /\ bytes[d] = d.size
<1>1. Weighs(shares, S) /\ Weighs(bytes, S)
  BY DEF Weighs, shares, bytes, Deployments
<1> QED BY <1>1, SumNat DEF shares, bytes

-----------------------------------------------------------------------------
(* Choosing *)

\* What is chosen meets the need.
LEMMA GreedyMeets ==
    ASSUME NEW S, NEW w, Weighs(w, S), NEW need \in Int, NEW T \in Greedy(S, need, w)
    PROVE  T \subseteq S /\ need <= Sum(w, T)
<1>1. CASE need <= 0
  <2>1. T = {}
    BY <1>1 DEF Greedy
  <2> QED BY <1>1, <2>1, SumEmpty
<1>2. CASE ~(need <= 0)
  <2>1. T \subseteq S /\ MapThenSumSet(LAMBDA x : w[x], T) >= need
    BY <1>2 DEF Greedy
  <2>2. Sum(w, T) >= need
    BY <2>1, WeightSum
  <2>3. Sum(w, T) \in Nat
    <3>1. Weighs(w, T)
      BY <2>1, FS_Subset DEF Weighs
    <3> QED BY <3>1, SumNat
  <2> QED BY <2>1, <2>2, <2>3
<1> QED BY <1>1, <1>2

\* g comes before h.
Precedes(key, g, h) == key[g] < key[h] \/ (key[g] = key[h] /\ g < h)

\* Of some GPUs one comes first.
LEMMA SomeGpuIsFirst ==
    ASSUME NEW S, S \subseteq Nat, S # {}, NEW key, \A g \in S : key[g] \in Nat
    PROVE  \E g \in S : \A h \in S \ {g} : Precedes(key, g, h)
<1> DEFINE keys == {key[g] : g \in S}
<1>1. PICK k \in keys : \A l \in keys : k <= l
  <2>1. keys \subseteq Nat /\ keys # {}
    OBVIOUS
  <2> HIDE DEF keys
  <2> QED BY <2>1, LeastNumber
<1> DEFINE firsts == {g \in S : key[g] = k}
<1>2. PICK g \in firsts : \A h \in firsts : g <= h
  <2>1. firsts \subseteq Nat /\ firsts # {}
    OBVIOUS
  <2> HIDE DEF firsts
  <2> QED BY <2>1, LeastNumber
<1>3. g \in S /\ key[g] = k
  OBVIOUS
<1>4. ASSUME NEW h \in S \ {g} PROVE Precedes(key, g, h)
  <2>1. k <= key[h] /\ k \in Nat /\ key[h] \in Nat
    BY <1>1
  <2>2. key[h] = k => g <= h
    BY <1>2
  <2>3. g \in Nat /\ h \in Nat /\ g # h
    BY <1>3
  <2> QED BY <1>3, <2>1, <2>2, <2>3 DEF Precedes
<1> QED BY <1>3, <1>4

\* There are k first GPUs among that many.
LEMMA FirstOnesExist ==
    ASSUME NEW S, S \subseteq Nat, IsFiniteSet(S),
           NEW key, \A g \in S : key[g] \in Nat
    PROVE  \A k \in Nat : k <= Cardinality(S) =>
              \E H \in SUBSET S : /\ Cardinality(H) = k
                                  /\ \A g \in H, h \in S \ H : Precedes(key, g, h)
<1> DEFINE Firsts(H, n) == /\ Cardinality(H) = n
                           /\ \A g \in H, h \in S \ H : Precedes(key, g, h)
           N == {n \in Nat : n <= Cardinality(S) => \E H \in SUBSET S : Firsts(H, n)}
<1>1. Cardinality(S) \in Nat
  BY FS_CardinalityType
<1>2. 0 \in N
  <2>1. Firsts({}, 0)
    BY FS_EmptySet
  <2> QED BY <2>1
<1>3. ASSUME NEW n \in Nat, n \in N PROVE n + 1 \in N
  <2> SUFFICES ASSUME n + 1 <= Cardinality(S)
               PROVE  \E H \in SUBSET S : Firsts(H, n + 1)
    BY <1>3
  <2>1. PICK H \in SUBSET S : Firsts(H, n)
    BY <1>1, <1>3
  <2>2. IsFiniteSet(H) /\ H # S
    <3>1. Cardinality(H) = n /\ n \in Nat
      BY <1>3, <2>1
    <3>2. Cardinality(H) # Cardinality(S)
      BY <1>1, <3>1
    <3> QED BY <3>2, FS_Subset
  <2>3. PICK g \in S \ H : \A h \in (S \ H) \ {g} : Precedes(key, g, h)
    <3>1. S \ H # {} /\ S \ H \subseteq Nat /\ \A h \in S \ H : key[h] \in Nat
      BY <2>2
    <3> QED BY <3>1, SomeGpuIsFirst
  <2>4. Cardinality(H \cup {g}) = n + 1
    BY <2>1, <2>2, <2>3, FS_AddElement
  <2>5. \A x \in H \cup {g}, h \in S \ (H \cup {g}) : Precedes(key, x, h)
    BY <2>1, <2>3
  <2>6. H \cup {g} \in SUBSET S
    BY <2>3
  <2> QED BY <2>4, <2>5, <2>6
<1>4. \A n \in Nat : n \in N
  <2> HIDE DEF N
  <2> QED BY <1>2, <1>3, NumbersInduct
<1> QED BY <1>4

\* The choice of them is one.
LEMMA FirstAreChosen ==
    ASSUME NEW S, S \subseteq Nat, IsFiniteSet(S),
           NEW key, \A g \in S : key[g] \in Nat,
           NEW k \in Nat, k <= Cardinality(S)
    PROVE  FirstGpus(k, S, key) \subseteq S
<1>1. PICK H \in SUBSET S : /\ Cardinality(H) = k
                            /\ \A g \in H, h \in S \ H : Precedes(key, g, h)
  BY FirstOnesExist
<1> DEFINE Ok(F) == \A g \in F, h \in S \ F :
                       key[g] < key[h] \/ (key[g] = key[h] /\ g < h)
<1>2. H \in kSubset(k, S) /\ Ok(H)
  BY <1>1 DEF kSubset, Precedes
<1>3. FirstGpus(k, S, key) = CHOOSE F \in kSubset(k, S) : Ok(F)
  BY DEF FirstGpus
<1> HIDE DEF Ok
<1>4. FirstGpus(k, S, key) \in kSubset(k, S)
  BY <1>2, <1>3
<1> QED BY <1>4 DEF kSubset

\* So the first GPUs are GPUs.
LEMMA FirstAreGpus ==
    ASSUME NEW S, S \subseteq Gpus, NEW key, \A g \in S : key[g] \in Nat,
           NEW k \in Nat, k <= Cardinality(S)
    PROVE  FirstGpus(k, S, key) \subseteq S
<1>1. S \subseteq Nat /\ IsFiniteSet(S)
  BY NodeAssumption, FS_Subset
<1> QED BY <1>1, FirstAreChosen

-----------------------------------------------------------------------------
(* How many GPUs *)

\* Rounding up.
LEMMA CeilDivTyped ==
    ASSUME NEW a \in Nat \ {0}, NEW b \in Nat \ {0}
    PROVE  CeilDiv(a, b) \in Nat \ {0}
<1>1. a + b - 1 \in Nat /\ a + b - 1 >= b
  OBVIOUS
<1>2. (a + b - 1) \div b \in Int
  BY <1>1
<1>3. /\ a + b - 1 = b * ((a + b - 1) \div b) + ((a + b - 1) % b)
      /\ (a + b - 1) % b \in 0..(b - 1)
  BY <1>1
<1>4. ASSUME (a + b - 1) \div b <= 0 PROVE FALSE
  <2>1. b * ((a + b - 1) \div b) <= 0
    BY <1>2, <1>4
  <2> QED BY <1>1, <1>2, <1>3, <2>1
<1> QED BY <1>2, <1>4 DEF CeilDiv

\* A degree is a number of GPUs.
LEMMA TpDegreeTyped ==
    ASSUME NEW limit \in Nat, NEW k \in Nat
    PROVE  TpDegree(limit, k) \in Nat
<1> DEFINE degrees == {d \in k..limit : limit % d = 0}
<1>1. CASE limit = 0 \/ k < 2 \/ degrees = {}
  BY <1>1 DEF TpDegree
<1>2. CASE ~(limit = 0 \/ k < 2 \/ degrees = {})
  <2>1. TpDegree(limit, k) = Min(degrees)
    BY <1>2 DEF TpDegree
  <2>2. degrees \subseteq Nat /\ degrees # {}
    BY <1>2
  <2> HIDE DEF degrees
  <2>3. Min(degrees) \in degrees
    BY <2>2, LeastNumber DEF Min
  <2> QED BY <2>1, <2>2, <2>3
<1> QED BY <1>1, <1>2

\* A replica takes at least one GPU.
LEMMA GpusNeededTyped ==
    ASSUME NEW cfg \in Configs
    PROVE  GpusNeeded(cfg) \in Nat \ {0}
<1>1. /\ cfg.size \in Nat \ {0} /\ cfg.gpus \in Nat /\ GpuMem \in Nat \ {0}
      /\ MaxTp[cfg.model] \in Nat
  BY NodeAssumption DEF Configs
<1>2. CeilDiv(cfg.size, GpuMem) \in Nat \ {0}
  BY <1>1, CeilDivTyped
<1>3. TpDegree(MaxTp[cfg.model], CeilDiv(cfg.size, GpuMem)) \in Nat
  BY <1>1, <1>2, TpDegreeTyped
<1> QED BY <1>1, <1>2, <1>3 DEF GpusNeeded

-----------------------------------------------------------------------------
(* Types *)

LedgerTyped ==
    /\ up \subseteq Nodes
    /\ avail \in [Nodes -> [Gpus -> Int]] /\ cpu \in [Nodes -> Int]
    /\ hot \subseteq Deployments /\ IsFiniteSet(hot)
    /\ warm \subseteq Deployments /\ IsFiniteSet(warm)
    /\ young \subseteq Rids

Pcs == {"idle", "place", "room", "drain", "apply", "cache", "launch"}

Cands == [node : Nodes, level : 1..4, gpus : SUBSET Gpus, share : Nat,
          victims : SUBSET Deployments, cfg : Configs]

Launches == [dep : Deployments, op : {"create", "from_cache"}]

CallRecs == [pc : Pcs, names : SUBSET Models, todo : Seq(Configs),
             cand : Cands \cup {None}, work : SUBSET Rids,
             launch : SUBSET Launches, change : BOOLEAN]

\* A placement that makes room has its candidate.
CallTyped ==
    /\ call \in CallRecs
    /\ call.pc = "room" => call.cand \in Cands

Watches == [dep : Deployments, op : {"create", "from_cache"},
            fut : {"pending", "ok", "failed"}]

Holdings == [gpus : SUBSET Gpus, share : Nat]

Messages == [op : {"to_cache", "from_cache"}, at : Holdings,
             mon : Mons \cup {None}]

ActorRecs == [life : {"none", "gone", "lost", "loading", "up"},
              node : Nodes \cup {None}, at : Holdings, born : Holdings,
              size : Nat, inbox : Seq(Messages), astray : BOOLEAN]

ActorsTyped ==
    /\ state \in [Rids -> {"none", "HOT", "WARM"}]
    /\ mon \in [Mons -> Watches \cup {None}]
    /\ parking \in [Rids -> {"none", "pending", "ok", "failed"}]
    /\ actor \in [Rids -> ActorRecs]

\* The types of the state, without the bounds on what is available.
Typed ==
    /\ LedgerTyped /\ CallTyped /\ ActorsTyped
    /\ budget \in [Faults -> Nat]

\* A monitor is a record.
LEMMA NoneIsNoWatch == None \notin Watches
BY ControllerAssumption DEF Watches

\* A message without a monitor is from apply().
LEMMA NoneIsNoMonitor == None \notin Mons
BY ControllerAssumption

\* The types hold at the start.
LEMMA TypedInit == Init => Typed
<1> SUFFICES ASSUME Init PROVE Typed
  OBVIOUS
<1>1. LedgerTyped
  BY NodeAssumption, FS_EmptySet DEF Init, LedgerTyped
<1>2. CallTyped
  <2>1. Idle \in CallRecs
    BY DEF Idle, CallRecs, Pcs
  <2> QED BY <2>1 DEF Init, CallTyped, Idle
<1>3. ActorsTyped
  <2>1. NoActor \in ActorRecs
    BY DEF NoActor, ActorRecs, Nowhere, Holdings
  <2> QED BY <2>1 DEF Init, ActorsTyped
<1>4. budget \in [Faults -> Nat]
  BY ControllerAssumption DEF Init
<1> QED BY <1>1, <1>2, <1>3, <1>4 DEF Typed

-----------------------------------------------------------------------------
(* The ledgers keep their types *)

\* What is booked and released are numbers.
LEMMA BookedTyped ==
    ASSUME LedgerTyped, NEW n \in Nodes, NEW gpus, NEW b \in Int
    PROVE  /\ Booked(n, gpus, b) \in [Nodes -> [Gpus -> Int]]
           /\ \A m \in Nodes, g \in Gpus :
                 Booked(n, gpus, b)[m][g] =
                     IF m = n /\ g \in gpus THEN avail[m][g] - b ELSE avail[m][g]
           /\ Released(n, gpus, b) \in [Nodes -> [Gpus -> Int]]
           /\ \A m \in Nodes, g \in Gpus :
                 Released(n, gpus, b)[m][g] =
                     IF m = n /\ g \in gpus THEN avail[m][g] + b ELSE avail[m][g]
<1> DEFINE row(c) == [g \in Gpus |-> IF g \in gpus THEN avail[n][g] - c
                                                     ELSE avail[n][g]]
<1>1. ASSUME NEW c \in Int
      PROVE  /\ Booked(n, gpus, c) \in [Nodes -> [Gpus -> Int]]
             /\ \A m \in Nodes, g \in Gpus :
                 Booked(n, gpus, c)[m][g] =
                     IF m = n /\ g \in gpus THEN avail[m][g] - c ELSE avail[m][g]
  <2>1. row(c) \in [Gpus -> Int]
    BY DEF LedgerTyped
  <2>2. Booked(n, gpus, c) = [avail EXCEPT ![n] = row(c)]
    BY DEF Booked
  <2> QED BY <2>1, <2>2 DEF LedgerTyped
<1>2. 0 - b \in Int /\ \A m \in Nodes, g \in Gpus : avail[m][g] - (0 - b) = avail[m][g] + b
  BY DEF LedgerTyped
<1> HIDE DEF row
<1>3. Released(n, gpus, b) = Booked(n, gpus, 0 - b)
  BY DEF Released
<1> QED BY <1>1, <1>2, <1>3

\* Who gives way in the cache.
LEMMA RoomTyped ==
    ASSUME LedgerTyped, NEW d \in Deployments, NEW names, NEW T \in CacheRoom(d, names)
    PROVE  /\ ~d.tp /\ IsFiniteSet(T)
           /\ \A w \in T : w \in warm /\ w.node = d.node /\ w.model \notin names
           /\ MapThenSumSet(Bytes, T) = Sum(bytes, T)
           /\ Sum(bytes, T) \in Nat
           /\ d.size <= cpu[d.node] + Sum(bytes, T)
<1> DEFINE S == {w \in warm : w.node = d.node /\ w.model \notin names}
           v == [w \in warm |-> w.size]
           need == d.size - cpu[d.node]
<1>1. ~d.tp /\ T \in Greedy(S, need, v)
  BY DEF CacheRoom
<1>2. need \in Int /\ d.size \in Nat /\ cpu[d.node] \in Int
  BY DEF LedgerTyped, Deployments
<1>3. IsFiniteSet(S) /\ S \subseteq warm
  BY FS_Subset DEF LedgerTyped
<1>4. Weighs(v, S)
  BY <1>3 DEF Weighs, LedgerTyped, Deployments
<1>5. T \subseteq S /\ need <= Sum(v, T)
  <2> HIDE DEF S, v, need
  <2> QED BY <1>1, <1>2, <1>4, GreedyMeets
<1>6. IsFiniteSet(T) /\ T \subseteq warm /\ T \subseteq Deployments
  BY <1>3, <1>5, FS_Subset DEF LedgerTyped
<1>7. \A w \in T : v[w] = bytes[w]
  BY <1>6 DEF bytes
<1>8. Sum(v, T) = Sum(bytes, T)
  <2> HIDE DEF v
  <2> QED BY <1>6, <1>7, SumCong
<1>9. MapThenSumSet(Bytes, T) = Sum(bytes, T) /\ Sum(bytes, T) \in Nat
  BY <1>6, BytesSum, ReplicasWeigh
<1> QED BY <1>1, <1>2, <1>5, <1>6, <1>8, <1>9

\* A replica's WARM copy.
LEMMA ParkedTyped ==
    ASSUME NEW d \in Deployments
    PROVE  /\ Parked(d) \in Deployments
           /\ Parked(d).rid = d.rid /\ Parked(d).model = d.model
           /\ Parked(d).node = d.node /\ Parked(d).size = d.size
           /\ Parked(d).gpus = {} /\ Parked(d).share = 0 /\ Parked(d).tp = d.tp
BY DEF Parked, Deployments

\* evict(), once or until the replica is gone.
LEMMA EvictTyped ==
    ASSUME LedgerTyped, NEW d \in hot \cup warm, NEW names,
           Evict(d, names) \/ Purge(d)
    PROVE  LedgerTyped'
<1>1. /\ d \in Deployments /\ d.node \in Nodes /\ d.size \in Nat /\ d.share \in Nat
      /\ cpu[d.node] \in Int
  BY DEF LedgerTyped, Deployments
<1>2. CASE d \in warm /\ EvictWarm(d)
  BY <1>1, <1>2, FS_Subset DEF EvictWarm, LedgerTyped, Evict, Purge
<1>3. CASE d \in hot /\ EvictHot(d, names)
  <2>1. /\ hot' \subseteq hot /\ young' \subseteq young
        /\ avail' \in [Nodes -> [Gpus -> Int]]
    BY <1>1, <1>3, BookedTyped DEF EvictHot
  <2>2. up' = up
    BY DEF Evict, Purge
  <2>3. CASE UNCHANGED <<warm, cpu>>
    BY <2>1, <2>2, <2>3, FS_Subset DEF LedgerTyped
  <2>4. CASE \E T \in CacheRoom(d, names) :
                /\ warm' = (warm \ T) \cup {Parked(d)}
                /\ cpu' = [cpu EXCEPT ![d.node] =
                              @ + MapThenSumSet(Bytes, T) - d.size]
    <3>1. PICK T \in CacheRoom(d, names) :
                /\ warm' = (warm \ T) \cup {Parked(d)}
                /\ cpu' = [cpu EXCEPT ![d.node] =
                              @ + MapThenSumSet(Bytes, T) - d.size]
      BY <2>4
    <3>2. MapThenSumSet(Bytes, T) \in Nat
      BY <1>1, RoomTyped
    <3>3. cpu' \in [Nodes -> Int]
      BY <1>1, <3>1, <3>2 DEF LedgerTyped
    <3>4. IsFiniteSet(warm \ T) /\ warm \ T \subseteq Deployments
      BY FS_Subset DEF LedgerTyped
    <3>5. IsFiniteSet((warm \ T) \cup {Parked(d)})
      BY <3>4, FS_AddElement
    <3>6. IsFiniteSet(warm') /\ warm' \subseteq Deployments
      BY <1>1, <3>1, <3>4, <3>5, ParkedTyped
    <3> QED BY <2>1, <2>2, <3>3, <3>6, FS_Subset DEF LedgerTyped
  <2> QED BY <1>3, <2>3, <2>4 DEF EvictHot
<1>4. CASE /\ d \in hot /\ hot' = hot \ {d} /\ young' = young \ {d.rid}
           /\ avail' = Released(d.node, d.gpus, d.share) /\ up' = up
           /\ \/ CacheRoom(d, {}) = {} /\ UNCHANGED <<warm, cpu>>
              \/ \E T \in CacheRoom(d, {}) :
                 /\ warm' = warm \ T
                 /\ cpu' = [cpu EXCEPT ![d.node] = @ + MapThenSumSet(Bytes, T)]
  <2>1. /\ hot' \subseteq hot /\ young' \subseteq young
        /\ avail' \in [Nodes -> [Gpus -> Int]]
    BY <1>1, <1>4, BookedTyped
  <2>2. CASE UNCHANGED <<warm, cpu>>
    BY <1>4, <2>1, <2>2, FS_Subset DEF LedgerTyped
  <2>3. CASE \E T \in CacheRoom(d, {}) :
                 /\ warm' = warm \ T
                 /\ cpu' = [cpu EXCEPT ![d.node] = @ + MapThenSumSet(Bytes, T)]
    <3>1. PICK T \in CacheRoom(d, {}) :
                 /\ warm' = warm \ T
                 /\ cpu' = [cpu EXCEPT ![d.node] = @ + MapThenSumSet(Bytes, T)]
      BY <2>3
    <3>2. MapThenSumSet(Bytes, T) \in Nat
      BY <1>1, RoomTyped
    <3>3. cpu' \in [Nodes -> Int]
      BY <1>1, <3>1, <3>2 DEF LedgerTyped
    <3> QED BY <1>4, <2>1, <3>1, <3>3, FS_Subset DEF LedgerTyped
  <2> QED BY <1>4, <2>2, <2>3
<1> QED BY <1>2, <1>3, <1>4 DEF Evict, Purge

\* What a placement books.
NewReplica(c, r) ==
    [rid |-> r, model |-> c.cfg.model, node |-> c.node,
     gpus |-> c.gpus, share |-> c.share, size |-> c.cfg.size,
     pinned |-> c.cfg.pinned,
     tp |-> Sharded(c.cfg.model, Cardinality(c.gpus))]

\* What a placement books is a Deployment.
LEMMA NewReplicaTyped ==
    ASSUME NEW c \in Cands, NEW r \in Rids
    PROVE  NewReplica(c, r) \in Deployments
<1>1. /\ c.cfg \in Configs /\ c.node \in Nodes /\ c.gpus \in SUBSET Gpus
      /\ c.share \in Nat
  BY DEF Cands
<1>2. c.cfg.model \in Models /\ c.cfg.size \in Nat \ {0} /\ c.cfg.pinned \in BOOLEAN
  BY <1>1 DEF Configs
<1>3. Sharded(c.cfg.model, Cardinality(c.gpus)) \in BOOLEAN
  BY DEF Sharded
<1> QED BY <1>1, <1>2, <1>3 DEF NewReplica, Deployments

\* deploy() of a node.
LEMMA PlaceTyped ==
    ASSUME LedgerTyped, NEW c \in Cands, NEW r \in Rids, Place(c, r)
    PROVE  LedgerTyped'
<1>1. c.node \in Nodes /\ c.share \in Nat
  BY DEF Cands
<1>2. /\ up' = up /\ young' = young \cup {r}
      /\ hot' = hot \cup {NewReplica(c, r)}
      /\ avail' = Booked(c.node, c.gpus, c.share)
  BY DEF Place, NewReplica
<1>3. avail' \in [Nodes -> [Gpus -> Int]]
  BY <1>1, <1>2, BookedTyped
<1>4. hot' \subseteq Deployments /\ IsFiniteSet(hot')
  BY <1>2, NewReplicaTyped, FS_AddElement DEF LedgerTyped
<1>5. warm' \subseteq warm /\ cpu' \in [Nodes -> Int]
  <2>1. CASE UNCHANGED <<warm, cpu>>
    BY <2>1 DEF LedgerTyped
  <2>2. CASE \E w \in warm : warm' = warm \ {w} /\ cpu' = [cpu EXCEPT ![c.node] = @ + w.size]
    <3>1. PICK w \in warm : warm' = warm \ {w} /\ cpu' = [cpu EXCEPT ![c.node] = @ + w.size]
      BY <2>2
    <3>2. w.size \in Nat
      BY DEF LedgerTyped, Deployments
    <3> QED BY <1>1, <3>1, <3>2 DEF LedgerTyped
  <2> QED BY <2>1, <2>2 DEF Place
<1> QED BY <1>2, <1>3, <1>4, <1>5, FS_Subset DEF LedgerTyped

\* _remove_deployment_from_state().
LEMMA RemoveTyped ==
    ASSUME LedgerTyped, NEW d \in Deployments, RemoveFromState(d)
    PROVE  LedgerTyped'
<1>1. d.node \in Nodes /\ d.size \in Nat /\ d.share \in Nat /\ cpu[d.node] \in Int
  BY DEF LedgerTyped, Deployments
<1>2. /\ up' = up /\ hot' \subseteq hot /\ warm' \subseteq warm /\ young' \subseteq young
      /\ avail' = avail \/ avail' = Released(d.node, d.gpus, d.share)
      /\ cpu' = cpu \/ cpu' = [cpu EXCEPT ![d.node] = @ + d.size]
  BY DEF RemoveFromState
<1>3. avail' \in [Nodes -> [Gpus -> Int]]
  BY <1>1, <1>2, BookedTyped DEF LedgerTyped
<1>4. cpu' \in [Nodes -> Int]
  BY <1>1, <1>2 DEF LedgerTyped
<1> QED BY <1>2, <1>3, <1>4, FS_Subset DEF LedgerTyped

-----------------------------------------------------------------------------
(* Candidates *)

\* Whose turn it may be to go: replicas of the node that a placement need not
\* spare.
Expendable(d, n, cfg, names) ==
    /\ d \in hot /\ d.node = n /\ d.model \notin names
    /\ Evictable(d, cfg.pinned)

\* Those of S that take a share of GPU g.
Takers(S, g) == {d \in S : g \in d.gpus}

\* The GPUs of a plan and its victims, which free what is needed on each.
LEMMA EvictionsFound ==
    ASSUME LedgerTyped, NEW n \in Nodes, NEW cfg \in Configs, NEW names,
           NEW k \in Nat, NEW share \in Nat,
           NEW e \in FindEvictions(n, k, share, cfg.pinned, names)
    PROVE  /\ e.gpus \subseteq Gpus /\ e.victims \subseteq Deployments
           /\ \A d \in e.victims : Expendable(d, n, cfg, names)
           /\ \A g \in e.gpus :
                 share <= avail[n][g] + Sum(shares, Takers(e.victims, g))
<1> DEFINE occupants == {d \in hot : /\ d.node = n /\ d.model \notin names
                                     /\ Evictable(d, cfg.pinned)}
           On(g) == {d \in occupants : g \in d.gpus}
           v == [d \in occupants |-> d.share]
           Plans(g) == Greedy(On(g), share - avail[n][g], v)
           feasible == {g \in Gpus : Plans(g) # {}}
           length == [g \in feasible |-> Cardinality(CHOOSE p \in Plans(g) : TRUE)]
           G == FirstGpus(k, feasible, length)
<1>1. /\ k <= Cardinality(feasible)
      /\ \E p \in [G -> SUBSET occupants] :
            /\ \A g \in G : p[g] \in Plans(g)
            /\ e = [gpus |-> G, victims |-> UNION {p[g] : g \in G}]
  <2>1. Cardinality(feasible) \in Nat
    BY NodeAssumption, FS_Subset, FS_CardinalityType
  <2>2. FindEvictions(n, k, share, cfg.pinned, names) =
           IF Cardinality(feasible) < k THEN {}
           ELSE {[gpus |-> G, victims |-> UNION {p[g] : g \in G}] : p \in
                   {q \in [G -> SUBSET occupants] : \A g \in G : q[g] \in Plans(g)}}
    BY DEF FindEvictions
  <2> HIDE DEF G, feasible, Plans, occupants
  <2>3. ~(Cardinality(feasible) < k)
    BY <2>2
  <2>4. e \in {[gpus |-> G, victims |-> UNION {p[g] : g \in G}] : p \in
                   {q \in [G -> SUBSET occupants] : \A g \in G : q[g] \in Plans(g)}}
    BY <2>2, <2>3
  <2> QED BY <2>1, <2>3, <2>4
<1>2. IsFiniteSet(occupants) /\ occupants \subseteq Deployments /\ occupants \subseteq hot
  BY FS_Subset DEF LedgerTyped
<1>3. \A g \in Gpus : /\ Weighs(v, On(g)) /\ share - avail[n][g] \in Int
                      /\ avail[n][g] \in Int
  BY <1>2, FS_Subset DEF Weighs, Deployments, LedgerTyped
<1>4. \A g \in Gpus : \A T \in Plans(g) :
         /\ T \subseteq On(g) /\ IsFiniteSet(T)
         /\ share <= avail[n][g] + Sum(shares, T)
  <2> SUFFICES ASSUME NEW g \in Gpus, NEW T \in Plans(g)
               PROVE  /\ T \subseteq On(g) /\ IsFiniteSet(T)
                      /\ share <= avail[n][g] + Sum(shares, T)
    OBVIOUS
  <2>1. T \subseteq On(g) /\ share - avail[n][g] <= Sum(v, T)
    <3> HIDE DEF On, v
    <3> QED BY <1>3, GreedyMeets
  <2>2. IsFiniteSet(T) /\ T \subseteq Deployments /\ T \subseteq occupants
    BY <1>2, <2>1, FS_Subset
  <2>3. Sum(v, T) = Sum(shares, T) /\ Sum(shares, T) \in Nat
    <3>1. \A d \in T : v[d] = shares[d]
      BY <2>2 DEF shares
    <3> HIDE DEF v
    <3> QED BY <2>2, <3>1, SumCong, ReplicasWeigh
  <2>4. share - avail[n][g] \in Int /\ avail[n][g] \in Int
    BY <1>3
  <2> HIDE DEF v, On, occupants
  <2> QED BY <2>1, <2>2, <2>3, <2>4
<1>5. G \subseteq feasible
  <2>1. ASSUME NEW g \in feasible PROVE length[g] \in Nat
    <3>1. (CHOOSE p \in Plans(g) : TRUE) \in Plans(g)
      OBVIOUS
    <3>2. IsFiniteSet(CHOOSE p \in Plans(g) : TRUE)
      <4> HIDE DEF Plans
      <4> QED BY <1>4, <3>1
    <3> QED BY <3>2, FS_CardinalityType
  <2>2. feasible \subseteq Gpus
    OBVIOUS
  <2> HIDE DEF feasible, length
  <2> QED BY <1>1, <2>1, <2>2, FirstAreGpus
<1> HIDE DEF G, Plans
<1>6. G \subseteq Gpus
  BY <1>5
<1>7. PICK p \in [G -> SUBSET occupants] :
            /\ \A g \in G : p[g] \in Plans(g)
            /\ e = [gpus |-> G, victims |-> UNION {p[g] : g \in G}]
  BY <1>1
<1>8. e.victims \subseteq occupants /\ e.gpus = G
  BY <1>7
<1>9. ASSUME NEW g \in G
      PROVE  share <= avail[n][g] + Sum(shares, Takers(e.victims, g))
  <2> DEFINE E == Takers(e.victims, g)
  <2>1. p[g] \subseteq E /\ E \subseteq Deployments /\ IsFiniteSet(E)
    <3>1. p[g] \in Plans(g)
      BY <1>7
    <3>2. p[g] \subseteq On(g) /\ p[g] \subseteq e.victims
      BY <1>4, <1>6, <1>7, <3>1
    <3>3. E \subseteq occupants /\ p[g] \subseteq E
      BY <1>8, <3>2 DEF Takers
    <3> QED BY <1>2, <3>3, FS_Subset
  <2>2. Weighs(shares, E) /\ Sum(shares, E) \in Nat
    BY <2>1, ReplicasWeigh
  <2>3. Sum(shares, p[g]) <= Sum(shares, E)
    BY <2>1, <2>2, SumPart
  <2>4. share <= avail[n][g] + Sum(shares, p[g])
    BY <1>4, <1>6, <1>7
  <2>5. avail[n][g] \in Int /\ Sum(shares, p[g]) \in Nat
    <3>1. p[g] \subseteq Deployments /\ IsFiniteSet(p[g])
      BY <2>1, FS_Subset
    <3> QED BY <1>3, <1>6, <3>1, ReplicasWeigh
  <2> HIDE DEF E
  <2>6. share <= avail[n][g] + Sum(shares, E)
    BY <2>2, <2>3, <2>4, <2>5
  <2> QED BY <2>6 DEF E
<1>10. \A d \in e.victims : Expendable(d, n, cfg, names)
  BY <1>8 DEF Expendable
<1> QED BY <1>2, <1>6, <1>8, <1>9, <1>10

\* A candidate takes GPUs that have room for it once its victims are gone.
LEMMA CandidatesFit ==
    ASSUME LedgerTyped, NEW n \in Nodes, NEW cfg \in Configs, NEW names,
           NEW c \in Candidates(n, cfg, names)
    PROVE  /\ c \in Cands /\ c.node = n /\ c.cfg = cfg
           /\ \A d \in c.victims : Expendable(d, n, cfg, names)
           /\ \A g \in c.gpus :
                 c.share <= avail[n][g] + Sum(shares, Takers(c.victims, g))
<1> DEFINE k == GpusNeeded(cfg)
           share == CeilDiv(cfg.size, k)
           fitting == {g \in Gpus : avail[n][g] >= share}
           F == FirstGpus(k, fitting, avail[n])
           C(level, G, V) == [node |-> n, level |-> level, gpus |-> G,
                              share |-> share, victims |-> V, cfg |-> cfg]
<1>1. k \in Nat \ {0}
  BY GpusNeededTyped
<1>2. share \in Nat
  <2>1. cfg.size \in Nat \ {0}
    BY DEF Configs
  <2> HIDE DEF k
  <2> QED BY <1>1, <2>1, CeilDivTyped
<1>3. \/ k <= Cardinality(fitting) /\ \E l \in 1..4 : c = C(l, F, {})
      \/ \E e \in FindEvictions(n, k, share, cfg.pinned, names), l \in 1..4 :
            c = C(l, e.gpus, e.victims)
  <2>1. Cardinality(fitting) \in Nat
    BY NodeAssumption, FS_Subset, FS_CardinalityType
  <2>2. CASE Cardinality(fitting) >= k
    <3>1. c \in {C(IF \E w \in warm : w.node = n /\ w.model = cfg.model
                   THEN 1 ELSE 2, F, {})}
      BY <2>2 DEF Candidates
    <3> HIDE DEF k, share, fitting, F
    <3> QED BY <1>1, <2>1, <2>2, <3>1
  <2>3. CASE ~(Cardinality(fitting) >= k)
    <3>1. c \in {C(IF \E w \in warm : w.node = n /\ w.model = cfg.model
                   THEN 3 ELSE 4, e.gpus, e.victims) :
                   e \in FindEvictions(n, k, share, cfg.pinned, names)}
      BY <2>3 DEF Candidates
    <3> HIDE DEF k, share, fitting, F
    <3> QED BY <3>1
  <2> QED BY <2>2, <2>3
<1>4. CASE k <= Cardinality(fitting) /\ \E l \in 1..4 : c = C(l, F, {})
  <2>1. F \subseteq fitting
    <3>1. \A g \in fitting : avail[n][g] \in Nat
      BY <1>2 DEF LedgerTyped
    <3>2. fitting \subseteq Gpus
      OBVIOUS
    <3> HIDE DEF fitting, k
    <3> QED BY <1>1, <1>4, <3>1, <3>2, FirstAreGpus
  <2>2. PICK l \in 1..4 : c = C(l, F, {})
    BY <1>4
  <2>3. /\ c.node = n /\ c.cfg = cfg /\ c.gpus = F /\ c.victims = {} /\ c.share = share
        /\ c.level = l
    BY <2>2
  <2>4. c \in Cands
    <3> HIDE DEF share, F
    <3> QED BY <1>2, <2>1, <2>2 DEF Cands
  <2>5. \A g \in F : share <= avail[n][g] + 0
    BY <1>2, <2>1 DEF LedgerTyped
  <2>6. \A g : Takers(c.victims, g) = {}
    BY <2>3 DEF Takers
  <2> HIDE DEF share, F, fitting
  <2> QED BY <2>3, <2>4, <2>5, <2>6, SumEmpty
<1>5. CASE \E e \in FindEvictions(n, k, share, cfg.pinned, names), l \in 1..4 :
              c = C(l, e.gpus, e.victims)
  <2>1. PICK e \in FindEvictions(n, k, share, cfg.pinned, names), l \in 1..4 :
              c = C(l, e.gpus, e.victims)
    BY <1>5
  <2> HIDE DEF k, share
  <2>2. /\ e.gpus \subseteq Gpus /\ e.victims \subseteq Deployments
        /\ \A d \in e.victims : Expendable(d, n, cfg, names)
        /\ \A g \in e.gpus :
              share <= avail[n][g] + Sum(shares, Takers(e.victims, g))
    <3>1. k \in Nat
      BY <1>1
    <3>2. e \in FindEvictions(n, k, share, cfg.pinned, names)
      BY <2>1
    <3> QED BY <1>2, <3>1, <3>2, EvictionsFound
  <2>3. /\ c.node = n /\ c.cfg = cfg /\ c.gpus = e.gpus /\ c.victims = e.victims
        /\ c.share = share /\ c.level = l
    BY <2>1
  <2>4. c \in Cands
    BY <1>2, <2>1, <2>2 DEF Cands
  <2> QED BY <2>2, <2>3, <2>4
<1> QED BY <1>3, <1>4, <1>5

-----------------------------------------------------------------------------
(* The invariant *)

\* A replica is listed once, on a node that is up.
Distinct ==
    /\ \A d, e \in hot : d.rid = e.rid => d = e
    /\ \A d, e \in warm : d.rid = e.rid => d = e
    /\ \A d \in hot, e \in warm : d.rid # e.rid
    /\ \A d \in hot \cup warm : d.node \in up

\* A placement works on models it was asked for, and who is to go may go.
Placing ==
    /\ call.pc = "place" =>
          \A k \in DOMAIN call.todo : call.todo[k].model \in call.names
    /\ call.pc = "room" =>
          /\ call.cand.node \in up /\ call.todo # <<>>
          /\ call.cand.cfg.model \in call.names
          /\ \A k \in DOMAIN call.todo : call.todo[k].model \in call.names
          /\ \A r \in call.work : \E d \in hot :
                d.rid = r /\ Expendable(d, call.cand.node, call.cand.cfg, call.names)

\* The call has changed a ledger, or is about to, and nothing is applied yet.
Changing ==
    \/ call.pc \in {"room", "drain", "apply"}
    \/ call.pc = "place" /\ call.change

\* What state knows of the listed replicas.
Applies ==
    /\ \A d \in hot :
          \/ state[d.rid] = "HOT"
          \/ Changing /\ call.pc # "drain" /\ d.model \in call.names
    /\ \A w \in warm :
          \/ state[w.rid] = "WARM"
          \/ state[w.rid] = "HOT" /\ Changing /\ w.model \notin call.names

\* Whatever monitor i watches concerns replica r.
Watched(i, r) == mon[i] # None /\ mon[i].dep.rid = r
Pending(i) == mon[i] # None /\ mon[i].fut = "pending"

\* Whoever is watched has not moved to another node.
Traced ==
    \A d \in hot \cup warm, i \in Mons :
        Watched(i, d.rid) => mon[i].dep.node = d.node

\* What is about to be launched is listed, and nobody knows yet who is created.
Launching ==
    /\ call.pc \notin {"cache", "launch"} => call.launch = {}
    /\ \A l \in call.launch : l.dep \in hot
    /\ \A l, m \in call.launch : l.dep = m.dep => l = m
    /\ \A l \in call.launch, i \in Mons :
          l.op = "create" => ~Watched(i, l.dep.rid)
    /\ \A d \in hot, i \in Mons :
          state[d.rid] = "none" => ~Watched(i, d.rid)

\* A message to replica r belongs to a monitor that waits for it, or is the
\* last one and apply() waits for it.
Letter(r, k) ==
    LET inbox == actor[r].inbox
        m == inbox[k]
    IN  /\ m.mon = None => /\ k = Len(inbox) /\ m.op = "to_cache"
                           /\ parking[r] = "pending"
        /\ m.mon # None =>
              /\ m.op = "from_cache" /\ Pending(m.mon) /\ Watched(m.mon, r)
              /\ mon[m.mon].op = "from_cache"
              /\ \A j \in DOMAIN inbox : inbox[j].mon = m.mon => j = k

Posted == \A r \in Rids : \A k \in DOMAIN actor[r].inbox : Letter(r, k)

\* Every pending monitor has its message on the way, or the actor is loading.
Awaited ==
    \A i \in Mons : Pending(i) =>
        LET r == mon[i].dep.rid IN
        \/ mon[i].op = "create" /\ actor[r].life = "loading"
        \/ /\ mon[i].op = "from_cache"
           /\ \E k \in DOMAIN actor[r].inbox : actor[r].inbox[k].mon = i

\* apply() waits for what it has asked for and not yet seen.
Parks ==
    /\ \A r \in Rids : parking[r] # "none" <=> call.pc = "cache" /\ r \in call.work
    /\ \A r \in Rids : parking[r] = "pending" =>
          /\ Alive(r)
          /\ \E k \in DOMAIN actor[r].inbox : actor[r].inbox[k].mon = None
    /\ \A r \in Rids, i \in Mons :
          parking[r] = "ok" /\ Watched(i, r) => ~Pending(i)
    /\ call.pc = "cache" => call.work \subseteq RidsOf(warm)

\* A WARM replica is not being loaded, unless its parking is still to come.
Settled ==
    \A w \in warm, i \in Mons :
        \/ ~(Pending(i) /\ Watched(i, w.rid))
        \/ state[w.rid] = "HOT"
        \/ call.pc = "cache" /\ w.rid \in call.work

\* Nobody unlisted is alive, or build() will find it.
Listed == RidsOf(hot \cup warm)
Owned ==
    \A r \in Rids : Alive(r) =>
        \/ r \in Listed
        \/ Changing /\ state[r] # "none"

IInv ==
    /\ Typed /\ Distinct /\ Placing /\ Applies /\ Launching
    /\ Posted /\ Awaited /\ Parks /\ Settled /\ Owned /\ Traced

-----------------------------------------------------------------------------
(* What an operation does to the lists *)

\* evict(), once or until the replica is gone: others go only from the cache,
\* and only d gets there.
LEMMA EvictShape ==
    ASSUME LedgerTyped, Distinct, NEW d \in hot \cup warm, NEW names,
           Evict(d, names) \/ Purge(d)
    PROVE  /\ up' = up /\ young' \subseteq young
           /\ hot' = hot \ {d}
           /\ warm' \subseteq (warm \ {d}) \cup {Parked(d)}
           /\ d \in warm => warm' = warm \ {d}
           /\ Purge(d) => warm' \subseteq warm
           /\ Evict(d, names) =>
                 \A w \in warm \ warm' : w = d \/ w.model \notin names
<1>1. d \in Deployments
  BY DEF LedgerTyped
<1>2. ~(d \in hot /\ d \in warm)
  BY DEF Distinct
<1>3. Purge(d) => warm' \subseteq warm
  BY DEF Purge, EvictWarm
<1>4. CASE d \in warm /\ EvictWarm(d) /\ up' = up
  BY <1>4 DEF EvictWarm, Distinct
<1>5. CASE d \in hot /\ EvictHot(d, names) /\ up' = up
  <2>1. hot' = hot \ {d} /\ young' \subseteq young /\ d \notin warm
    BY <1>5 DEF EvictHot, Distinct
  <2>2. CASE UNCHANGED warm
    BY <1>3, <1>5, <2>1, <2>2
  <2>3. CASE \E T \in CacheRoom(d, names) : warm' = (warm \ T) \cup {Parked(d)}
    <3>1. PICK T \in CacheRoom(d, names) : warm' = (warm \ T) \cup {Parked(d)}
      BY <2>3
    <3>2. \A w \in T : w.model \notin names
      BY <1>1, RoomTyped
    <3> QED BY <1>3, <1>5, <2>1, <3>1, <3>2
  <2> QED BY <1>5, <2>2, <2>3 DEF EvictHot
<1>6. CASE d \in hot /\ Purge(d) /\ ~(d \in warm)
  <2>1. hot' = hot \ {d} /\ young' \subseteq young /\ d \notin warm /\ up' = up
    BY <1>6 DEF Purge
  <2>2. warm' \subseteq warm
    BY <1>6 DEF Purge
  <2>3. ASSUME Evict(d, names)
        PROVE  \A w \in warm \ warm' : w = d \/ w.model \notin names
    <3>1. EvictHot(d, names) /\ up' = up
      BY <1>6, <2>3 DEF Evict
    <3> QED BY <1>5, <1>6, <2>3, <3>1
  <2> QED BY <2>1, <2>2, <2>3
<1>7. /\ Evict(d, names) => up' = up /\ (\/ d \in warm /\ EvictWarm(d)
                                         \/ d \in hot /\ EvictHot(d, names))
      /\ Purge(d) => up' = up /\ ((d \in warm /\ EvictWarm(d)) \/ d \in hot)
  BY DEF Evict, Purge
<1> QED BY <1>3, <1>4, <1>5, <1>6, <1>2, <1>7

\* deploy() takes a WARM copy of the model, or leaves the cache alone.
LEMMA PlaceShape ==
    ASSUME NEW c, NEW r, Place(c, r)
    PROVE  /\ up' = up /\ young' = young \cup {r}
           /\ hot' = hot \cup {NewReplica(c, r)}
           /\ avail' = Booked(c.node, c.gpus, c.share)
           /\ \/ /\ ~ \E w \in warm : w.node = c.node /\ w.model = c.cfg.model
                 /\ UNCHANGED <<warm, cpu>>
              \/ \E w \in warm :
                    /\ w.node = c.node /\ w.model = c.cfg.model /\ w.rid = r
                    /\ warm' = warm \ {w}
                    /\ cpu' = [cpu EXCEPT ![c.node] = @ + w.size]
BY DEF Place, NewReplica

\* _remove_deployment_from_state() takes whatever is listed under the id.
LEMMA RemoveShape ==
    ASSUME NEW d, RemoveFromState(d)
    PROVE  /\ up' = up /\ young' \subseteq young
           /\ hot' \subseteq hot /\ warm' \subseteq warm
           /\ \A x \in hot : x \in hot' <=> ~(d.node \in up /\ x.rid = d.rid)
           /\ \A x \in warm : x \in warm' <=> ~(d.node \in up /\ x.rid = d.rid)
           /\ state' = [state EXCEPT ![d.rid] = "none"]
BY DEF RemoveFromState

-----------------------------------------------------------------------------
(* Steps that change nothing but the call *)

\* A step of the call from which the rest of the state can tell nothing new.
LEMMA CallOnly ==
    ASSUME IInv, UNCHANGED <<ledger, state, mon, parking, actor>>,
           budget' \in [Faults -> Nat], CallTyped', Placing',
           call'.pc # "cache", call.pc = "cache" => call.work = {},
           call'.launch = call.launch,
           call'.pc \notin {"cache", "launch"} => call.launch = {},
           Changing => Changing' /\ call'.names = call.names /\ call'.pc # "drain"
    PROVE  IInv'
<1>1. Typed'
  BY DEF IInv, Typed, LedgerTyped, ledger, ActorsTyped
<1>2. Distinct'
  BY DEF IInv, Distinct, ledger
<1>3. Applies'
  <2>1. UNCHANGED <<hot, warm, state>>
    BY DEF ledger
  <2>2. call.pc = "drain" => Changing
    BY DEF Changing
  <2> QED BY <2>1, <2>2 DEF IInv, Applies
<1>4. Launching'
  BY DEF IInv, Launching, Watched, ledger
<1>5. Posted' /\ Awaited'
  BY DEF IInv, Posted, Letter, Awaited, Pending, Watched
<1>6. Parks'
  BY DEF IInv, Parks, Pending, Watched, Alive, ledger
<1>7. Settled'
  BY DEF IInv, Settled, Pending, Watched, ledger
<1>8. Owned'
  BY DEF IInv, Owned, Listed, RidsOf, Alive, ledger
<1>9. Traced'
  BY DEF IInv, Traced, Watched, ledger
<1> QED BY <1>1, <1>2, <1>3, <1>4, <1>5, <1>6, <1>7, <1>8, <1>9 DEF IInv

\* A bound on calls and faults.
LEMMA SpendTyped ==
    ASSUME budget \in [Faults -> Nat], NEW fault \in Faults, Spend(fault)
    PROVE  budget' \in [Faults -> Nat]
BY DEF Spend

\* Each config of a call has its turns.
LEMMA TurnsTyped ==
    ASSUME NEW cfgs \in Deploys, NEW turns \in Turns(cfgs)
    PROVE  /\ turns \in Seq(Configs)
           /\ \A k \in DOMAIN turns : turns[k] \in cfgs
           /\ \A k \in DOMAIN turns : turns[k].model \in {c.model : c \in cfgs}
<1> DEFINE S == {c \in cfgs : c.n > 0}
<1>1. S \subseteq Configs
  BY ControllerAssumption
<1>2. turns \in SetToSeqs(S)
  BY DEF Turns
<1>3. turns \in [1..Cardinality(S) -> S]
  BY <1>2 DEF SetToSeqs
<1>4. Cardinality(S) \in Nat
  BY ControllerAssumption, FS_Subset, FS_CardinalityType
<1> HIDE DEF S
<1>5. turns \in Seq(S)
  BY <1>3, <1>4
<1> QED BY <1>1, <1>3, <1>5 DEF S

\* There is a turn for the same model at the same size.
Alike(c, todo) == \E j \in DOMAIN todo : todo[j].model = c.model /\ todo[j].size = c.size

\* What is left of the turns.
LEMMA TurnTakenTyped ==
    ASSUME NEW todo \in Seq(Configs), todo # <<>>, NEW names,
           \A k \in DOMAIN todo : todo[k].model \in names
    PROVE  /\ Head(todo) \in Configs /\ Head(todo).model \in names
           /\ Tail(todo) \in Seq(Configs) /\ TurnTaken(todo) \in Seq(Configs)
           /\ \A k \in DOMAIN Tail(todo) : Tail(todo)[k].model \in names
           /\ \A k \in DOMAIN TurnTaken(todo) : TurnTaken(todo)[k].model \in names
           /\ \A k \in DOMAIN Tail(todo) : Alike(Tail(todo)[k], todo)
           /\ \A k \in DOMAIN TurnTaken(todo) : Alike(TurnTaken(todo)[k], todo)
<1>1. /\ Head(todo) = todo[1] /\ 1 \in DOMAIN todo /\ todo[1] \in Configs
      /\ Len(todo) \in Nat /\ DOMAIN todo = 1..Len(todo)
  OBVIOUS
<1>2. /\ Tail(todo) \in Seq(Configs)
      /\ \A k \in DOMAIN Tail(todo) : Tail(todo)[k].model \in names
      /\ \A k \in DOMAIN Tail(todo) : Alike(Tail(todo)[k], todo)
  <2>1. Tail(todo) \in Seq(Configs)
    OBVIOUS
  <2>2. \A k \in DOMAIN Tail(todo) : k + 1 \in DOMAIN todo /\ Tail(todo)[k] = todo[k + 1]
    OBVIOUS
  <2> QED BY <2>1, <2>2 DEF Alike
<1>3. ASSUME todo[1].n > 1
      PROVE  /\ [todo EXCEPT ![1].n = @ - 1] \in Seq(Configs)
             /\ \A k \in DOMAIN todo :
                   /\ [todo EXCEPT ![1].n = @ - 1][k].model = todo[k].model
                   /\ [todo EXCEPT ![1].n = @ - 1][k].size = todo[k].size
             /\ DOMAIN [todo EXCEPT ![1].n = @ - 1] = DOMAIN todo
  <2> DEFINE q == [todo EXCEPT ![1].n = @ - 1]
             first == [todo[1] EXCEPT !.n = @ - 1]
  <2>1. first \in Configs /\ first.model = todo[1].model /\ first.size = todo[1].size
    <3>1. todo[1].n - 1 \in Nat
      BY <1>1, <1>3 DEF Configs
    <3> QED BY <1>1, <3>1 DEF Configs
  <2>2. q = [todo EXCEPT ![1] = first]
    BY <1>1
  <2> HIDE DEF q, first
  <2>3. DOMAIN q = DOMAIN todo /\ \A k \in DOMAIN todo : q[k] = IF k = 1 THEN first ELSE todo[k]
    BY <1>1, <2>2
  <2>4. q \in [1..Len(todo) -> Configs]
    <3>1. \A k \in 1..Len(todo) : q[k] \in Configs
      BY <1>1, <2>1, <2>3
    <3>2. q = [k \in DOMAIN todo |-> IF k = 1 THEN first ELSE todo[k]]
      BY <1>1, <2>2
    <3> QED BY <1>1, <2>3, <3>1, <3>2
  <2>5. q \in Seq(Configs)
    BY <1>1, <2>4
  <2> QED BY <2>1, <2>3, <2>5 DEF q
<1> QED BY <1>1, <1>2, <1>3 DEF TurnTaken, Alike

\* The call deploy() begins.
LEMMA DeployKeeps ==
    ASSUME IInv, NEW cfgs \in Deploys, Deploy(cfgs)
    PROVE  IInv'
<1>1. Typed /\ Placing /\ call \in CallRecs /\ budget \in [Faults -> Nat]
  BY DEF IInv, Typed, CallTyped
<1>2. PICK turns \in Turns(cfgs) :
          call' = [Idle EXCEPT !.pc = "place", !.todo = turns,
                               !.names = {c.model : c \in cfgs}]
  BY DEF Deploy
<1>3. /\ turns \in Seq(Configs)
      /\ \A k \in DOMAIN turns : turns[k].model \in {c.model : c \in cfgs}
  BY TurnsTyped
<1>4. /\ call'.pc = "place" /\ call'.todo = turns /\ call'.launch = {}
      /\ call'.names = {c.model : c \in cfgs}
  BY <1>2 DEF Idle
<1>5. {c.model : c \in cfgs} \subseteq Models
  BY ControllerAssumption DEF Configs
<1>6. CallTyped'
  BY <1>2, <1>3, <1>5 DEF CallTyped, CallRecs, Pcs, Idle
<1>7. Placing'
  BY <1>3, <1>4 DEF Placing
<1>8. call.pc = "idle" /\ ~Changing /\ call.launch = {}
  BY DEF Deploy, Changing, IInv, Launching
<1>9. budget' \in [Faults -> Nat]
  BY <1>1, SpendTyped DEF Deploy, Faults
<1> QED BY <1>4, <1>6, <1>7, <1>8, <1>9, CallOnly DEF Deploy

\* The call scale() begins.
LEMMA ScaleKeeps ==
    ASSUME IInv, NEW m \in Models, Scale(m)
    PROVE  IInv'
<1> DEFINE live == {d \in hot : d.model = m}
           Like(size, k) == [model |-> m, size |-> size, gpus |-> k,
                             pinned |-> FALSE, n |-> 1]
<1>1. call \in CallRecs /\ budget \in [Faults -> Nat] /\ hot \subseteq Deployments
  BY DEF IInv, Typed, CallTyped, LedgerTyped
<1>2. PICK cfg \in IF live = {} THEN {Like(DefaultSize[m], 0)}
                   ELSE {Like(d.size, Cardinality(d.gpus)) : d \in live} :
          call' = [Idle EXCEPT !.pc = "place", !.todo = <<cfg>>, !.names = {m}]
  BY DEF Scale
<1>3. cfg \in Configs /\ cfg.model = m
  <2>1. CASE live = {}
    <3>1. cfg = Like(DefaultSize[m], 0)
      BY <1>2, <2>1
    <3>2. DefaultSize[m] \in Nat \ {0}
      BY ControllerAssumption
    <3> QED BY <3>1, <3>2 DEF Configs
  <2>2. CASE live # {}
    <3>1. PICK d \in live : cfg = Like(d.size, Cardinality(d.gpus))
      BY <1>2, <2>2
    <3>2. d.size \in Nat \ {0} /\ Cardinality(d.gpus) \in Nat
      BY <1>1, NodeAssumption, FS_Subset, FS_CardinalityType DEF Deployments
    <3> QED BY <3>1, <3>2 DEF Configs
  <2> QED BY <2>1, <2>2
<1>4. /\ call'.pc = "place" /\ call'.todo = <<cfg>> /\ call'.launch = {}
      /\ call'.names = {m}
  BY <1>2 DEF Idle
<1>5. <<cfg>> \in Seq(Configs) /\ \A k \in DOMAIN <<cfg>> : <<cfg>>[k].model \in {m}
  BY <1>3
<1>6. CallTyped'
  BY <1>2, <1>5 DEF CallTyped, CallRecs, Pcs, Idle
<1>7. Placing'
  BY <1>4, <1>5 DEF Placing
<1>8. call.pc = "idle" /\ ~Changing /\ call.launch = {}
  BY DEF Scale, Changing, IInv, Launching
<1>9. budget' \in [Faults -> Nat]
  BY <1>1, SpendTyped DEF Scale, Faults
<1> QED BY <1>4, <1>6, <1>7, <1>8, <1>9, CallOnly DEF Scale

\* A candidate of some node that is up.
LEMMA BestFits ==
    ASSUME LedgerTyped, NEW cfg \in Configs, NEW c \in Best(cfg)
    PROVE  /\ c \in Cands /\ c.node \in up /\ c.cfg = cfg
           /\ \A d \in c.victims : Expendable(d, c.node, cfg, call.names)
           /\ \A g \in c.gpus :
                 c.share <= avail[c.node][g] + Sum(shares, Takers(c.victims, g))
<1>1. PICK n \in up : c \in Candidates(n, cfg, call.names)
  BY DEF Best
<1>2. n \in Nodes
  BY DEF LedgerTyped
<1> QED BY <1>1, <1>2, CandidatesFit

\* A candidate is picked.
LEMMA ChooseKeeps ==
    ASSUME IInv, Choose
    PROVE  IInv'
<1>1. /\ call \in CallRecs /\ budget \in [Faults -> Nat] /\ LedgerTyped /\ Placing
      /\ call.pc = "place" /\ call.todo # <<>>
  BY DEF IInv, Typed, CallTyped, Choose
<1>2. /\ call.todo \in Seq(Configs)
      /\ \A k \in DOMAIN call.todo : call.todo[k].model \in call.names
  BY <1>1 DEF CallRecs, Placing
<1>3. Head(call.todo) \in Configs /\ Head(call.todo).model \in call.names
  BY <1>1, <1>2, TurnTakenTyped
<1>4. PICK c \in Best(Head(call.todo)) :
          call' = [call EXCEPT !.pc = "room", !.cand = c,
                               !.work = {d.rid : d \in c.victims}]
  BY DEF Choose
<1>5. /\ c \in Cands /\ c.node \in up /\ c.cfg = Head(call.todo)
      /\ \A d \in c.victims : Expendable(d, c.node, c.cfg, call.names)
  BY <1>1, <1>3, BestFits
<1>6. /\ call'.pc = "room" /\ call'.cand = c /\ call'.work = {d.rid : d \in c.victims}
      /\ call'.names = call.names /\ call'.todo = call.todo /\ call'.launch = call.launch
  BY <1>1, <1>4 DEF CallRecs
<1>7. {d.rid : d \in c.victims} \subseteq Rids
  BY <1>5 DEF Cands, Deployments
<1>8. CallTyped'
  BY <1>1, <1>4, <1>5, <1>6, <1>7 DEF CallTyped, CallRecs, Pcs
<1>9. UNCHANGED <<hot, young, up>>
  BY DEF Choose, ledger
<1>10. Placing'
  BY <1>1, <1>2, <1>3, <1>5, <1>6, <1>9 DEF Placing, Expendable, Evictable
<1>11. Changing'
  BY <1>6 DEF Changing
<1>12. call.launch = {}
  BY <1>1 DEF IInv, Launching
<1>13. budget' \in [Faults -> Nat]
  BY <1>1 DEF Choose
<1> QED BY <1>1, <1>6, <1>8, <1>10, <1>11, <1>12, <1>13, CallOnly DEF Choose

\* No node takes the model.
LEMMA CantAccommodateKeeps ==
    ASSUME IInv, CantAccommodate
    PROVE  IInv'
<1>1. /\ call \in CallRecs /\ budget \in [Faults -> Nat] /\ Placing
      /\ call.pc = "place" /\ call.todo # <<>>
  BY DEF IInv, Typed, CallTyped, CantAccommodate
<1>2. /\ call.todo \in Seq(Configs)
      /\ \A k \in DOMAIN call.todo : call.todo[k].model \in call.names
  BY <1>1 DEF CallRecs, Placing
<1>3. /\ call'.pc = "place" /\ call'.todo = Tail(call.todo) /\ call'.names = call.names
      /\ call'.launch = call.launch /\ call'.change = call.change
  BY <1>1 DEF CantAccommodate, CallRecs
<1>4. /\ Tail(call.todo) \in Seq(Configs)
      /\ \A k \in DOMAIN Tail(call.todo) : Tail(call.todo)[k].model \in call.names
  BY <1>1, <1>2, TurnTakenTyped
<1>5. CallTyped'
  BY <1>1, <1>3, <1>4 DEF CantAccommodate, CallTyped, CallRecs, Pcs
<1>6. Placing'
  BY <1>3, <1>4 DEF Placing
<1>7. Changing => Changing'
  BY <1>1, <1>3 DEF Changing
<1>8. call.launch = {}
  BY <1>1 DEF IInv, Launching
<1>9. budget' \in [Faults -> Nat]
  BY <1>1 DEF CantAccommodate
<1> QED BY <1>1, <1>3, <1>5, <1>6, <1>7, <1>8, <1>9, CallOnly DEF CantAccommodate

\* Between calls.
LEMMA IdleTyped == Idle \in CallRecs
BY DEF Idle, CallRecs, Pcs

\* All turns are through.
LEMMA PlacedAllKeeps ==
    ASSUME IInv, PlacedAll
    PROVE  IInv'
<1>1. /\ call \in CallRecs /\ budget' \in [Faults -> Nat] /\ call.pc = "place"
      /\ call.launch = {}
  BY DEF IInv, Typed, CallTyped, PlacedAll, Launching
<1>2. CASE call.change
  <2>1. call' = [call EXCEPT !.pc = "apply"]
    BY <1>2 DEF PlacedAll
  <2>2. /\ call'.pc = "apply" /\ call'.names = call.names /\ call'.launch = call.launch
    BY <1>1, <2>1 DEF CallRecs
  <2>3. CallTyped' /\ Placing' /\ Changing'
    BY <1>1, <2>1, <2>2 DEF CallTyped, CallRecs, Pcs, Placing, Changing
  <2> QED BY <1>1, <2>2, <2>3, CallOnly DEF PlacedAll
<1>3. CASE ~call.change
  <2>1. call' = Idle /\ ~Changing
    BY <1>1, <1>3 DEF PlacedAll, Changing
  <2>2. call'.pc = "idle" /\ call'.launch = {}
    BY <2>1 DEF Idle
  <2>3. CallTyped' /\ Placing'
    BY <2>1, <2>2, IdleTyped DEF CallTyped, Placing
  <2> QED BY <1>1, <2>1, <2>2, <2>3, CallOnly DEF PlacedAll
<1> QED BY <1>2, <1>3

\* The call evict() begins, of all of a model's replicas.
LEMMA EvictAllKeeps ==
    ASSUME IInv, NEW m \in Models, EvictAll(m)
    PROVE  IInv'
<1> DEFINE all == {x \in hot \cup warm : x.model = m}
           rids == {d.rid : d \in all}
<1>1. /\ budget \in [Faults -> Nat] /\ call.pc = "idle" /\ call.launch = {}
      /\ hot \cup warm \subseteq Deployments
  BY DEF IInv, Typed, LedgerTyped, EvictAll, Launching
<1>2. call' = [Idle EXCEPT !.pc = "drain", !.work = rids]
  BY DEF EvictAll
<1>3. rids \subseteq Rids
  <2>1. \A d \in all : d.rid \in Rids
    BY <1>1 DEF Deployments
  <2> HIDE DEF all
  <2> QED BY <2>1
<1>4. call'.pc = "drain" /\ call'.launch = {}
  BY <1>2 DEF Idle
<1>5. CallTyped' /\ Placing'
  <2> HIDE DEF rids
  <2>1. call' \in CallRecs
    BY <1>2, <1>3, IdleTyped DEF CallRecs, Pcs
  <2> QED BY <1>4, <2>1 DEF CallTyped, Placing
<1>6. ~Changing
  BY <1>1 DEF Changing
<1>7. budget' \in [Faults -> Nat]
  BY <1>1, SpendTyped DEF EvictAll, Faults
<1> QED BY <1>1, <1>4, <1>5, <1>6, <1>7, CallOnly DEF EvictAll

\* The ends of the loops of evict() and apply().
LEMMA LoopsKeep ==
    ASSUME IInv, Drained \/ CachedAll \/ Applied
    PROVE  IInv'
<1>1. /\ call \in CallRecs /\ budget' \in [Faults -> Nat]
      /\ call.pc \notin {"cache", "launch"} => call.launch = {}
      /\ UNCHANGED <<ledger, state, mon, parking, actor>>
  BY DEF IInv, Typed, CallTyped, Drained, CachedAll, Applied, Launching
<1>2. CASE Drained
  <2>1. /\ call.pc = "drain" /\ call'.pc = "apply" /\ call'.names = call.names
        /\ call'.launch = call.launch
    BY <1>1, <1>2 DEF Drained, CallRecs
  <2>2. CallTyped' /\ Placing' /\ Changing'
    BY <1>1, <1>2, <2>1 DEF Drained, CallTyped, CallRecs, Pcs, Placing, Changing
  <2> QED BY <1>1, <2>1, <2>2, CallOnly
<1>3. CASE CachedAll
  <2>1. /\ call.pc = "cache" /\ call'.pc = "launch" /\ call.work = {}
        /\ call'.launch = call.launch
    BY <1>1, <1>3 DEF CachedAll, CallRecs
  <2>2. CallTyped' /\ Placing' /\ ~Changing
    BY <1>1, <1>3, <2>1 DEF CachedAll, CallTyped, CallRecs, Pcs, Placing, Changing
  <2> QED BY <1>1, <2>1, <2>2, CallOnly
<1>4. CASE Applied
  <2>1. /\ call.pc = "launch" /\ call' = Idle /\ call'.pc = "idle" /\ call.launch = {}
        /\ call'.launch = {}
    BY <1>4 DEF Applied, Idle
  <2>2. CallTyped' /\ Placing' /\ ~Changing
    BY <2>1, IdleTyped DEF CallTyped, Placing, Changing
  <2> QED BY <1>1, <2>1, <2>2, CallOnly
<1> QED BY <1>2, <1>3, <1>4

-----------------------------------------------------------------------------
(* Steps that move replicas between the lists *)

\* A replica leaves the GPUs, or the cache, and may be parked.
LEMMA EvictKeeps ==
    ASSUME IInv, NEW d \in hot \cup warm, NEW names,
           Evict(d, names) \/ Purge(d),
           UNCHANGED <<state, mon, parking, actor>>, budget' \in [Faults -> Nat],
           CallTyped', Placing', Changing', call.launch = {}, call'.launch = {},
           call.pc # "cache", call'.pc # "cache",
           d \in hot => state[d.rid] = "HOT",
           Purge(d) \/ d.model \notin call'.names,
           Changing => call'.names = call.names
                       /\ (call'.pc = "drain" => call.pc = "drain")
    PROVE  IInv'
<1>1. /\ LedgerTyped /\ Distinct /\ Applies /\ Launching /\ Posted /\ Awaited
      /\ Parks /\ Settled /\ Owned /\ Traced /\ ActorsTyped
  BY DEF IInv, Typed
<1>2. /\ up' = up /\ hot' = hot \ {d}
      /\ warm' \subseteq (warm \ {d}) \cup {Parked(d)}
      /\ d \in warm => warm' = warm \ {d}
      /\ Purge(d) => warm' \subseteq warm
  BY <1>1, EvictShape
<1>3. d \in Deployments
  BY <1>1 DEF LedgerTyped
<1>4. /\ Parked(d).rid = d.rid /\ Parked(d).model = d.model
      /\ Parked(d).node = d.node
  BY <1>3, ParkedTyped
<1>5. Typed'
  <2>1. LedgerTyped'
    BY <1>1, EvictTyped
  <2> QED BY <1>1, <2>1 DEF Typed, ActorsTyped
<1>6. Distinct'
  BY <1>1, <1>2, <1>4 DEF Distinct
<1>7. \A w \in warm' : w \in warm \/ /\ w = Parked(d) /\ state[w.rid] = "HOT"
                                     /\ w.model \notin call'.names
  BY <1>2, <1>4
<1>8. Applies'
  <2>1. \A x \in hot : \/ state[x.rid] = "HOT"
                       \/ Changing /\ call.pc # "drain" /\ x.model \in call.names
    BY <1>1 DEF Applies
  <2>2. \A w \in warm : \/ state[w.rid] = "WARM"
                        \/ state[w.rid] = "HOT" /\ Changing /\ w.model \notin call.names
    BY <1>1 DEF Applies
  <2> QED BY <1>2, <1>7, <2>1, <2>2 DEF Applies
<1>9. Launching'
  BY <1>1, <1>2 DEF Launching, Watched
<1>10. Posted' /\ Awaited'
  BY <1>1 DEF Posted, Letter, Awaited, Pending, Watched
<1>11. Parks'
  BY <1>1 DEF Parks, Pending, Watched, Alive
<1>12. Settled'
  BY <1>1, <1>7 DEF Settled, Pending, Watched
<1>13. Owned'
  <2>1. ASSUME NEW x \in hot \cup warm PROVE x \in hot' \/ state[x.rid] # "none"
    BY <1>1, <1>2 DEF Applies
  <2> QED BY <1>1, <2>1 DEF Owned, Listed, RidsOf, Alive
<1>14. Traced'
  BY <1>1, <1>2, <1>4 DEF Traced, Watched
<1> QED BY <1>5, <1>6, <1>8, <1>9, <1>10, <1>11, <1>12, <1>13, <1>14 DEF IInv

\* The victim of a placement is one that may go.
LEMMA VictimsMayGo ==
    ASSUME LedgerTyped, Distinct, Placing, Applies, NEW d \in hot \cup warm,
           call.pc = "room", d.rid \in call.work
    PROVE  /\ d \in hot /\ Expendable(d, call.cand.node, call.cand.cfg, call.names)
           /\ state[d.rid] = "HOT"
<1>1. PICK h \in hot : /\ h.rid = d.rid
                       /\ Expendable(h, call.cand.node, call.cand.cfg, call.names)
  BY DEF Placing
<1>2. h = d
  BY <1>1 DEF Distinct
<1> QED BY <1>1, <1>2 DEF Expendable, Applies

\* A candidate's victim goes.
LEMMA MakeRoomKeeps ==
    ASSUME IInv, NEW d \in hot \cup warm, MakeRoom(d)
    PROVE  IInv'
<1>1. /\ call \in CallRecs /\ budget' \in [Faults -> Nat] /\ call.pc = "room"
      /\ call.cand \in Cands /\ call.launch = {} /\ d.rid \in call.work
      /\ LedgerTyped /\ Distinct /\ Placing /\ Applies
  BY DEF IInv, Typed, CallTyped, MakeRoom, Launching
<1>2. /\ call' = [call EXCEPT !.work = @ \ {d.rid}]
      /\ Evict(d, call.names)
      /\ UNCHANGED <<state, mon, parking, actor>>
  BY DEF MakeRoom
<1>3. /\ call'.pc = "room" /\ call'.names = call.names /\ call'.launch = {}
      /\ call'.work = call.work \ {d.rid} /\ call'.cand = call.cand
      /\ call'.todo = call.todo
  BY <1>1, <1>2 DEF CallRecs
<1>4. CallTyped'
  BY <1>1, <1>2, <1>3 DEF CallTyped, CallRecs
<1>5. /\ d \in hot /\ state[d.rid] = "HOT" /\ d.model \notin call.names
  BY <1>1, VictimsMayGo DEF Expendable
<1>6. up' = up /\ hot' = hot \ {d} /\ young' \subseteq young
  BY <1>1, <1>2, EvictShape
<1>7. Placing'
  <2>1. ASSUME NEW r \in call'.work
        PROVE  \E x \in hot' : /\ x.rid = r
                               /\ Expendable(x, call.cand.node, call.cand.cfg,
                                             call.names)'
    <3>1. r \in call.work /\ r # d.rid
      BY <1>3, <2>1
    <3>2. PICK x \in hot : /\ x.rid = r
                           /\ Expendable(x, call.cand.node, call.cand.cfg, call.names)
      BY <1>1, <3>1 DEF Placing
    <3>3. x \in hot'
      BY <1>6, <3>1, <3>2
    <3> QED BY <1>3, <1>6, <3>2, <3>3 DEF Expendable, Evictable
  <2> QED BY <1>1, <1>3, <1>6, <2>1 DEF Placing
<1>8. Changing'
  BY <1>3 DEF Changing
<1> QED BY <1>1, <1>2, <1>3, <1>4, <1>5, <1>7, <1>8, EvictKeeps

\* evict() of one replica.
LEMMA EvictOneKeeps ==
    ASSUME IInv, NEW d \in hot \cup warm, EvictOne(d)
    PROVE  IInv'
<1>1. /\ budget \in [Faults -> Nat] /\ call.pc = "idle" /\ call.launch = {}
      /\ Applies /\ ~Changing
  BY DEF IInv, Typed, EvictOne, Launching, Changing
<1>2. /\ call' = [Idle EXCEPT !.pc = "apply"] /\ Evict(d, {})
      /\ UNCHANGED <<state, mon, parking, actor>>
  BY DEF EvictOne
<1>3. call'.pc = "apply" /\ call'.names = {} /\ call'.launch = {}
  BY <1>2 DEF Idle
<1>4. call' \in CallRecs
  BY <1>2, IdleTyped DEF CallRecs, Pcs
<1>5. CallTyped' /\ Placing' /\ Changing'
  BY <1>3, <1>4 DEF CallTyped, Placing, Changing
<1>6. d \in hot => state[d.rid] = "HOT"
  BY <1>1 DEF Applies
<1>7. budget' \in [Faults -> Nat]
  BY <1>1, SpendTyped DEF EvictOne, Faults
<1> QED BY <1>1, <1>2, <1>3, <1>5, <1>6, <1>7, EvictKeeps

\* evict() of a model's next replica.
LEMMA DrainKeeps ==
    ASSUME IInv, NEW d \in hot \cup warm, Drain(d)
    PROVE  IInv'
<1>1. /\ budget \in [Faults -> Nat] /\ call.pc = "drain" /\ call.launch = {}
      /\ Applies /\ CallTyped
  BY DEF IInv, Typed, Drain, Launching
<1>2. /\ Purge(d) /\ UNCHANGED <<state, call, mon, parking, actor, budget>>
  BY DEF Drain
<1>3. CallTyped' /\ Placing' /\ Changing'
  BY <1>1, <1>2 DEF CallTyped, Placing, Changing
<1>4. d \in hot => state[d.rid] = "HOT"
  BY <1>1 DEF Applies
<1> QED BY <1>1, <1>2, <1>3, <1>4, EvictKeeps

\* The replica that is placed is new, or a WARM one of the model.
LEMMA PlacedShape ==
    ASSUME LedgerTyped, Distinct, NEW r \in Rids, Placed(r)
    PROVE  /\ up' = up /\ hot' = hot \cup {NewReplica(call.cand, r)}
           /\ avail' = Booked(call.cand.node, call.cand.gpus, call.cand.share)
           /\ \A x \in hot : x.rid # r
           /\ \/ Fresh(r) /\ UNCHANGED <<warm, cpu>>
              \/ \E w \in warm :
                    /\ w.rid = r /\ w.model = call.cand.cfg.model
                    /\ w.node = call.cand.node /\ warm' = warm \ {w}
                    /\ cpu' = [cpu EXCEPT ![call.cand.node] = @ + w.size]
<1>1. Place(call.cand, r)
  BY DEF Placed
<1>2. \/ Fresh(r)
      \/ \E w \in warm : /\ w.rid = r /\ w.model = call.cand.cfg.model
                         /\ w.node = call.cand.node
  BY DEF Placed
<1>3. Fresh(r) => \A x \in hot \cup warm : x.rid # r
  BY DEF Fresh
<1>4. \A w \in warm, x \in hot : x.rid # w.rid
  BY DEF Distinct
<1> QED BY <1>1, <1>2, <1>3, <1>4, PlaceShape

\* A replica is placed: new, or a WARM one that is promoted.
LEMMA PlacedKeeps ==
    ASSUME IInv, NEW r \in Rids, Placed(r)
    PROVE  IInv'
<1> DEFINE c == call.cand
           d == NewReplica(c, r)
<1>1. /\ call \in CallRecs /\ call.pc = "room" /\ c \in Cands /\ call.launch = {}
      /\ LedgerTyped /\ Distinct /\ Placing /\ Applies /\ Launching /\ Posted
      /\ Awaited /\ Parks /\ Settled /\ Owned /\ ActorsTyped /\ Traced
      /\ budget \in [Faults -> Nat]
  BY DEF IInv, Typed, CallTyped, Placed, Launching
<1>2. /\ call' = [call EXCEPT !.pc = "place", !.todo = TurnTaken(@),
                              !.cand = None, !.change = TRUE]
      /\ UNCHANGED <<state, mon, parking, actor, budget>>
      /\ Place(call.cand, r)
  BY DEF Placed
<1>3. /\ call'.pc = "place" /\ call'.names = call.names /\ call'.launch = {}
      /\ call'.todo = TurnTaken(call.todo) /\ call'.change = TRUE
  BY <1>1, <1>2 DEF CallRecs
<1>4. /\ up' = up /\ hot' = hot \cup {d} /\ \A x \in hot : x.rid # r
      /\ \/ Fresh(r) /\ UNCHANGED warm
         \/ \E w \in warm : /\ w.rid = r /\ w.model = c.cfg.model /\ w.node = c.node
                            /\ warm' = warm \ {w}
  BY <1>1, PlacedShape
<1>5. /\ d \in Deployments /\ d.rid = r /\ d.model = c.cfg.model /\ d.node = c.node
  BY <1>1, NewReplicaTyped DEF NewReplica
<1>6. d.node \in up /\ d.model \in call.names
  BY <1>1, <1>5 DEF Placing
<1>7. Typed' /\ Placing'
  <2>1. LedgerTyped'
    BY <1>1, <1>2, PlaceTyped
  <2>2. /\ TurnTaken(call.todo) \in Seq(Configs)
        /\ \A k \in DOMAIN TurnTaken(call.todo) :
              TurnTaken(call.todo)[k].model \in call.names
    <3>1. /\ call.todo \in Seq(Configs) /\ call.todo # <<>>
          /\ \A k \in DOMAIN call.todo : call.todo[k].model \in call.names
      BY <1>1 DEF CallRecs, Placing
    <3> QED BY <3>1, TurnTakenTyped
  <2>3. CallTyped'
    BY <1>1, <1>2, <1>3, <2>2 DEF CallTyped, CallRecs, Pcs
  <2>4. Placing'
    BY <1>3, <2>2 DEF Placing
  <2> QED BY <1>1, <1>2, <2>1, <2>3, <2>4 DEF Typed, ActorsTyped
<1> HIDE DEF d, c
<1>8. Distinct'
  <2>1. CASE Fresh(r) /\ UNCHANGED warm
    BY <1>1, <1>4, <1>5, <1>6, <2>1 DEF Distinct, Fresh
  <2>2. CASE \E w \in warm : w.rid = r /\ warm' = warm \ {w}
    BY <1>1, <1>4, <1>5, <1>6, <2>2 DEF Distinct
  <2> QED BY <1>4, <2>1, <2>2
<1>9. warm' \subseteq warm
  BY <1>4
<1>10. Changing /\ Changing'
  BY <1>1, <1>3 DEF Changing
<1>11. Applies'
  BY <1>1, <1>2, <1>3, <1>4, <1>5, <1>6, <1>9, <1>10 DEF Applies
<1>12. Launching'
  <2>1. ASSUME NEW i \in Mons, state[r] = "none" PROVE ~Watched(i, r)
    <3>1. Fresh(r)
      BY <1>1, <1>4, <2>1 DEF Applies
    <3> QED BY <3>1 DEF Fresh, Watched
  <2> QED BY <1>1, <1>2, <1>3, <1>4, <1>5, <2>1 DEF Launching, Watched
<1>13. Posted' /\ Awaited'
  BY <1>1, <1>2 DEF Posted, Letter, Awaited, Pending, Watched
<1>14. Parks'
  BY <1>1, <1>2, <1>3 DEF Parks, Pending, Watched, Alive
<1>15. Settled'
  BY <1>1, <1>2, <1>9 DEF Settled, Pending, Watched
<1>16. Owned'
  <2>1. ASSUME NEW x \in hot \cup warm PROVE x.rid \in Listed'
    <3>1. x \in hot' \/ x \in warm' \/ x.rid = r
      BY <1>4
    <3> QED BY <1>4, <1>5, <3>1 DEF Listed, RidsOf
  <2> QED BY <1>1, <1>2, <1>10, <2>1 DEF Owned, Listed, RidsOf, Alive
<1>17. Traced'
  <2>1. ASSUME NEW i \in Mons, Watched(i, r) PROVE mon[i].dep.node = d.node
    <3>1. PICK w \in warm : w.rid = r /\ w.node = c.node
      BY <1>4, <2>1 DEF Fresh, Watched
    <3> QED BY <1>1, <1>5, <2>1, <3>1 DEF Traced
  <2> QED BY <1>1, <1>2, <1>4, <1>5, <1>9, <2>1 DEF Traced, Watched
<1> QED BY <1>7, <1>8, <1>11, <1>12, <1>13, <1>14, <1>15, <1>16, <1>17 DEF IInv

-----------------------------------------------------------------------------
(* build() *)

\* Of the monitors only the futures change, and only to failed.
LEMMA BrokenShape ==
    ASSUME mon \in [Mons -> Watches \cup {None}], NEW S
    PROVE  /\ Broken(S, mon) \in [Mons -> Watches \cup {None}]
           /\ \A i \in Mons :
                 /\ Broken(S, mon)[i] = None <=> mon[i] = None
                 /\ mon[i] # None =>
                       /\ Broken(S, mon)[i].dep = mon[i].dep
                       /\ Broken(S, mon)[i].op = mon[i].op
                       /\ Broken(S, mon)[i].fut =
                             IF mon[i].dep.rid \in S /\ mon[i].fut = "pending"
                             THEN "failed" ELSE mon[i].fut
<1> SUFFICES ASSUME NEW i \in Mons
             PROVE  /\ Broken(S, mon)[i] \in Watches \cup {None}
                    /\ Broken(S, mon)[i] = None <=> mon[i] = None
                    /\ mon[i] # None =>
                          /\ Broken(S, mon)[i].dep = mon[i].dep
                          /\ Broken(S, mon)[i].op = mon[i].op
                          /\ Broken(S, mon)[i].fut =
                                IF mon[i].dep.rid \in S /\ mon[i].fut = "pending"
                                THEN "failed" ELSE mon[i].fut
  BY DEF Broken
<1> DEFINE b == [mon[i] EXCEPT !.fut = "failed"]
<1>1. Broken(S, mon)[i] = IF /\ mon[i] # None /\ mon[i].dep.rid \in S
                             /\ mon[i].fut = "pending"
                          THEN b ELSE mon[i]
  BY DEF Broken
<1>2. mon[i] # None => /\ b \in Watches /\ b.dep = mon[i].dep /\ b.op = mon[i].op
                       /\ b.fut = "failed"
  BY DEF Watches
<1> HIDE DEF b
<1> QED BY <1>1, <1>2, NoneIsNoWatch

\* What is looked for in the monitors afterwards.
LEMMA BrokenWatches ==
    ASSUME mon \in [Mons -> Watches \cup {None}], NEW S, mon' = Broken(S, mon)
    PROVE  /\ mon' \in [Mons -> Watches \cup {None}]
           /\ \A i \in Mons : \A r : Watched(i, r)' <=> Watched(i, r)
           /\ \A i \in Mons : Pending(i)' <=> Pending(i) /\ mon[i].dep.rid \notin S
           /\ \A i \in Mons : mon[i] # None => mon'[i].dep = mon[i].dep
           /\ \A i \in Mons : mon[i] # None => mon'[i].dep = mon[i].dep
      /\ \A i \in Mons : Pending(i) => /\ mon'[i].dep = mon[i].dep
                                            /\ mon'[i].op = mon[i].op
BY BrokenShape DEF Watched, Pending

\* What is left of an actor that is deleted.
LEMMA GoneTyped ==
    /\ [NoActor EXCEPT !.life = "gone"] \in ActorRecs
    /\ [NoActor EXCEPT !.life = "gone"].life = "gone"
    /\ [NoActor EXCEPT !.life = "gone"].inbox = <<>>
    /\ NoActor \in ActorRecs
<1>1. NoActor \in ActorRecs /\ NoActor.inbox = <<>>
  BY DEF NoActor, ActorRecs, Nowhere, Holdings
<1> QED BY <1>1 DEF ActorRecs

\* A message that stays in the inbox, of a monitor that keeps waiting.
LEMMA LetterStays ==
    ASSUME NEW r, NEW k, Letter(r, k), NEW j, NEW a \in Mons,
           actor[r].inbox[k].mon = a, actor'[r].inbox[j] = actor[r].inbox[k],
           Pending(a)', mon'[a].dep = mon[a].dep, mon'[a].op = mon[a].op,
           \A h \in DOMAIN actor'[r].inbox : actor'[r].inbox[h].mon = a => h = j
    PROVE  Letter(r, j)'
<1>1. a # None
  BY NoneIsNoMonitor
<1>2. /\ actor[r].inbox[k].op = "from_cache" /\ Watched(a, r)
      /\ mon[a].op = "from_cache"
  BY <1>1 DEF Letter
<1>3. Watched(a, r)'
  BY <1>2 DEF Watched, Pending
<1> QED BY <1>1, <1>2, <1>3 DEF Letter

\* An inbox that stays as it is, of a replica whose monitors keep waiting.
LEMMA InboxStays ==
    ASSUME ActorsTyped, NEW r \in Rids, \A k \in DOMAIN actor[r].inbox : Letter(r, k),
           actor'[r].inbox = actor[r].inbox,
           parking[r] = "pending" => parking'[r] = "pending",
           \A i \in Mons : Pending(i) /\ Watched(i, r) =>
               Pending(i)' /\ mon'[i].dep = mon[i].dep /\ mon'[i].op = mon[i].op,
           NEW k \in DOMAIN actor'[r].inbox
    PROVE  Letter(r, k)'
<1>1. Letter(r, k) /\ actor[r].inbox[k] \in Messages
  BY DEF ActorsTyped, ActorRecs
<1>2. CASE actor[r].inbox[k].mon = None
  BY <1>1, <1>2 DEF Letter
<1>3. CASE actor[r].inbox[k].mon # None
  <2>1. PICK i \in Mons : i = actor[r].inbox[k].mon
    BY <1>1, <1>3 DEF Messages
  <2>2. /\ Pending(i) /\ Watched(i, r)
        /\ \A j \in DOMAIN actor[r].inbox : actor[r].inbox[j].mon = i => j = k
    BY <1>1, <1>3, <2>1 DEF Letter
  <2>3. Pending(i)' /\ mon'[i].dep = mon[i].dep /\ mon'[i].op = mon[i].op
    BY <2>2
  <2> QED BY <1>1, <2>1, <2>2, <2>3, LetterStays
<1> QED BY <1>2, <1>3

\* build(): state becomes what the nodes list, and nobody unlisted stays alive.
LEMMA BuildKeeps ==
    ASSUME IInv, Build
    PROVE  IInv'
<1> DEFINE park == {d \in warm : state[d.rid] = "HOT"}
           restore == {d \in hot : state[d.rid] = "WARM"}
           create == {d \in hot : state[d.rid] = "none"}
           delete == {r \in Rids : state[r] # "none"} \ RidsOf(hot \cup warm)
           ask == [op |-> "to_cache", at |-> Nowhere, mon |-> None]
           launch == {[dep |-> d, op |-> "from_cache"] : d \in restore}
                     \cup {[dep |-> d, op |-> "create"] : d \in create}
<1>1. /\ call \in CallRecs /\ call.pc = "apply"
      /\ LedgerTyped /\ Distinct /\ Applies /\ Launching /\ Posted
      /\ Awaited /\ Parks /\ Settled /\ Owned /\ Traced /\ ActorsTyped
      /\ budget \in [Faults -> Nat]
  BY DEF IInv, Typed, CallTyped, Build
<1>2. /\ state' = [r \in Rids |-> IF r \in RidsOf(warm) THEN "WARM"
                                  ELSE IF r \in RidsOf(hot) THEN "HOT" ELSE "none"]
      /\ mon' = Broken(delete, mon)
      /\ actor' = [r \in Rids |->
            IF r \in delete THEN [NoActor EXCEPT !.life = "gone"]
            ELSE IF r \in RidsOf(park) /\ Alive(r)
            THEN [actor[r] EXCEPT !.inbox = Append(@, ask)]
            ELSE actor[r]]
      /\ parking' = [r \in Rids |->
            IF r \in RidsOf(park) THEN CacheFuture(r) ELSE "none"]
      /\ call' = [call EXCEPT !.pc = "cache", !.work = RidsOf(park), !.launch = launch]
      /\ UNCHANGED <<ledger, budget>>
  BY DEF Build
<1>3. UNCHANGED <<up, avail, cpu, hot, warm, young>>
  BY <1>2 DEF ledger
<1>4. call'.pc = "cache" /\ call'.work = RidsOf(park) /\ call'.launch = launch
  BY <1>1, <1>2 DEF CallRecs
<1>5. /\ mon' \in [Mons -> Watches \cup {None}]
      /\ \A i \in Mons : \A r : Watched(i, r)' <=> Watched(i, r)
      /\ \A i \in Mons : Pending(i)' <=> Pending(i) /\ mon[i].dep.rid \notin delete
      /\ \A i \in Mons : mon[i] # None => mon'[i].dep = mon[i].dep
      /\ \A i \in Mons : Pending(i) => /\ mon'[i].dep = mon[i].dep
                                       /\ mon'[i].op = mon[i].op
  <2> HIDE DEF delete
  <2> QED BY <1>1, <1>2, BrokenWatches DEF ActorsTyped
<1>6. \A d \in hot \cup warm : d.rid \in Rids /\ d \in Deployments
  BY <1>1 DEF LedgerTyped, Deployments
<1>7. \A r \in RidsOf(park) : r \in Rids /\ r \in RidsOf(warm) /\ r \notin delete
  BY <1>6 DEF RidsOf
<1>8. /\ \A w \in warm : state'[w.rid] = "WARM"
      /\ \A d \in hot : state'[d.rid] = "HOT"
      /\ state' \in [Rids -> {"none", "HOT", "WARM"}]
  <2>1. \A d \in hot : d.rid \in RidsOf(hot) /\ d.rid \notin RidsOf(warm)
    BY <1>1 DEF Distinct, RidsOf
  <2>2. \A w \in warm : w.rid \in RidsOf(warm)
    BY DEF RidsOf
  <2> QED BY <1>2, <1>6, <2>1, <2>2
<1>9. \A r \in Rids : /\ r \in RidsOf(park) => parking'[r] = CacheFuture(r)
                      /\ r \notin RidsOf(park) => parking'[r] = "none"
  BY <1>2
<1>10. /\ ask \in Messages /\ ask.mon = None /\ ask.op = "to_cache"
       /\ [NoActor EXCEPT !.life = "gone"] \in ActorRecs
       /\ [NoActor EXCEPT !.life = "gone"].life = "gone"
       /\ [NoActor EXCEPT !.life = "gone"].inbox = <<>>
  BY GoneTyped DEF Messages, Nowhere, Holdings
<1>11. \A r \in Rids : actor[r] \in ActorRecs /\ actor[r].inbox \in Seq(Messages)
  BY <1>1 DEF ActorsTyped, ActorRecs
<1>12. ASSUME NEW r \in Rids
       PROVE  /\ actor'[r] \in ActorRecs
              /\ r \in delete => actor'[r].life = "gone" /\ actor'[r].inbox = <<>>
              /\ r \notin delete => actor'[r].life = actor[r].life
              /\ r \in RidsOf(park) /\ Alive(r) =>
                    actor'[r].inbox = Append(actor[r].inbox, ask)
              /\ r \notin delete /\ ~(r \in RidsOf(park) /\ Alive(r)) =>
                    actor'[r] = actor[r]
  <2>1. CASE r \in delete
    <3>1. actor'[r] = [NoActor EXCEPT !.life = "gone"]
      BY <1>2, <2>1
    <3> HIDE DEF delete, park, ask
    <3> QED BY <1>7, <1>10, <2>1, <3>1
  <2>2. CASE r \notin delete /\ r \in RidsOf(park) /\ Alive(r)
    <3>1. actor'[r] = [actor[r] EXCEPT !.inbox = Append(@, ask)]
      BY <1>2, <2>2
    <3> HIDE DEF delete, park, ask
    <3>2. Append(actor[r].inbox, ask) \in Seq(Messages)
      BY <1>10, <1>11
    <3> QED BY <1>11, <2>2, <3>1, <3>2 DEF ActorRecs
  <2>3. CASE r \notin delete /\ ~(r \in RidsOf(park) /\ Alive(r))
    <3>1. actor'[r] = actor[r]
      BY <1>2, <2>3
    <3> HIDE DEF delete, park, ask
    <3> QED BY <1>11, <2>3, <3>1
  <2> HIDE DEF delete, park, ask
  <2> QED BY <2>1, <2>2, <2>3
<1>13. launch \subseteq Launches /\ RidsOf(park) \subseteq Rids
  <2>1. \A l \in launch : l \in Launches
    BY <1>6 DEF Launches
  <2> QED BY <1>7, <2>1
<1>14. Typed'
  <2>1. CallTyped'
    <3> HIDE DEF launch, park
    <3> QED BY <1>1, <1>2, <1>4, <1>13 DEF CallTyped, CallRecs, Pcs
  <2>2. actor' \in [Rids -> ActorRecs]
    <3> HIDE DEF delete, park, ask
    <3> QED BY <1>2, <1>12
  <2>3. parking' \in [Rids -> {"none", "pending", "ok", "failed"}]
    BY <1>2 DEF CacheFuture
  <2> HIDE DEF delete, park, ask, launch
  <2> QED BY <1>1, <1>2, <1>3, <1>5, <1>8, <2>1, <2>2, <2>3
          DEF Typed, LedgerTyped, ActorsTyped
<1>15. Distinct' /\ Placing' /\ Applies'
  <2> HIDE DEF delete, park, ask, launch
  <2> QED BY <1>1, <1>3, <1>4, <1>8 DEF Distinct, Placing, Applies
<1>16. Launching'
  <2>1. ASSUME NEW l \in launch
        PROVE  /\ l.dep \in hot
               /\ l.op = "create" => state[l.dep.rid] = "none"
               /\ l.op # "create" => state[l.dep.rid] = "WARM" /\ l.op = "from_cache"
               /\ l = [dep |-> l.dep, op |-> l.op]
    OBVIOUS
  <2>2. \A l, m \in launch : l.dep = m.dep => l = m
    <3> HIDE DEF launch
    <3>1. SUFFICES ASSUME NEW l \in launch, NEW m \in launch, l.dep = m.dep
                   PROVE  l.op = m.op
      BY <2>1
    <3> QED BY <2>1, <3>1
  <2> HIDE DEF delete, park, ask, launch
  <2>3. \A l \in launch, i \in Mons : l.op = "create" => ~Watched(i, l.dep.rid)
    BY <1>1, <2>1 DEF Launching
  <2> QED BY <1>3, <1>4, <1>5, <1>8, <2>1, <2>2, <2>3 DEF Launching
<1>17. \A r \in Rids : \A k \in DOMAIN actor[r].inbox : actor[r].inbox[k].mon # None
  BY <1>1 DEF Posted, Letter, Parks
<1>18. Posted'
  <2> SUFFICES ASSUME NEW r \in Rids, NEW k \in DOMAIN actor'[r].inbox
               PROVE  Letter(r, k)'
    BY DEF Posted
  <2> HIDE DEF delete, park, ask, launch
  <2>1. r \notin delete
    BY <1>12
  <2>2. \A j \in DOMAIN actor[r].inbox : Letter(r, j) /\ actor[r].inbox[j].mon # None
    BY <1>1, <1>17 DEF Posted
  <2>3. CASE r \in RidsOf(park) /\ Alive(r)
    <3> DEFINE old == actor[r].inbox
    <3>1. /\ actor'[r].inbox = Append(old, ask) /\ old \in Seq(Messages)
          /\ parking'[r] = "pending"
      BY <1>9, <1>11, <1>12, <2>3 DEF CacheFuture
    <3>2. /\ Len(actor'[r].inbox) = Len(old) + 1 /\ Len(old) \in Nat
          /\ DOMAIN old = 1..Len(old) /\ DOMAIN actor'[r].inbox = 1..(Len(old) + 1)
          /\ actor'[r].inbox[Len(old) + 1] = ask
          /\ \A j \in DOMAIN old : actor'[r].inbox[j] = old[j]
      BY <1>10, <3>1
    <3>3. CASE k = Len(old) + 1
      BY <1>10, <3>1, <3>2, <3>3 DEF Letter
    <3>4. CASE k \in DOMAIN old
      <4>1. old[k] \in Messages /\ old[k].mon # None /\ Letter(r, k)
        BY <2>2, <3>1, <3>4
      <4>2. PICK a \in Mons : a = old[k].mon
        BY <4>1 DEF Messages
      <4>3. Pending(a) /\ Watched(a, r) /\ \A j \in DOMAIN old : old[j].mon = a => j = k
        BY <4>1, <4>2 DEF Letter
      <4>4. Pending(a)' /\ mon'[a].dep = mon[a].dep /\ mon'[a].op = mon[a].op
        BY <1>5, <2>1, <4>3 DEF Watched
      <4>5. \A j \in DOMAIN actor'[r].inbox : actor'[r].inbox[j].mon = a => j = k
        <5> SUFFICES ASSUME NEW j \in DOMAIN actor'[r].inbox,
                            actor'[r].inbox[j].mon = a
                     PROVE  j = k
          OBVIOUS
        <5>1. j \in DOMAIN old
          BY <1>10, <3>2, NoneIsNoMonitor
        <5> QED BY <3>2, <4>3, <5>1
      <4>6. actor'[r].inbox[k] = actor[r].inbox[k]
        BY <3>2, <3>4
      <4>7. actor[r].inbox[k].mon = a
        BY <4>2
      <4> HIDE DEF old
      <4> QED BY <4>1, <4>4, <4>5, <4>6, <4>7, LetterStays
    <3> QED BY <3>2, <3>3, <3>4
  <2>4. CASE ~(r \in RidsOf(park) /\ Alive(r))
    <3>1. actor'[r] = actor[r]
      BY <1>12, <2>1, <2>4
    <3>2. parking[r] # "pending"
      BY <1>1 DEF Parks
    <3>3. \A i \in Mons : Pending(i) /\ Watched(i, r) =>
              Pending(i)' /\ mon'[i].dep = mon[i].dep /\ mon'[i].op = mon[i].op
      BY <1>5, <2>1 DEF Watched
    <3> QED BY <1>1, <2>2, <3>1, <3>2, <3>3, InboxStays
  <2> QED BY <2>3, <2>4
<1>19. Awaited'
  <2> HIDE DEF delete, park, ask, launch
  <2> SUFFICES ASSUME NEW i \in Mons, Pending(i)'
               PROVE  LET r == mon'[i].dep.rid IN
                      \/ mon'[i].op = "create" /\ actor'[r].life = "loading"
                      \/ /\ mon'[i].op = "from_cache"
                         /\ \E k \in DOMAIN actor'[r].inbox : actor'[r].inbox[k].mon = i
    BY DEF Awaited
  <2> DEFINE r == mon[i].dep.rid
  <2>1. /\ Pending(i) /\ r \notin delete /\ mon'[i].dep.rid = r /\ mon'[i].op = mon[i].op
    BY <1>5
  <2>2. r \in Rids
    BY <1>1, <2>1 DEF Pending, ActorsTyped, Watches, Deployments
  <2>3. actor'[r].life = actor[r].life
    BY <1>12, <2>1, <2>2
  <2>4. \A k \in DOMAIN actor[r].inbox : /\ k \in DOMAIN actor'[r].inbox
                                         /\ actor'[r].inbox[k] = actor[r].inbox[k]
    <3>1. CASE r \in RidsOf(park) /\ Alive(r)
      <4>1. /\ actor'[r].inbox = Append(actor[r].inbox, ask)
            /\ actor[r].inbox \in Seq(Messages)
        BY <1>11, <1>12, <2>2, <3>1
      <4> QED BY <1>10, <4>1
    <3>2. CASE ~(r \in RidsOf(park) /\ Alive(r))
      BY <1>12, <2>1, <2>2, <3>2
    <3> QED BY <3>1, <3>2
  <2>5. \/ mon[i].op = "create" /\ actor[r].life = "loading"
        \/ /\ mon[i].op = "from_cache"
           /\ \E k \in DOMAIN actor[r].inbox : actor[r].inbox[k].mon = i
    BY <1>1, <2>1 DEF Awaited
  <2> HIDE DEF r
  <2> QED BY <2>1, <2>3, <2>4, <2>5
<1>20. Parks'
  <2>1. \A r \in Rids : CacheFuture(r) = IF Alive(r) THEN "pending" ELSE "failed"
    BY DEF CacheFuture
  <2> HIDE DEF delete, park, ask, launch
  <2>2. ASSUME NEW r \in Rids, parking'[r] = "pending"
        PROVE  Alive(r)' /\ \E k \in DOMAIN actor'[r].inbox : actor'[r].inbox[k].mon = None
    <3>1. r \in RidsOf(park) /\ Alive(r) /\ r \notin delete
      BY <1>7, <1>9, <2>1, <2>2
    <3>2. /\ actor'[r].inbox = Append(actor[r].inbox, ask)
          /\ actor'[r].life = actor[r].life
      BY <1>12, <3>1
    <3>3. /\ Len(actor[r].inbox) + 1 \in DOMAIN actor'[r].inbox
          /\ actor'[r].inbox[Len(actor[r].inbox) + 1] = ask
      BY <1>10, <1>11, <3>2
    <3> QED BY <1>10, <3>1, <3>2, <3>3 DEF Alive
  <2>3. RidsOf(park) \subseteq RidsOf(warm')
    BY <1>3, <1>7
  <2> QED BY <1>4, <1>9, <2>1, <2>2, <2>3 DEF Parks
<1>21. Settled'
  <2>1. \A w \in warm : state[w.rid] = "HOT" => w.rid \in RidsOf(park)
    BY DEF RidsOf
  <2>2. \A w \in warm, i \in Mons : state[w.rid] # "HOT" => ~(Pending(i) /\ Watched(i, w.rid))
    BY <1>1 DEF Settled
  <2> HIDE DEF delete, park, ask, launch
  <2> QED BY <1>3, <1>4, <1>5, <2>1, <2>2 DEF Settled
<1>22. Owned'
  <2> SUFFICES ASSUME NEW r \in Rids, Alive(r)' PROVE r \in Listed'
    BY DEF Owned
  <2>1. r \notin delete /\ Alive(r)
    <3> HIDE DEF delete, park, ask, launch
    <3> QED BY <1>12 DEF Alive
  <2>2. r \in RidsOf(hot \cup warm)
    BY <1>1, <2>1 DEF Owned, Listed
  <2> QED BY <1>3, <2>2 DEF Listed, RidsOf
<1>23. Traced'
  <2> HIDE DEF delete, park, ask, launch
  <2>1. \A i \in Mons : \A r : Watched(i, r)' => Watched(i, r) /\ mon'[i].dep = mon[i].dep
    BY <1>5 DEF Watched
  <2> QED BY <1>1, <1>3, <2>1 DEF Traced
<1> QED BY <1>14, <1>15, <1>16, <1>18, <1>19, <1>20, <1>21, <1>22, <1>23 DEF IInv

-----------------------------------------------------------------------------
(* Steps that give a replica up *)

\* What the steps that give a replica up have in common.
LEMMA RemoveKeeps ==
    ASSUME IInv, NEW d \in Deployments, RemoveFromState(d),
           \A x \in hot \cup warm : x.rid = d.rid => d.node \in up,
           actor' = [actor EXCEPT ![d.rid] = [NoActor EXCEPT !.life = "gone"]],
           mon' \in [Mons -> Watches \cup {None}],
           \A i \in Mons : Pending(i)' <=> Pending(i) /\ ~Watched(i, d.rid),
           \A i \in Mons : \A r : Watched(i, r)' =>
               Watched(i, r) /\ mon'[i].dep = mon[i].dep,
           \A i \in Mons : Pending(i)' => mon'[i].op = mon[i].op,
           parking' = [parking EXCEPT ![d.rid] = "none"],
           budget' \in [Faults -> Nat], call'.pc = call.pc, call'.names = call.names,
           call.pc \in {"idle", "cache", "launch"}, CallTyped',
           call.pc = "cache" => call'.work = call.work \ {d.rid},
           call'.launch \subseteq call.launch,
           \A l \in call'.launch : l.dep.rid # d.rid
    PROVE  IInv'
<1>1. /\ LedgerTyped /\ Distinct /\ Applies /\ Launching /\ Posted /\ Awaited
      /\ Parks /\ Settled /\ Owned /\ Traced /\ ActorsTyped /\ budget \in [Faults -> Nat]
  BY DEF IInv, Typed
<1>2. d.rid \in Rids
  BY DEF Deployments
<1>3. /\ up' = up
      /\ hot' = {x \in hot : x.rid # d.rid}
      /\ warm' = {x \in warm : x.rid # d.rid}
      /\ state' = [state EXCEPT ![d.rid] = "none"]
  BY RemoveShape
<1>4. /\ \A r \in Rids : r # d.rid => /\ actor'[r] = actor[r] /\ parking'[r] = parking[r]
                                      /\ state'[r] = state[r]
      /\ actor'[d.rid].life = "gone" /\ actor'[d.rid].inbox = <<>>
      /\ parking'[d.rid] = "none" /\ state'[d.rid] = "none"
      /\ actor'[d.rid] \in ActorRecs
  BY <1>1, <1>2, <1>3, GoneTyped DEF ActorsTyped
<1>5. \A x \in hot \cup warm : x.rid \in Rids
  BY <1>1 DEF LedgerTyped, Deployments
<1>6. Typed'
  <2>1. LedgerTyped'
    BY <1>1, RemoveTyped
  <2>2. ActorsTyped'
    BY <1>1, <1>2, <1>3, GoneTyped DEF ActorsTyped
  <2> QED BY <1>1, <2>1, <2>2 DEF Typed
<1>7. ~Changing
  BY DEF Changing
<1>8. Distinct' /\ Placing' /\ Applies'
  BY <1>1, <1>3, <1>4, <1>5, <1>7 DEF Distinct, Placing, Applies
<1>9. Launching'
  <2>1. \A l \in call'.launch : l \in call.launch /\ l.dep \in hot'
    BY <1>1, <1>3 DEF Launching
  <2>2. \A x \in hot' : x \in hot /\ state'[x.rid] = state[x.rid]
    BY <1>3, <1>4, <1>5
  <2>3. \A i \in Mons : \A r : Watched(i, r)' => Watched(i, r)
    OBVIOUS
  <2> QED BY <1>1, <2>1, <2>2, <2>3 DEF Launching
<1>10. ASSUME NEW r \in Rids, NEW k \in DOMAIN actor'[r].inbox PROVE Letter(r, k)'
  <2>1. r # d.rid
    BY <1>4, <1>10
  <2>2. actor'[r] = actor[r] /\ parking'[r] = parking[r] /\ k \in DOMAIN actor[r].inbox
    BY <1>4, <1>10, <2>1
  <2>3. \A j \in DOMAIN actor[r].inbox : Letter(r, j)
    BY <1>1 DEF Posted
  <2>4. \A i \in Mons : Pending(i) /\ Watched(i, r) =>
            Pending(i)' /\ mon'[i].dep = mon[i].dep /\ mon'[i].op = mon[i].op
    <3> SUFFICES ASSUME NEW i \in Mons, Pending(i), Watched(i, r)
                 PROVE  Pending(i)' /\ mon'[i].dep = mon[i].dep /\ mon'[i].op = mon[i].op
      OBVIOUS
    <3>1. Pending(i)'
      BY <2>1 DEF Watched
    <3>2. mon'[i] # None
      BY <3>1 DEF Pending
    <3> QED BY <3>1, <3>2 DEF Watched
  <2> QED BY <1>1, <2>2, <2>3, <2>4, InboxStays
<1>11. Posted'
  BY <1>10 DEF Posted
<1>12. Awaited'
  <2> SUFFICES ASSUME NEW i \in Mons, Pending(i)'
               PROVE  LET r == mon'[i].dep.rid IN
                      \/ mon'[i].op = "create" /\ actor'[r].life = "loading"
                      \/ /\ mon'[i].op = "from_cache"
                         /\ \E k \in DOMAIN actor'[r].inbox : actor'[r].inbox[k].mon = i
    BY DEF Awaited
  <2>1. /\ Pending(i) /\ ~Watched(i, d.rid) /\ mon'[i].op = mon[i].op
        /\ mon'[i].dep = mon[i].dep
    BY DEF Pending, Watched
  <2>2. mon[i].dep.rid \in Rids /\ mon[i].dep.rid # d.rid
    <3>1. mon[i] \in Watches /\ mon[i] # None
      BY <1>1, <2>1 DEF Pending, ActorsTyped
    <3>2. mon[i].dep.rid # d.rid
      BY <2>1, <3>1 DEF Watched
    <3>3. mon[i].dep \in Deployments
      BY <3>1 DEF Watches
    <3>4. \A x \in Deployments : x.rid \in Rids
      BY DEF Deployments
    <3> QED BY <3>2, <3>3, <3>4
  <2>3. actor'[mon[i].dep.rid] = actor[mon[i].dep.rid]
    BY <1>4, <2>2
  <2>4. LET r == mon[i].dep.rid IN
        \/ mon[i].op = "create" /\ actor[r].life = "loading"
        \/ /\ mon[i].op = "from_cache"
           /\ \E k \in DOMAIN actor[r].inbox : actor[r].inbox[k].mon = i
    BY <1>1, <2>1 DEF Awaited
  <2> QED BY <2>1, <2>3, <2>4
<1>13. Parks'
  <2>1. \A r \in Rids : parking'[r] # "none" <=> call'.pc = "cache" /\ r \in call'.work
    BY <1>1, <1>2, <1>4 DEF Parks
  <2>2. ASSUME NEW r \in Rids, parking'[r] = "pending"
        PROVE  /\ Alive(r)'
               /\ \E k \in DOMAIN actor'[r].inbox : actor'[r].inbox[k].mon = None
    <3>1. actor'[r] = actor[r] /\ parking[r] = "pending"
      BY <1>4, <2>2
    <3> QED BY <1>1, <3>1 DEF Parks, Alive
  <2>3. ASSUME NEW r \in Rids, NEW i \in Mons, parking'[r] = "ok", Watched(i, r)'
        PROVE  ~Pending(i)'
    <3>1. parking[r] = "ok" /\ Watched(i, r)
      BY <1>4, <2>3
    <3> QED BY <1>1, <3>1 DEF Parks
  <2>4. call'.pc = "cache" => call'.work \subseteq RidsOf(warm')
    BY <1>1, <1>3 DEF Parks, RidsOf
  <2> QED BY <2>1, <2>2, <2>3, <2>4 DEF Parks
<1>14. Settled'
  <2> SUFFICES ASSUME NEW w \in warm', NEW i \in Mons,
                      Pending(i)', Watched(i, w.rid)', state'[w.rid] # "HOT"
               PROVE  call'.pc = "cache" /\ w.rid \in call'.work
    BY DEF Settled
  <2>1. w \in warm /\ w.rid # d.rid /\ state'[w.rid] = state[w.rid]
    BY <1>3, <1>4, <1>5
  <2>2. Pending(i) /\ Watched(i, w.rid)
    OBVIOUS
  <2> QED BY <1>1, <2>1, <2>2 DEF Settled
<1>15. Owned'
  <2> SUFFICES ASSUME NEW r \in Rids, Alive(r)' PROVE r \in Listed'
    BY DEF Owned
  <2>1. r # d.rid /\ Alive(r)
    BY <1>4 DEF Alive
  <2>2. r \in Listed
    BY <1>1, <1>7, <2>1 DEF Owned
  <2> QED BY <1>3, <2>1, <2>2 DEF Listed, RidsOf
<1>16. Traced'
  BY <1>1, <1>3 DEF Traced
<1> QED BY <1>6, <1>8, <1>9, <1>11, <1>12, <1>13, <1>14, <1>15, <1>16 DEF IInv

\* The monitors after the actor of one replica is gone.
LEMMA BrokenForOne ==
    ASSUME mon \in [Mons -> Watches \cup {None}], NEW q, mon' = Broken({q}, mon)
    PROVE  /\ mon' \in [Mons -> Watches \cup {None}]
           /\ \A i \in Mons : \A r : Watched(i, r)' =>
                 Watched(i, r) /\ mon'[i].dep = mon[i].dep
           /\ \A i \in Mons : Pending(i)' <=> Pending(i) /\ ~Watched(i, q)
           /\ \A i \in Mons : Pending(i)' => mon'[i].op = mon[i].op
<1>1. mon' \in [Mons -> Watches \cup {None}]
  BY BrokenWatches
<1>2. \A i \in Mons : /\ mon'[i] = None <=> mon[i] = None
                      /\ mon[i] # None =>
                            /\ mon'[i].dep = mon[i].dep /\ mon'[i].op = mon[i].op
                            /\ mon'[i].fut = IF mon[i].dep.rid = q /\ mon[i].fut = "pending"
                                             THEN "failed" ELSE mon[i].fut
  BY BrokenShape
<1> QED BY <1>1, <1>2 DEF Watched, Pending

\* to_cache() has raised.
LEMMA CacheFailsKeeps ==
    ASSUME IInv, NEW d \in hot \cup warm, CacheFails(d)
    PROVE  IInv'
<1>1. /\ call \in CallRecs /\ call.pc = "cache" /\ d \in warm /\ d.rid \in call.work
      /\ LedgerTyped /\ Distinct /\ ActorsTyped /\ Launching /\ CallTyped
  BY DEF IInv, Typed, CallTyped, CacheFails
<1>2. /\ call' = [call EXCEPT !.work = @ \ {d.rid}] /\ RemoveFromState(d)
      /\ actor' = [actor EXCEPT ![d.rid] = [NoActor EXCEPT !.life = "gone"]]
      /\ mon' = Broken({d.rid}, mon)
      /\ parking' = [parking EXCEPT ![d.rid] = "none"] /\ budget' = budget
  BY DEF CacheFails
<1>3. /\ call'.pc = "cache" /\ call'.work = call.work \ {d.rid} /\ call'.names = call.names
      /\ call'.launch = call.launch
  BY <1>1, <1>2 DEF CallRecs
<1>4. CallTyped'
  BY <1>1, <1>2, <1>3 DEF CallTyped, CallRecs
<1>5. d \in Deployments /\ d.node \in up
  BY <1>1 DEF LedgerTyped, Distinct
<1>6. \A l \in call.launch : l.dep.rid # d.rid
  BY <1>1 DEF Launching, Distinct
<1>7. /\ mon' \in [Mons -> Watches \cup {None}]
      /\ \A i \in Mons : \A r : Watched(i, r)' => Watched(i, r) /\ mon'[i].dep = mon[i].dep
      /\ \A i \in Mons : Pending(i)' <=> Pending(i) /\ ~Watched(i, d.rid)
      /\ \A i \in Mons : Pending(i)' => mon'[i].op = mon[i].op
  BY <1>1, <1>2, BrokenForOne DEF ActorsTyped
<1>8. budget' \in [Faults -> Nat]
  BY <1>2 DEF IInv, Typed
<1> QED BY <1>1, <1>2, <1>3, <1>4, <1>5, <1>6, <1>7, <1>8, RemoveKeeps

\* from_cache() finds no actor, or create() makes none.
LEMMA LaunchFailsKeeps ==
    ASSUME IInv, NEW l \in call.launch, RestoreFails(l) \/ CreateFails(l)
    PROVE  IInv'
<1> DEFINE d == l.dep
<1>1. /\ call \in CallRecs /\ call.pc = "launch" /\ d \in hot
      /\ LedgerTyped /\ Distinct /\ ActorsTyped /\ Launching /\ CallTyped /\ Parks
  BY DEF IInv, Typed, CallTyped, RestoreFails, CreateFails, Launching
<1>2. /\ call' = [call EXCEPT !.launch = @ \ {l}] /\ RemoveFromState(d)
      /\ Delete({d.rid}) /\ budget' \in [Faults -> Nat]
  BY SpendTyped DEF RestoreFails, CreateFails, Faults, IInv, Typed
<1>3. /\ call'.pc = "launch" /\ call'.names = call.names
      /\ call'.launch = call.launch \ {l}
  BY <1>1, <1>2 DEF CallRecs
<1>4. CallTyped'
  BY <1>1, <1>2, <1>3 DEF CallTyped, CallRecs
<1>5. d \in Deployments /\ d.node \in up /\ d.rid \in Rids
  BY <1>1 DEF LedgerTyped, Distinct, Deployments
<1>6. \A m \in call'.launch : m.dep.rid # d.rid
  BY <1>1, <1>3 DEF Launching, Distinct
<1>7. mon' = Broken({d.rid}, mon)
  BY <1>2 DEF Delete
<1>8. actor' = [actor EXCEPT ![d.rid] = [NoActor EXCEPT !.life = "gone"]]
  BY <1>1, <1>2, <1>5 DEF Delete, ActorsTyped
<1>9. parking' = [parking EXCEPT ![d.rid] = "none"]
  <2>1. \A r \in Rids : parking[r] = "none"
    BY <1>1 DEF Parks
  <2> QED BY <1>1, <1>2, <1>5, <2>1 DEF Delete, ActorsTyped
<1> HIDE DEF d
<1>10. /\ mon' \in [Mons -> Watches \cup {None}]
       /\ \A i \in Mons : \A r : Watched(i, r)' => Watched(i, r) /\ mon'[i].dep = mon[i].dep
       /\ \A i \in Mons : Pending(i)' <=> Pending(i) /\ ~Watched(i, d.rid)
       /\ \A i \in Mons : Pending(i)' => mon'[i].op = mon[i].op
  BY <1>1, <1>7, BrokenForOne DEF ActorsTyped
<1> QED BY <1>1, <1>2, <1>3, <1>4, <1>5, <1>6, <1>8, <1>9, <1>10, RemoveKeeps

\* A monitor whose deployment failed.
LEMMA DeployFailsKeeps ==
    ASSUME IInv, NEW i \in Mons, DeployFails(i)
    PROVE  IInv'
<1> DEFINE d == mon[i].dep
<1>1. /\ call.pc = "idle" /\ mon[i] # None /\ mon[i].fut = "failed"
      /\ LedgerTyped /\ Distinct /\ ActorsTyped /\ Launching /\ CallTyped /\ Parks
      /\ Traced
  BY DEF IInv, Typed, DeployFails
<1>2. /\ RemoveFromState(d)
      /\ actor' = [actor EXCEPT ![d.rid] = [NoActor EXCEPT !.life = "gone"]]
      /\ mon' = [Broken({d.rid}, mon) EXCEPT ![i] = None]
      /\ UNCHANGED <<call, parking, budget>>
  BY DEF DeployFails
<1>3. d \in Deployments /\ d.rid \in Rids
  BY <1>1 DEF ActorsTyped, Watches, Deployments
<1>4. \A x \in hot \cup warm : x.rid = d.rid => d.node \in up
  BY <1>1 DEF Traced, Watched, Distinct
<1> HIDE DEF d
<1>5. /\ mon' \in [Mons -> Watches \cup {None}]
      /\ mon'[i] = None
      /\ \A j \in Mons : j # i =>
            /\ mon'[j] = None <=> mon[j] = None
            /\ mon[j] # None =>
                  /\ mon'[j].dep = mon[j].dep /\ mon'[j].op = mon[j].op
                  /\ mon'[j].fut = IF mon[j].dep.rid = d.rid /\ mon[j].fut = "pending"
                                   THEN "failed" ELSE mon[j].fut
  <2> DEFINE b == Broken({d.rid}, mon)
  <2>1. /\ b \in [Mons -> Watches \cup {None}]
        /\ \A j \in Mons :
            /\ b[j] = None <=> mon[j] = None
            /\ mon[j] # None =>
                  /\ b[j].dep = mon[j].dep /\ b[j].op = mon[j].op
                  /\ b[j].fut = IF mon[j].dep.rid \in {d.rid} /\ mon[j].fut = "pending"
                                THEN "failed" ELSE mon[j].fut
    BY <1>1, BrokenShape DEF ActorsTyped
  <2>2. mon' = [b EXCEPT ![i] = None]
    BY <1>2
  <2> HIDE DEF b
  <2> QED BY <2>1, <2>2
<1>6. /\ \A j \in Mons : \A r : Watched(j, r)' => Watched(j, r) /\ mon'[j].dep = mon[j].dep
      /\ \A j \in Mons : Pending(j)' <=> Pending(j) /\ ~Watched(j, d.rid)
      /\ \A j \in Mons : Pending(j)' => mon'[j].op = mon[j].op
  BY <1>1, <1>5 DEF Watched, Pending
<1>7. parking' = [parking EXCEPT ![d.rid] = "none"]
  BY <1>1, <1>2, <1>3 DEF Parks, ActorsTyped
<1>8. CallTyped' /\ call'.launch = {} /\ call.launch = {}
  BY <1>1, <1>2 DEF CallTyped, Launching
<1>9. call' = call /\ budget' \in [Faults -> Nat]
  BY <1>2 DEF IInv, Typed
<1> QED BY <1>1, <1>2, <1>3, <1>4, <1>5, <1>6, <1>7, <1>8, <1>9, RemoveKeeps

\* A monitor that is through.
LEMMA DeployedKeeps ==
    ASSUME IInv, NEW i \in Mons, Deployed(i)
    PROVE  IInv'
<1>1. /\ Typed /\ LedgerTyped /\ Distinct /\ Applies /\ Launching /\ Posted /\ Awaited
      /\ Parks /\ Settled /\ Owned /\ Traced /\ ActorsTyped /\ Placing /\ CallTyped
  BY DEF IInv, Typed
<1>2. /\ mon[i] # None /\ mon[i].fut = "ok" /\ mon' = [mon EXCEPT ![i] = None]
      /\ UNCHANGED <<up, avail, cpu, hot, warm, young, state, call, parking, actor, budget>>
  BY DEF Deployed, ledger
<1>3. /\ mon' \in [Mons -> Watches \cup {None}] /\ ~Pending(i)
      /\ \A j \in Mons : Pending(j)' <=> Pending(j)
      /\ \A j \in Mons : Pending(j) => mon'[j] = mon[j]
      /\ \A j \in Mons : \A r : Watched(j, r)' => Watched(j, r) /\ mon'[j] = mon[j]
  BY <1>1, <1>2 DEF ActorsTyped, Pending, Watched
<1>4. Typed' /\ Distinct' /\ Placing' /\ Applies' /\ Owned' /\ Traced'
  BY <1>1, <1>2, <1>3
     DEF Typed, LedgerTyped, CallTyped, ActorsTyped, Distinct, Placing, Expendable,
         Evictable, Applies, Changing, Owned, Listed, RidsOf, Alive, Traced
<1>5. Launching'
  BY <1>1, <1>2, <1>3 DEF Launching
<1>6. Posted'
  <2> SUFFICES ASSUME NEW r \in Rids, NEW k \in DOMAIN actor'[r].inbox
               PROVE  Letter(r, k)'
    BY DEF Posted
  <2>1. \A j \in DOMAIN actor[r].inbox : Letter(r, j)
    BY <1>1 DEF Posted
  <2> QED BY <1>1, <1>2, <1>3, <2>1, InboxStays
<1>7. Awaited'
  BY <1>1, <1>2, <1>3 DEF Awaited
<1>8. Parks'
  BY <1>1, <1>2, <1>3 DEF Parks, Alive
<1>9. Settled'
  BY <1>1, <1>2, <1>3 DEF Settled
<1> QED BY <1>4, <1>5, <1>6, <1>7, <1>8, <1>9 DEF IInv

\* Time passes.
LEMMA AgesKeeps ==
    ASSUME IInv, NEW r \in Rids, Ages(r)
    PROVE  IInv'
<1>1. /\ Typed /\ LedgerTyped /\ Distinct /\ Applies /\ Launching /\ Posted /\ Awaited
      /\ Parks /\ Settled /\ Owned /\ Traced /\ ActorsTyped /\ Placing /\ CallTyped
  BY DEF IInv, Typed
<1>2. /\ call.pc = "place" /\ young' \subseteq young
      /\ UNCHANGED <<up, avail, cpu, hot, warm, state, call, mon, parking, actor, budget>>
  BY DEF Ages
<1>3. Typed' /\ Distinct' /\ Placing' /\ Applies' /\ Owned' /\ Traced'
  BY <1>1, <1>2
     DEF Typed, LedgerTyped, CallTyped, ActorsTyped, Distinct, Placing,
         Applies, Changing, Owned, Listed, RidsOf, Alive, Traced, Watched
<1>4. Launching' /\ Posted' /\ Awaited' /\ Parks' /\ Settled'
  BY <1>1, <1>2
     DEF Launching, Posted, Letter, Awaited, Parks, Settled, Pending, Watched, Alive
<1> QED BY <1>3, <1>4 DEF IInv

\* A call to to_cache() has returned.
LEMMA CachedKeeps ==
    ASSUME IInv, NEW r \in Rids, Cached(r)
    PROVE  IInv'
<1>1. /\ Typed /\ LedgerTyped /\ Distinct /\ Applies /\ Launching /\ Posted /\ Awaited
      /\ Parks /\ Settled /\ Owned /\ Traced /\ ActorsTyped /\ Placing /\ CallTyped
      /\ call \in CallRecs
  BY DEF IInv, Typed, CallTyped
<1>2. /\ call.pc = "cache" /\ r \in call.work /\ parking[r] = "ok"
      /\ call' = [call EXCEPT !.work = @ \ {r}]
      /\ parking' = [parking EXCEPT ![r] = "none"]
      /\ UNCHANGED <<up, avail, cpu, hot, warm, young, state, mon, actor, budget>>
  BY DEF Cached, ledger
<1>3. /\ call'.pc = "cache" /\ call'.work = call.work \ {r} /\ call'.launch = call.launch
      /\ call' \in CallRecs /\ parking'[r] = "none"
      /\ \A q \in Rids : q # r => parking'[q] = parking[q]
      /\ parking' \in [Rids -> {"none", "pending", "ok", "failed"}]
  BY <1>1, <1>2 DEF CallRecs, ActorsTyped
<1>4. Typed'
  BY <1>1, <1>2, <1>3 DEF Typed, LedgerTyped, CallTyped, ActorsTyped
<1>5. Distinct' /\ Placing' /\ Applies' /\ Owned' /\ Traced'
  <2>1. ~Changing /\ ~Changing'
    BY <1>2, <1>3 DEF Changing
  <2> QED BY <1>1, <1>2, <1>3, <2>1
     DEF Distinct, Placing, Applies, Owned, Listed, RidsOf, Alive, Traced, Watched
<1>6. Launching' /\ Awaited'
  BY <1>1, <1>2, <1>3 DEF Launching, Awaited, Pending, Watched
<1>7. Posted'
  <2> SUFFICES ASSUME NEW q \in Rids, NEW k \in DOMAIN actor[q].inbox PROVE Letter(q, k)'
    BY <1>2 DEF Posted
  <2>1. Letter(q, k)
    BY <1>1 DEF Posted
  <2>2. parking[q] = "pending" => parking'[q] = "pending"
    BY <1>2, <1>3
  <2> QED BY <1>2, <2>1, <2>2 DEF Letter, Pending, Watched
<1>8. Parks'
  BY <1>1, <1>2, <1>3 DEF Parks, Pending, Watched, Alive
<1>9. Settled'
  <2> SUFFICES ASSUME NEW w \in warm, NEW i \in Mons, Pending(i), Watched(i, w.rid),
                      state[w.rid] # "HOT"
               PROVE  w.rid \in call.work \ {r}
    BY <1>2, <1>3 DEF Settled, Pending, Watched
  <2>1. w.rid \in call.work
    BY <1>1 DEF Settled
  <2>2. w.rid # r
    BY <1>1, <1>2 DEF Parks
  <2> QED BY <2>1, <2>2
<1> QED BY <1>4, <1>5, <1>6, <1>7, <1>8, <1>9 DEF IInv

-----------------------------------------------------------------------------
(* Steps that send an actor its replica *)

\* One more monitor.
LEMMA MonitorAdds ==
    ASSUME ActorsTyped, NEW i \in Mons, NEW l \in Launches, Monitor(i, l.dep, l.op)
    PROVE  /\ mon' \in [Mons -> Watches \cup {None}]
           /\ mon[i] = None /\ ~Pending(i) /\ Pending(i)'
           /\ mon'[i].dep = l.dep /\ mon'[i].op = l.op
           /\ \A j \in Mons : j # i => mon'[j] = mon[j] /\ (Pending(j)' <=> Pending(j))
           /\ \A j \in Mons : \A r : j # i => (Watched(j, r)' <=> Watched(j, r))
           /\ \A r : Watched(i, r)' <=> r = l.dep.rid
<1> DEFINE m == [dep |-> l.dep, op |-> l.op, fut |-> "pending"]
<1>1. m \in Watches /\ m.dep = l.dep /\ m.op = l.op /\ m.fut = "pending"
  BY DEF Watches, Launches
<1>2. mon[i] = None /\ mon' = [mon EXCEPT ![i] = m]
  BY DEF Monitor
<1>3. m # None
  BY <1>1, NoneIsNoWatch
<1> HIDE DEF m
<1> QED BY <1>1, <1>2, <1>3 DEF ActorsTyped, Watched, Pending

\* What both launches have in common.
LEMMA LaunchKeeps ==
    ASSUME IInv, NEW l \in call.launch, NEW i \in Mons, Monitor(i, l.dep, l.op),
           call.pc = "launch", call' = [call EXCEPT !.launch = @ \ {l}],
           UNCHANGED <<ledger, state, parking, budget>>,
           \A m \in call.launch : m # l /\ m.op = "create" => m.dep # l.dep,
           actor' \in [Rids -> ActorRecs],
           \A r \in Rids : r # l.dep.rid => actor'[r] = actor[r],
           Posted', Awaited'
    PROVE  IInv'
<1>1. /\ LedgerTyped /\ Distinct /\ Applies /\ Launching
      /\ Parks /\ Settled /\ Owned /\ Traced /\ ActorsTyped
      /\ call \in CallRecs /\ budget \in [Faults -> Nat]
  BY DEF IInv, Typed, CallTyped
<1>2. UNCHANGED <<up, avail, cpu, hot, warm, young>>
  BY DEF ledger
<1>3. /\ call'.pc = "launch" /\ call'.launch = call.launch \ {l} /\ call' \in CallRecs
      /\ call'.names = call.names
  BY <1>1 DEF CallRecs
<1>4. l.dep \in hot /\ l \in Launches
  BY <1>1 DEF Launching, CallRecs
<1>5. /\ mon' \in [Mons -> Watches \cup {None}] /\ mon'[i].dep = l.dep
      /\ \A j \in Mons : j # i => mon'[j] = mon[j] /\ (Pending(j)' <=> Pending(j))
      /\ \A j \in Mons : \A r : j # i => (Watched(j, r)' <=> Watched(j, r))
      /\ \A r : Watched(i, r)' <=> r = l.dep.rid
  BY <1>1, <1>4, MonitorAdds
<1>6. Typed' /\ ~Changing /\ ~Changing'
  BY <1>1, <1>2, <1>3, <1>5
     DEF Typed, LedgerTyped, CallTyped, ActorsTyped, Changing
<1>7. Distinct' /\ Placing' /\ Applies'
  BY <1>1, <1>2, <1>3, <1>6 DEF Distinct, Placing, Applies
<1>8. Launching'
  <2>1. \A m \in call'.launch : m.op = "create" => m.dep.rid # l.dep.rid
    BY <1>1, <1>3, <1>4 DEF Launching, Distinct
  <2>2. \A d \in hot : state[d.rid] = "none" => d.rid # l.dep.rid
    BY <1>1, <1>4, <1>6 DEF Applies
  <2>3. \A m \in call'.launch : m \in call.launch
    BY <1>3
  <2> QED BY <1>1, <1>2, <1>3, <1>5, <2>1, <2>2, <2>3 DEF Launching
<1>9. Parks'
  BY <1>1, <1>3 DEF Parks
<1>10. Settled'
  <2>1. \A w \in warm : w.rid # l.dep.rid
    BY <1>1, <1>4 DEF Distinct
  <2> QED BY <1>1, <1>2, <1>3, <1>5, <2>1 DEF Settled
<1>11. Owned'
  <2>1. \A r \in Rids : Alive(r)' => Alive(r) \/ r = l.dep.rid
    BY DEF Alive
  <2>2. l.dep.rid \in Listed
    BY <1>4 DEF Listed, RidsOf
  <2> QED BY <1>1, <1>2, <1>6, <2>1, <2>2 DEF Owned, Listed, RidsOf
<1>12. Traced'
  <2>1. \A d \in hot \cup warm : d.rid = l.dep.rid => d = l.dep
    BY <1>1, <1>4 DEF Distinct
  <2> QED BY <1>1, <1>2, <1>5, <2>1 DEF Traced
<1> QED BY <1>6, <1>7, <1>8, <1>9, <1>10, <1>11, <1>12 DEF IInv

\* from_cache() goes out.
LEMMA RestoreKeeps ==
    ASSUME IInv, NEW l \in call.launch, Restore(l)
    PROVE  IInv'
<1> DEFINE q == l.dep.rid
<1>1. /\ LedgerTyped /\ Launching /\ Posted /\ Awaited /\ Parks /\ ActorsTyped
      /\ call \in CallRecs
  BY DEF IInv, Typed, CallTyped
<1>2. PICK i \in Mons :
          /\ Monitor(i, l.dep, l.op)
          /\ actor' = [actor EXCEPT ![q].inbox =
                Append(@, [op |-> l.op, at |-> At(l.dep), mon |-> i])]
  BY DEF Restore
<1> DEFINE msg == [op |-> l.op, at |-> At(l.dep), mon |-> i]
<1>3. /\ call.pc = "launch" /\ l.op = "from_cache"
      /\ call' = [call EXCEPT !.launch = @ \ {l}]
      /\ UNCHANGED <<ledger, state, parking, budget>>
  BY DEF Restore
<1>4. l.dep \in hot /\ l \in Launches /\ l.dep \in Deployments /\ q \in Rids
  BY <1>1 DEF Launching, CallRecs, LedgerTyped, Deployments
<1>5. /\ msg \in Messages /\ msg.mon = i /\ msg.op = "from_cache"
  BY <1>3, <1>4 DEF Messages, At, Holdings, Deployments
<1> HIDE DEF q
<1>6. /\ mon' \in [Mons -> Watches \cup {None}] /\ mon[i] = None /\ Pending(i)'
      /\ ~Pending(i) /\ mon'[i].dep = l.dep /\ mon'[i].op = l.op
      /\ \A j \in Mons : j # i => mon'[j] = mon[j] /\ (Pending(j)' <=> Pending(j))
      /\ \A r : Watched(i, r)' <=> r = q
  BY <1>1, <1>2, <1>4, MonitorAdds DEF q
<1> HIDE DEF msg
<1>7. /\ actor' \in [Rids -> ActorRecs]
      /\ \A r \in Rids : r # q => actor'[r] = actor[r]
      /\ actor'[q].life = actor[q].life
      /\ actor[q].inbox \in Seq(Messages)
      /\ actor'[q].inbox = Append(actor[q].inbox, msg)
  <2>1. actor' = [actor EXCEPT ![q].inbox = Append(@, msg)]
    BY <1>2 DEF msg
  <2>2. actor[q] \in ActorRecs /\ actor[q].inbox \in Seq(Messages)
    BY <1>1, <1>4 DEF ActorsTyped, ActorRecs
  <2>3. Append(actor[q].inbox, msg) \in Seq(Messages)
    BY <1>5, <2>2
  <2> DEFINE a == [actor[q] EXCEPT !.inbox = Append(actor[q].inbox, msg)]
  <2>4. a \in ActorRecs /\ a.inbox = Append(actor[q].inbox, msg) /\ a.life = actor[q].life
    BY <2>2, <2>3 DEF ActorRecs
  <2>5. actor' = [actor EXCEPT ![q] = a]
    BY <1>1, <1>4, <2>1 DEF ActorsTyped
  <2> HIDE DEF a
  <2> QED BY <1>1, <1>4, <2>2, <2>4, <2>5 DEF ActorsTyped
<1>8. /\ \A k \in DOMAIN actor[q].inbox : /\ k \in DOMAIN actor'[q].inbox
                                          /\ actor'[q].inbox[k] = actor[q].inbox[k]
      /\ \A k \in DOMAIN actor'[q].inbox :
            k \in DOMAIN actor[q].inbox \/ actor'[q].inbox[k] = msg
      /\ \E k \in DOMAIN actor'[q].inbox : actor'[q].inbox[k] = msg
      /\ \A j, k \in DOMAIN actor'[q].inbox :
            j \notin DOMAIN actor[q].inbox /\ k \notin DOMAIN actor[q].inbox => j = k
  BY <1>5, <1>7
<1>9. ASSUME NEW r \in Rids, NEW k \in DOMAIN actor[r].inbox
      PROVE  /\ Letter(r, k) /\ actor[r].inbox[k] \in Messages
             /\ actor[r].inbox[k].mon \in Mons /\ actor[r].inbox[k].mon # i
             /\ Pending(actor[r].inbox[k].mon)
             /\ \A j \in DOMAIN actor[r].inbox :
                   actor[r].inbox[j].mon = actor[r].inbox[k].mon => j = k
  <2>1. Letter(r, k) /\ actor[r].inbox[k] \in Messages
    BY <1>1, <1>9 DEF Posted, ActorsTyped, ActorRecs
  <2>2. parking[r] = "none"
    BY <1>1, <1>3, <1>9 DEF Parks
  <2>3. actor[r].inbox[k].mon # None
    BY <2>1, <2>2 DEF Letter
  <2>4. actor[r].inbox[k].mon \in Mons
    BY <2>1, <2>3 DEF Messages
  <2>5. /\ Pending(actor[r].inbox[k].mon)
        /\ \A j \in DOMAIN actor[r].inbox :
                   actor[r].inbox[j].mon = actor[r].inbox[k].mon => j = k
    BY <2>1, <2>3 DEF Letter
  <2> QED BY <1>6, <2>1, <2>4, <2>5
<1>10. Posted'
  <2> SUFFICES ASSUME NEW r \in Rids, NEW k \in DOMAIN actor'[r].inbox
               PROVE  Letter(r, k)'
    BY DEF Posted
  <2>1. CASE k \in DOMAIN actor[r].inbox
    <3>1. PICK a \in Mons : a = actor[r].inbox[k].mon
      BY <1>9, <2>1
    <3>2. /\ Letter(r, k) /\ a # i /\ Pending(a)
          /\ \A j \in DOMAIN actor[r].inbox : actor[r].inbox[j].mon = a => j = k
      BY <1>9, <2>1, <3>1
    <3>3. Pending(a)' /\ mon'[a] = mon[a]
      BY <1>6, <3>2
    <3>4. actor'[r].inbox[k] = actor[r].inbox[k]
      BY <1>7, <1>8, <2>1
    <3>5. \A j \in DOMAIN actor'[r].inbox : actor'[r].inbox[j].mon = a => j = k
      <4> SUFFICES ASSUME NEW j \in DOMAIN actor'[r].inbox, actor'[r].inbox[j].mon = a
                   PROVE  j = k
        OBVIOUS
      <4>1. j \in DOMAIN actor[r].inbox /\ actor'[r].inbox[j] = actor[r].inbox[j]
        <5>1. CASE r = q
          BY <1>5, <1>8, <3>2, <5>1
        <5>2. CASE r # q
          BY <1>7, <5>2
        <5> QED BY <5>1, <5>2
      <4> QED BY <3>2, <4>1
    <3> QED BY <3>1, <3>2, <3>3, <3>4, <3>5, LetterStays
  <2>2. CASE k \notin DOMAIN actor[r].inbox
    <3>1. r = q /\ actor'[r].inbox[k] = msg
      BY <1>7, <1>8, <2>2
    <3>2. \A j \in DOMAIN actor'[r].inbox : actor'[r].inbox[j].mon = i => j = k
      BY <1>4, <1>5, <1>8, <1>9, <2>2, <3>1
    <3>3. i # None
      BY NoneIsNoMonitor
    <3>4. Watched(i, r)'
      BY <1>6, <3>1
    <3> QED BY <1>3, <1>5, <1>6, <3>1, <3>2, <3>3, <3>4 DEF Letter
  <2> QED BY <2>1, <2>2
<1>11. Awaited'
  <2> SUFFICES ASSUME NEW j \in Mons, Pending(j)'
               PROVE  LET r == mon'[j].dep.rid IN
                      \/ mon'[j].op = "create" /\ actor'[r].life = "loading"
                      \/ /\ mon'[j].op = "from_cache"
                         /\ \E k \in DOMAIN actor'[r].inbox : actor'[r].inbox[k].mon = j
    BY DEF Awaited
  <2>1. CASE j = i
    <3>1. mon'[j].dep.rid = q /\ mon'[j].op = "from_cache"
      BY <1>3, <1>6, <2>1 DEF q
    <3> QED BY <1>5, <1>8, <2>1, <3>1
  <2>2. CASE j # i
    <3> DEFINE r == mon[j].dep.rid
    <3>1. Pending(j) /\ mon'[j] = mon[j]
      BY <1>6, <2>2
    <3>2. \/ mon[j].op = "create" /\ actor[r].life = "loading"
          \/ /\ mon[j].op = "from_cache"
             /\ \E k \in DOMAIN actor[r].inbox : actor[r].inbox[k].mon = j
      BY <1>1, <3>1 DEF Awaited
    <3>3. r \in Rids
      <4>1. mon[j] \in Watches
        BY <1>1, <3>1 DEF Pending, ActorsTyped
      <4> QED BY <4>1 DEF Watches, Deployments
    <3> HIDE DEF r
    <3>4. actor'[r].life = actor[r].life
      BY <1>7, <3>3
    <3>5. \A k \in DOMAIN actor[r].inbox : /\ k \in DOMAIN actor'[r].inbox
                                           /\ actor'[r].inbox[k] = actor[r].inbox[k]
      BY <1>7, <1>8, <3>3
    <3> QED BY <3>1, <3>2, <3>4, <3>5 DEF r
  <2> QED BY <2>1, <2>2
<1>12. \A m \in call.launch : m # l /\ m.op = "create" => m.dep # l.dep
  BY <1>1 DEF Launching
<1> QED BY <1>2, <1>3, <1>7, <1>10, <1>11, <1>12, LaunchKeeps DEF q

\* An actor is created.
LEMMA CreateKeeps ==
    ASSUME IInv, NEW l \in call.launch, Create(l)
    PROVE  IInv'
<1> DEFINE q == l.dep.rid
           born == [life |-> "loading", node |-> l.dep.node, at |-> At(l.dep),
                    born |-> At(l.dep), size |-> l.dep.size, inbox |-> <<>>,
                    astray |-> FALSE]
<1>1. /\ LedgerTyped /\ Launching /\ Posted /\ Awaited /\ Parks /\ ActorsTyped
      /\ call \in CallRecs
  BY DEF IInv, Typed, CallTyped
<1>2. PICK i \in Mons : Monitor(i, l.dep, l.op)
  BY DEF Create
<1>3. /\ call.pc = "launch" /\ l.op = "create"
      /\ call' = [call EXCEPT !.launch = @ \ {l}]
      /\ UNCHANGED <<ledger, state, parking, budget>>
      /\ actor' = [actor EXCEPT ![q] = born]
  BY DEF Create
<1>4. l.dep \in hot /\ l \in Launches /\ l.dep \in Deployments /\ q \in Rids
  BY <1>1 DEF Launching, CallRecs, LedgerTyped, Deployments
<1>5. born \in ActorRecs /\ born.life = "loading" /\ born.inbox = <<>>
  <2>1. <<>> \in Seq(Messages) /\ l.dep.node \in Nodes /\ l.dep.size \in Nat
    BY <1>4 DEF Deployments
  <2>2. At(l.dep) \in Holdings
    BY <1>4 DEF At, Holdings, Deployments
  <2> QED BY <2>1, <2>2 DEF ActorRecs
<1> HIDE DEF q, born
<1>6. /\ mon' \in [Mons -> Watches \cup {None}] /\ mon[i] = None /\ Pending(i)'
      /\ ~Pending(i) /\ mon'[i].dep = l.dep /\ mon'[i].op = l.op
      /\ \A j \in Mons : j # i => mon'[j] = mon[j] /\ (Pending(j)' <=> Pending(j))
  BY <1>1, <1>2, <1>4, MonitorAdds
<1>7. /\ actor' \in [Rids -> ActorRecs]
      /\ \A r \in Rids : r # q => actor'[r] = actor[r]
      /\ actor'[q] = born
  BY <1>1, <1>3, <1>4, <1>5 DEF ActorsTyped
<1>8. Posted'
  <2> SUFFICES ASSUME NEW r \in Rids, NEW k \in DOMAIN actor'[r].inbox
               PROVE  Letter(r, k)'
    BY DEF Posted
  <2>1. r # q /\ actor'[r] = actor[r]
    BY <1>5, <1>7
  <2>2. \A j \in DOMAIN actor[r].inbox : Letter(r, j)
    BY <1>1 DEF Posted
  <2>3. \A j \in Mons : Pending(j) => Pending(j)' /\ mon'[j] = mon[j]
    BY <1>6
  <2> QED BY <1>1, <1>3, <2>1, <2>2, <2>3, InboxStays
<1>9. Awaited'
  <2> SUFFICES ASSUME NEW j \in Mons, Pending(j)'
               PROVE  LET r == mon'[j].dep.rid IN
                      \/ mon'[j].op = "create" /\ actor'[r].life = "loading"
                      \/ /\ mon'[j].op = "from_cache"
                         /\ \E k \in DOMAIN actor'[r].inbox : actor'[r].inbox[k].mon = j
    BY DEF Awaited
  <2>1. CASE j = i
    BY <1>3, <1>5, <1>6, <1>7, <2>1 DEF q
  <2>2. CASE j # i
    <3> DEFINE r == mon[j].dep.rid
    <3>1. Pending(j) /\ mon'[j] = mon[j]
      BY <1>6, <2>2
    <3>2. \/ mon[j].op = "create" /\ actor[r].life = "loading"
          \/ /\ mon[j].op = "from_cache"
             /\ \E k \in DOMAIN actor[r].inbox : actor[r].inbox[k].mon = j
      BY <1>1, <3>1 DEF Awaited
    <3>3. r \in Rids
      <4>1. mon[j] \in Watches
        BY <1>1, <3>1 DEF Pending, ActorsTyped
      <4> QED BY <4>1 DEF Watches, Deployments
    <3>4. r # q
      BY <1>1, <1>3, <3>1 DEF Launching, Watched, Pending, q
    <3>5. actor'[r] = actor[r]
      BY <1>7, <3>3, <3>4
    <3> HIDE DEF r
    <3> QED BY <3>1, <3>2, <3>5 DEF r
  <2> QED BY <2>1, <2>2
<1>10. \A m \in call.launch : m # l /\ m.op = "create" => m.dep # l.dep
  BY <1>1 DEF Launching
<1> QED BY <1>2, <1>3, <1>7, <1>8, <1>9, <1>10, LaunchKeeps DEF q

-----------------------------------------------------------------------------
(* Nodes come and go *)

\* update_nodes(): a new node.
LEMMA NodeJoinsKeeps ==
    ASSUME IInv, NEW n \in Nodes, NodeJoins(n)
    PROVE  IInv'
<1>1. /\ Typed /\ LedgerTyped /\ Distinct /\ Applies /\ Launching /\ Posted /\ Awaited
      /\ Parks /\ Settled /\ Owned /\ Traced /\ ActorsTyped /\ Placing /\ CallTyped
      /\ budget \in [Faults -> Nat]
  BY DEF IInv, Typed
<1>2. /\ call.pc = "idle" /\ up' = up \cup {n}
      /\ avail' = [avail EXCEPT ![n] = [g \in Gpus |-> GpuMem]]
      /\ cpu' = [cpu EXCEPT ![n] = CpuMem]
      /\ UNCHANGED <<hot, warm, young, state, call, mon, parking, actor>>
  BY DEF NodeJoins
<1>3. budget' \in [Faults -> Nat]
  BY <1>1, SpendTyped DEF NodeJoins, Faults
<1>4. LedgerTyped'
  <2>1. [g \in Gpus |-> GpuMem] \in [Gpus -> Int] /\ CpuMem \in Int
    BY NodeAssumption
  <2> QED BY <1>1, <1>2, <2>1 DEF LedgerTyped
<1>5. Typed' /\ Distinct' /\ Placing' /\ Applies' /\ Owned' /\ Traced'
  BY <1>1, <1>2, <1>3, <1>4
     DEF Typed, CallTyped, ActorsTyped, Distinct, Placing,
         Applies, Changing, Owned, Listed, RidsOf, Alive, Traced, Watched
<1>6. Launching' /\ Posted' /\ Awaited' /\ Parks' /\ Settled'
  BY <1>1, <1>2
     DEF Launching, Posted, Letter, Awaited, Parks, Settled, Pending, Watched, Alive
<1> QED BY <1>5, <1>6 DEF IInv

\* update_nodes(): a node that is gone.
LEMMA NodeLeavesKeeps ==
    ASSUME IInv, NEW n \in Nodes, NodeLeaves(n)
    PROVE  IInv'
<1> DEFINE lost == {d \in hot \cup warm : d.node = n}
           L == RidsOf(lost)
<1>1. /\ Typed /\ LedgerTyped /\ Distinct /\ Applies /\ Launching /\ Posted /\ Awaited
      /\ Parks /\ Settled /\ Owned /\ Traced /\ ActorsTyped /\ CallTyped
      /\ budget \in [Faults -> Nat]
  BY DEF IInv, Typed
<1>2. /\ call.pc = "idle" /\ up' = up \ {n}
      /\ hot' = hot \ lost /\ warm' = warm \ lost /\ young' \subseteq young
      /\ Delete(L)
      /\ UNCHANGED <<avail, cpu, state, call>>
  BY DEF NodeLeaves
<1>3. budget' \in [Faults -> Nat]
  BY <1>1, SpendTyped DEF NodeLeaves, Faults
<1>4. Distinct'
  BY <1>1, <1>2 DEF Distinct
<1>5. \A d \in hot \cup warm : d.rid \notin L => d \in hot' \cup warm'
  BY <1>2 DEF RidsOf
<1>6. hot' \subseteq hot /\ warm' \subseteq warm
  BY <1>2
<1> HIDE DEF L
<1>7. mon' = Broken(L, mon)
  BY <1>2 DEF Delete
<1>8. /\ mon' \in [Mons -> Watches \cup {None}]
      /\ \A i \in Mons : \A r : Watched(i, r)' <=> Watched(i, r)
      /\ \A i \in Mons : Pending(i)' <=> Pending(i) /\ mon[i].dep.rid \notin L
      /\ \A i \in Mons : mon[i] # None => mon'[i].dep = mon[i].dep
      /\ \A i \in Mons : Pending(i) => /\ mon'[i].dep = mon[i].dep
                                       /\ mon'[i].op = mon[i].op
  BY <1>1, <1>7, BrokenWatches DEF ActorsTyped
<1>9. /\ actor' \in [Rids -> ActorRecs]
      /\ \A r \in Rids : r \notin L => actor'[r] = actor[r]
      /\ \A r \in Rids : r \in L => actor'[r].life = "gone" /\ actor'[r].inbox = <<>>
  BY <1>1, <1>2, GoneTyped DEF Delete, ActorsTyped
<1>10. parking' = parking
  <2>1. \A r \in Rids : parking[r] = "none"
    BY <1>1, <1>2 DEF Parks
  <2> QED BY <1>1, <1>2, <2>1 DEF Delete, ActorsTyped
<1>11. Typed'
  <2>1. LedgerTyped'
    BY <1>1, <1>2, <1>6, FS_Subset DEF LedgerTyped
  <2> QED BY <1>1, <1>2, <1>3, <1>8, <1>9, <1>10, <2>1 DEF Typed, CallTyped, ActorsTyped
<1>12. ~Changing
  BY <1>2 DEF Changing
<1>13. Placing' /\ Applies' /\ Launching'
  BY <1>1, <1>2, <1>6, <1>8, <1>12 DEF Placing, Applies, Launching
<1>14. Posted'
  <2> SUFFICES ASSUME NEW r \in Rids, NEW k \in DOMAIN actor'[r].inbox
               PROVE  Letter(r, k)'
    BY DEF Posted
  <2>1. r \notin L /\ actor'[r] = actor[r]
    BY <1>9
  <2>2. \A j \in DOMAIN actor[r].inbox : Letter(r, j)
    BY <1>1 DEF Posted
  <2>3. \A i \in Mons : Pending(i) /\ Watched(i, r) =>
            Pending(i)' /\ mon'[i].dep = mon[i].dep /\ mon'[i].op = mon[i].op
    BY <1>8, <2>1 DEF Watched
  <2> QED BY <1>1, <1>10, <2>1, <2>2, <2>3, InboxStays
<1>15. Awaited'
  <2> SUFFICES ASSUME NEW i \in Mons, Pending(i)'
               PROVE  LET r == mon'[i].dep.rid IN
                      \/ mon'[i].op = "create" /\ actor'[r].life = "loading"
                      \/ /\ mon'[i].op = "from_cache"
                         /\ \E k \in DOMAIN actor'[r].inbox : actor'[r].inbox[k].mon = i
    BY DEF Awaited
  <2>1. /\ Pending(i) /\ mon[i].dep.rid \notin L
        /\ mon'[i].dep = mon[i].dep /\ mon'[i].op = mon[i].op
    BY <1>8
  <2>2. mon[i].dep.rid \in Rids
    <3>1. mon[i] \in Watches
      BY <1>1, <2>1 DEF Pending, ActorsTyped
    <3> QED BY <3>1 DEF Watches, Deployments
  <2>3. actor'[mon[i].dep.rid] = actor[mon[i].dep.rid]
    BY <1>9, <2>1, <2>2
  <2>4. LET r == mon[i].dep.rid IN
        \/ mon[i].op = "create" /\ actor[r].life = "loading"
        \/ /\ mon[i].op = "from_cache"
           /\ \E k \in DOMAIN actor[r].inbox : actor[r].inbox[k].mon = i
    BY <1>1, <2>1 DEF Awaited
  <2> QED BY <2>1, <2>3, <2>4
<1>16. Parks'
  BY <1>1, <1>2, <1>10 DEF Parks
<1>17. Settled'
  BY <1>1, <1>2, <1>6, <1>8 DEF Settled
<1>18. Owned'
  <2> SUFFICES ASSUME NEW r \in Rids, Alive(r)' PROVE r \in Listed'
    BY DEF Owned
  <2>1. r \notin L /\ Alive(r)
    BY <1>9 DEF Alive
  <2>2. r \in Listed
    BY <1>1, <1>12, <2>1 DEF Owned
  <2>3. PICK d \in hot \cup warm : d.rid = r
    BY <2>2 DEF Listed, RidsOf
  <2>4. d \in hot' \cup warm'
    BY <1>5, <2>1, <2>3
  <2> QED BY <2>3, <2>4 DEF Listed, RidsOf
<1>19. Traced'
  <2>1. \A i \in Mons : \A r : Watched(i, r)' => Watched(i, r) /\ mon'[i].dep = mon[i].dep
    BY <1>8 DEF Watched
  <2> QED BY <1>1, <1>6, <2>1 DEF Traced
<1> QED BY <1>4, <1>11, <1>13, <1>14, <1>15, <1>16, <1>17, <1>18, <1>19 DEF IInv

-----------------------------------------------------------------------------
(* The actors *)

\* A step of an actor.
LEMMA ActorKeeps ==
    ASSUME IInv, UNCHANGED <<ledger, state, call>>, budget' \in [Faults -> Nat],
           ActorsTyped',
           \A i \in Mons : \A r : Watched(i, r)' =>
               Watched(i, r) /\ mon'[i].dep = mon[i].dep,
           \A i \in Mons : Pending(i)' => Pending(i),
           \A r \in Rids : Alive(r)' => Alive(r),
           Posted', Awaited', Parks'
    PROVE  IInv'
<1>1. /\ LedgerTyped /\ Distinct /\ Applies /\ Launching /\ Placing /\ CallTyped
      /\ Settled /\ Owned /\ Traced
  BY DEF IInv, Typed
<1>2. UNCHANGED <<up, avail, cpu, hot, warm, young>>
  BY DEF ledger
<1>3. Typed'
  BY <1>1, <1>2 DEF Typed, LedgerTyped, CallTyped
<1>4. Distinct' /\ Placing' /\ Applies'
  BY <1>1, <1>2 DEF Distinct, Placing, Expendable, Evictable, Applies, Changing
<1>5. Launching' /\ Settled' /\ Traced'
  BY <1>1, <1>2 DEF Launching, Settled, Traced
<1>6. Owned'
  BY <1>1, <1>2 DEF Owned, Listed, RidsOf, Changing
<1> QED BY <1>3, <1>4, <1>5, <1>6 DEF IInv

\* An actor that answers nothing any more, for good or until it is up again.
LEMMA SilencedKeeps ==
    ASSUME IInv, NEW r \in Rids, NEW a \in ActorRecs, a.inbox = <<>>,
           a.life \in {"loading", "up"} => Alive(r),
           actor' = [actor EXCEPT ![r] = a], mon' = Broken({r}, mon),
           parking' = [parking EXCEPT ![r] = IF @ = "pending" THEN "failed" ELSE @],
           UNCHANGED <<ledger, state, call>>, budget' \in [Faults -> Nat]
    PROVE  IInv'
<1>1. Posted /\ Awaited /\ Parks /\ ActorsTyped
  BY DEF IInv, Typed
<1>2. /\ mon' \in [Mons -> Watches \cup {None}]
      /\ \A i \in Mons : \A q : Watched(i, q)' =>
            Watched(i, q) /\ mon'[i].dep = mon[i].dep
      /\ \A i \in Mons : Pending(i)' <=> Pending(i) /\ ~Watched(i, r)
      /\ \A i \in Mons : Pending(i)' => mon'[i].op = mon[i].op
  BY <1>1, BrokenForOne DEF ActorsTyped
<1>3. /\ actor' \in [Rids -> ActorRecs] /\ actor'[r] = a
      /\ \A q \in Rids : q # r => actor'[q] = actor[q] /\ parking'[q] = parking[q]
      /\ parking'[r] = IF parking[r] = "pending" THEN "failed" ELSE parking[r]
      /\ parking' \in [Rids -> {"none", "pending", "ok", "failed"}]
  BY <1>1 DEF ActorsTyped
<1>4. ActorsTyped'
  BY <1>1, <1>2, <1>3 DEF ActorsTyped
<1>5. \A q \in Rids : Alive(q)' => Alive(q)
  BY <1>3 DEF Alive
<1>6. Posted'
  <2> SUFFICES ASSUME NEW q \in Rids, NEW k \in DOMAIN actor'[q].inbox
               PROVE  Letter(q, k)'
    BY DEF Posted
  <2>1. q # r /\ actor'[q] = actor[q] /\ parking'[q] = parking[q]
    BY <1>3
  <2>2. \A j \in DOMAIN actor[q].inbox : Letter(q, j)
    BY <1>1 DEF Posted
  <2>3. \A i \in Mons : Pending(i) /\ Watched(i, q) =>
            Pending(i)' /\ mon'[i].dep = mon[i].dep /\ mon'[i].op = mon[i].op
    <3> SUFFICES ASSUME NEW i \in Mons, Pending(i), Watched(i, q)
                 PROVE  Pending(i)' /\ mon'[i].dep = mon[i].dep /\ mon'[i].op = mon[i].op
      OBVIOUS
    <3>1. Pending(i)'
      BY <1>2, <2>1 DEF Watched
    <3>2. mon'[i] # None
      BY <3>1 DEF Pending
    <3>3. mon'[i].dep = mon[i].dep
      BY <1>2, <3>2 DEF Watched
    <3> QED BY <1>2, <3>1, <3>3
  <2> QED BY <1>1, <2>1, <2>2, <2>3, InboxStays
<1>7. Awaited'
  <2> SUFFICES ASSUME NEW i \in Mons, Pending(i)'
               PROVE  LET q == mon'[i].dep.rid IN
                      \/ mon'[i].op = "create" /\ actor'[q].life = "loading"
                      \/ /\ mon'[i].op = "from_cache"
                         /\ \E k \in DOMAIN actor'[q].inbox : actor'[q].inbox[k].mon = i
    BY DEF Awaited
  <2>1. /\ Pending(i) /\ ~Watched(i, r) /\ mon'[i].op = mon[i].op
    BY <1>2
  <2>2. mon'[i].dep = mon[i].dep
    BY <1>2 DEF Pending, Watched
  <2>3. mon[i] \in Watches /\ mon[i] # None
    BY <1>1, <2>1 DEF Pending, ActorsTyped
  <2>4. mon[i].dep.rid # r /\ mon[i].dep.rid \in Rids
    <3>1. mon[i].dep.rid # r
      BY <2>1, <2>3 DEF Watched
    <3> QED BY <2>3, <3>1 DEF Watches, Deployments
  <2>5. actor'[mon[i].dep.rid] = actor[mon[i].dep.rid]
    BY <1>3, <2>4
  <2>6. LET q == mon[i].dep.rid IN
        \/ mon[i].op = "create" /\ actor[q].life = "loading"
        \/ /\ mon[i].op = "from_cache"
           /\ \E k \in DOMAIN actor[q].inbox : actor[q].inbox[k].mon = i
    BY <1>1, <2>1 DEF Awaited
  <2> QED BY <2>1, <2>2, <2>5, <2>6
<1>8. Parks'
  <2>1. UNCHANGED <<call, warm>> /\ \A q \in Rids : parking'[q] = "none" <=> parking[q] = "none"
    BY <1>3 DEF ledger
  <2>2. \A q \in Rids : parking'[q] \in {"pending", "ok"} => parking'[q] = parking[q]
    BY <1>3
  <2>3. \A q \in Rids : parking'[q] = "pending" => q # r /\ actor'[q] = actor[q]
    BY <1>3
  <2>4. \A q \in Rids : parking'[q] = "pending" =>
           /\ Alive(q)'
           /\ \E k \in DOMAIN actor'[q].inbox : actor'[q].inbox[k].mon = None
    BY <1>1, <2>2, <2>3 DEF Parks, Alive
  <2>5. \A q \in Rids, i \in Mons : parking'[q] = "ok" /\ Watched(i, q)' => ~Pending(i)'
    BY <1>1, <1>2, <2>2 DEF Parks
  <2> QED BY <1>1, <2>1, <2>4, <2>5 DEF Parks
<1> QED BY <1>2, <1>4, <1>5, <1>6, <1>7, <1>8, ActorKeeps

\* It fails to load, dies, or is restarted.
LEMMA DeathsKeep ==
    ASSUME IInv, NEW r \in Rids, LoadFails(r) \/ Dies(r) \/ Restarts(r)
    PROVE  IInv'
<1>1. ActorsTyped /\ budget \in [Faults -> Nat] /\ actor[r] \in ActorRecs
  BY DEF IInv, Typed, ActorsTyped
<1>2. budget' \in [Faults -> Nat]
  BY <1>1, SpendTyped DEF LoadFails, Dies, Restarts, Faults
<1>3. CASE Dead(r)
  <2>1. PICK life \in {"gone", "lost"} :
            actor' = [actor EXCEPT ![r] = [NoActor EXCEPT !.life = life]]
    BY <1>3 DEF Dead
  <2> DEFINE a == [NoActor EXCEPT !.life = life]
  <2>2. a \in ActorRecs /\ a.inbox = <<>> /\ a.life = life
    BY GoneTyped DEF NoActor, ActorRecs
  <2>3. /\ actor' = [actor EXCEPT ![r] = a] /\ mon' = Broken({r}, mon)
        /\ parking' = [parking EXCEPT ![r] = IF @ = "pending" THEN "failed" ELSE @]
        /\ UNCHANGED <<ledger, state, call>>
    BY <1>3, <2>1 DEF Dead
  <2> HIDE DEF a
  <2> QED BY <1>2, <2>1, <2>2, <2>3, SilencedKeeps
<1>4. CASE Restarts(r)
  <2> DEFINE a == [actor[r] EXCEPT !.life = "loading", !.at = actor[r].born,
                                   !.inbox = <<>>,
                                   !.astray = @ \/ actor[r].at # actor[r].born]
  <2>1. a \in ActorRecs /\ a.inbox = <<>> /\ a.life = "loading"
    <3>1. <<>> \in Seq(Messages)
      OBVIOUS
    <3> QED BY <1>1, <3>1 DEF ActorRecs
  <2>2. Alive(r)
    BY <1>4 DEF Restarts, Alive
  <2>3. /\ actor' = [actor EXCEPT ![r] = a] /\ mon' = Broken({r}, mon)
        /\ parking' = [parking EXCEPT ![r] = IF @ = "pending" THEN "failed" ELSE @]
        /\ UNCHANGED <<ledger, state, call>>
    BY <1>1, <1>4 DEF Restarts, ActorsTyped
  <2> HIDE DEF a
  <2> QED BY <1>2, <2>1, <2>2, <2>3, SilencedKeeps
<1> QED BY <1>3, <1>4 DEF LoadFails, Dies

\* __init__ ends.
LEMMA LoadsKeeps ==
    ASSUME IInv, NEW r \in Rids, Loads(r)
    PROVE  IInv'
<1>1. Posted /\ Awaited /\ Parks /\ ActorsTyped /\ budget \in [Faults -> Nat]
  BY DEF IInv, Typed
<1>2. /\ actor[r].life = "loading" /\ actor' = [actor EXCEPT ![r].life = "up"]
      /\ UNCHANGED <<ledger, state, call, parking, budget>>
      /\ mon' = [i \in Mons |->
          IF mon[i] # None /\ mon[i].dep.rid = r /\ mon[i].op = "create"
             /\ mon[i].fut = "pending"
          THEN [mon[i] EXCEPT !.fut = "ok"] ELSE mon[i]]
  BY DEF Loads
<1>3. /\ actor' \in [Rids -> ActorRecs]
      /\ \A q \in Rids : actor'[q].inbox = actor[q].inbox
      /\ \A q \in Rids : q # r => actor'[q] = actor[q]
      /\ actor'[r].life = "up"
  <2> DEFINE a == [actor[r] EXCEPT !.life = "up"]
  <2>1. a \in ActorRecs /\ a.life = "up" /\ a.inbox = actor[r].inbox
    BY <1>1 DEF ActorsTyped, ActorRecs
  <2>2. actor' = [actor EXCEPT ![r] = a]
    BY <1>1, <1>2 DEF ActorsTyped
  <2> HIDE DEF a
  <2> QED BY <1>1, <2>1, <2>2 DEF ActorsTyped
<1>4. ASSUME NEW i \in Mons
      PROVE  /\ mon'[i] \in Watches \cup {None}
             /\ mon'[i] = None <=> mon[i] = None
             /\ mon[i] # None => mon'[i].dep = mon[i].dep /\ mon'[i].op = mon[i].op
             /\ Pending(i)' => Pending(i) /\ (mon[i].op = "create" => mon[i].dep.rid # r)
             /\ Pending(i) /\ mon[i].op # "create" => Pending(i)'
  <2> DEFINE m == [mon[i] EXCEPT !.fut = "ok"]
  <2>1. mon'[i] = IF mon[i] # None /\ mon[i].dep.rid = r /\ mon[i].op = "create"
                     /\ mon[i].fut = "pending" THEN m ELSE mon[i]
    BY <1>2
  <2>2. mon[i] # None => /\ m \in Watches /\ m.dep = mon[i].dep /\ m.op = mon[i].op
                         /\ m.fut = "ok"
    BY <1>1 DEF ActorsTyped, Watches
  <2>3. mon[i] \in Watches \cup {None}
    BY <1>1 DEF ActorsTyped
  <2> HIDE DEF m
  <2> QED BY <2>1, <2>2, <2>3, NoneIsNoWatch DEF Pending
<1>5. ActorsTyped'
  <2>1. mon' \in [Mons -> Watches \cup {None}]
    BY <1>2, <1>4
  <2> QED BY <1>1, <1>2, <1>3, <2>1 DEF ActorsTyped
<1>6. \A i \in Mons : \A q : Watched(i, q)' => Watched(i, q) /\ mon'[i].dep = mon[i].dep
  BY <1>4 DEF Watched
<1>7. \A q \in Rids : Alive(q)' => Alive(q)
  BY <1>2, <1>3 DEF Alive
<1>8. Posted'
  <2> SUFFICES ASSUME NEW q \in Rids, NEW k \in DOMAIN actor'[q].inbox
               PROVE  Letter(q, k)'
    BY DEF Posted
  <2>1. k \in DOMAIN actor[q].inbox /\ actor[q].inbox[k] \in Messages
    BY <1>1, <1>3 DEF ActorsTyped, ActorRecs
  <2>2. Letter(q, k)
    BY <1>1, <2>1 DEF Posted
  <2>3. CASE actor[q].inbox[k].mon = None
    BY <1>2, <1>3, <2>2, <2>3 DEF Letter
  <2>4. CASE actor[q].inbox[k].mon # None
    <3>1. PICK i \in Mons : i = actor[q].inbox[k].mon
      BY <2>1, <2>4 DEF Messages
    <3>2. /\ Pending(i) /\ mon[i].op = "from_cache" /\ mon[i] # None
          /\ \A j \in DOMAIN actor[q].inbox : actor[q].inbox[j].mon = i => j = k
      BY <2>2, <2>4, <3>1 DEF Letter, Pending
    <3>3. Pending(i)' /\ mon'[i].dep = mon[i].dep /\ mon'[i].op = mon[i].op
      BY <1>4, <3>2
    <3> QED BY <1>3, <2>2, <3>1, <3>2, <3>3, LetterStays
  <2> QED BY <2>3, <2>4
<1>9. Awaited'
  <2> SUFFICES ASSUME NEW i \in Mons, Pending(i)'
               PROVE  LET q == mon'[i].dep.rid IN
                      \/ mon'[i].op = "create" /\ actor'[q].life = "loading"
                      \/ /\ mon'[i].op = "from_cache"
                         /\ \E k \in DOMAIN actor'[q].inbox : actor'[q].inbox[k].mon = i
    BY DEF Awaited
  <2> DEFINE q == mon[i].dep.rid
  <2>1. Pending(i) /\ (mon[i].op = "create" => q # r) /\ mon[i] # None
    BY <1>4 DEF Pending
  <2>2. mon'[i].dep = mon[i].dep /\ mon'[i].op = mon[i].op
    BY <1>4, <2>1
  <2>3. q \in Rids
    <3>1. mon[i] \in Watches
      BY <1>1, <2>1 DEF ActorsTyped
    <3> QED BY <3>1 DEF Watches, Deployments
  <2>4. \/ mon[i].op = "create" /\ actor[q].life = "loading"
        \/ /\ mon[i].op = "from_cache"
           /\ \E k \in DOMAIN actor[q].inbox : actor[q].inbox[k].mon = i
    BY <1>1, <2>1 DEF Awaited
  <2>5. mon'[i].dep.rid = q
    BY <2>2
  <2> HIDE DEF q
  <2> QED BY <1>3, <2>1, <2>2, <2>3, <2>4, <2>5
<1>10. Parks'
  <2>1. \A q \in Rids : Alive(q) => Alive(q)'
    BY <1>3 DEF Alive
  <2>2. \A i \in Mons : Pending(i)' => Pending(i)
    BY <1>4
  <2>3. warm' = warm
    BY <1>2 DEF ledger
  <2> QED BY <1>1, <1>2, <1>3, <1>6, <2>1, <2>2, <2>3 DEF Parks
<1> QED BY <1>1, <1>2, <1>4, <1>5, <1>6, <1>7, <1>8, <1>9, <1>10, ActorKeeps

\* The oldest call is answered: nobody else waits for that answer.
LEMMA AnswerKeeps ==
    ASSUME IInv, NEW r \in Rids, NEW fut \in {"ok", "failed"}, NEW at \in Holdings,
           actor[r].life = "up", actor[r].inbox # <<>>, Answer(r, fut, at),
           UNCHANGED <<ledger, state, call>>, budget' \in [Faults -> Nat]
    PROVE  IInv'
<1> DEFINE box == actor[r].inbox
           c == Head(box)
<1>1. Posted /\ Awaited /\ Parks /\ ActorsTyped
  BY DEF IInv, Typed
<1>2. /\ box \in Seq(Messages) /\ Len(box) \in Nat /\ DOMAIN box = 1..Len(box)
      /\ c = box[1] /\ 1 \in DOMAIN box /\ c \in Messages
      /\ Tail(box) \in Seq(Messages) /\ Len(Tail(box)) = Len(box) - 1
      /\ DOMAIN Tail(box) = 1..(Len(box) - 1)
      /\ \A k \in DOMAIN Tail(box) : k + 1 \in DOMAIN box /\ Tail(box)[k] = box[k + 1]
  <2>1. box \in Seq(Messages) /\ box # <<>>
    BY <1>1 DEF ActorsTyped, ActorRecs
  <2> HIDE DEF box
  <2> QED BY <2>1
<1>3. Letter(r, 1)
  BY <1>1, <1>2 DEF Posted
<1>4. /\ actor' \in [Rids -> ActorRecs]
      /\ \A q \in Rids : q # r => actor'[q] = actor[q]
      /\ actor'[r].life = "up" /\ actor'[r].inbox = Tail(box)
      /\ \A q \in Rids : actor'[q].life = actor[q].life
  <2> DEFINE b == actor[r].astray /\ fut = "failed"
             a == [actor[r] EXCEPT !.inbox = Tail(box), !.at = at, !.astray = b]
  <2>1. a \in ActorRecs /\ a.life = "up" /\ a.inbox = Tail(box)
    <3>1. b \in BOOLEAN
      OBVIOUS
    <3>2. actor[r] \in ActorRecs
      BY <1>1 DEF ActorsTyped
    <3>3. Tail(box) \in Seq(Messages)
      BY <1>2
    <3> DEFINE t == Tail(box)
    <3> HIDE DEF t, b
    <3>4. [actor[r] EXCEPT !.inbox = t, !.at = at, !.astray = b] \in ActorRecs
      BY <3>1, <3>2, <3>3 DEF ActorRecs, t
    <3>5. actor[r].life = "up"
      OBVIOUS
    <3> QED BY <3>2, <3>4, <3>5 DEF ActorRecs, t
  <2>2. actor' = [actor EXCEPT ![r] = a]
    BY <1>1 DEF Answer, ActorsTyped
  <2> HIDE DEF a
  <2> QED BY <1>1, <2>1, <2>2 DEF ActorsTyped
<1>5. \A q \in Rids : Alive(q)' <=> Alive(q)
  BY <1>4 DEF Alive
<1>6. warm' = warm
  BY DEF ledger
<1>7. /\ c.mon = None => mon' = mon /\ parking' = [parking EXCEPT ![r] = fut]
      /\ c.mon # None => mon' = [mon EXCEPT ![c.mon].fut = fut] /\ parking' = parking
  BY DEF Answer
<1>8. CASE c.mon = None
  <2>1. Len(box) = 1 /\ parking[r] = "pending"
    BY <1>2, <1>3, <1>8 DEF Letter
  <2>2. actor'[r].inbox = <<>> /\ DOMAIN actor'[r].inbox = {}
    BY <1>2, <1>4, <2>1
  <2>3. /\ mon' = mon /\ parking'[r] = fut
        /\ \A q \in Rids : q # r => parking'[q] = parking[q]
        /\ parking' \in [Rids -> {"none", "pending", "ok", "failed"}]
    BY <1>1, <1>7, <1>8 DEF ActorsTyped
  <2>4. \A i \in Mons : ~(Pending(i) /\ Watched(i, r))
    <3> SUFFICES ASSUME NEW i \in Mons, Pending(i), Watched(i, r) PROVE FALSE
      OBVIOUS
    <3>1. \E k \in DOMAIN box : box[k].mon = i
      BY <1>1 DEF Awaited, Watched
    <3>2. box[1].mon = i
      BY <1>2, <2>1, <3>1
    <3> QED BY <1>2, <1>8, <3>2, NoneIsNoMonitor
  <2> HIDE DEF box, c
  <2>5. ActorsTyped'
    BY <1>1, <1>4, <2>3 DEF ActorsTyped
  <2>6. Posted'
    <3> SUFFICES ASSUME NEW q \in Rids, NEW k \in DOMAIN actor'[q].inbox
                 PROVE  Letter(q, k)'
      BY DEF Posted
    <3>1. q # r /\ actor'[q] = actor[q] /\ parking'[q] = parking[q]
      BY <1>4, <2>2, <2>3
    <3>2. \A j \in DOMAIN actor[q].inbox : Letter(q, j)
      BY <1>1 DEF Posted
    <3>3. \A i \in Mons : Pending(i) =>
              Pending(i)' /\ mon'[i].dep = mon[i].dep /\ mon'[i].op = mon[i].op
      BY <2>3 DEF Pending
    <3> QED BY <1>1, <3>1, <3>2, <3>3, InboxStays
  <2>7. Awaited'
    <3> SUFFICES ASSUME NEW i \in Mons, Pending(i)
                 PROVE  LET q == mon[i].dep.rid IN
                        \/ mon[i].op = "create" /\ actor'[q].life = "loading"
                        \/ /\ mon[i].op = "from_cache"
                           /\ \E k \in DOMAIN actor'[q].inbox : actor'[q].inbox[k].mon = i
      BY <2>3 DEF Awaited, Pending
    <3>1. mon[i] \in Watches /\ mon[i] # None
      BY <1>1 DEF Pending, ActorsTyped
    <3>2. mon[i].dep.rid # r
      BY <2>4, <3>1 DEF Watched
    <3>3. mon[i].dep.rid \in Rids
      BY <3>1 DEF Watches, Deployments
    <3>4. actor'[mon[i].dep.rid] = actor[mon[i].dep.rid]
      BY <1>4, <3>2, <3>3
    <3> QED BY <1>1, <3>4 DEF Awaited
  <2>8. \A i \in Mons : \A q : Watched(i, q)' <=> Watched(i, q)
    BY <2>3 DEF Watched
  <2>9. \A i \in Mons : Pending(i)' <=> Pending(i)
    BY <2>3 DEF Pending
  <2>10. Parks'
    <3>1. \A q \in Rids : parking'[q] = "none" <=> parking[q] = "none"
      BY <2>1, <2>3
    <3>2. \A q \in Rids : parking'[q] = "pending" =>
              /\ Alive(q)'
              /\ \E k \in DOMAIN actor'[q].inbox : actor'[q].inbox[k].mon = None
      BY <1>1, <1>4, <1>5, <2>3 DEF Parks
    <3>3. \A q \in Rids, i \in Mons : parking'[q] = "ok" /\ Watched(i, q)' => ~Pending(i)'
      BY <1>1, <2>3, <2>4, <2>8, <2>9 DEF Parks
    <3> QED BY <1>1, <1>6, <3>1, <3>2, <3>3 DEF Parks
  <2>11. \A i \in Mons : \A q : Watched(i, q)' => Watched(i, q) /\ mon'[i].dep = mon[i].dep
    BY <2>3, <2>8
  <2> QED BY <1>5, <2>5, <2>6, <2>7, <2>9, <2>10, <2>11, ActorKeeps
<1>9. CASE c.mon # None
  <2>1. PICK a \in Mons : a = c.mon
    BY <1>2, <1>9 DEF Messages
  <2>2. /\ Pending(a) /\ Watched(a, r) /\ mon[a].op = "from_cache"
        /\ \A j \in DOMAIN box : box[j].mon = a => j = 1
    BY <1>2, <1>3, <1>9, <2>1 DEF Letter
  <2>3. /\ mon' \in [Mons -> Watches \cup {None}] /\ mon'[a].dep = mon[a].dep
        /\ mon'[a].fut = fut /\ mon'[a] # None
        /\ \A i \in Mons : i # a => mon'[i] = mon[i]
        /\ parking' = parking
    <3> DEFINE m == [mon[a] EXCEPT !.fut = fut]
    <3>1. mon[a] \in Watches
      BY <1>1, <2>2 DEF ActorsTyped, Pending
    <3>2. m \in Watches /\ m.dep = mon[a].dep /\ m.fut = fut
      BY <3>1 DEF Watches
    <3>3. mon' = [mon EXCEPT ![a] = m]
      BY <1>1, <1>7, <1>9, <2>1 DEF ActorsTyped
    <3> HIDE DEF m
    <3> QED BY <1>1, <1>7, <1>9, <3>2, <3>3, NoneIsNoWatch DEF ActorsTyped
  <2>4. /\ \A i \in Mons : \A q : Watched(i, q)' => Watched(i, q) /\ mon'[i].dep = mon[i].dep
        /\ \A i \in Mons : Pending(i)' <=> Pending(i) /\ i # a
    BY <2>2, <2>3 DEF Watched, Pending
  <2> HIDE DEF box, c
  <2>5. ActorsTyped'
    BY <1>1, <1>4, <2>3 DEF ActorsTyped
  <2>6. Posted'
    <3> SUFFICES ASSUME NEW q \in Rids, NEW k \in DOMAIN actor'[q].inbox
                 PROVE  Letter(q, k)'
      BY DEF Posted
    <3>1. CASE q # r
      <4>1. actor'[q] = actor[q] /\ \A j \in DOMAIN actor[q].inbox : Letter(q, j)
        BY <1>1, <1>4, <3>1 DEF Posted
      <4>2. \A i \in Mons : Pending(i) /\ Watched(i, q) =>
                Pending(i)' /\ mon'[i].dep = mon[i].dep /\ mon'[i].op = mon[i].op
        <5>1. ~Watched(a, q)
          BY <2>2, <3>1 DEF Watched
        <5> QED BY <2>3, <2>4, <5>1
      <4> QED BY <1>1, <2>3, <4>1, <4>2, InboxStays
    <3>2. CASE q = r
      <4>1. /\ k \in DOMAIN Tail(box) /\ k + 1 \in DOMAIN box /\ k \in Nat
            /\ actor'[q].inbox[k] = box[k + 1] /\ box[k + 1] \in Messages /\ k + 1 # 1
        BY <1>2, <1>4, <3>2
      <4>2. Letter(r, k + 1)
        BY <1>1, <4>1 DEF Posted, box
      <4>3. CASE box[k + 1].mon = None
        <5>1. k + 1 = Len(box) /\ box[k + 1].op = "to_cache" /\ parking[r] = "pending"
          BY <4>2, <4>3 DEF Letter, box
        <5>2. k = Len(actor'[q].inbox)
          BY <1>2, <1>4, <3>2, <4>1, <5>1
        <5> QED BY <2>3, <3>2, <4>1, <4>3, <5>1, <5>2 DEF Letter
      <4>4. CASE box[k + 1].mon # None
        <5>1. PICK i \in Mons : i = box[k + 1].mon
          BY <4>1, <4>4 DEF Messages
        <5>2. /\ Pending(i) /\ Watched(i, r) /\ i # a
              /\ \A j \in DOMAIN box : box[j].mon = i => j = k + 1
          BY <2>2, <4>1, <4>2, <4>4, <5>1 DEF Letter, box
        <5>3. Pending(i)' /\ mon'[i].dep = mon[i].dep /\ mon'[i].op = mon[i].op
          BY <2>3, <2>4, <5>2
        <5>4. \A j \in DOMAIN actor'[q].inbox : actor'[q].inbox[j].mon = i => j = k
          <6> SUFFICES ASSUME NEW j \in DOMAIN Tail(box), Tail(box)[j].mon = i PROVE j = k
            BY <1>4, <3>2
          <6>1. j + 1 \in DOMAIN box /\ box[j + 1].mon = i /\ j \in Nat
            BY <1>2
          <6>2. j + 1 = k + 1
            BY <5>2, <6>1
          <6> QED BY <4>1, <6>1, <6>2
        <5>5. actor[r].inbox[k + 1].mon = i /\ actor'[r].inbox[k] = actor[r].inbox[k + 1]
          BY <3>2, <4>1, <5>1 DEF box
        <5> QED BY <3>2, <4>2, <5>1, <5>3, <5>4, <5>5, LetterStays
      <4> QED BY <4>3, <4>4
    <3> QED BY <3>1, <3>2
  <2>7. ASSUME NEW i, i # a, \E k \in DOMAIN actor[r].inbox : actor[r].inbox[k].mon = i
        PROVE  \E k \in DOMAIN actor'[r].inbox : actor'[r].inbox[k].mon = i
    <3>1. PICK k \in DOMAIN box : box[k].mon = i
      BY <2>7 DEF box
    <3>2. k # 1
      BY <1>2, <2>1, <2>7, <3>1
    <3>3. k - 1 \in DOMAIN Tail(box) /\ Tail(box)[k - 1] = box[k]
      BY <1>2, <3>1, <3>2
    <3>4. actor'[r].inbox[k - 1].mon = i /\ k - 1 \in DOMAIN actor'[r].inbox
      BY <1>4, <3>1, <3>3
    <3> QED BY <3>4
  <2>8. Awaited'
    <3> SUFFICES ASSUME NEW i \in Mons, Pending(i)'
                 PROVE  LET q == mon'[i].dep.rid IN
                        \/ mon'[i].op = "create" /\ actor'[q].life = "loading"
                        \/ /\ mon'[i].op = "from_cache"
                           /\ \E k \in DOMAIN actor'[q].inbox : actor'[q].inbox[k].mon = i
      BY DEF Awaited
    <3> DEFINE q == mon[i].dep.rid
    <3>1. Pending(i) /\ i # a /\ mon'[i] = mon[i]
      BY <2>3, <2>4
    <3>2. q \in Rids
      <4>1. mon[i] \in Watches
        BY <1>1, <3>1 DEF Pending, ActorsTyped
      <4> QED BY <4>1 DEF Watches, Deployments
    <3>3. \/ mon[i].op = "create" /\ actor[q].life = "loading"
          \/ /\ mon[i].op = "from_cache"
             /\ \E k \in DOMAIN actor[q].inbox : actor[q].inbox[k].mon = i
      BY <1>1, <3>1 DEF Awaited
    <3>4. mon'[i].dep.rid = q
      BY <3>1
    <3> HIDE DEF q
    <3>5. (\E k \in DOMAIN actor[q].inbox : actor[q].inbox[k].mon = i) =>
              \E k \in DOMAIN actor'[q].inbox : actor'[q].inbox[k].mon = i
      <4>1. CASE q = r
        <5>1. (\E k \in DOMAIN actor[r].inbox : actor[r].inbox[k].mon = i) =>
                  \E k \in DOMAIN actor'[r].inbox : actor'[r].inbox[k].mon = i
          BY <2>7, <3>1
        <5> QED BY <4>1, <5>1
      <4>2. CASE q # r
        BY <1>4, <3>2, <4>2
      <4> QED BY <4>1, <4>2
    <3> QED BY <1>4, <3>1, <3>2, <3>3, <3>4, <3>5
  <2>9. Parks'
    <3>1. ASSUME NEW q \in Rids, parking[q] = "pending"
          PROVE  \E k \in DOMAIN actor'[q].inbox : actor'[q].inbox[k].mon = None
      <4>1. \E k \in DOMAIN actor[q].inbox : actor[q].inbox[k].mon = None
        BY <1>1, <3>1 DEF Parks
      <4>2. CASE q = r
        <5>1. None # a
          BY NoneIsNoMonitor
        <5> QED BY <2>7, <4>1, <4>2, <5>1
      <4>3. CASE q # r
        BY <1>4, <4>1, <4>3
      <4> QED BY <4>2, <4>3
    <3> QED BY <1>1, <1>5, <1>6, <2>3, <2>4, <3>1 DEF Parks
  <2> QED BY <1>5, <2>4, <2>5, <2>6, <2>8, <2>9, ActorKeeps
<1> QED BY <1>8, <1>9

\* to_cache() and from_cache() return, or raise.
LEMMA MovesKeep ==
    ASSUME IInv, NEW r \in Rids, Moves(r) \/ MoveFails(r)
    PROVE  IInv'
<1>1. /\ actor[r] \in ActorRecs /\ budget \in [Faults -> Nat]
      /\ actor[r].life = "up" /\ actor[r].inbox # <<>>
  BY DEF IInv, Typed, ActorsTyped, Moves, MoveFails
<1>2. actor[r].at \in Holdings /\ Head(actor[r].inbox).at \in Holdings
  <2>1. actor[r].inbox \in Seq(Messages)
    BY <1>1 DEF ActorRecs
  <2>2. Head(actor[r].inbox) \in Messages
    BY <1>1, <2>1
  <2> QED BY <1>1, <2>2 DEF ActorRecs, Messages
<1>3. budget' \in [Faults -> Nat]
  BY <1>1, SpendTyped DEF Moves, MoveFails, Faults
<1> QED BY <1>1, <1>2, <1>3, AnswerKeeps DEF Moves, MoveFails

\* Nothing is listed, watched or alive at the start.
LEMMA InitInv == Init => IInv
<1> SUFFICES ASSUME Init PROVE IInv
  OBVIOUS
<1>1. /\ hot = {} /\ warm = {} /\ state = [r \in Rids |-> "none"] /\ call = Idle
      /\ mon = [i \in Mons |-> None] /\ parking = [r \in Rids |-> "none"]
      /\ actor = [r \in Rids |-> NoActor]
  BY DEF Init
<1>2. /\ call.pc = "idle" /\ call.launch = {}
      /\ \A r \in Rids : actor[r].inbox = <<>> /\ ~Alive(r)
  BY <1>1 DEF Idle, NoActor, Alive
<1>3. Typed
  BY TypedInit
<1>4. Distinct /\ Applies /\ Placing /\ Launching
  BY <1>1, <1>2 DEF Distinct, Applies, Placing, Launching
<1>5. \A i \in Mons : ~Pending(i)
  BY <1>1 DEF Pending
<1>6. Posted
  BY <1>2 DEF Posted
<1>7. Awaited /\ Settled /\ Traced /\ Owned
  BY <1>1, <1>2, <1>5 DEF Awaited, Settled, Traced, Owned
<1>8. Parks
  BY <1>1, <1>2 DEF Parks
<1> QED BY <1>3, <1>4, <1>6, <1>7, <1>8 DEF IInv

\* Nothing that it speaks of changes.
LEMMA StutterKeeps == IInv /\ UNCHANGED vars => IInv'
<1> SUFFICES ASSUME IInv, UNCHANGED vars PROVE IInv'
  OBVIOUS
<1>1. UNCHANGED <<up, avail, cpu, hot, warm, young, state, call, mon, parking, actor, budget>>
  BY DEF vars, ledger
<1>2. Typed' /\ Distinct' /\ Applies'
  BY <1>1 DEF IInv, Typed, LedgerTyped, CallTyped, ActorsTyped, Distinct, Applies, Changing
<1>3. Placing'
  BY <1>1 DEF IInv, Placing, Expendable, Evictable
<1>4. Launching' /\ Posted' /\ Awaited'
  BY <1>1 DEF IInv, Launching, Posted, Letter, Awaited, Watched, Pending
<1>5. Parks' /\ Settled' /\ Owned' /\ Traced'
  BY <1>1 DEF IInv, Parks, Settled, Owned, Listed, Changing, Traced, Watched, Pending, Alive
<1> QED BY <1>2, <1>4, <1>3, <1>5 DEF IInv

\* Every step of the controller, of an actor or of a node preserves it.
LEMMA NextKeeps == IInv /\ [Next]_vars => IInv'
<1> SUFFICES ASSUME IInv, [Next]_vars PROVE IInv'
  OBVIOUS
<1>1. CASE \E cfgs \in Deploys : Deploy(cfgs)
  BY <1>1, DeployKeeps
<1>2. CASE \E m \in Models : Scale(m) \/ EvictAll(m)
  BY <1>2, ScaleKeeps, EvictAllKeeps
<1>3. CASE \E d \in hot \cup warm : EvictOne(d)
  BY <1>3, EvictOneKeeps
<1>4. CASE ServeCall
  <2>1. CASE Choose \/ CantAccommodate \/ PlacedAll \/ Drained
    BY <2>1, ChooseKeeps, CantAccommodateKeeps, PlacedAllKeeps, LoopsKeep
  <2>2. CASE \E d \in hot \cup warm : MakeRoom(d) \/ Drain(d) \/ CacheFails(d)
    BY <2>2, MakeRoomKeeps, DrainKeeps, CacheFailsKeeps
  <2>3. CASE \E r \in Rids : Placed(r) \/ Cached(r)
    BY <2>3, PlacedKeeps, CachedKeeps
  <2>4. CASE Build \/ CachedAll \/ Applied
    BY <2>4, BuildKeeps, LoopsKeep
  <2>5. CASE \E l \in call.launch : \/ Restore(l) \/ RestoreFails(l)
                                     \/ Create(l) \/ CreateFails(l)
    BY <2>5, RestoreKeeps, LaunchFailsKeeps, CreateKeeps
  <2> QED BY <1>4, <2>1, <2>2, <2>3, <2>4, <2>5 DEF ServeCall
<1>5. CASE \E i \in Mons : Deployed(i) \/ DeployFails(i)
  BY <1>5, DeployedKeeps, DeployFailsKeeps
<1>6. CASE \E n \in Nodes : NodeJoins(n) \/ NodeLeaves(n)
  BY <1>6, NodeJoinsKeeps, NodeLeavesKeeps
<1>7. CASE \E r \in Rids : \/ Ages(r) \/ ActorStep(r) \/ LoadFails(r)
                           \/ MoveFails(r) \/ Restarts(r) \/ Dies(r)
  BY <1>7, AgesKeeps, LoadsKeeps, MovesKeep, DeathsKeep DEF ActorStep
<1>8. CASE UNCHANGED vars
  BY <1>8, StutterKeeps
<1> QED BY <1>1, <1>2, <1>3, <1>4, <1>5, <1>6, <1>7, <1>8 DEF Next

\* The invariant holds.
THEOREM Inductive == Spec => []IInv
<1>1. Init => IInv
  BY InitInv
<1>2. IInv /\ [Next]_vars => IInv'
  BY NextKeeps
<1> QED BY <1>1, <1>2, PTL DEF Spec

\* A placement spares pinned replicas, those of the models it deploys, HOT and
\* WARM, and unless it is pinned itself the young ones.
LEMMA StepSpares ==
    ASSUME IInv, [Next]_vars, call.pc \in {"place", "room"}
    PROVE  /\ \A d \in hot \ hot' :
                /\ ~d.pinned /\ d.model \notin call.names
                /\ d.rid \notin young \/ call.cand.cfg.pinned
           /\ \A w \in warm \ warm' :
                w.model \notin call.names \/ w.rid \in RidsOf(hot')
<1>1. LedgerTyped /\ Distinct /\ Placing /\ Applies /\ Launching
  BY DEF IInv, Typed
<1>2. CASE \E d \in hot \cup warm : MakeRoom(d)
  <2>1. PICK d \in hot \cup warm : MakeRoom(d)
    BY <1>2
  <2>2. call.pc = "room" /\ d.rid \in call.work /\ Evict(d, call.names)
    BY <2>1 DEF MakeRoom
  <2>3. d \in hot /\ Expendable(d, call.cand.node, call.cand.cfg, call.names)
    BY <1>1, <2>2, VictimsMayGo
  <2>4. hot' = hot \ {d}
    BY <1>1, <2>2, EvictShape
  <2>5. ~d.pinned /\ d.model \notin call.names /\ (d.rid \notin young \/ call.cand.cfg.pinned)
    BY <2>3 DEF Expendable, Evictable
  <2>6. d \notin warm
    BY <1>1, <2>3 DEF Distinct
  <2>7. \A w \in warm \ warm' : w.model \notin call.names
    BY <1>1, <2>2, <2>3, <2>6, EvictShape
  <2> QED BY <2>4, <2>5, <2>7
<1>3. CASE \E r \in Rids : Placed(r)
  <2>1. PICK r \in Rids : Placed(r)
    BY <1>3
  <2>2. /\ hot' = hot \cup {NewReplica(call.cand, r)}
        /\ \A w \in warm \ warm' : w.rid = r
    BY <1>1, <2>1, PlacedShape
  <2>3. NewReplica(call.cand, r).rid = r
    BY DEF NewReplica
  <2> QED BY <2>2, <2>3 DEF RidsOf
<1>4. CASE UNCHANGED <<hot, warm>>
  BY <1>4
<1> QED
  <2>1. \A l \in call.launch : FALSE
    BY <1>1 DEF Launching
  <2>2. CASE ServeCall
    BY <1>2, <1>3, <1>4, <2>1, <2>2 DEF ServeCall, Choose, CantAccommodate, PlacedAll, Drained,
       Drain, CacheFails, Cached, Build, CachedAll, Applied, ledger
  <2>3. CASE ~ServeCall
    <3>1. UNCHANGED <<hot, warm>>
      BY <2>3 DEF Next, vars, ledger, Deploy, Scale, EvictAll, EvictOne, Deployed, DeployFails,
         NodeJoins, NodeLeaves, Ages, ActorStep, Loads, Moves, LoadFails, MoveFails, Restarts,
         Dies, Dead
    <3> QED BY <1>4, <3>1
  <2> QED BY <2>2, <2>3

\* A placement spares pinned replicas, those of the models it deploys, HOT and
\* WARM, and unless it is pinned itself the young ones (node.py:246, 325-336,
\* 358).
THEOREM PlacementsSpare == Spec => PlacementSpares
<1>1. IInv /\ [Next]_vars =>
         [call.pc \in {"place", "room"} =>
          /\ \A d \in hot \ hot' :
                /\ ~d.pinned /\ d.model \notin call.names
                /\ d.rid \notin young \/ call.cand.cfg.pinned
          /\ \A w \in warm \ warm' :
                w.model \notin call.names \/ w.rid \in RidsOf(hot')]_vars
  BY StepSpares
<1> QED BY <1>1, Inductive, PTL DEF Spec, PlacementSpares

-----------------------------------------------------------------------------
(* The accounts *)

OnGpu(n, g) == {d \in hot : d.node = n /\ g \in d.gpus}
OnCpu(n) == {w \in warm : w.node = n}
Without(T, n) == {w \in warm \ T : w.node = n}

\* What is available is what the listed replicas leave.
Balanced ==
    \A n \in up :
        /\ cpu[n] = CpuMem - Sum(bytes, OnCpu(n))
        /\ \A g \in Gpus : avail[n][g] = GpuMem - Sum(shares, OnGpu(n, g))

Bounded ==
    /\ avail \in [Nodes -> [Gpus -> 0..GpuMem]]
    /\ cpu \in [Nodes -> 0..CpuMem]

\* They sum up.
LEMMA AccountsSum ==
    ASSUME LedgerTyped, NEW n \in Nodes
    PROVE  /\ Weighs(bytes, OnCpu(n)) /\ Sum(bytes, OnCpu(n)) \in Nat
           /\ \A w \in OnCpu(n) : bytes[w] = w.size /\ w.size \in Nat
           /\ \A g \in Gpus : /\ Weighs(shares, OnGpu(n, g))
                              /\ Sum(shares, OnGpu(n, g)) \in Nat
                              /\ \A d \in OnGpu(n, g) : shares[d] = d.share
<1>1. OnCpu(n) \subseteq Deployments /\ IsFiniteSet(OnCpu(n))
  BY FS_Subset DEF OnCpu, LedgerTyped
<1>2. \A g \in Gpus : OnGpu(n, g) \subseteq Deployments /\ IsFiniteSet(OnGpu(n, g))
  BY FS_Subset DEF OnGpu, LedgerTyped
<1>3. \A w \in Deployments : w.size \in Nat
  BY DEF Deployments
<1> QED BY <1>1, <1>2, <1>3, ReplicasWeigh

\* A HOT replica leaves.
LEMMA HotLeaves ==
    ASSUME LedgerTyped, NEW d \in hot, hot' = hot \ {d}, NEW n \in Nodes, NEW g \in Gpus
    PROVE  Sum(shares, OnGpu(n, g)) =
               Sum(shares, OnGpu(n, g)') +
               (IF d.node = n /\ g \in d.gpus THEN d.share ELSE 0)
<1>1. Weighs(shares, OnGpu(n, g)) /\ Sum(shares, OnGpu(n, g)) \in Nat
  BY AccountsSum
<1>2. CASE d.node = n /\ g \in d.gpus
  <2>1. d \in OnGpu(n, g) /\ OnGpu(n, g)' = OnGpu(n, g) \ {d} /\ shares[d] = d.share
    BY <1>2, AccountsSum DEF OnGpu
  <2>2. Sum(shares, OnGpu(n, g)) = shares[d] + Sum(shares, OnGpu(n, g) \ {d})
    BY <1>1, <2>1, SumRemove
  <2>3. Weighs(shares, OnGpu(n, g) \ {d})
    BY <1>1, FS_Subset DEF Weighs
  <2>4. Sum(shares, OnGpu(n, g) \ {d}) \in Nat /\ shares[d] \in Nat
    BY <1>1, <2>1, <2>3, SumNat DEF Weighs
  <2> QED BY <1>2, <2>1, <2>2, <2>4
<1>3. CASE ~(d.node = n /\ g \in d.gpus)
  <2>1. OnGpu(n, g)' = OnGpu(n, g)
    BY <1>3 DEF OnGpu
  <2> QED BY <1>1, <1>3, <2>1
<1> QED BY <1>2, <1>3

\* Some WARM ones leave, all of one node.
LEMMA WarmLeave ==
    ASSUME LedgerTyped, NEW T, T \subseteq warm, NEW m \in Nodes,
           \A w \in T : w.node = m, NEW n \in Nodes
    PROVE  /\ Weighs(bytes, Without(T, n)) /\ Sum(bytes, Without(T, n)) \in Nat
           /\ Sum(bytes, T) \in Nat
           /\ Sum(bytes, OnCpu(n)) =
                  Sum(bytes, Without(T, n)) + (IF n = m THEN Sum(bytes, T) ELSE 0)
<1>1. /\ Weighs(bytes, OnCpu(n)) /\ Sum(bytes, OnCpu(n)) \in Nat
      /\ Weighs(bytes, OnCpu(m))
  BY AccountsSum
<1>2. Without(T, n) \subseteq OnCpu(n) /\ T \subseteq OnCpu(m)
  BY DEF OnCpu, Without
<1>3. /\ Weighs(bytes, Without(T, n)) /\ Sum(bytes, Without(T, n)) \in Nat
      /\ Weighs(bytes, T) /\ Sum(bytes, T) \in Nat
  BY <1>1, <1>2, FS_Subset, SumNat DEF Weighs
<1>4. CASE n = m
  <2>1. Without(T, n) = OnCpu(n) \ T /\ T \in SUBSET OnCpu(n)
    BY <1>2, <1>4 DEF OnCpu, Without
  <2>2. Sum(bytes, OnCpu(n)) = Sum(bytes, T) + Sum(bytes, OnCpu(n) \ T)
    BY <1>1, <2>1, SumSplit
  <2> QED BY <1>3, <1>4, <2>1, <2>2
<1>5. CASE n # m
  <2>1. Without(T, n) = OnCpu(n)
    BY <1>2, <1>5 DEF OnCpu, Without
  <2> QED BY <1>1, <1>3, <1>5, <2>1
<1> QED BY <1>4, <1>5

\* What is exact is in bounds, if nothing is overdrawn.
LEMMA InBounds ==
    ASSUME LedgerTyped', Balanced', up' \subseteq Nodes,
           \A n \in Nodes \ up' : /\ cpu'[n] \in 0..CpuMem
                                  /\ \A g \in Gpus : avail'[n][g] \in 0..GpuMem,
           \A n \in up' : cpu'[n] >= 0 /\ \A g \in Gpus : avail'[n][g] >= 0
    PROVE  Bounded'
<1>1. ASSUME NEW n \in up'
      PROVE  cpu'[n] \in 0..CpuMem /\ \A g \in Gpus : avail'[n][g] \in 0..GpuMem
  <2>1. Sum(bytes, OnCpu(n)') \in Nat /\ \A g \in Gpus : Sum(shares, OnGpu(n, g)') \in Nat
    <3>1. /\ hot' \subseteq Deployments /\ IsFiniteSet(hot')
          /\ warm' \subseteq Deployments /\ IsFiniteSet(warm')
      BY DEF LedgerTyped
    <3>2. OnCpu(n)' \subseteq Deployments /\ IsFiniteSet(OnCpu(n)')
      BY <3>1, FS_Subset DEF OnCpu
    <3>3. \A g \in Gpus : OnGpu(n, g)' \subseteq Deployments /\ IsFiniteSet(OnGpu(n, g)')
      BY <3>1, FS_Subset DEF OnGpu
    <3> QED BY <3>2, <3>3, ReplicasWeigh
  <2>2. /\ cpu'[n] = CpuMem - Sum(bytes, OnCpu(n)')
        /\ \A g \in Gpus : avail'[n][g] = GpuMem - Sum(shares, OnGpu(n, g)')
    BY DEF Balanced
  <2>3. CpuMem \in Nat /\ GpuMem \in Nat
    BY NodeAssumption
  <2> QED BY <2>1, <2>2, <2>3
<1>2. avail' \in [Nodes -> [Gpus -> Int]] /\ cpu' \in [Nodes -> Int]
  BY DEF LedgerTyped
<1>3. \A n \in Nodes : cpu'[n] \in 0..CpuMem
  BY <1>1
<1>4. \A n \in Nodes, g \in Gpus : avail'[n][g] \in 0..GpuMem
  BY <1>1
<1>5. cpu' \in [Nodes -> 0..CpuMem]
  BY <1>2, <1>3
<1>6. \A n \in Nodes : avail'[n] \in [Gpus -> 0..GpuMem]
  BY <1>2, <1>4
<1>7. avail' \in [Nodes -> [Gpus -> 0..GpuMem]]
  BY <1>2, <1>6
<1> QED BY <1>5, <1>7 DEF Bounded

\* What evict() does to a node's CPU budget: others give way, and the replica
\* itself may come in.
LEMMA EvictCpu ==
    ASSUME LedgerTyped, Distinct, NEW d \in hot \cup warm, NEW names,
           Evict(d, names) \/ Purge(d)
    PROVE  \E T \in SUBSET warm :
              /\ \A w \in T : w.node = d.node
              /\ \/ /\ warm' = warm \ T
                    /\ \A n \in Nodes : cpu'[n] =
                          IF n = d.node THEN cpu[n] + Sum(bytes, T) ELSE cpu[n]
                 \/ /\ d \in hot /\ warm' = (warm \ T) \cup {Parked(d)}
                    /\ \A n \in Nodes : cpu'[n] =
                          IF n = d.node THEN cpu[n] + Sum(bytes, T) - d.size ELSE cpu[n]
                    /\ d.size <= cpu[d.node] + Sum(bytes, T)
<1>1. d \in Deployments /\ d.node \in Nodes /\ cpu \in [Nodes -> Int]
  BY DEF LedgerTyped, Deployments
<1>2. CASE d \in warm /\ EvictWarm(d)
  <2>1. Weighs(bytes, {d}) /\ bytes[d] = d.size /\ d.size \in Nat
    BY <1>1, FS_Singleton DEF Weighs, bytes, Deployments
  <2>2. Sum(bytes, {d}) = d.size
    <3>1. Sum(bytes, {d}) = bytes[d] + Sum(bytes, {d} \ {d})
      BY <2>1, SumRemove
    <3>2. {d} \ {d} = {}
      OBVIOUS
    <3> QED BY <2>1, <3>1, <3>2, SumEmpty
  <2>3. /\ warm' = warm \ {d}
        /\ \A n \in Nodes : cpu'[n] = IF n = d.node THEN cpu[n] + d.size ELSE cpu[n]
    BY <1>1, <1>2 DEF EvictWarm
  <2> QED BY <1>2, <2>2, <2>3
<1>3. CASE UNCHANGED <<warm, cpu>>
  <2>1. warm' = warm \ {} /\ \A n \in Nodes : cpu'[n] = cpu[n] + 0
    BY <1>1, <1>3
  <2> QED BY <1>1, <1>3, <2>1, SumEmpty
<1>4. CASE \E T \in CacheRoom(d, names) \cup CacheRoom(d, {}) :
              \/ /\ warm' = warm \ T
                 /\ cpu' = [cpu EXCEPT ![d.node] = @ + MapThenSumSet(Bytes, T)]
              \/ /\ d \in hot /\ warm' = (warm \ T) \cup {Parked(d)}
                 /\ cpu' = [cpu EXCEPT ![d.node] = @ + MapThenSumSet(Bytes, T) - d.size]
  <2>1. PICK T \in CacheRoom(d, names) \cup CacheRoom(d, {}) :
              \/ /\ warm' = warm \ T
                 /\ cpu' = [cpu EXCEPT ![d.node] = @ + MapThenSumSet(Bytes, T)]
              \/ /\ d \in hot /\ warm' = (warm \ T) \cup {Parked(d)}
                 /\ cpu' = [cpu EXCEPT ![d.node] = @ + MapThenSumSet(Bytes, T) - d.size]
    BY <1>4
  <2>2. /\ T \subseteq warm /\ \A w \in T : w.node = d.node
        /\ MapThenSumSet(Bytes, T) = Sum(bytes, T)
        /\ d.size <= cpu[d.node] + Sum(bytes, T)
    BY <1>1, RoomTyped
  <2>3. CASE warm' = warm \ T /\ cpu' = [cpu EXCEPT ![d.node] = @ + MapThenSumSet(Bytes, T)]
    BY <1>1, <2>2, <2>3
  <2>4. CASE /\ d \in hot /\ warm' = (warm \ T) \cup {Parked(d)}
             /\ cpu' = [cpu EXCEPT ![d.node] = @ + MapThenSumSet(Bytes, T) - d.size]
    <3>1. \A n \in Nodes : cpu'[n] =
              IF n = d.node THEN cpu[n] + Sum(bytes, T) - d.size ELSE cpu[n]
      BY <1>1, <2>2, <2>4
    <3> QED BY <2>2, <2>4, <3>1
  <2> QED BY <2>1, <2>3, <2>4
<1>5. CASE Evict(d, names)
  BY <1>2, <1>3, <1>4, <1>5 DEF Evict, EvictHot
<1>6. CASE Purge(d)
  BY <1>2, <1>3, <1>4, <1>6 DEF Purge
<1> QED BY <1>5, <1>6

\* What evict() gives back on the GPUs.
LEMMA EvictGpus ==
    ASSUME LedgerTyped, Distinct, NEW d \in hot \cup warm, NEW names,
           Evict(d, names) \/ Purge(d), NEW n \in Nodes, NEW g \in Gpus
    PROVE  avail'[n][g] = IF d \in hot /\ n = d.node /\ g \in d.gpus
                          THEN avail[n][g] + d.share ELSE avail[n][g]
<1>1. d \in Deployments /\ d.node \in Nodes /\ d.share \in Int
  BY DEF LedgerTyped, Deployments
<1>2. CASE d \in warm
  <2>1. d \notin hot
    BY <1>2 DEF Distinct
  <2>2. avail' = avail
    BY <2>1 DEF Evict, Purge, EvictWarm
  <2> QED BY <2>1, <2>2
<1>3. CASE d \in hot
  <2>1. d \notin warm
    BY <1>3 DEF Distinct
  <2>2. avail' = Released(d.node, d.gpus, d.share)
    BY <2>1 DEF Evict, Purge, EvictHot
  <2> QED BY <1>1, <1>3, <2>2, BookedTyped
<1> QED BY <1>2, <1>3

\* evict() keeps the accounts exact, and books no byte that is not there.
LEMMA EvictBalances ==
    ASSUME LedgerTyped, Distinct, Balanced, Bounded, NEW d \in hot \cup warm, NEW names,
           Evict(d, names) \/ Purge(d)
    PROVE  Balanced' /\ Bounded'
<1>1. /\ LedgerTyped' /\ up' = up /\ up \subseteq Nodes /\ hot' = hot \ {d}
      /\ d \in Deployments /\ d.node \in up
  BY EvictTyped, EvictShape DEF LedgerTyped, Distinct
<1>2. /\ d.share \in Nat /\ d.size \in Nat /\ d.node \in Nodes
      /\ CpuMem \in Nat /\ GpuMem \in Nat
      /\ cpu \in [Nodes -> Int] /\ avail \in [Nodes -> [Gpus -> Int]]
  BY <1>1, NodeAssumption DEF Deployments, LedgerTyped
<1>3. \A n \in Nodes, g \in Gpus :
          avail'[n][g] = IF d \in hot /\ n = d.node /\ g \in d.gpus
                         THEN avail[n][g] + d.share ELSE avail[n][g]
  BY EvictGpus
<1>4. ASSUME NEW n \in up, NEW g \in Gpus
      PROVE  avail'[n][g] = GpuMem - Sum(shares, OnGpu(n, g)')
  <2>1. /\ avail[n][g] = GpuMem - Sum(shares, OnGpu(n, g)) /\ n \in Nodes
        /\ Sum(shares, OnGpu(n, g)) \in Nat
    BY <1>1, AccountsSum DEF Balanced
  <2>2. CASE d \in hot
    <3>1. Sum(shares, OnGpu(n, g)) = Sum(shares, OnGpu(n, g)') +
               (IF d.node = n /\ g \in d.gpus THEN d.share ELSE 0)
      BY <1>1, <2>1, <2>2, HotLeaves
    <3>2. OnGpu(n, g)' \subseteq Deployments /\ IsFiniteSet(OnGpu(n, g)')
      BY <1>1, FS_Subset DEF OnGpu, LedgerTyped
    <3>3. Sum(shares, OnGpu(n, g)') \in Nat
      BY <3>2, ReplicasWeigh
    <3> QED BY <1>2, <1>3, <2>1, <2>2, <3>1, <3>3
  <2>3. CASE d \notin hot
    <3>1. OnGpu(n, g)' = OnGpu(n, g)
      BY <1>1, <2>3 DEF OnGpu
    <3> QED BY <1>3, <2>1, <2>3, <3>1
  <2> QED BY <2>2, <2>3
<1>5. PICK T \in SUBSET warm :
              /\ \A w \in T : w.node = d.node
              /\ \/ /\ warm' = warm \ T
                    /\ \A n \in Nodes : cpu'[n] =
                          IF n = d.node THEN cpu[n] + Sum(bytes, T) ELSE cpu[n]
                 \/ /\ d \in hot /\ warm' = (warm \ T) \cup {Parked(d)}
                    /\ \A n \in Nodes : cpu'[n] =
                          IF n = d.node THEN cpu[n] + Sum(bytes, T) - d.size ELSE cpu[n]
                    /\ d.size <= cpu[d.node] + Sum(bytes, T)
  BY EvictCpu
<1>6. ASSUME NEW n \in up
      PROVE  cpu'[n] = CpuMem - Sum(bytes, OnCpu(n)')
  <2>1. /\ Weighs(bytes, Without(T, n)) /\ Sum(bytes, Without(T, n)) \in Nat
        /\ Sum(bytes, T) \in Nat
        /\ Sum(bytes, OnCpu(n)) =
               Sum(bytes, Without(T, n)) + (IF n = d.node THEN Sum(bytes, T) ELSE 0)
        /\ cpu[n] = CpuMem - Sum(bytes, OnCpu(n)) /\ n \in Nodes
    <3>1. n \in Nodes /\ cpu[n] = CpuMem - Sum(bytes, OnCpu(n))
      BY <1>1 DEF Balanced
    <3>2. T \subseteq warm /\ \A w \in T : w.node = d.node
      BY <1>5
    <3> QED BY ONLY <1>2, <3>1, <3>2, LedgerTyped, WarmLeave
  <2>2. CASE OnCpu(n)' = Without(T, n) /\ (n = d.node => cpu'[n] = cpu[n] + Sum(bytes, T))
    <3>1. cpu'[n] = IF n = d.node THEN cpu[n] + Sum(bytes, T) ELSE cpu[n]
      BY <1>5, <2>1, <2>2
    <3> QED BY <1>2, <2>1, <2>2, <3>1
  <2>3. CASE /\ d \in hot /\ warm' = (warm \ T) \cup {Parked(d)} /\ n = d.node
             /\ cpu'[n] = cpu[n] + Sum(bytes, T) - d.size
    <3>1. OnCpu(n)' = Without(T, n) \cup {Parked(d)}
      BY <1>1, <2>3, ParkedTyped DEF OnCpu, Without
    <3>2. Parked(d) \notin Without(T, n)
      BY <1>1, <2>3, ParkedTyped DEF Distinct, Without
    <3>3. bytes[Parked(d)] = d.size
      BY <1>1, ParkedTyped DEF bytes
    <3>4. Sum(bytes, Without(T, n) \cup {Parked(d)}) = d.size + Sum(bytes, Without(T, n))
      BY <1>2, <2>1, <3>2, <3>3, SumAdd
    <3> QED BY <1>2, <2>1, <2>3, <3>1, <3>4
  <2>4. \/ OnCpu(n)' = Without(T, n) /\ (n = d.node => cpu'[n] = cpu[n] + Sum(bytes, T))
        \/ /\ d \in hot /\ warm' = (warm \ T) \cup {Parked(d)} /\ n = d.node
           /\ cpu'[n] = cpu[n] + Sum(bytes, T) - d.size
    <3>1. CASE warm' = warm \ T /\ \A m \in Nodes : cpu'[m] =
                   IF m = d.node THEN cpu[m] + Sum(bytes, T) ELSE cpu[m]
      BY <2>1, <3>1 DEF OnCpu, Without
    <3>2. CASE /\ d \in hot /\ warm' = (warm \ T) \cup {Parked(d)}
               /\ \A m \in Nodes : cpu'[m] =
                     IF m = d.node THEN cpu[m] + Sum(bytes, T) - d.size ELSE cpu[m]
      <4>1. Parked(d).node = d.node
        BY <1>1, ParkedTyped
      <4> QED BY <2>1, <3>2, <4>1 DEF OnCpu, Without
    <3> QED BY <1>5, <3>1, <3>2
  <2> QED BY <2>2, <2>3, <2>4
<1>7. Balanced'
  BY <1>1, <1>4, <1>6 DEF Balanced
<1>8. \A n \in Nodes : cpu'[n] >= 0 /\ (n \notin up => cpu'[n] = cpu[n])
  <2>1. Sum(bytes, T) \in Nat
    BY <1>1, <1>2, <1>5, WarmLeave
  <2>2. \A n \in Nodes : cpu[n] \in Nat
    BY <1>2 DEF Bounded
  <2> QED BY <1>1, <1>2, <1>5, <2>1, <2>2
<1>9. \A n \in Nodes, g \in Gpus :
          avail'[n][g] >= 0 /\ (n \notin up => avail'[n][g] = avail[n][g])
  <2>1. \A n \in Nodes, g \in Gpus : avail[n][g] \in Nat
    BY <1>2 DEF Bounded
  <2> QED BY <1>1, <1>2, <1>3, <2>1
<1>10. /\ \A n \in Nodes \ up' : cpu'[n] \in 0..CpuMem
       /\ \A n \in Nodes \ up', g \in Gpus : avail'[n][g] \in 0..GpuMem
  BY <1>1, <1>8, <1>9 DEF Bounded
<1> QED BY <1>1, <1>7, <1>8, <1>9, <1>10, InBounds

\* A replica that is placed takes its share of what is there.
LEMMA PlaceBalances ==
    ASSUME LedgerTyped, Distinct, Balanced, Bounded, NEW r \in Rids, Placed(r),
           call.cand \in Cands, call.cand.node \in up,
           \A g \in call.cand.gpus : call.cand.share <= avail[call.cand.node][g]
    PROVE  Balanced' /\ Bounded'
<1> DEFINE c == call.cand
           d == NewReplica(c, r)
<1>1. /\ up' = up /\ hot' = hot \cup {d} /\ avail' = Booked(c.node, c.gpus, c.share)
      /\ \A x \in hot : x.rid # r
      /\ \/ UNCHANGED <<warm, cpu>>
         \/ \E w \in warm : /\ w.node = c.node /\ warm' = warm \ {w}
                            /\ cpu' = [cpu EXCEPT ![c.node] = @ + w.size]
  BY PlacedShape
<1>2. /\ LedgerTyped' /\ d \in Deployments
  <2>1. Place(c, r)
    BY DEF Placed
  <2> QED BY <2>1, PlaceTyped, NewReplicaTyped
<1>3. /\ d.rid = r /\ d.node = c.node /\ d.gpus = c.gpus /\ d.share = c.share /\ d \notin hot
      /\ c.node \in Nodes /\ c.node \in up /\ c.share \in Nat
      /\ \A g \in c.gpus : c.share <= avail[c.node][g]
  BY <1>1 DEF NewReplica, Cands
<1>4. /\ up \subseteq Nodes /\ CpuMem \in Nat /\ GpuMem \in Nat
      /\ cpu \in [Nodes -> Int] /\ avail \in [Nodes -> [Gpus -> Int]]
  BY NodeAssumption DEF LedgerTyped
<1> HIDE DEF c, d
<1>5. \A n \in Nodes, g \in Gpus :
          avail'[n][g] = IF n = c.node /\ g \in c.gpus THEN avail[n][g] - c.share
                                                       ELSE avail[n][g]
  BY <1>1, <1>3, BookedTyped
<1>6. ASSUME NEW n \in up, NEW g \in Gpus
      PROVE  avail'[n][g] = GpuMem - Sum(shares, OnGpu(n, g)')
  <2>1. /\ avail[n][g] = GpuMem - Sum(shares, OnGpu(n, g)) /\ n \in Nodes
        /\ Sum(shares, OnGpu(n, g)) \in Nat /\ Weighs(shares, OnGpu(n, g))
    BY <1>4, AccountsSum DEF Balanced
  <2>2. CASE n = c.node /\ g \in c.gpus
    <3>1. OnGpu(n, g)' = OnGpu(n, g) \cup {d} /\ d \notin OnGpu(n, g)
      BY <1>1, <1>3, <2>2 DEF OnGpu
    <3>2. shares[d] = c.share
      BY <1>2, <1>3 DEF shares
    <3>3. Sum(shares, OnGpu(n, g) \cup {d}) = c.share + Sum(shares, OnGpu(n, g))
      BY <1>3, <2>1, <3>1, <3>2, SumAdd
    <3> QED BY <1>3, <1>4, <1>5, <2>1, <2>2, <3>1, <3>3
  <2>3. CASE ~(n = c.node /\ g \in c.gpus)
    <3>1. OnGpu(n, g)' = OnGpu(n, g)
      BY <1>1, <1>3, <2>3 DEF OnGpu
    <3> QED BY <1>5, <2>1, <2>3, <3>1
  <2> QED BY <2>2, <2>3
<1>7. \A n \in up : cpu'[n] = CpuMem - Sum(bytes, OnCpu(n)') /\ cpu'[n] >= cpu[n]
  <2>1. CASE UNCHANGED <<warm, cpu>>
    BY <1>4, <2>1 DEF Balanced, OnCpu
  <2>2. CASE \E w \in warm : /\ w.node = c.node /\ warm' = warm \ {w}
                             /\ cpu' = [cpu EXCEPT ![c.node] = @ + w.size]
    <3>1. PICK w \in warm : /\ w.node = c.node /\ warm' = warm \ {w}
                            /\ cpu' = [cpu EXCEPT ![c.node] = @ + w.size]
      BY <2>2
    <3>2. \A n \in Nodes : cpu'[n] = IF n = c.node THEN cpu[n] + w.size ELSE cpu[n]
      BY <1>4, <3>1
    <3> SUFFICES ASSUME NEW n \in up
                 PROVE  cpu'[n] = CpuMem - Sum(bytes, OnCpu(n)') /\ cpu'[n] >= cpu[n]
      OBVIOUS
    <3>3. /\ cpu[n] = CpuMem - Sum(bytes, OnCpu(n)) /\ n \in Nodes
          /\ Weighs(bytes, OnCpu(n)) /\ Sum(bytes, OnCpu(n)) \in Nat
          /\ \A x \in OnCpu(n) : bytes[x] = x.size /\ x.size \in Nat
      BY <1>4, AccountsSum DEF Balanced
    <3>4. CASE n = c.node
      <4>1. w \in OnCpu(n) /\ OnCpu(n)' = OnCpu(n) \ {w}
        BY <3>1, <3>4 DEF OnCpu
      <4>2. Sum(bytes, OnCpu(n)) = w.size + Sum(bytes, OnCpu(n) \ {w})
        BY <3>3, <4>1, SumRemove
      <4>3. Sum(bytes, OnCpu(n) \ {w}) \in Nat
        <5>1. Weighs(bytes, OnCpu(n) \ {w})
          BY <3>3, FS_Subset DEF Weighs
        <5> QED BY <5>1, SumNat
      <4> QED BY <1>4, <3>2, <3>3, <3>4, <4>1, <4>2, <4>3
    <3>5. CASE n # c.node
      <4>1. OnCpu(n)' = OnCpu(n)
        BY <3>1, <3>5 DEF OnCpu
      <4> QED BY <1>4, <3>2, <3>3, <3>5, <4>1
    <3> QED BY <3>4, <3>5
  <2> QED BY <1>1, <2>1, <2>2
<1>8. Balanced'
  BY <1>1, <1>6, <1>7 DEF Balanced
<1>9. \A n \in Nodes : n \notin up => cpu'[n] = cpu[n]
  BY <1>1, <1>3, <1>4
<1>10. \A n \in Nodes, g \in Gpus :
          avail'[n][g] >= 0 /\ (n \notin up => avail'[n][g] = avail[n][g])
  <2>1. \A n \in Nodes, g \in Gpus : avail[n][g] \in Nat
    BY <1>4 DEF Bounded
  <2> QED BY <1>3, <1>4, <1>5, <2>1
<1>11. \A n \in up : cpu'[n] >= 0
  <2>1. \A n \in Nodes : cpu[n] \in Nat /\ cpu'[n] \in Int
    BY <1>2, <1>4 DEF Bounded, LedgerTyped
  <2> QED BY <1>4, <1>7, <2>1
<1>12. /\ \A n \in Nodes \ up' : cpu'[n] \in 0..CpuMem
       /\ \A n \in Nodes \ up', g \in Gpus : avail'[n][g] \in 0..GpuMem
  BY <1>1, <1>9, <1>10 DEF Bounded
<1> QED BY <1>1, <1>2, <1>4, <1>8, <1>10, <1>11, <1>12, InBounds

\* Nothing of what the accounts depend on changes.
LEMMA BalanceStays ==
    ASSUME Balanced, Bounded, UNCHANGED <<up, avail, cpu, hot, warm>>
    PROVE  Balanced' /\ Bounded'
BY DEF Balanced, Bounded, OnGpu, OnCpu

\* What _remove_deployment_from_state() gives back is what was booked, if the
\* object it is given is the one that is listed.
LEMMA RemoveBalances ==
    ASSUME LedgerTyped, Distinct, Balanced, Bounded, NEW d \in Deployments,
           RemoveFromState(d),
           \A x \in hot : x.rid = d.rid =>
               x.node = d.node /\ x.gpus = d.gpus /\ x.share = d.share,
           \A w \in warm : w.rid = d.rid => w.node = d.node /\ w.size = d.size
    PROVE  Balanced' /\ Bounded'
<1> DEFINE h == {x \in hot : d.node \in up /\ x.rid = d.rid}
           w == {x \in warm : d.node \in up /\ x.rid = d.rid}
<1>1. /\ up' = up /\ hot' = hot \ h /\ warm' = warm \ w
      /\ avail' = IF h = {} THEN avail ELSE Released(d.node, d.gpus, d.share)
      /\ cpu' = IF w = {} THEN cpu ELSE [cpu EXCEPT ![d.node] = @ + d.size]
      /\ young' = IF h = {} THEN young ELSE young \ {d.rid}
  BY DEF RemoveFromState
<1>2. CASE h = {} /\ w = {}
  <2> HIDE DEF h, w
  <2>1. UNCHANGED <<up, avail, cpu, hot, warm>>
    BY <1>1, <1>2
  <2> QED BY <2>1, BalanceStays
<1>3. ASSUME NEW y \in w
      PROVE  Balanced' /\ Bounded'
  <2>1. y \in warm /\ y.rid = d.rid /\ y.node = d.node /\ y.size = d.size
    OBVIOUS
  <2>2. h = {} /\ w = {y}
    BY <2>1 DEF Distinct
  <2> HIDE DEF h, w
  <2>3. Purge(y)
    BY <1>1, <2>1, <2>2 DEF Purge, EvictWarm
  <2> QED BY <2>1, <2>3, EvictBalances
<1>4. ASSUME NEW x \in h
      PROVE  Balanced' /\ Bounded'
  <2>1. /\ x \in hot /\ x.rid = d.rid /\ x.node = d.node /\ x.gpus = d.gpus
        /\ x.share = d.share /\ d.node \in up
    OBVIOUS
  <2>2. h = {x} /\ w = {}
    BY <2>1 DEF Distinct
  <2> HIDE DEF h, w
  <2>3. /\ hot' = hot \ {x} /\ UNCHANGED <<up, warm, cpu>>
        /\ avail' = Released(x.node, x.gpus, x.share)
    BY <1>1, <2>1, <2>2
  <2>4. LedgerTyped'
    BY RemoveTyped
  <2>5. /\ x.node \in Nodes /\ x.share \in Nat /\ up \subseteq Nodes
        /\ GpuMem \in Nat /\ avail \in [Nodes -> [Gpus -> Int]]
    BY <2>1, NodeAssumption DEF LedgerTyped, Deployments
  <2>6. \A n \in Nodes, g \in Gpus :
            avail'[n][g] = IF n = x.node /\ g \in x.gpus THEN avail[n][g] + x.share
                                                         ELSE avail[n][g]
    BY <2>3, <2>5, BookedTyped
  <2>7. ASSUME NEW n \in up, NEW g \in Gpus
        PROVE  avail'[n][g] = GpuMem - Sum(shares, OnGpu(n, g)')
    <3>1. avail[n][g] = GpuMem - Sum(shares, OnGpu(n, g)) /\ n \in Nodes
      BY <2>5 DEF Balanced
    <3>2. Sum(shares, OnGpu(n, g)) = Sum(shares, OnGpu(n, g)') +
               (IF x.node = n /\ g \in x.gpus THEN x.share ELSE 0)
      BY <2>1, <2>3, <3>1, HotLeaves
    <3>3. OnGpu(n, g)' \subseteq Deployments /\ IsFiniteSet(OnGpu(n, g)')
      BY <2>4, FS_Subset DEF OnGpu, LedgerTyped
    <3>4. Sum(shares, OnGpu(n, g)') \in Nat
      BY <3>3, ReplicasWeigh
    <3> QED BY <2>5, <2>6, <3>1, <3>2, <3>4
  <2>8. Balanced'
    BY <2>3, <2>7 DEF Balanced, OnCpu
  <2>9. \A n \in Nodes, g \in Gpus :
            avail'[n][g] >= 0 /\ (n \notin up => avail'[n][g] = avail[n][g])
    <3>1. \A n \in Nodes, g \in Gpus : avail[n][g] \in Nat
      BY <2>5 DEF Bounded
    <3> QED BY <2>1, <2>5, <2>6, <3>1
  <2>10. \A n \in Nodes : cpu'[n] \in 0..CpuMem /\ cpu'[n] >= 0
    BY <2>3 DEF Bounded
  <2>11. \A n \in Nodes \ up', g \in Gpus : avail'[n][g] \in 0..GpuMem
    BY <2>3, <2>9 DEF Bounded
  <2> QED BY <2>3, <2>4, <2>5, <2>8, <2>9, <2>10, <2>11, InBounds
<1> HIDE DEF h, w
<1> QED BY <1>2, <1>3, <1>4

\* A node that joins has nothing on it.
LEMMA JoinBalances ==
    ASSUME LedgerTyped, Distinct, Balanced, Bounded, NEW n \in Nodes, NodeJoins(n)
    PROVE  Balanced' /\ Bounded'
<1>1. /\ n \notin up /\ up' = up \cup {n} /\ UNCHANGED <<hot, warm>>
      /\ avail' = [avail EXCEPT ![n] = [g \in Gpus |-> GpuMem]]
      /\ cpu' = [cpu EXCEPT ![n] = CpuMem]
  BY DEF NodeJoins
<1>2. /\ up \subseteq Nodes /\ CpuMem \in Nat /\ GpuMem \in Nat
      /\ cpu \in [Nodes -> 0..CpuMem] /\ avail \in [Nodes -> [Gpus -> 0..GpuMem]]
  BY NodeAssumption DEF LedgerTyped, Bounded
<1>3. Bounded'
  <2>1. [g \in Gpus |-> GpuMem] \in [Gpus -> 0..GpuMem] /\ CpuMem \in 0..CpuMem
    BY <1>2
  <2> QED BY <1>1, <1>2, <2>1 DEF Bounded
<1>4. ASSUME NEW m \in up'
      PROVE  /\ cpu'[m] = CpuMem - Sum(bytes, OnCpu(m))
             /\ \A g \in Gpus : avail'[m][g] = GpuMem - Sum(shares, OnGpu(m, g))
  <2>1. CASE m = n
    <3>1. OnCpu(m) = {} /\ \A g \in Gpus : OnGpu(m, g) = {}
      BY <1>1, <2>1 DEF OnCpu, OnGpu, Distinct
    <3>2. cpu'[m] = CpuMem /\ \A g \in Gpus : avail'[m][g] = GpuMem
      BY <1>1, <1>2, <2>1
    <3>3. Sum(bytes, {}) = 0 /\ Sum(shares, {}) = 0
      BY SumEmpty
    <3>4. Sum(bytes, OnCpu(m)) = 0 /\ \A g \in Gpus : Sum(shares, OnGpu(m, g)) = 0
      BY <3>1, <3>3
    <3>5. CpuMem - 0 = CpuMem /\ GpuMem - 0 = GpuMem
      BY <1>2
    <3> QED BY <3>2, <3>4, <3>5
  <2>2. CASE m # n
    BY <1>1, <1>2, <2>2 DEF Balanced
  <2> QED BY <2>1, <2>2
<1>5. \A m : OnCpu(m)' = OnCpu(m) /\ \A g : OnGpu(m, g)' = OnGpu(m, g)
  BY <1>1 DEF OnCpu, OnGpu
<1> QED BY <1>3, <1>4, <1>5 DEF Balanced

\* A node that leaves takes its accounts along.
LEMMA LeaveBalances ==
    ASSUME LedgerTyped, Balanced, Bounded, NEW n \in Nodes, NodeLeaves(n)
    PROVE  Balanced' /\ Bounded'
<1>1. /\ up' = up \ {n} /\ UNCHANGED <<avail, cpu>>
      /\ hot' = hot \ {d \in hot \cup warm : d.node = n}
      /\ warm' = warm \ {d \in hot \cup warm : d.node = n}
  BY DEF NodeLeaves
<1>2. Bounded'
  BY <1>1 DEF Bounded
<1>3. \A m \in up' : OnCpu(m)' = OnCpu(m) /\ \A g : OnGpu(m, g)' = OnGpu(m, g)
  BY <1>1 DEF OnCpu, OnGpu
<1> QED BY <1>1, <1>2, <1>3 DEF Balanced

-----------------------------------------------------------------------------
(* What a failing monitor gives back *)

\* Whatever a placement of these models may promote, nobody waits for.
Promotes ==
    call.pc \in {"place", "room"} =>
        \A w \in warm, i \in Mons :
            w.model \in call.names /\ Watched(i, w.rid) => mon[i].fut = "ok"

\* The replica of a task that may still fail has not been promoted since.
Current ==
    \A i \in Mons : mon[i] # None /\ mon[i].fut # "ok" =>
        \/ mon[i].dep \in hot
        \/ Parked(mon[i].dep) \in warm
        \/ mon[i].dep.rid \notin Listed

\* A step after which whatever task is not through was there before.
MonitorsGoOn ==
    \A i \in Mons : mon'[i] # None /\ mon'[i].fut # "ok" =>
        mon[i] # None /\ mon[i].fut # "ok" /\ mon'[i].dep = mon[i].dep

\* A task watches a replica.
LEMMA WatchesOne ==
    ASSUME ActorsTyped, NEW i \in Mons, mon[i] # None
    PROVE  /\ mon[i].dep \in Deployments /\ mon[i].fut \in {"pending", "ok", "failed"}
           /\ mon[i].dep.rid \in Rids
           /\ Parked(mon[i].dep).rid = mon[i].dep.rid
           /\ Parked(mon[i].dep).node = mon[i].dep.node
           /\ Parked(mon[i].dep).size = mon[i].dep.size
<1>1. mon[i] \in Watches
  BY DEF ActorsTyped
<1>2. mon[i].dep \in Deployments /\ mon[i].fut \in {"pending", "ok", "failed"}
  BY <1>1 DEF Watches
<1>3. mon[i].dep.rid \in Rids
  BY <1>2 DEF Deployments
<1> QED BY <1>2, <1>3, ParkedTyped

\* Replicas leave.
LEMMA CurrentShrinks ==
    ASSUME ActorsTyped, Distinct, Current, MonitorsGoOn, hot' \subseteq hot,
           warm' \subseteq warm
    PROVE  Current'
<1> SUFFICES ASSUME NEW i \in Mons, mon'[i] # None, mon'[i].fut # "ok"
             PROVE  \/ mon'[i].dep \in hot'
                    \/ Parked(mon'[i].dep) \in warm'
                    \/ mon'[i].dep.rid \notin Listed'
  BY DEF Current
<1>1. /\ mon[i] # None /\ mon[i].fut # "ok" /\ mon'[i].dep = mon[i].dep
  BY DEF MonitorsGoOn
<1>2. Parked(mon[i].dep).rid = mon[i].dep.rid
  BY <1>1, WatchesOne
<1>3. PICK d : d = mon[i].dep
  OBVIOUS
<1>4. Listed' = {x.rid : x \in hot' \cup warm'}
  BY DEF Listed, RidsOf
<1>5. CASE d \in hot
  BY <1>1, <1>3, <1>4, <1>5 DEF Distinct
<1>6. CASE Parked(d) \in warm
  BY <1>1, <1>2, <1>3, <1>4, <1>6 DEF Distinct
<1>7. CASE d.rid \notin Listed
  BY <1>1, <1>3, <1>4, <1>7 DEF Listed, RidsOf
<1> QED BY <1>1, <1>3, <1>5, <1>6, <1>7 DEF Current

\* A replica goes, or is parked.
LEMMA CurrentEvicts ==
    ASSUME LedgerTyped, ActorsTyped, Distinct, Current, mon' = mon,
           NEW d \in hot \cup warm, NEW names, Evict(d, names) \/ Purge(d)
    PROVE  Current'
<1>1. /\ hot' = hot \ {d} /\ warm' \subseteq (warm \ {d}) \cup {Parked(d)}
      /\ d \in warm => warm' = warm \ {d}
  BY EvictShape
<1>2. d \in Deployments /\ Parked(d).rid = d.rid
  BY ParkedTyped DEF LedgerTyped
<1>3. CASE warm' \subseteq warm
  BY <1>1, <1>3, CurrentShrinks DEF MonitorsGoOn
<1>4. CASE ~(warm' \subseteq warm)
  <2>1. d \in hot /\ Parked(d) \in warm'
    BY <1>1, <1>4
  <2> SUFFICES ASSUME NEW i \in Mons, mon[i] # None, mon[i].fut # "ok"
               PROVE  \/ mon[i].dep \in hot'
                      \/ Parked(mon[i].dep) \in warm'
                      \/ mon[i].dep.rid \notin Listed'
    BY DEF Current
  <2>2. Parked(mon[i].dep).rid = mon[i].dep.rid
    BY WatchesOne
  <2>3. PICK e : e = mon[i].dep
    OBVIOUS
  <2>4. Listed' = {x.rid : x \in hot' \cup warm'}
    BY DEF Listed, RidsOf
  <2>5. CASE e \in hot
    BY <1>1, <2>1, <2>3, <2>5
  <2>6. CASE Parked(e) \in warm
    BY <1>1, <1>2, <2>1, <2>2, <2>3, <2>4, <2>6 DEF Distinct
  <2>7. CASE e.rid \notin Listed
    BY <1>1, <1>2, <2>1, <2>3, <2>4, <2>7 DEF Listed, RidsOf
  <2> QED BY <2>3, <2>5, <2>6, <2>7 DEF Current
<1> QED BY <1>3, <1>4

\* A replica is placed: nobody watches it who could still fail.
LEMMA CurrentPlaces ==
    ASSUME IInv, Promotes, Current, NEW r \in Rids, Placed(r)
    PROVE  Current'
<1>1. /\ LedgerTyped /\ Distinct /\ ActorsTyped /\ call.pc = "room" /\ mon' = mon
      /\ call.cand.cfg.model \in call.names
  BY DEF IInv, Typed, Placed, Placing
<1>2. /\ hot' = hot \cup {NewReplica(call.cand, r)}
      /\ \/ Fresh(r) /\ warm' = warm
         \/ \E w \in warm : /\ w.rid = r /\ w.model = call.cand.cfg.model
                            /\ warm' = warm \ {w}
  BY <1>1, PlacedShape
<1>3. \A i \in Mons : mon[i] # None /\ mon[i].fut # "ok" => mon[i].dep.rid # r
  BY <1>1, <1>2 DEF Fresh, Promotes, Watched
<1>4. NewReplica(call.cand, r).rid = r
  BY DEF NewReplica
<1> SUFFICES ASSUME NEW i \in Mons, mon[i] # None, mon[i].fut # "ok"
             PROVE  \/ mon[i].dep \in hot'
                    \/ Parked(mon[i].dep) \in warm'
                    \/ mon[i].dep.rid \notin Listed'
  BY <1>1 DEF Current
<1>5. Parked(mon[i].dep).rid = mon[i].dep.rid
  BY <1>1, WatchesOne
<1>6. PICK e : e = mon[i].dep
  OBVIOUS
<1>7. Listed' = {x.rid : x \in hot' \cup warm'}
  BY DEF Listed, RidsOf
<1>8. CASE e \in hot
  BY <1>2, <1>6, <1>8
<1>9. CASE Parked(e) \in warm
  BY <1>2, <1>3, <1>5, <1>6, <1>9
<1>10. CASE e.rid \notin Listed
  BY <1>2, <1>3, <1>4, <1>6, <1>7, <1>10 DEF Listed, RidsOf
<1> QED BY <1>6, <1>8, <1>9, <1>10 DEF Current

\* A task begins for a replica that is listed.
LEMMA CurrentLaunches ==
    ASSUME IInv, Current, NEW l \in call.launch, Restore(l) \/ Create(l)
    PROVE  Current'
<1>1. /\ ActorsTyped /\ l \in Launches /\ l.dep \in hot /\ UNCHANGED <<hot, warm>>
  BY DEF IInv, Typed, CallTyped, CallRecs, Launching, Restore, Create, ledger
<1>2. PICK i \in Mons : Monitor(i, l.dep, l.op)
  BY DEF Restore, Create
<1>3. /\ mon'[i].dep = l.dep
      /\ \A j \in Mons : j # i => mon'[j] = mon[j]
  BY <1>1, <1>2, MonitorAdds
<1>4. Listed' = Listed
  BY <1>1 DEF Listed, RidsOf
<1> QED BY <1>1, <1>3, <1>4 DEF Current

\* Futures that fail begin no task.
LEMMA BrokenGoesOn ==
    ASSUME ActorsTyped, NEW S, mon' = Broken(S, mon)
    PROVE  MonitorsGoOn
BY BrokenShape DEF ActorsTyped, MonitorsGoOn

\* A task is begun at the end of apply() only.
LEMMA OthersGoOn ==
    ASSUME IInv, [Next]_vars, \A l \in call.launch : ~(Restore(l) \/ Create(l))
    PROVE  MonitorsGoOn
<1>1. ActorsTyped /\ Posted /\ mon \in [Mons -> Watches \cup {None}]
  BY DEF IInv, Typed, ActorsTyped
<1>2. \A S : mon' = Broken(S, mon) => MonitorsGoOn
  BY <1>1, BrokenGoesOn
<1>3. mon' = mon => MonitorsGoOn
  BY DEF MonitorsGoOn
<1>4. ASSUME NEW i \in Mons, Deployed(i) \/ DeployFails(i)
      PROVE  MonitorsGoOn
  <2>1. CASE Deployed(i)
    BY <1>1, <2>1 DEF Deployed, MonitorsGoOn
  <2>2. CASE DeployFails(i)
    <3> DEFINE B == Broken({mon[i].dep.rid}, mon)
    <3>1. /\ mon' = [B EXCEPT ![i] = None] /\ B \in [Mons -> Watches \cup {None}]
          /\ \A j \in Mons : /\ B[j] = None <=> mon[j] = None
                             /\ mon[j] # None => B[j].dep = mon[j].dep
                             /\ mon[j] # None /\ mon[j].fut = "ok" => B[j].fut = "ok"
      BY <1>1, <2>2, BrokenShape DEF DeployFails
    <3> HIDE DEF B
    <3> QED BY <3>1 DEF MonitorsGoOn
  <2> QED BY <1>4, <2>1, <2>2
<1>5. ASSUME NEW r \in Rids, Loads(r)
      PROVE  MonitorsGoOn
  <2>1. mon' = [i \in Mons |->
          IF mon[i] # None /\ mon[i].dep.rid = r /\ mon[i].op = "create"
             /\ mon[i].fut = "pending"
          THEN [mon[i] EXCEPT !.fut = "ok"] ELSE mon[i]]
    BY <1>5 DEF Loads
  <2>2. \A i \in Mons : mon'[i] = mon[i] \/ (mon[i] # None /\ mon'[i].fut = "ok")
    <3> SUFFICES ASSUME NEW i \in Mons, mon'[i] # mon[i]
                 PROVE  mon[i] # None /\ mon'[i].fut = "ok"
      OBVIOUS
    <3>1. mon[i] # None /\ mon'[i] = [mon[i] EXCEPT !.fut = "ok"]
      BY <2>1
    <3>2. mon[i] \in Watches
      BY <1>1, <3>1
    <3> QED BY <3>1, <3>2 DEF Watches
  <2> QED BY <2>2 DEF MonitorsGoOn
<1>6. ASSUME NEW r \in Rids, Moves(r) \/ MoveFails(r)
      PROVE  MonitorsGoOn
  <2> DEFINE c == Head(actor[r].inbox)
  <2>1. PICK fut \in {"ok", "failed"} :
            mon' = IF c.mon = None THEN mon ELSE [mon EXCEPT ![c.mon].fut = fut]
    BY <1>6 DEF Moves, MoveFails, Answer
  <2>2. actor[r].inbox \in Seq(Messages) /\ actor[r].inbox # <<>>
    BY <1>1, <1>6 DEF Moves, MoveFails, ActorsTyped, ActorRecs
  <2>3. 1 \in DOMAIN actor[r].inbox /\ c = actor[r].inbox[1] /\ c \in Messages
    BY <2>2
  <2>4. Letter(r, 1)
    BY <1>1, <2>3 DEF Posted
  <2>5. c.mon # None => c.mon \in Mons /\ mon[c.mon] # None /\ mon[c.mon].fut = "pending"
    BY <2>3, <2>4 DEF Letter, Pending, Messages
  <2> HIDE DEF c
  <2>6. CASE c.mon = None
    BY <1>3, <2>1, <2>6
  <2>7. CASE c.mon # None
    <3>1. PICK a : a = c.mon
      OBVIOUS
    <3>2. a \in Mons /\ mon[a] # None /\ mon[a].fut = "pending" /\ mon[a] \in Watches
      BY <1>1, <2>5, <2>7, <3>1
    <3>3. mon' = [mon EXCEPT ![a] = [mon[a] EXCEPT !.fut = fut]]
      BY <1>1, <2>1, <2>7, <3>1, <3>2
    <3>4. [mon[a] EXCEPT !.fut = fut].dep = mon[a].dep
      BY <3>2 DEF Watches
    <3>5. mon'[a].dep = mon[a].dep /\ \A i \in Mons : i # a => mon'[i] = mon[i]
      BY <1>1, <3>2, <3>3, <3>4
    <3> QED BY <3>2, <3>5 DEF MonitorsGoOn
  <2> QED BY <2>6, <2>7
<1>7. CASE ServeCall
  <2>1. CASE Choose \/ CantAccommodate \/ PlacedAll \/ Drained \/ CachedAll \/ Applied
    BY <1>3, <2>1 DEF Choose, CantAccommodate, PlacedAll, Drained, CachedAll, Applied
  <2>2. CASE \E d \in hot \cup warm : MakeRoom(d) \/ Drain(d) \/ CacheFails(d)
    BY <1>2, <1>3, <2>2 DEF MakeRoom, Drain, CacheFails
  <2>3. CASE \E r \in Rids : Placed(r) \/ Cached(r)
    BY <1>3, <2>3 DEF Placed, Cached
  <2>4. CASE Build
    BY <1>2, <2>4 DEF Build
  <2>5. CASE \E l \in call.launch : RestoreFails(l) \/ CreateFails(l)
    BY <1>2, <2>5 DEF RestoreFails, CreateFails, Delete
  <2> QED BY <1>7, <2>1, <2>2, <2>3, <2>4, <2>5 DEF ServeCall
<1>8. CASE \E r \in Rids : Ages(r) \/ LoadFails(r) \/ Restarts(r) \/ Dies(r)
  BY <1>2, <1>3, <1>8 DEF Ages, LoadFails, Restarts, Dies, Dead
<1>9. CASE \/ \E cfgs \in Deploys : Deploy(cfgs)
           \/ \E m \in Models : Scale(m) \/ EvictAll(m)
           \/ \E d \in hot \cup warm : EvictOne(d)
           \/ \E n \in Nodes : NodeJoins(n) \/ NodeLeaves(n)
           \/ UNCHANGED vars
  BY <1>2, <1>3, <1>9 DEF Deploy, Scale, EvictAll, EvictOne, NodeJoins, NodeLeaves, Delete,
                          vars
<1> QED BY <1>4, <1>5, <1>6, <1>7, <1>8, <1>9 DEF Next, ActorStep

\* Those of the candidate's victims that are still to go.
Going(g) == {d \in hot : d.rid \in call.work /\ g \in d.gpus}

\* There is room for the candidate as soon as they are gone.
Roomy ==
    call.pc = "room" => \A g \in call.cand.gpus :
        call.cand.share <= avail[call.cand.node][g] + Sum(shares, Going(g))

\* A monitor whose deployment failed has cleaned up by the time a call begins
\* that finds the replica WARM.
Prompt ==
    call.pc = "idle" /\ call'.pc # "idle" =>
        \A i \in Mons : mon[i] # None /\ mon[i].fut = "failed" =>
            mon[i].dep.rid \notin RidsOf(warm)

\* How a placement begins and goes on.
LEMMA PlacementSteps ==
    ASSUME IInv, [Next]_vars, call'.pc \in {"place", "room"}
    PROVE  \/ call.pc = "idle" /\ call'.pc = "place" /\ UNCHANGED <<hot, warm, mon>>
           \/ /\ call.pc \in {"place", "room"} /\ call'.names = call.names
              /\ UNCHANGED <<up, avail, cpu, hot, warm>>
              /\ call'.pc = "room" => Choose \/ call' = call
              /\ \A l \in call.launch : ~(Restore(l) \/ Create(l))
           \/ \E d \in hot \cup warm : MakeRoom(d)
           \/ \E r \in Rids : Placed(r)
<1>1. call \in CallRecs /\ (call.pc \in {"place", "room"} => call.launch = {})
  BY DEF IInv, Typed, CallTyped, Launching
<1>2. CASE \/ \E cfgs \in Deploys : Deploy(cfgs)
           \/ \E m \in Models : Scale(m)
  BY <1>2 DEF Deploy, Scale, Idle, ledger
<1>3. CASE \/ \E m \in Models : EvictAll(m)
           \/ \E d \in hot \cup warm : EvictOne(d)
           \/ \E i \in Mons : Deployed(i) \/ DeployFails(i)
           \/ \E n \in Nodes : NodeJoins(n) \/ NodeLeaves(n)
  BY <1>3 DEF EvictAll, EvictOne, Deployed, DeployFails, NodeJoins, NodeLeaves, Idle
<1>4. CASE \E r \in Rids : \/ Ages(r) \/ ActorStep(r) \/ LoadFails(r)
                           \/ MoveFails(r) \/ Restarts(r) \/ Dies(r)
  BY <1>1, <1>4 DEF Ages, ActorStep, Loads, Moves, LoadFails, MoveFails, Restarts, Dies, Dead,
                    ledger
<1>5. CASE UNCHANGED vars
  BY <1>1, <1>5 DEF vars, ledger
<1>6. CASE ServeCall
  <2>1. CASE Choose
    <3>1. /\ call.pc = "place" /\ call'.names = call.names
          /\ UNCHANGED <<up, avail, cpu, hot, warm>>
      BY <1>1, <2>1 DEF Choose, ledger, CallRecs
    <3> QED BY <1>1, <2>1, <3>1
  <2>2. CASE CantAccommodate
    <3>1. /\ call.pc = "place" /\ call'.names = call.names /\ call'.pc = "place"
          /\ UNCHANGED <<up, avail, cpu, hot, warm>>
      BY <1>1, <2>2 DEF CantAccommodate, ledger, CallRecs
    <3> QED BY <1>1, <3>1
  <2>3. CASE PlacedAll \/ Drained \/ CachedAll \/ Applied \/ Build
    <3>1. CASE PlacedAll \/ Applied
      BY <1>1, <3>1 DEF PlacedAll, Applied, Idle, CallRecs
    <3>2. CASE Drained \/ CachedAll
      BY <1>1, <3>2 DEF Drained, CachedAll, CallRecs
    <3>3. CASE Build
      BY <1>1, <3>3 DEF Build, CallRecs
    <3> QED BY <2>3, <3>1, <3>2, <3>3
  <2>4. CASE \E d \in hot \cup warm : Drain(d) \/ CacheFails(d)
    BY <1>1, <2>4 DEF Drain, CacheFails, CallRecs
  <2>5. CASE \E r \in Rids : Cached(r)
    BY <1>1, <2>5 DEF Cached, CallRecs
  <2>6. CASE \E l \in call.launch : \/ Restore(l) \/ RestoreFails(l)
                                     \/ Create(l) \/ CreateFails(l)
    BY <1>1, <2>6 DEF Restore, RestoreFails, Create, CreateFails, CallRecs
  <2> QED BY <1>6, <2>1, <2>2, <2>3, <2>4, <2>5, <2>6 DEF ServeCall
<1> QED BY <1>2, <1>3, <1>4, <1>5, <1>6 DEF Next

\* What may be promoted stays settled while the placement goes on.
LEMMA PromotesGoesOn ==
    ASSUME Promotes, call.pc \in {"place", "room"}, call'.names = call.names,
           MonitorsGoOn, \A w \in warm' : w \in warm \/ w.model \notin call.names
    PROVE  Promotes'
<1> SUFFICES ASSUME NEW w \in warm', NEW i \in Mons, w.model \in call.names,
                    Watched(i, w.rid)', mon'[i].fut # "ok"
             PROVE  FALSE
  BY DEF Promotes
<1>1. mon'[i] # None /\ mon'[i].dep.rid = w.rid
  BY DEF Watched
<1>2. mon[i] # None /\ mon[i].fut # "ok" /\ mon[i].dep.rid = w.rid
  BY <1>1 DEF MonitorsGoOn
<1>3. w \in warm
  OBVIOUS
<1> QED BY <1>2, <1>3 DEF Promotes, Watched

\* A call that promotes finds no task that has yet to clean up.
LEMMA PromotesKeeps ==
    ASSUME IInv, Promotes, [Next]_vars, Prompt
    PROVE  Promotes'
<1> SUFFICES ASSUME call'.pc \in {"place", "room"} PROVE Promotes'
  BY DEF Promotes
<1>1. /\ LedgerTyped /\ ActorsTyped /\ Distinct /\ Placing /\ Applies /\ Settled
      /\ call \in CallRecs
  BY DEF IInv, Typed, CallTyped
<1>2. CASE call.pc = "idle" /\ call'.pc = "place" /\ UNCHANGED <<hot, warm, mon>>
  <2> SUFFICES ASSUME NEW w \in warm, NEW i \in Mons, mon[i] # None,
                      mon[i].dep.rid = w.rid
               PROVE  mon[i].fut = "ok"
    BY <1>2 DEF Promotes, Watched
  <2>1. mon[i].fut # "failed"
    BY <1>2 DEF Prompt, RidsOf
  <2>2. state[w.rid] = "WARM"
    BY <1>1, <1>2 DEF Applies, Changing
  <2>3. mon[i].fut # "pending"
    BY <1>1, <1>2, <2>2 DEF Settled, Pending, Watched
  <2> QED BY <1>1, <2>1, <2>3, WatchesOne
<1>3. CASE /\ call.pc \in {"place", "room"} /\ call'.names = call.names
           /\ UNCHANGED <<up, avail, cpu, hot, warm>>
           /\ \A l \in call.launch : ~(Restore(l) \/ Create(l))
  BY <1>3, OthersGoOn, PromotesGoesOn
<1>4. CASE \E d \in hot \cup warm : MakeRoom(d)
  <2>1. PICK d \in hot \cup warm : MakeRoom(d)
    BY <1>4
  <2>2. /\ call.pc = "room" /\ d.rid \in call.work /\ Evict(d, call.names)
        /\ call'.names = call.names /\ mon' = mon
    BY <1>1, <2>1 DEF MakeRoom, CallRecs
  <2>3. d.model \notin call.names
    BY <1>1, <2>2, VictimsMayGo DEF Expendable
  <2>4. warm' \subseteq (warm \ {d}) \cup {Parked(d)} /\ Parked(d).model = d.model
    <3>1. d \in Deployments
      BY <1>1 DEF LedgerTyped
    <3> QED BY <1>1, <2>2, <3>1, EvictShape, ParkedTyped
  <2>5. \A w \in warm' : w \in warm \/ w.model \notin call.names
    BY <2>3, <2>4
  <2> QED BY <2>2, <2>5, PromotesGoesOn DEF MonitorsGoOn
<1>5. CASE \E r \in Rids : Placed(r)
  <2>1. PICK r \in Rids : Placed(r)
    BY <1>5
  <2>2. call.pc = "room" /\ call'.names = call.names /\ mon' = mon
    BY <1>1, <2>1 DEF Placed, CallRecs
  <2>3. warm' \subseteq warm
    BY <1>1, <2>1, PlacedShape
  <2> QED BY <2>2, <2>3, PromotesGoesOn DEF MonitorsGoOn
<1> QED BY <1>2, <1>3, <1>4, <1>5, PlacementSteps

\* A candidate fits once its victims are gone, and each of them gives back
\* what it has.
LEMMA RoomyKeeps ==
    ASSUME IInv, Roomy, [Next]_vars
    PROVE  Roomy'
<1> SUFFICES ASSUME call'.pc = "room" PROVE Roomy'
  BY DEF Roomy
<1>1. /\ LedgerTyped /\ Distinct /\ Placing /\ Applies /\ call \in CallRecs
      /\ call.pc = "room" => call.cand \in Cands /\ call.cand.node \in Nodes
  BY DEF IInv, Typed, CallTyped, Cands
<1>2. CASE call' = call /\ UNCHANGED <<avail, hot>>
  BY <1>2 DEF Roomy, Going
<1>3. CASE Choose
  <2>1. PICK c \in Best(Head(call.todo)) :
            call' = [call EXCEPT !.pc = "room", !.cand = c,
                                 !.work = {d.rid : d \in c.victims}]
    BY <1>3 DEF Choose
  <2>2. Head(call.todo) \in Configs /\ UNCHANGED <<avail, hot>>
    BY <1>1, <1>3 DEF Choose, CallRecs, ledger
  <2>3. /\ \A d \in c.victims : d \in hot
        /\ \A g \in c.gpus :
              c.share <= avail[c.node][g] + Sum(shares, Takers(c.victims, g))
    BY <1>1, <2>1, <2>2, BestFits DEF Expendable
  <2>4. call'.cand = c /\ call'.work = {d.rid : d \in c.victims}
    BY <1>1, <2>1 DEF CallRecs
  <2>5. \A g : Going(g)' = Takers(c.victims, g)
    BY <1>1, <2>2, <2>3, <2>4 DEF Going, Takers, Distinct
  <2> QED BY <2>2, <2>3, <2>4, <2>5 DEF Roomy
<1>4. CASE \E d \in hot \cup warm : MakeRoom(d)
  <2>1. PICK d \in hot \cup warm : MakeRoom(d)
    BY <1>4
  <2>2. /\ call.pc = "room" /\ d.rid \in call.work /\ Evict(d, call.names)
        /\ call'.cand = call.cand /\ call'.work = call.work \ {d.rid}
    BY <1>1, <2>1 DEF MakeRoom, CallRecs
  <2>3. /\ d \in hot /\ d.node = call.cand.node /\ hot' = hot \ {d} /\ d \in Deployments
    BY <1>1, <2>2, VictimsMayGo, EvictShape DEF Expendable, LedgerTyped
  <2> SUFFICES ASSUME NEW g \in call.cand.gpus
               PROVE  call.cand.share <= avail'[call.cand.node][g] + Sum(shares, Going(g)')
    BY <2>2 DEF Roomy
  <2>4. /\ g \in Gpus /\ call.cand.node \in Nodes /\ call.cand.share \in Nat
        /\ avail[call.cand.node][g] \in Int /\ d.share \in Nat
    BY <1>1, <2>2, <2>3 DEF Cands, LedgerTyped, Deployments
  <2>5. avail'[call.cand.node][g] = IF g \in d.gpus
                                    THEN avail[call.cand.node][g] + d.share
                                    ELSE avail[call.cand.node][g]
    BY <1>1, <2>2, <2>3, <2>4, EvictGpus
  <2>6. Going(g) \subseteq Deployments /\ IsFiniteSet(Going(g))
    BY <1>1, FS_Subset DEF Going, LedgerTyped
  <2>7. /\ Weighs(shares, Going(g)) /\ Sum(shares, Going(g)) \in Nat
        /\ \A x \in Going(g) : shares[x] = x.share
    BY <2>6, ReplicasWeigh
  <2>8. Going(g)' = Going(g) \ {d}
    BY <1>1, <2>2, <2>3 DEF Going, Distinct
  <2>9. call.cand.share <= avail[call.cand.node][g] + Sum(shares, Going(g))
    BY <2>2 DEF Roomy
  <2>10. CASE g \in d.gpus
    <3>1. d \in Going(g)
      BY <2>2, <2>3, <2>10 DEF Going
    <3>2. Sum(shares, Going(g)) = d.share + Sum(shares, Going(g) \ {d})
      BY <2>7, <3>1, SumRemove
    <3>3. Sum(shares, Going(g) \ {d}) \in Nat
      <4>1. Weighs(shares, Going(g) \ {d})
        BY <2>7, FS_Subset DEF Weighs
      <4> QED BY <4>1, SumNat
    <3> QED BY <2>4, <2>5, <2>8, <2>9, <2>10, <3>2, <3>3
  <2>11. CASE g \notin d.gpus
    <3>1. Going(g) \ {d} = Going(g)
      BY <2>11 DEF Going
    <3> QED BY <2>5, <2>8, <2>9, <2>11, <3>1
  <2> QED BY <2>10, <2>11
<1>5. \A r \in Rids : ~Placed(r)
  BY <1>1 DEF Placed, CallRecs
<1> QED BY <1>2, <1>3, <1>4, <1>5, PlacementSteps

\* The invariant of the accounts.
Exact == Balanced /\ Bounded /\ Promotes /\ Current /\ Roomy

\* Steps that book nothing.
LEMMA QuietKeeps ==
    ASSUME IInv, Exact, MonitorsGoOn, UNCHANGED <<up, avail, cpu, hot, warm>>
    PROVE  Balanced' /\ Bounded' /\ Current'
<1>1. ActorsTyped /\ Distinct /\ Balanced /\ Bounded /\ Current
  BY DEF IInv, Typed, Exact
<1>2. Current'
  BY <1>1, CurrentShrinks
<1>3. Balanced' /\ Bounded'
  BY <1>1, BalanceStays
<1> QED BY <1>2, <1>3

\* What a failed deployment gives back is what is booked for the replica now.
LEMMA FailureKeeps ==
    ASSUME IInv, Exact, NEW i \in Mons, DeployFails(i), MonitorsGoOn
    PROVE  Balanced' /\ Bounded' /\ Current'
<1> DEFINE d == mon[i].dep
<1>1. /\ LedgerTyped /\ ActorsTyped /\ Distinct /\ Balanced /\ Bounded /\ Current
      /\ mon[i] # None /\ mon[i].fut = "failed" /\ RemoveFromState(d)
  BY DEF IInv, Typed, Exact, DeployFails
<1>2. /\ d \in Deployments /\ Parked(d).rid = d.rid /\ Parked(d).node = d.node
      /\ Parked(d).size = d.size
  BY <1>1, WatchesOne
<1>3. \/ d \in hot
      \/ Parked(d) \in warm
      \/ \A x \in hot \cup warm : x.rid # d.rid
  BY <1>1 DEF Current, Listed, RidsOf
<1> HIDE DEF d
<1>4. \A x \in hot : x.rid = d.rid =>
          x.node = d.node /\ x.gpus = d.gpus /\ x.share = d.share
  BY <1>1, <1>2, <1>3 DEF Distinct
<1>5. \A w \in warm : w.rid = d.rid => w.node = d.node /\ w.size = d.size
  BY <1>1, <1>2, <1>3 DEF Distinct
<1>6. Balanced' /\ Bounded'
  BY <1>1, <1>2, <1>4, <1>5, RemoveBalances
<1>7. hot' \subseteq hot /\ warm' \subseteq warm
  BY <1>1, RemoveShape
<1> QED BY <1>1, <1>6, <1>7, CurrentShrinks

\* A step of a call.
LEMMA ServiceKeeps ==
    ASSUME IInv, Exact, [Next]_vars, ServeCall
    PROVE  Balanced' /\ Bounded' /\ Current'
<1>1. /\ LedgerTyped /\ ActorsTyped /\ Distinct /\ Balanced /\ Bounded /\ Current
      /\ Promotes /\ Roomy /\ Placing /\ Launching /\ call \in CallRecs
      /\ call.pc = "room" => call.cand \in Cands
  BY DEF IInv, Typed, CallTyped, Exact
<1>2. (\A l \in call.launch : ~(Restore(l) \/ Create(l))) => MonitorsGoOn
  BY OthersGoOn
<1>3. call.pc \notin {"cache", "launch"} => call.launch = {}
  BY <1>1 DEF Launching
<1>4. CASE \/ Choose \/ CantAccommodate \/ PlacedAll \/ Drained \/ Build \/ CachedAll
           \/ Applied \/ \E r \in Rids : Cached(r)
  <2>1. UNCHANGED <<up, avail, cpu, hot, warm>>
    BY <1>4 DEF Choose, CantAccommodate, PlacedAll, Drained, Build, CachedAll, Applied, Cached,
                ledger
  <2>2. \A l \in call.launch : ~(Restore(l) \/ Create(l))
    <3> SUFFICES ASSUME NEW l \in call.launch, Restore(l) \/ Create(l) PROVE FALSE
      OBVIOUS
    <3>1. call.pc = "launch" /\ l \notin call'.launch /\ call'.pc = "launch"
      BY <1>1 DEF Restore, Create, CallRecs
    <3>2. CASE CachedAll \/ Applied \/ Build
      BY <3>1, <3>2 DEF CachedAll, Applied, Build, Idle
    <3>3. CASE Choose \/ CantAccommodate \/ PlacedAll \/ Drained
      BY <3>1, <3>3 DEF Choose, CantAccommodate, PlacedAll, Drained
    <3> QED BY <1>4, <3>1, <3>2, <3>3 DEF Cached
  <2> QED BY <1>2, <2>1, <2>2, QuietKeeps
<1>5. CASE \E d \in hot \cup warm : MakeRoom(d) \/ Drain(d)
  <2>1. PICK d \in hot \cup warm : MakeRoom(d) \/ Drain(d)
    BY <1>5
  <2>2. (Evict(d, call.names) \/ Purge(d)) /\ mon' = mon
    BY <2>1 DEF MakeRoom, Drain
  <2> QED BY <1>1, <2>2, EvictBalances, CurrentEvicts
<1>6. CASE \E d \in hot \cup warm : CacheFails(d)
  <2>1. PICK d \in hot \cup warm : CacheFails(d)
    BY <1>6
  <2>2. d \in warm /\ RemoveFromState(d) /\ call.pc = "cache" /\ d \in Deployments
    BY <1>1, <2>1 DEF CacheFails, LedgerTyped
  <2>3. Balanced' /\ Bounded'
    BY <1>1, <2>2, RemoveBalances DEF Distinct
  <2>4. hot' \subseteq hot /\ warm' \subseteq warm
    BY <2>2, RemoveShape
  <2>5. MonitorsGoOn
    BY <1>2, <2>2 DEF Restore, Create
  <2> QED BY <1>1, <2>3, <2>4, <2>5, CurrentShrinks
<1>7. CASE \E r \in Rids : Placed(r)
  <2>1. PICK r \in Rids : Placed(r)
    BY <1>7
  <2>2. call.pc = "room" /\ call.work = {} /\ call.cand \in Cands /\ call.cand.node \in up
    BY <1>1, <2>1 DEF Placed, Placing
  <2>3. ASSUME NEW g \in call.cand.gpus
        PROVE  call.cand.share <= avail[call.cand.node][g]
    <3>1. Going(g) = {}
      BY <2>2 DEF Going
    <3>2. call.cand.share <= avail[call.cand.node][g] + Sum(shares, Going(g))
      BY <1>1, <2>2 DEF Roomy
    <3>3. Sum(shares, {}) = 0
      BY SumEmpty
    <3>4. avail[call.cand.node][g] \in Int
      BY <1>1, <2>2 DEF LedgerTyped, Cands
    <3> QED BY <3>1, <3>2, <3>3, <3>4
  <2> QED BY <1>1, <2>1, <2>2, <2>3, PlaceBalances, CurrentPlaces
<1>8. CASE \E l \in call.launch : Restore(l) \/ Create(l)
  <2>1. Current'
    BY <1>1, <1>8, CurrentLaunches
  <2>2. UNCHANGED <<up, avail, cpu, hot, warm>>
    BY <1>8 DEF Restore, Create, ledger
  <2> QED BY <1>1, <2>1, <2>2, BalanceStays
<1>9. CASE \E l \in call.launch : RestoreFails(l) \/ CreateFails(l)
  <2>1. PICK l \in call.launch : RestoreFails(l) \/ CreateFails(l)
    BY <1>9
  <2>2. l.dep \in hot /\ l.dep \in Deployments /\ RemoveFromState(l.dep)
    BY <1>1, <2>1 DEF Launching, LedgerTyped, RestoreFails, CreateFails
  <2>3. Balanced' /\ Bounded'
    BY <1>1, <2>2, RemoveBalances DEF Distinct
  <2>4. hot' \subseteq hot /\ warm' \subseteq warm
    BY <2>2, RemoveShape
  <2>5. MonitorsGoOn
    BY <1>1, <2>1, BrokenGoesOn DEF RestoreFails, CreateFails, Delete
  <2> QED BY <1>1, <2>3, <2>4, <2>5, CurrentShrinks
<1> QED BY <1>4, <1>5, <1>6, <1>7, <1>8, <1>9 DEF ServeCall

\* Every step keeps the accounts exact.
LEMMA ExactKeeps == IInv /\ Exact /\ [Next]_vars /\ Prompt => Exact'
<1> SUFFICES ASSUME IInv, Exact, [Next]_vars, Prompt PROVE Exact'
  OBVIOUS
<1>1. /\ LedgerTyped /\ ActorsTyped /\ Distinct /\ Balanced /\ Bounded /\ Current
      /\ Promotes /\ Roomy /\ Launching
  BY DEF IInv, Typed, Exact
<1>2. Promotes' /\ Roomy'
  BY <1>1, PromotesKeeps, RoomyKeeps
<1>3. Balanced' /\ Bounded' /\ Current'
  <2>1. CASE ServeCall
    BY <2>1, ServiceKeeps
  <2>2. CASE ~ServeCall
    <3>1. MonitorsGoOn
      <4>1. \A l \in call.launch : ~(Restore(l) \/ Create(l))
        BY <2>2 DEF ServeCall
      <4> QED BY <4>1, OthersGoOn
    <3>2. CASE \E d \in hot \cup warm : EvictOne(d)
      <4>1. PICK d \in hot \cup warm : Evict(d, {}) /\ mon' = mon
        BY <3>2 DEF EvictOne
      <4> QED BY <1>1, <4>1, EvictBalances, CurrentEvicts
    <3>3. CASE \E i \in Mons : DeployFails(i)
      BY <3>1, <3>3, FailureKeeps
    <3>4. CASE \E n \in Nodes : NodeJoins(n)
      <4>1. UNCHANGED <<hot, warm>>
        BY <3>4 DEF NodeJoins
      <4> QED BY <1>1, <3>1, <3>4, <4>1, JoinBalances, CurrentShrinks
    <3>5. CASE \E n \in Nodes : NodeLeaves(n)
      <4>1. hot' \subseteq hot /\ warm' \subseteq warm
        BY <3>5 DEF NodeLeaves
      <4> QED BY <1>1, <3>1, <3>5, <4>1, LeaveBalances, CurrentShrinks
    <3>6. CASE UNCHANGED <<up, avail, cpu, hot, warm>>
      BY <3>1, <3>6, QuietKeeps
    <3>7. \/ \E d \in hot \cup warm : EvictOne(d)
          \/ \E i \in Mons : DeployFails(i)
          \/ \E n \in Nodes : NodeJoins(n) \/ NodeLeaves(n)
          \/ UNCHANGED <<up, avail, cpu, hot, warm>>
      BY <2>2 DEF Next, vars, ledger, Deploy, Scale, EvictAll, Deployed, Ages, ActorStep, Loads,
                  Moves, LoadFails, MoveFails, Restarts, Dies, Dead
    <3> QED BY <3>2, <3>3, <3>4, <3>5, <3>6, <3>7
  <2> QED BY <2>1, <2>2
<1> QED BY <1>2, <1>3 DEF Exact

\* Nothing is booked at the start.
LEMMA InitExact == Init => Exact
<1> SUFFICES ASSUME Init PROVE Exact
  OBVIOUS
<1>1. /\ up \subseteq Nodes /\ hot = {} /\ warm = {} /\ call.pc = "idle"
      /\ avail = [n \in Nodes |-> [g \in Gpus |-> GpuMem]]
      /\ cpu = [n \in Nodes |-> CpuMem] /\ mon = [i \in Mons |-> None]
  BY DEF Init, Idle
<1>2. CpuMem \in Nat /\ GpuMem \in Nat
  BY NodeAssumption
<1>3. Bounded
  BY <1>1, <1>2 DEF Bounded
<1>4. Balanced
  <2>1. \A n \in up, g \in Gpus : OnCpu(n) = {} /\ OnGpu(n, g) = {}
    BY <1>1 DEF OnCpu, OnGpu
  <2>2. \A n \in up, g \in Gpus : cpu[n] = CpuMem /\ avail[n][g] = GpuMem
    BY <1>1
  <2>3. Sum(bytes, {}) = 0 /\ Sum(shares, {}) = 0
    BY SumEmpty
  <2>4. \A n \in up : OnCpu(n) = {} /\ cpu[n] = CpuMem
    BY <1>1 DEF OnCpu
  <2>5. CpuMem - 0 = CpuMem /\ GpuMem - 0 = GpuMem
    BY <1>2
  <2> QED BY <2>1, <2>2, <2>3, <2>4, <2>5 DEF Balanced
<1>5. Promotes /\ Current /\ Roomy
  BY <1>1 DEF Promotes, Current, Roomy
<1> QED BY <1>3, <1>4, <1>5 DEF Exact

\* The accounts are exact throughout.
LEMMA InductiveExact == Spec /\ [][Prompt]_vars => [](IInv /\ Exact)
<1>1. Init => IInv /\ Exact
  BY InitInv, InitExact
<1>2. IInv /\ Exact /\ [Next]_vars /\ [Prompt]_vars => (IInv /\ Exact)'
  <2>1. UNCHANGED vars => Prompt
    BY DEF Prompt, vars
  <2> QED BY <2>1, NextKeeps, ExactKeeps
<1> QED BY <1>1, <1>2, PTL DEF Spec

\* The ledgers are exact and nothing is booked twice: what is available is what
\* the listed replicas leave, through evictions, parking that pushes others out,
\* promotions and failures (node.py:90-112, 280-323).  Without Prompt
\* _remove_deployment_from_state() may give back GPUs the replica has left
\* (controller.py:496-515).
THEOREM LedgersExact == Spec /\ [][Prompt]_vars => []Ledger
<1>1. IInv /\ Exact => Ledger
  <2> SUFFICES ASSUME IInv, Exact PROVE Ledger
    OBVIOUS
  <2>1. LedgerTyped /\ Balanced
    BY DEF IInv, Typed, Exact
  <2> SUFFICES ASSUME NEW n \in up
               PROVE  /\ cpu[n] = CpuMem - MapThenSumSet(Bytes, OnCpu(n))
                      /\ \A g \in Gpus :
                            avail[n][g] = GpuMem - MapThenSumSet(Share, OnGpu(n, g))
    BY DEF Ledger, OnCpu, OnGpu
  <2>2. MapThenSumSet(Bytes, OnCpu(n)) = Sum(bytes, OnCpu(n))
    <3>1. OnCpu(n) \subseteq Deployments /\ IsFiniteSet(OnCpu(n))
      BY <2>1, FS_Subset DEF OnCpu, LedgerTyped
    <3> QED BY <3>1, BytesSum
  <2>3. ASSUME NEW g \in Gpus
        PROVE  MapThenSumSet(Share, OnGpu(n, g)) = Sum(shares, OnGpu(n, g))
    <3>1. OnGpu(n, g) \subseteq Deployments /\ IsFiniteSet(OnGpu(n, g))
      BY <2>1, FS_Subset DEF OnGpu, LedgerTyped
    <3> QED BY <3>1, SharesSum
  <2> QED BY <2>1, <2>2, <2>3 DEF Balanced
<1> QED BY <1>1, InductiveExact, PTL

\* The types of the state; nothing available is negative or more than there is
\* (node.py:90-112, 280-323).
THEOREM ControllerTyped == Spec /\ [][Prompt]_vars => []TypeOK
<1>1. IInv /\ Exact => TypeOK
  <2> SUFFICES ASSUME IInv, Exact PROVE TypeOK
    OBVIOUS
  <2>1. LedgerTyped /\ CallTyped /\ ActorsTyped /\ budget \in [Faults -> Nat] /\ Bounded
    BY DEF IInv, Typed, Exact
  <2>2. /\ call.pc \in {"idle", "place", "room", "drain", "apply", "cache", "launch"}
        /\ call.names \subseteq Models /\ call.work \subseteq Rids
    BY <2>1 DEF CallTyped, CallRecs, Pcs
  <2>3. \A i \in Mons : mon[i] # None =>
          /\ mon[i].dep \in Deployments
          /\ mon[i].op \in {"create", "from_cache"}
          /\ mon[i].fut \in {"pending", "ok", "failed"}
    BY <2>1 DEF ActorsTyped, Watches
  <2> QED BY <2>1, <2>2, <2>3 DEF TypeOK, LedgerTyped, ActorsTyped, Bounded
<1> QED BY <1>1, InductiveExact, PTL

\* Between calls nobody runs whom no node lists, build() finds every WARM
\* replica in state (controller.py:358), and what apply() waits for in its
\* blocking get comes (controller.py:416).
THEOREM NobodyIsForgotten == Spec => [](NoLeakedActor /\ CachedIsInState /\ NoLostAnswer)
<1>1. IInv => NoLeakedActor
  BY DEF IInv, Owned, Changing, Listed, NoLeakedActor
<1>2. IInv => CachedIsInState
  BY DEF IInv, Applies, CachedIsInState
<1>3. IInv => NoLostAnswer
  <2> SUFFICES ASSUME IInv, call.pc = "cache", NEW r \in call.work
               PROVE  \/ parking[r] \in {"ok", "failed"}
                      \/ /\ parking[r] = "pending" /\ Alive(r)
                         /\ \E i \in DOMAIN actor[r].inbox :
                               actor[r].inbox[i].op = "to_cache"
    BY DEF NoLostAnswer
  <2>1. r \in Rids /\ ActorsTyped /\ Parks /\ Posted
    BY DEF IInv, Typed, CallTyped, CallRecs
  <2>2. parking[r] \in {"pending", "ok", "failed"}
    BY <2>1 DEF Parks, ActorsTyped
  <2>3. ASSUME parking[r] = "pending"
        PROVE  Alive(r) /\ \E i \in DOMAIN actor[r].inbox :
                               actor[r].inbox[i].op = "to_cache"
    BY <2>1, <2>3 DEF Parks, Posted, Letter
  <2> QED BY <2>2, <2>3
<1> QED BY <1>1, <1>2, <1>3, Inductive, PTL

-----------------------------------------------------------------------------
(* What the actors do with the records *)

\* A model is deployed at one size: from_cache() does not load it again.
OneSize == \A D \in Deploys : \A c \in D : c.size = DefaultSize[c.model]

\* Where the weights of r are, as far as anything accounts for them.
Where(r) == IF actor[r].astray THEN Nowhere ELSE actor[r].at

Empty(r) == Where(r) = Nowhere /\ actor[r].inbox = <<>>

\* apply() has not yet seen the weights of r leave the GPUs.
Unseen(r) == call.pc = "cache" /\ r \in call.work /\ parking[r] # "ok"

Starting(r) == \E l \in call.launch : l.dep.rid = r

Failing(r) == \E i \in Mons : Watched(i, r) /\ mon[i].fut = "failed"

\* Where the weights of r are once from_cache() is served.
Recalled(r) == actor[r].inbox # <<>> /\ actor[r].inbox[1].op = "from_cache"
Aim(r) == IF Recalled(r) THEN actor[r].inbox[1].at ELSE Where(r)

\* from_cache() is only ever sent to an actor that has nothing else to do.
Boxed(r) ==
    \A k \in DOMAIN actor[r].inbox :
        LET m == actor[r].inbox[k]
        IN  IF m.op = "from_cache" THEN k = 1 /\ Where(r) = Nowhere
                                   ELSE m.at = Nowhere

\* Who is listed runs where it is listed, at its size.
Housed(r, d) ==
    /\ Alive(r) => actor[r].node = d.node
    /\ OneSize => /\ d.size = DefaultSize[d.model]
                  /\ Alive(r) => actor[r].size = d.size

\* What the actor of replica r is, for what the records say of r.
Kept(r) ==
    /\ Boxed(r)
    /\ ~Alive(r) => Empty(r)
    /\ state[r] = "none" => ~Alive(r)
    /\ \A l \in call.launch : l.dep.rid = r =>
          IF l.op = "create" THEN ~Alive(r) ELSE Empty(r)
    /\ state[r] = "WARM" /\ ~Unseen(r) => Empty(r)
    /\ \A d \in hot : d.rid = r =>
          /\ Housed(r, d)
          /\ \/ state[r] # "HOT"
             \/ Starting(r)
             \/ Alive(r) /\ Aim(r) = At(d)
             \/ Alive(r) /\ actor[r].astray /\ ~Recalled(r)
             \/ actor[r].life = "lost"
             \/ Empty(r) /\ Failing(r)
    /\ \A w \in warm : w.rid = r =>
          /\ Housed(r, w) /\ At(w) = Nowhere
          /\ state[r] = "WARM" /\ ~Unseen(r) => Alive(r) \/ actor[r].life = "lost"

\* What is asked for has the model's size.
Asked ==
    OneSize =>
        /\ call.pc \in {"place", "room"} =>
              \A k \in DOMAIN call.todo : call.todo[k].size = DefaultSize[call.todo[k].model]
        /\ call.pc = "room" => call.cand.cfg.size = DefaultSize[call.cand.cfg.model]

Faithful == Asked /\ \A r \in Rids : Kept(r)

\* What Kept(r) says of an actor.
LEMMA KeptGoesOn ==
    ASSUME NEW r \in Rids, Kept(r), state'[r] = state[r],
           Alive(r)' <=> Alive(r),
           actor'[r].at = actor[r].at, actor'[r].astray = actor[r].astray,
           actor'[r].inbox = actor[r].inbox,
           actor'[r].node = actor[r].node, actor'[r].size = actor[r].size,
           actor[r].life = "lost" => actor'[r].life = "lost",
           \A d \in hot' : d.rid = r => d \in hot,
           \A w \in warm' : w.rid = r => w \in warm,
           Unseen(r) => Unseen(r)',
           \A l : l.dep.rid = r => (l \in call'.launch <=> l \in call.launch),
           Failing(r) => Failing(r)'
    PROVE  Kept(r)'
<1>1. /\ Empty(r)' <=> Empty(r)
      /\ Aim(r)' = Aim(r) /\ (Recalled(r)' <=> Recalled(r))
      /\ Boxed(r)' <=> Boxed(r)
      /\ Starting(r)' <=> Starting(r)
  BY DEF Empty, Aim, Recalled, Boxed, Starting, Where
<1>2. \A d : Housed(r, d)' <=> Housed(r, d)
  BY DEF Housed
<1>3. ASSUME NEW d \in hot', d.rid = r
      PROVE  /\ Housed(r, d)'
             /\ \/ state'[r] # "HOT"
                \/ Starting(r)'
                \/ Alive(r)' /\ Aim(r)' = At(d)
                \/ Alive(r)' /\ actor'[r].astray /\ ~Recalled(r)'
                \/ actor'[r].life = "lost"
                \/ Empty(r)' /\ Failing(r)'
  BY <1>1, <1>2, <1>3 DEF Kept
<1>4. ASSUME NEW w \in warm', w.rid = r
      PROVE  /\ Housed(r, w)' /\ At(w) = Nowhere
             /\ state'[r] = "WARM" /\ ~Unseen(r)' => Alive(r)' \/ actor'[r].life = "lost"
  BY <1>1, <1>2, <1>4 DEF Kept
<1>5. \A l \in call'.launch : l.dep.rid = r =>
          IF l.op = "create" THEN ~Alive(r)' ELSE Empty(r)'
  BY <1>1 DEF Kept
<1> QED BY <1>1, <1>3, <1>4, <1>5 DEF Kept

\* Nothing of what Kept(r) speaks of changes, except that r leaves a list.
LEMMA KeptStays ==
    ASSUME NEW r \in Rids, Kept(r), actor'[r] = actor[r], state'[r] = state[r],
           \A d \in hot' : d.rid = r => d \in hot,
           \A w \in warm' : w.rid = r => w \in warm,
           Unseen(r) => Unseen(r)',
           \A l : l.dep.rid = r => (l \in call'.launch <=> l \in call.launch),
           Failing(r) => Failing(r)'
    PROVE  Kept(r)'
<1>1. Alive(r)' <=> Alive(r)
  BY DEF Alive
<1> QED BY <1>1, KeptGoesOn

\* A step of the call that changes neither lists nor actors.
LEMMA CallKeepsKept ==
    ASSUME Faithful, UNCHANGED <<ledger, state, mon, parking, actor>>,
           call'.launch = call.launch, call.pc = "cache" => call.work = {}
    PROVE  \A r \in Rids : Kept(r)'
<1> SUFFICES ASSUME NEW r \in Rids PROVE Kept(r)'
  OBVIOUS
<1>1. Kept(r) /\ ~Unseen(r)
  BY DEF Faithful, Unseen
<1>2. Failing(r)' <=> Failing(r)
  BY DEF Failing, Watched
<1> QED BY <1>1, <1>2, KeptStays DEF ledger

\* evict(): whoever is parked has run on the GPUs so far.
LEMMA EvictKeepsKept ==
    ASSUME LedgerTyped, Distinct, Faithful, NEW d \in hot \cup warm, NEW names,
           Evict(d, names) \/ Purge(d), UNCHANGED <<state, mon, parking, actor>>,
           call.launch = {}, call'.launch = {}, call.pc # "cache",
           d \in hot => state[d.rid] = "HOT"
    PROVE  \A r \in Rids : Kept(r)'
<1> SUFFICES ASSUME NEW r \in Rids PROVE Kept(r)'
  OBVIOUS
<1>1. Kept(r) /\ ~Unseen(r) /\ (Failing(r)' <=> Failing(r))
  BY DEF Faithful, Unseen, Failing, Watched
<1>2. /\ hot' = hot \ {d} /\ warm' \subseteq (warm \ {d}) \cup {Parked(d)}
      /\ d \in warm => warm' = warm \ {d}
  BY EvictShape
<1>3. /\ d \in Deployments /\ Parked(d).rid = d.rid /\ Parked(d).model = d.model
      /\ Parked(d).node = d.node /\ Parked(d).size = d.size
      /\ Parked(d).gpus = {} /\ Parked(d).share = 0
  BY ParkedTyped DEF LedgerTyped
<1>4. CASE \A w \in warm' : w.rid = r => w \in warm
  BY <1>1, <1>2, <1>4, KeptStays
<1>5. CASE ~ \A w \in warm' : w.rid = r => w \in warm
  <2>1. d \in hot /\ d.rid = r
    BY <1>2, <1>3, <1>5
  <2>2. \A x \in hot' : x.rid # r
    BY <1>2, <2>1 DEF Distinct
  <2>3. \A w \in warm' : w.rid = r => w = Parked(d)
    BY <1>2, <2>1 DEF Distinct
  <2>4. At(Parked(d)) = Nowhere
    BY <1>3 DEF At, Nowhere
  <2>5. Housed(r, d) /\ state[r] = "HOT"
    BY <1>1, <2>1 DEF Kept
  <2>6. PICK p : p = Parked(d)
    OBVIOUS
  <2>7. /\ p.node = d.node /\ p.size = d.size /\ p.model = d.model
    BY <1>3, <2>6
  <2>8. Housed(r, p)'
    BY <2>5, <2>7 DEF Housed, Alive
  <2>9. Boxed(r)' /\ (~Alive(r)' => Empty(r)')
    BY <1>1 DEF Kept, Boxed, Alive, Empty, Where
  <2> QED BY <2>2, <2>3, <2>4, <2>5, <2>6, <2>8, <2>9 DEF Kept
<1> QED BY <1>4, <1>5

\* deploy(): who is placed does not run yet, or runs on that node and is parked.
LEMMA PlacedKeepsKept ==
    ASSUME IInv, Faithful, NEW q \in Rids, Placed(q)
    PROVE  \A r \in Rids : Kept(r)'
<1> SUFFICES ASSUME NEW r \in Rids PROVE Kept(r)'
  OBVIOUS
<1>1. /\ LedgerTyped /\ Distinct /\ Applies /\ Launching /\ Placing
      /\ call.cand \in Cands
  BY DEF IInv, Typed, CallTyped, Placed
<1>2. /\ UNCHANGED <<state, mon, parking, actor>>
      /\ call.pc = "room" /\ call'.pc = "place"
      /\ call'.launch = call.launch /\ call.launch = {}
  BY <1>1 DEF Placed, Launching, IInv, Typed, CallTyped, CallRecs
<1>3. Kept(r) /\ ~Unseen(r) /\ (Failing(r) => Failing(r)')
  BY <1>2 DEF Faithful, Unseen, Failing, Watched
<1>4. PICK d : d = NewReplica(call.cand, q)
  OBVIOUS
<1>5. /\ d.rid = q /\ d.node = call.cand.node
      /\ d.model = call.cand.cfg.model /\ d.size = call.cand.cfg.size
  BY <1>4 DEF NewReplica
<1>6. /\ hot' = hot \cup {d} /\ \A x \in hot : x.rid # q
      /\ \/ Fresh(q) /\ UNCHANGED <<warm, cpu>>
         \/ \E w \in warm : /\ w.rid = q /\ w.model = d.model
                            /\ w.node = d.node /\ warm' = warm \ {w}
  BY <1>1, <1>4, <1>5, PlacedShape
<1>7. CASE r # q
  <2>1. /\ \A x \in hot' : x.rid = r => x \in hot
        /\ \A w \in warm' : w.rid = r => w \in warm
    BY <1>5, <1>6, <1>7
  <2> QED BY <1>2, <1>3, <2>1, KeptStays
<1>8. CASE r = q
  <2>1. \A w \in warm' : w.rid # r
    BY <1>1, <1>6, <1>8 DEF Distinct, Fresh
  <2>2. /\ state[r] # "HOT"
        /\ Alive(r) => actor[r].node = d.node
        /\ OneSize /\ Alive(r) => actor[r].size = d.size
    <3>1. CASE Fresh(q)
      BY <1>8, <3>1 DEF Fresh
    <3>2. CASE \E w \in warm : w.rid = q /\ w.model = d.model /\ w.node = d.node
      <4>1. PICK w \in warm : w.rid = q /\ w.model = d.model /\ w.node = d.node
        BY <3>2
      <4>2. w.model \in call.names
        BY <1>1, <1>2, <1>5, <4>1 DEF Placing
      <4>3. state[r] = "WARM"
        BY <1>1, <1>8, <4>1, <4>2 DEF Applies
      <4>4. Housed(r, w)
        BY <1>3, <1>8, <4>1 DEF Kept
      <4>5. OneSize => d.size = DefaultSize[d.model]
        BY <1>2, <1>5 DEF Faithful, Asked
      <4> QED BY <4>1, <4>3, <4>4, <4>5 DEF Housed
    <3> QED BY <1>6, <3>1, <3>2
  <2>3. OneSize => d.size = DefaultSize[d.model]
    BY <1>2, <1>5 DEF Faithful, Asked
  <2>4. Housed(r, d)'
    BY <1>2, <2>2, <2>3 DEF Housed, Alive
  <2>5. \A x \in hot' : x.rid = r => x = d
    BY <1>6, <1>8
  <2>6. /\ Boxed(r)' /\ (~Alive(r)' => Empty(r)') /\ (state'[r] = "none" => ~Alive(r)')
        /\ state'[r] = "WARM" /\ ~Unseen(r)' => Empty(r)'
    BY <1>2, <1>3 DEF Kept, Boxed, Alive, Empty, Where
  <2> QED BY <1>2, <2>1, <2>2, <2>4, <2>5, <2>6 DEF Kept
<1> QED BY <1>7, <1>8

\* Whoever is given up is on no list, and its actor is gone.
LEMMA GoneKept ==
    ASSUME NEW r \in Rids, actor'[r] = [NoActor EXCEPT !.life = "gone"],
           \A d \in hot' \cup warm' : d.rid # r,
           \A l \in call'.launch : l.dep.rid # r
    PROVE  Kept(r)'
<1>1. /\ actor'[r].life = "gone" /\ actor'[r].inbox = <<>> /\ actor'[r].at = Nowhere
  BY DEF NoActor
<1>2. ~Alive(r)' /\ Empty(r)' /\ Boxed(r)'
  BY <1>1 DEF Alive, Empty, Boxed, Where
<1> QED BY <1>2 DEF Kept

\* What the steps that give a replica up have in common.
LEMMA RemoveKeepsKept ==
    ASSUME Faithful, NEW d \in Deployments, RemoveFromState(d),
           ActorsTyped,
           \A x \in hot \cup warm : x.rid = d.rid => d.node \in up,
           actor'[d.rid] = [NoActor EXCEPT !.life = "gone"],
           \A r \in Rids : r # d.rid =>
              /\ actor'[r] = actor[r]
              /\ Unseen(r) => Unseen(r)'
              /\ Failing(r) => Failing(r)',
           \A l : l \in call'.launch <=> l \in call.launch /\ l.dep.rid # d.rid
    PROVE  \A r \in Rids : Kept(r)'
<1> SUFFICES ASSUME NEW r \in Rids PROVE Kept(r)'
  OBVIOUS
<1>1. /\ hot' \subseteq hot /\ warm' \subseteq warm
      /\ \A x \in hot' \cup warm' : x.rid # d.rid
      /\ state' = [state EXCEPT ![d.rid] = "none"]
  BY RemoveShape
<1>2. CASE r = d.rid
  BY <1>1, <1>2, GoneKept
<1>3. CASE r # d.rid
  <2>1. Kept(r) /\ state'[r] = state[r]
    BY <1>1, <1>3 DEF Faithful, ActorsTyped
  <2> QED BY <1>1, <1>3, <2>1, KeptStays
<1> QED BY <1>2, <1>3

\* The failures that are waited for before the actor of one replica is gone.
LEMMA BrokenFails ==
    ASSUME ActorsTyped, NEW S, mon' = Broken(S, mon), NEW r, Failing(r)
    PROVE  Failing(r)'
<1>1. PICK i \in Mons : mon[i] # None /\ mon[i].dep.rid = r /\ mon[i].fut = "failed"
  BY DEF Failing, Watched
<1>2. /\ mon'[i] # None /\ mon'[i].dep = mon[i].dep /\ mon'[i].fut = "failed"
  BY <1>1, BrokenShape DEF ActorsTyped
<1> QED BY <1>1, <1>2 DEF Failing, Watched

\* to_cache() has raised.
LEMMA CacheFailsKept ==
    ASSUME IInv, Faithful, NEW d \in hot \cup warm, CacheFails(d)
    PROVE  \A r \in Rids : Kept(r)'
<1>1. /\ LedgerTyped /\ ActorsTyped /\ CallTyped /\ Distinct /\ Launching
  BY DEF IInv, Typed
<1>2. d \in warm /\ d \in Deployments /\ d.rid \in Rids /\ d.node \in up
  BY <1>1 DEF CacheFails, LedgerTyped, Distinct, Deployments
<1>3. /\ RemoveFromState(d) /\ mon' = Broken({d.rid}, mon)
      /\ actor'[d.rid] = [NoActor EXCEPT !.life = "gone"]
      /\ call.pc = "cache" /\ call'.pc = "cache" /\ call'.launch = call.launch
      /\ call'.work = call.work \ {d.rid}
      /\ \A r \in Rids : r # d.rid => actor'[r] = actor[r] /\ parking'[r] = parking[r]
  BY <1>1, <1>2 DEF CacheFails, ActorsTyped, CallTyped, CallRecs
<1>4. \A l \in call.launch : l.dep.rid # d.rid
  BY <1>1, <1>2 DEF Launching, Distinct
<1>5. \A r \in Rids : r # d.rid => /\ Unseen(r) => Unseen(r)'
                                   /\ Failing(r) => Failing(r)'
  BY <1>1, <1>3, BrokenFails DEF Unseen
<1> QED BY <1>1, <1>2, <1>3, <1>4, <1>5, RemoveKeepsKept

\* from_cache() finds no actor, or create() makes none.
LEMMA LaunchFailsKept ==
    ASSUME IInv, Faithful, NEW l \in call.launch, RestoreFails(l) \/ CreateFails(l)
    PROVE  \A r \in Rids : Kept(r)'
<1>1. /\ LedgerTyped /\ ActorsTyped /\ CallTyped /\ Distinct /\ Launching
  BY DEF IInv, Typed
<1>2. PICK d \in Deployments : d = l.dep
  BY <1>1 DEF Launching, LedgerTyped
<1>3. d \in hot /\ d.rid \in Rids /\ d.node \in up
  BY <1>1, <1>2 DEF Launching, Distinct, Deployments
<1>4. /\ RemoveFromState(d) /\ mon' = Broken({d.rid}, mon)
      /\ actor'[d.rid] = [NoActor EXCEPT !.life = "gone"]
      /\ call.pc = "launch" /\ call'.launch = call.launch \ {l}
      /\ \A r \in Rids : r # d.rid => actor'[r] = actor[r]
  BY <1>1, <1>2, <1>3 DEF RestoreFails, CreateFails, Delete, CallTyped, CallRecs
<1>5. \A m : m \in call'.launch <=> m \in call.launch /\ m.dep.rid # d.rid
  <2>1. \A m \in call.launch : m.dep.rid = d.rid => m = l
    BY <1>1, <1>2, <1>3 DEF Launching, Distinct
  <2> QED BY <1>2, <1>4, <2>1
<1>6. \A r \in Rids : r # d.rid => /\ Unseen(r) => Unseen(r)'
                                   /\ Failing(r) => Failing(r)'
  BY <1>1, <1>4, BrokenFails DEF Unseen
<1> QED BY <1>1, <1>2, <1>3, <1>4, <1>5, <1>6, RemoveKeepsKept

\* A monitor whose deployment failed.
LEMMA DeployFailsKept ==
    ASSUME IInv, Faithful, NEW i \in Mons, DeployFails(i)
    PROVE  \A r \in Rids : Kept(r)'
<1>1. /\ LedgerTyped /\ ActorsTyped /\ CallTyped /\ Distinct /\ Launching /\ Traced
  BY DEF IInv, Typed
<1>2. PICK d \in Deployments : d = mon[i].dep
  BY <1>1, WatchesOne DEF DeployFails
<1>3. /\ d.rid \in Rids
      /\ \A x \in hot \cup warm : x.rid = d.rid => d.node \in up
  BY <1>1, <1>2 DEF Traced, Watched, Distinct, Deployments, DeployFails
<1>4. /\ RemoveFromState(d) /\ mon' = [Broken({d.rid}, mon) EXCEPT ![i] = None]
      /\ actor'[d.rid] = [NoActor EXCEPT !.life = "gone"]
      /\ call.pc = "idle" /\ call' = call
      /\ \A r \in Rids : r # d.rid => actor'[r] = actor[r]
  BY <1>1, <1>2, <1>3 DEF DeployFails, ActorsTyped
<1>5. call.launch = {}
  BY <1>1, <1>4 DEF Launching
<1>6. ASSUME NEW r \in Rids, r # d.rid, Failing(r) PROVE Failing(r)'
  <2>1. PICK j \in Mons : mon[j] # None /\ mon[j].dep.rid = r /\ mon[j].fut = "failed"
    BY <1>6 DEF Failing, Watched
  <2>2. j # i
    BY <1>2, <1>6, <2>1
  <2>3. mon'[j] = Broken({d.rid}, mon)[j]
    BY <1>1, <1>4, <2>2, BrokenShape DEF ActorsTyped
  <2>4. mon'[j] # None /\ mon'[j].dep = mon[j].dep /\ mon'[j].fut = "failed"
    BY <1>1, <2>1, <2>3, BrokenShape DEF ActorsTyped
  <2> QED BY <2>1, <2>4 DEF Failing, Watched
<1>7. \A r : ~Unseen(r)
  BY <1>4 DEF Unseen
<1> QED BY <1>1, <1>2, <1>3, <1>4, <1>5, <1>6, <1>7, RemoveKeepsKept

\* build() and the deletions: who has no list has no actor, who was parked is
\* told to leave the GPUs, and who is HOT and was not is about to be launched.
LEMMA BuildKept ==
    ASSUME IInv, Faithful, Build
    PROVE  \A r \in Rids : Kept(r)'
<1>1. /\ LedgerTyped /\ ActorsTyped /\ CallTyped /\ Distinct /\ Applies /\ Launching
      /\ Parks
  BY DEF IInv, Typed
<1> DEFINE park == {d \in warm : state[d.rid] = "HOT"}
           restore == {d \in hot : state[d.rid] = "WARM"}
           create == {d \in hot : state[d.rid] = "none"}
           delete == {r \in Rids : state[r] # "none"} \ RidsOf(hot \cup warm)
<1>2. /\ call.pc = "apply" /\ call'.pc = "cache" /\ call'.work = RidsOf(park)
      /\ call.launch = {}
      /\ UNCHANGED <<hot, warm>>
      /\ \A l : l \in call'.launch <=>
            \/ l \in {[dep |-> d, op |-> "from_cache"] : d \in restore}
            \/ l \in {[dep |-> d, op |-> "create"] : d \in create}
  BY <1>1 DEF Build, Launching, CallTyped, CallRecs, ledger
<1>3. \A l \in call'.launch :
         \/ l.op = "from_cache" /\ l.dep \in hot /\ state[l.dep.rid] = "WARM"
         \/ l.op = "create" /\ l.dep \in hot /\ state[l.dep.rid] = "none"
  BY <1>2
<1>4. ASSUME NEW d \in hot, state[d.rid] # "HOT"
      PROVE  \E l \in call'.launch : l.dep.rid = d.rid
  <2>1. state[d.rid] \in {"none", "WARM"}
    BY <1>1, <1>4 DEF LedgerTyped, Deployments, ActorsTyped
  <2>2. CASE state[d.rid] = "WARM"
    <3>1. PICK l : l = [dep |-> d, op |-> "from_cache"]
      OBVIOUS
    <3>2. l \in call'.launch
      BY <1>2, <2>2, <3>1
    <3>3. l.dep.rid = d.rid
      BY <3>1
    <3> QED BY <3>2, <3>3
  <2>3. CASE state[d.rid] = "none"
    <3>1. PICK l : l = [dep |-> d, op |-> "create"]
      OBVIOUS
    <3>2. l \in call'.launch
      BY <1>2, <2>3, <3>1
    <3>3. l.dep.rid = d.rid
      BY <3>1
    <3> QED BY <3>2, <3>3
  <2> QED BY <2>1, <2>2, <2>3
<1> SUFFICES ASSUME NEW r \in Rids PROVE Kept(r)'
  OBVIOUS
<1>5. Kept(r) /\ ~Unseen(r) /\ (Failing(r) => Failing(r)')
  BY <1>1, <1>2, BrokenFails DEF Faithful, Unseen, Build
<1>6. /\ state'[r] = IF r \in RidsOf(warm) THEN "WARM"
                     ELSE IF r \in RidsOf(hot) THEN "HOT" ELSE "none"
      /\ actor'[r] = IF r \in delete THEN [NoActor EXCEPT !.life = "gone"]
              ELSE IF r \in RidsOf(park) /\ Alive(r)
              THEN [actor[r] EXCEPT !.inbox =
                        Append(@, [op |-> "to_cache", at |-> Nowhere, mon |-> None])]
              ELSE actor[r]
      /\ parking'[r] = IF r \in RidsOf(park) THEN CacheFuture(r) ELSE "none"
  BY DEF Build
<1>7. CASE r \notin RidsOf(hot \cup warm)
  <2>1. \A d \in hot' \cup warm' : d.rid # r
    BY <1>2, <1>7 DEF RidsOf
  <2>2. \A l \in call'.launch : l.dep.rid # r
    BY <1>2, <1>3, <2>1
  <2>3. CASE state[r] # "none"
    <3>1. r \in delete
      BY <1>7, <2>3
    <3> QED BY <1>6, <2>1, <2>2, <3>1, GoneKept
  <2>4. CASE state[r] = "none"
    <3>1. actor'[r] = actor[r]
      BY <1>6, <1>7, <2>4 DEF RidsOf
    <3>2. state'[r] = state[r]
      BY <1>6, <1>7, <2>4 DEF RidsOf
    <3> QED BY <1>2, <1>5, <2>1, <2>2, <3>1, <3>2, KeptStays
  <2> QED BY <2>3, <2>4
<1>8. CASE r \in RidsOf(warm)
  <2>1. PICK w \in warm : w.rid = r
    BY <1>8 DEF RidsOf
  <2>2. /\ \A d \in hot' : d.rid # r
        /\ \A l \in call'.launch : l.dep.rid # r
        /\ \A x \in warm' : x.rid = r => x = w
        /\ r \notin delete
    BY <1>1, <1>2, <1>3, <2>1 DEF Distinct, RidsOf
  <2>3. Housed(r, w) /\ At(w) = Nowhere /\ state'[r] = "WARM"
    BY <1>5, <1>6, <1>8, <2>1 DEF Kept
  <2>4. CASE state[r] = "HOT"
    <3>1. r \in RidsOf(park)
      BY <2>1, <2>4 DEF RidsOf
    <3>2. /\ Unseen(r)'
          /\ actor'[r] = IF Alive(r)
                THEN [actor[r] EXCEPT !.inbox =
                        Append(@, [op |-> "to_cache", at |-> Nowhere, mon |-> None])]
                ELSE actor[r]
      BY <1>2, <1>6, <2>2, <3>1 DEF Unseen, CacheFuture
    <3>3. CASE Alive(r)
      <4>1. actor[r] \in ActorRecs
        BY <1>1 DEF ActorsTyped
      <4>2. PICK m : m = [op |-> "to_cache", at |-> Nowhere, mon |-> None]
        OBVIOUS
      <4>3. /\ actor'[r].inbox = Append(actor[r].inbox, m)
            /\ actor'[r].life = actor[r].life /\ actor'[r].node = actor[r].node
            /\ actor'[r].size = actor[r].size /\ Where(r)' = Where(r)
        BY <3>2, <3>3, <4>1, <4>2 DEF ActorRecs, Where
      <4>4. /\ DOMAIN actor'[r].inbox = DOMAIN actor[r].inbox \cup {Len(actor[r].inbox) + 1}
            /\ actor'[r].inbox[Len(actor[r].inbox) + 1] = m
            /\ \A k \in DOMAIN actor[r].inbox : actor'[r].inbox[k] = actor[r].inbox[k]
        BY <4>1, <4>3 DEF ActorRecs
      <4>5. m.op = "to_cache" /\ m.at = Nowhere
        BY <4>2
      <4>6. Boxed(r)
        BY <1>5 DEF Kept
      <4>7. Boxed(r)'
        BY <4>3, <4>4, <4>5, <4>6 DEF Boxed, Where
      <4>8. Alive(r)' /\ Housed(r, w)'
        BY <2>3, <3>3, <4>3 DEF Alive, Housed
      <4> QED BY <2>2, <2>3, <3>2, <4>7, <4>8 DEF Kept
    <3>4. CASE ~Alive(r)
      <4>1. ~Alive(r)' /\ Empty(r)' /\ Boxed(r)'
        BY <1>5, <3>2, <3>4 DEF Kept, Alive, Empty, Boxed, Where
      <4>2. Housed(r, w)'
        BY <2>3, <4>1 DEF Housed
      <4> QED BY <2>2, <2>3, <3>2, <4>1, <4>2 DEF Kept
    <3> QED BY <3>3, <3>4
  <2>5. CASE state[r] # "HOT"
    <3>1. state[r] = "WARM"
      BY <1>1, <2>1, <2>5 DEF Applies
    <3>2. \A x \in park : x.rid # r
      BY <2>5
    <3>3. actor'[r] = actor[r]
      BY <1>6, <2>2, <3>2 DEF RidsOf
    <3> QED BY <1>2, <1>5, <2>2, <2>3, <3>1, <3>3, KeptStays
  <2> QED BY <2>4, <2>5
<1>9. CASE r \in RidsOf(hot)
  <2>1. PICK d \in hot : d.rid = r
    BY <1>9 DEF RidsOf
  <2>2. /\ \A x \in warm : x.rid # r
        /\ \A x \in hot' : x.rid = r => x = d
        /\ r \notin delete
    BY <1>1, <1>2, <2>1 DEF Distinct, RidsOf
  <2>3. r \notin RidsOf(park) /\ r \notin RidsOf(warm)
    BY <2>2 DEF RidsOf
  <2>4. actor'[r] = actor[r] /\ state'[r] = "HOT"
    BY <1>6, <1>9, <2>2, <2>3
  <2>5. Housed(r, d)
    BY <1>5, <2>1 DEF Kept
  <2>6. /\ Boxed(r)' /\ (~Alive(r)' => Empty(r)') /\ Housed(r, d)'
    BY <1>5, <2>4, <2>5 DEF Kept, Boxed, Alive, Empty, Housed, Where
  <2>7. \A l \in call'.launch : l.dep.rid = r =>
            IF l.op = "create" THEN ~Alive(r)' ELSE Empty(r)'
    <3> SUFFICES ASSUME NEW l \in call'.launch, l.dep.rid = r
                 PROVE  IF l.op = "create" THEN ~Alive(r)' ELSE Empty(r)'
      OBVIOUS
    <3>1. CASE l.op = "create" /\ state[r] = "none"
      BY <1>5, <2>4, <3>1 DEF Kept, Alive
    <3>2. CASE l.op = "from_cache" /\ state[r] = "WARM"
      BY <1>5, <2>4, <3>2 DEF Kept, Empty, Where
    <3> QED BY <1>3, <3>1, <3>2
  <2>8. CASE state[r] # "HOT"
    <3>1. Starting(r)'
      BY <1>4, <2>1, <2>8 DEF Starting
    <3> QED BY <1>2, <2>2, <2>4, <2>6, <2>7, <3>1 DEF Kept
  <2>9. CASE state[r] = "HOT"
    <3>1. ~Starting(r)
      BY <1>2 DEF Starting
    <3>2. \/ Alive(r) /\ Aim(r) = At(d)
          \/ Alive(r) /\ actor[r].astray /\ ~Recalled(r)
          \/ actor[r].life = "lost"
          \/ Empty(r) /\ Failing(r)
      BY <1>5, <2>1, <2>9, <3>1 DEF Kept
    <3>3. \/ Alive(r)' /\ Aim(r)' = At(d)
          \/ Alive(r)' /\ actor'[r].astray /\ ~Recalled(r)'
          \/ actor'[r].life = "lost"
          \/ Empty(r)' /\ Failing(r)'
      BY <1>5, <2>4, <3>2 DEF Alive, Aim, Recalled, Empty, Where
    <3> QED BY <1>2, <2>2, <2>4, <2>6, <2>7, <3>3 DEF Kept
  <2> QED BY <2>8, <2>9
<1> QED BY <1>7, <1>8, <1>9 DEF RidsOf

\* A to_cache() that has returned has been seen.
LEMMA CachedKept ==
    ASSUME IInv, Faithful, NEW q \in Rids, Cached(q)
    PROVE  \A r \in Rids : Kept(r)'
<1> SUFFICES ASSUME NEW r \in Rids PROVE Kept(r)'
  OBVIOUS
<1>1. /\ UNCHANGED <<hot, warm, state, mon, actor>>
      /\ call'.pc = "cache" /\ call.pc = "cache" /\ call'.launch = call.launch
      /\ call'.work = call.work \ {q} /\ parking[q] = "ok"
      /\ r # q => parking'[r] = parking[r]
  BY DEF Cached, ledger, IInv, Typed, CallTyped, CallRecs, ActorsTyped
<1>2. Unseen(r) => Unseen(r)'
  BY <1>1 DEF Unseen
<1>3. Kept(r) /\ (Failing(r) => Failing(r)')
  BY <1>1 DEF Faithful, Failing, Watched
<1> QED BY <1>1, <1>2, <1>3, KeptStays

\* What both launches have in common: the replica's actor gets what is booked
\* for it.
LEMMA LaunchKept ==
    ASSUME IInv, Faithful, NEW l \in call.launch,
           call.pc = "launch", call' = [call EXCEPT !.launch = @ \ {l}],
           UNCHANGED <<ledger, state, parking>>,
           \A r \in Rids : r # l.dep.rid => actor'[r] = actor[r],
           \A r \in Rids : Failing(r) => Failing(r)',
           Boxed(l.dep.rid)', Alive(l.dep.rid)', Housed(l.dep.rid, l.dep)',
           Aim(l.dep.rid)' = At(l.dep)
    PROVE  \A r \in Rids : Kept(r)'
<1> SUFFICES ASSUME NEW r \in Rids PROVE Kept(r)'
  OBVIOUS
<1>1. /\ Distinct /\ Applies /\ Launching /\ CallTyped
  BY DEF IInv, Typed
<1>2. /\ UNCHANGED <<hot, warm, state>> /\ l.dep \in hot
      /\ call'.launch = call.launch \ {l} /\ call'.pc = "launch"
  BY <1>1 DEF ledger, CallTyped, CallRecs, Launching
<1>3. Kept(r) /\ ~Unseen(r)
  BY DEF Faithful, Unseen
<1>4. CASE r # l.dep.rid
  BY <1>2, <1>3, <1>4, KeptStays
<1>5. CASE r = l.dep.rid
  <2>1. state'[r] = "HOT"
    BY <1>1, <1>2, <1>5 DEF Applies, Changing
  <2>2. \A m \in call'.launch : m.dep.rid # r
    BY <1>1, <1>2, <1>5 DEF Launching, Distinct
  <2>3. \A d \in hot' : d.rid = r => d = l.dep
    BY <1>1, <1>2, <1>5 DEF Distinct
  <2>4. \A w \in warm' : w.rid # r
    BY <1>1, <1>2, <1>5 DEF Distinct
  <2> QED BY <1>5, <2>1, <2>2, <2>3, <2>4 DEF Kept
<1> QED BY <1>4, <1>5

\* One more task fails nobody.
LEMMA MonitorFails ==
    ASSUME ActorsTyped, NEW i \in Mons, NEW l \in Launches, Monitor(i, l.dep, l.op),
           NEW r, Failing(r)
    PROVE  Failing(r)'
<1>1. PICK j \in Mons : Watched(j, r) /\ mon[j].fut = "failed"
  BY DEF Failing
<1>2. j # i
  BY <1>1, MonitorAdds DEF Watched
<1>3. Watched(j, r)' /\ mon'[j].fut = "failed"
  BY <1>1, <1>2, MonitorAdds
<1> QED BY <1>3 DEF Failing

\* from_cache() goes out to an actor that holds nothing.
LEMMA RestoreKept ==
    ASSUME IInv, Faithful, NEW l \in call.launch, Restore(l)
    PROVE  \A r \in Rids : Kept(r)'
<1>1. /\ ActorsTyped /\ Launching /\ LedgerTyped /\ CallTyped
  BY DEF IInv, Typed
<1>2. PICK i \in Mons :
          /\ Monitor(i, l.dep, l.op)
          /\ actor' = [actor EXCEPT ![l.dep.rid].inbox =
                Append(@, [op |-> l.op, at |-> At(l.dep), mon |-> i])]
  BY DEF Restore
<1>3. PICK q : q = l.dep.rid
  OBVIOUS
<1>4. /\ l \in Launches /\ l.dep \in hot /\ q \in Rids /\ actor[q] \in ActorRecs
  BY <1>1, <1>3 DEF Launching, LedgerTyped, CallTyped, CallRecs, Deployments, ActorsTyped
<1>5. Kept(q) /\ l.op = "from_cache" /\ Alive(q) /\ call.pc = "launch"
  BY <1>3, <1>4 DEF Faithful, Restore
<1>6. Empty(q) /\ Housed(q, l.dep)
  BY <1>3, <1>4, <1>5 DEF Kept
<1>7. PICK m : m = [op |-> l.op, at |-> At(l.dep), mon |-> i]
  OBVIOUS
<1>8. /\ actor'[q].inbox = Append(actor[q].inbox, m)
      /\ actor'[q].life = actor[q].life /\ actor'[q].node = actor[q].node
      /\ actor'[q].size = actor[q].size /\ Where(q)' = Where(q)
      /\ \A r \in Rids : r # q => actor'[r] = actor[r]
  BY <1>1, <1>2, <1>3, <1>4, <1>7 DEF ActorsTyped, ActorRecs, Where
<1>9. actor'[q].inbox = <<m>> /\ Where(q)' = Nowhere
  BY <1>6, <1>8 DEF Empty, Where
<1>10. m.op = "from_cache" /\ m.at = At(l.dep)
  BY <1>5, <1>7
<1>11. Boxed(q)' /\ Aim(q)' = At(l.dep)
  BY <1>9, <1>10 DEF Boxed, Aim, Recalled, Where
<1>12. Alive(q)' /\ Housed(q, l.dep)'
  BY <1>5, <1>6, <1>8 DEF Alive, Housed
<1>13. \A r \in Rids : Failing(r) => Failing(r)'
  BY <1>1, <1>2, <1>4, MonitorFails
<1>14. /\ call' = [call EXCEPT !.launch = @ \ {l}]
       /\ UNCHANGED <<ledger, state, parking>>
  BY DEF Restore
<1> QED BY <1>3, <1>5, <1>8, <1>11, <1>12, <1>13, <1>14, LaunchKept

\* An actor is created.
LEMMA CreateKept ==
    ASSUME IInv, Faithful, NEW l \in call.launch, Create(l)
    PROVE  \A r \in Rids : Kept(r)'
<1>1. /\ ActorsTyped /\ Launching /\ LedgerTyped /\ CallTyped
  BY DEF IInv, Typed
<1>2. PICK i \in Mons : Monitor(i, l.dep, l.op)
  BY DEF Create
<1>3. PICK q : q = l.dep.rid
  OBVIOUS
<1>4. /\ l \in Launches /\ l.dep \in hot /\ q \in Rids
  BY <1>1, <1>3 DEF Launching, LedgerTyped, CallTyped, CallRecs, Deployments
<1>5. Housed(q, l.dep) /\ call.pc = "launch"
  BY <1>3, <1>4 DEF Faithful, Kept, Create
<1>6. /\ actor'[q].inbox = <<>> /\ actor'[q].life = "loading"
      /\ actor'[q].node = l.dep.node /\ actor'[q].size = l.dep.size
      /\ actor'[q].at = At(l.dep) /\ ~actor'[q].astray
      /\ \A r \in Rids : r # q => actor'[r] = actor[r]
  BY <1>1, <1>3, <1>4 DEF Create, ActorsTyped
<1>7. Boxed(q)' /\ Aim(q)' = At(l.dep) /\ Alive(q)'
  BY <1>6 DEF Boxed, Aim, Recalled, Alive, Where
<1>8. Housed(q, l.dep)'
  BY <1>5, <1>6 DEF Housed
<1>9. \A r \in Rids : Failing(r) => Failing(r)'
  BY <1>1, <1>2, <1>4, MonitorFails
<1>10. /\ call' = [call EXCEPT !.launch = @ \ {l}]
       /\ UNCHANGED <<ledger, state, parking>>
  BY DEF Create
<1> QED BY <1>3, <1>5, <1>6, <1>7, <1>8, <1>9, <1>10, LaunchKept

\* A task that is through, a node that joins, and time.
LEMMA OthersKept ==
    ASSUME IInv, Faithful,
           \/ \E i \in Mons : Deployed(i)
           \/ \E n \in Nodes : NodeJoins(n)
           \/ \E q \in Rids : Ages(q)
           \/ UNCHANGED vars
    PROVE  \A r \in Rids : Kept(r)'
<1> SUFFICES ASSUME NEW r \in Rids PROVE Kept(r)'
  OBVIOUS
<1>1. UNCHANGED <<hot, warm, state, call, parking, actor>>
  BY DEF Deployed, NodeJoins, Ages, vars, ledger
<1>2. Kept(r) /\ (Unseen(r) => Unseen(r)')
  BY <1>1 DEF Faithful, Unseen
<1>3. Failing(r) => Failing(r)'
  <2>1. ASSUME NEW i \in Mons, Deployed(i), Failing(r) PROVE Failing(r)'
    <3>1. PICK j \in Mons : Watched(j, r) /\ mon[j].fut = "failed"
      BY <2>1 DEF Failing
    <3>2. mon'[j] = mon[j]
      BY <2>1, <3>1 DEF Deployed, IInv, Typed, ActorsTyped
    <3> QED BY <3>1, <3>2 DEF Failing, Watched
  <2>2. mon' = mon => (Failing(r) => Failing(r)')
    BY DEF Failing, Watched
  <2> QED BY <2>1, <2>2 DEF NodeJoins, Ages, vars
<1> QED BY <1>1, <1>2, <1>3, KeptStays

\* A node leaves, and what ran there is deleted.
LEMMA NodeLeavesKept ==
    ASSUME IInv, Faithful, NEW n \in Nodes, NodeLeaves(n)
    PROVE  \A r \in Rids : Kept(r)'
<1> SUFFICES ASSUME NEW r \in Rids PROVE Kept(r)'
  OBVIOUS
<1> DEFINE lost == {d \in hot \cup warm : d.node = n}
<1>1. /\ ActorsTyped /\ Distinct /\ Launching
  BY DEF IInv, Typed
<1>2. /\ hot' = hot \ lost /\ warm' = warm \ lost
      /\ UNCHANGED <<state, call>> /\ call.pc = "idle" /\ call.launch = {}
      /\ mon' = Broken(RidsOf(lost), mon)
      /\ actor'[r] = IF r \in RidsOf(lost) THEN [NoActor EXCEPT !.life = "gone"]
                                           ELSE actor[r]
  BY <1>1 DEF NodeLeaves, Launching, Delete
<1>3. Kept(r) /\ ~Unseen(r) /\ (Failing(r) => Failing(r)')
  BY <1>1, <1>2, BrokenFails DEF Faithful, Unseen
<1>4. CASE r \in RidsOf(lost)
  <2>1. PICK d \in lost : d.rid = r
    BY <1>4 DEF RidsOf
  <2>2. \A x \in hot \cup warm : x.rid = r => x = d
    BY <1>1, <2>1 DEF Distinct
  <2>3. \A x \in hot' \cup warm' : x.rid # r
    BY <1>2, <2>1, <2>2
  <2> QED BY <1>2, <1>4, <2>3, GoneKept
<1>5. CASE r \notin RidsOf(lost)
  BY <1>2, <1>3, <1>5, KeptStays
<1> QED BY <1>4, <1>5

\* An actor's step is not seen by the others.
LEMMA OtherActorsKept ==
    ASSUME Faithful, NEW q \in Rids, UNCHANGED <<ledger, state, call>>,
           \A r \in Rids : r # q => actor'[r] = actor[r] /\ parking'[r] = parking[r],
           \A r \in Rids : r # q /\ Failing(r) => Failing(r)',
           Kept(q)'
    PROVE  \A r \in Rids : Kept(r)'
<1> SUFFICES ASSUME NEW r \in Rids, r # q PROVE Kept(r)'
  OBVIOUS
<1>1. UNCHANGED <<hot, warm, state, call>>
  BY DEF ledger
<1>2. Kept(r) /\ (Unseen(r) => Unseen(r)')
  BY <1>1 DEF Faithful, Unseen
<1> QED BY <1>1, <1>2, KeptStays

\* __init__ ends.
LEMMA LoadsKept ==
    ASSUME IInv, Faithful, NEW q \in Rids, Loads(q)
    PROVE  \A r \in Rids : Kept(r)'
<1>1. /\ ActorsTyped /\ actor[q] \in ActorRecs
  BY DEF IInv, Typed, ActorsTyped
<1>2. /\ UNCHANGED <<hot, warm, state, call, parking>>
      /\ UNCHANGED <<ledger, state, call>>
      /\ \A r \in Rids : r # q => actor'[r] = actor[r]
      /\ actor'[q] = [actor[q] EXCEPT !.life = "up"] /\ actor[q].life = "loading"
  BY <1>1 DEF Loads, ledger, ActorsTyped
<1>3. /\ Alive(q)' <=> Alive(q)
      /\ actor'[q].at = actor[q].at /\ actor'[q].inbox = actor[q].inbox
      /\ actor'[q].node = actor[q].node /\ actor'[q].size = actor[q].size
      /\ actor'[q].astray = actor[q].astray
  BY <1>1, <1>2 DEF Alive, ActorRecs
<1>4. ASSUME NEW r \in Rids, Failing(r) PROVE Failing(r)'
  <2>1. PICK j \in Mons : Watched(j, r) /\ mon[j].fut = "failed"
    BY <1>4 DEF Failing
  <2>2. mon'[j] = mon[j]
    BY <2>1 DEF Loads
  <2> QED BY <2>1, <2>2 DEF Failing, Watched
<1>5. Kept(q) /\ (Unseen(q) => Unseen(q)')
  BY <1>2 DEF Faithful, Unseen
<1>6. Kept(q)'
  BY <1>2, <1>3, <1>4, <1>5, KeptGoesOn
<1> QED BY <1>2, <1>4, <1>6, OtherActorsKept

\* Nobody waits for the death of an actor, or whoever does gets an error.
LEMMA DeadKept ==
    ASSUME IInv, Faithful, NEW q \in Rids, Alive(q), Dead(q)
    PROVE  \A r \in Rids : Kept(r)'
<1>1. /\ ActorsTyped /\ LedgerTyped /\ Distinct /\ Parks /\ Settled
  BY DEF IInv, Typed
<1> DEFINE watched == \/ parking[q] = "pending"
                      \/ \E i \in Mons : /\ mon[i] # None /\ mon[i].dep.rid = q
                                         /\ mon[i].fut = "pending"
<1>2. /\ UNCHANGED <<hot, warm, state, call>> /\ UNCHANGED <<ledger, state, call>>
      /\ mon' = Broken({q}, mon)
      /\ actor'[q] = [NoActor EXCEPT !.life = IF watched THEN "gone" ELSE "lost"]
      /\ parking'[q] = IF parking[q] = "pending" THEN "failed" ELSE parking[q]
      /\ \A r \in Rids : r # q => actor'[r] = actor[r] /\ parking'[r] = parking[r]
  BY <1>1 DEF Dead, ledger, ActorsTyped
<1>3. \A r \in Rids : Failing(r) => Failing(r)'
  BY <1>1, <1>2, BrokenFails
<1>4. /\ ~Alive(q)' /\ Empty(q)' /\ Boxed(q)'
      /\ actor'[q].life = IF watched THEN "gone" ELSE "lost"
  <2>1. /\ actor'[q].life = IF watched THEN "gone" ELSE "lost"
        /\ actor'[q].inbox = <<>> /\ actor'[q].at = Nowhere
    BY <1>2 DEF NoActor
  <2> QED BY <2>1 DEF Alive, Empty, Boxed, Where
<1>5. Kept(q)
  BY DEF Faithful
<1>6. \A x : Housed(q, x) => Housed(q, x)'
  BY <1>4 DEF Housed
<1>7. ASSUME NEW d \in hot', d.rid = q, state'[q] = "HOT", actor'[q].life # "lost"
      PROVE  Empty(q)' /\ Failing(q)'
  <2>1. parking[q] # "pending"
    BY <1>1, <1>2, <1>7 DEF Parks, Distinct, RidsOf
  <2>2. PICK i \in Mons : /\ mon[i] # None /\ mon[i].dep.rid = q
                          /\ mon[i].fut = "pending"
    BY <1>4, <1>7, <2>1
  <2>3. mon'[i] # None /\ mon'[i].dep = mon[i].dep /\ mon'[i].fut = "failed"
    BY <1>1, <1>2, <2>2, BrokenShape DEF ActorsTyped
  <2> QED BY <1>4, <2>2, <2>3 DEF Failing, Watched
<1>8. ASSUME NEW w \in warm', w.rid = q, state'[q] = "WARM", ~Unseen(q)'
      PROVE  actor'[q].life = "lost"
  <2>1. w \in warm /\ state[q] = "WARM"
    BY <1>2, <1>8
  <2>2. call.pc = "cache" /\ q \in call.work => parking[q] = "ok"
    BY <1>1, <1>2, <1>8 DEF Unseen, Parks
  <2>3. parking[q] # "pending"
    BY <1>1, <2>2 DEF Parks
  <2>4. \A i \in Mons : ~(Pending(i) /\ Watched(i, q))
    <3>1. CASE call.pc = "cache" /\ q \in call.work
      BY <1>1, <2>2, <3>1 DEF Parks
    <3>2. CASE ~(call.pc = "cache" /\ q \in call.work)
      BY <1>1, <1>8, <2>1, <3>2 DEF Settled
    <3> QED BY <3>1, <3>2
  <2>5. ~watched
    BY <2>3, <2>4 DEF Pending, Watched
  <2> QED BY <1>4, <2>5
<1>9. Kept(q)'
  <2>1. \A l \in call'.launch : l.dep.rid = q =>
            IF l.op = "create" THEN ~Alive(q)' ELSE Empty(q)'
    BY <1>4
  <2>2. ASSUME NEW d \in hot', d.rid = q
        PROVE  /\ Housed(q, d)'
               /\ \/ state'[q] # "HOT"
                  \/ actor'[q].life = "lost"
                  \/ Empty(q)' /\ Failing(q)'
    BY <1>2, <1>5, <1>6, <1>7, <2>2 DEF Kept
  <2>3. ASSUME NEW w \in warm', w.rid = q
        PROVE  /\ Housed(q, w)' /\ At(w) = Nowhere
               /\ state'[q] = "WARM" /\ ~Unseen(q)' => actor'[q].life = "lost"
    BY <1>2, <1>5, <1>6, <1>8, <2>3 DEF Kept
  <2> QED BY <1>4, <2>1, <2>2, <2>3 DEF Kept
<1> QED BY <1>2, <1>3, <1>9, OtherActorsKept

\* A restart: what was on the way is lost, and whoever had left the GPUs of its
\* creation is astray.
LEMMA RestartMoves ==
    ASSUME ActorsTyped, NEW q \in Rids, Restarts(q), Boxed(q)
    PROVE  /\ UNCHANGED <<hot, warm, state, call>> /\ UNCHANGED <<ledger, state, call>>
           /\ mon' = Broken({q}, mon)
           /\ actor'[q].life = "loading" /\ actor'[q].inbox = <<>>
           /\ actor'[q].node = actor[q].node /\ actor'[q].size = actor[q].size
           /\ parking'[q] = IF parking[q] = "pending" THEN "failed" ELSE parking[q]
           /\ \A r \in Rids : r # q => actor'[r] = actor[r] /\ parking'[r] = parking[r]
           /\ Alive(q)
           /\ Aim(q)' = Where(q)' /\ ~Recalled(q)'
           /\ \/ actor'[q].astray /\ Where(q)' = Nowhere
              \/ Where(q)' = Where(q)
           /\ Aim(q) # Where(q) => Where(q) = Nowhere
<1>1. actor[q] \in ActorRecs
  BY DEF ActorsTyped
<1>2. /\ UNCHANGED <<hot, warm, state, call>> /\ UNCHANGED <<ledger, state, call>>
      /\ mon' = Broken({q}, mon)
      /\ actor'[q] = [actor[q] EXCEPT !.life = "loading", !.at = actor[q].born,
                                      !.inbox = <<>>,
                                      !.astray = @ \/ actor[q].at # actor[q].born]
      /\ parking'[q] = IF parking[q] = "pending" THEN "failed" ELSE parking[q]
      /\ \A r \in Rids : r # q => actor'[r] = actor[r] /\ parking'[r] = parking[r]
      /\ Alive(q)
  BY DEF Restarts, ledger, ActorsTyped, Alive
<1>3. /\ actor'[q].life = "loading" /\ actor'[q].at = actor[q].born
      /\ actor'[q].inbox = <<>> /\ actor'[q].node = actor[q].node
      /\ actor'[q].size = actor[q].size
      /\ actor'[q].astray = (actor[q].astray \/ actor[q].at # actor[q].born)
  BY <1>1, <1>2 DEF ActorRecs
<1>4. Aim(q)' = Where(q)' /\ ~Recalled(q)'
  BY <1>3 DEF Aim, Recalled, Where
<1>5. \/ actor'[q].astray /\ Where(q)' = Nowhere
      \/ Where(q)' = Where(q)
  BY <1>3 DEF Where
<1>6. actor[q].inbox # <<>> => 1 \in DOMAIN actor[q].inbox
  BY <1>1 DEF ActorRecs
<1>7. Aim(q) # Where(q) => Where(q) = Nowhere
  BY <1>6 DEF Aim, Recalled, Boxed, Where
<1> QED BY <1>2, <1>3, <1>4, <1>5, <1>7

\* Who is astray stays so.
LEMMA RestartStrays ==
    ASSUME ActorsTyped, NEW q \in Rids, Restarts(q), actor[q].astray
    PROVE  actor'[q].astray
<1>1. actor[q] \in ActorRecs
  BY DEF ActorsTyped
<1> QED BY <1>1 DEF Restarts, ActorsTyped, ActorRecs

\* A task waits for every from_cache() on the way.
LEMMA LettersWatched ==
    ASSUME IInv, NEW q \in Rids, Aim(q) # Where(q)
    PROVE  \E i \in Mons : Pending(i) /\ Watched(i, q)
<1>1. ActorsTyped /\ Posted /\ actor[q] \in ActorRecs
  BY DEF IInv, Typed, ActorsTyped
<1>2. /\ actor[q].inbox # <<>> /\ actor[q].inbox[1].op = "from_cache"
      /\ 1 \in DOMAIN actor[q].inbox /\ actor[q].inbox[1] \in Messages
  BY <1>1 DEF Aim, Recalled, ActorRecs, Where
<1>3. Letter(q, 1)
  BY <1>1, <1>2 DEF Posted
<1> QED BY <1>2, <1>3 DEF Letter, Messages

\* A restart leaves every replica where it is listed, or astray.
LEMMA RestartsKept ==
    ASSUME IInv, Faithful, NEW q \in Rids, Restarts(q)
    PROVE  \A r \in Rids : Kept(r)'
<1>1. ActorsTyped /\ Kept(q)
  BY DEF IInv, Typed, Faithful
<1>2. /\ UNCHANGED <<hot, warm, state, call>> /\ UNCHANGED <<ledger, state, call>>
      /\ mon' = Broken({q}, mon)
      /\ actor'[q].life = "loading" /\ actor'[q].inbox = <<>>
      /\ actor'[q].node = actor[q].node /\ actor'[q].size = actor[q].size
      /\ parking'[q] = IF parking[q] = "pending" THEN "failed" ELSE parking[q]
      /\ \A r \in Rids : r # q => actor'[r] = actor[r] /\ parking'[r] = parking[r]
      /\ Alive(q)
      /\ Aim(q)' = Where(q)' /\ ~Recalled(q)'
      /\ \/ actor'[q].astray /\ Where(q)' = Nowhere
         \/ Where(q)' = Where(q)
  BY <1>1, RestartMoves DEF Kept
<1>3. Alive(q)' /\ Boxed(q)' /\ \A x : Housed(q, x)' <=> Housed(q, x)
  BY <1>2 DEF Alive, Boxed, Housed, Where
<1>4. Empty(q) => Empty(q)'
  BY <1>2 DEF Empty, Where
<1>5. Unseen(q) => Unseen(q)'
  BY <1>2 DEF Unseen
<1>6. \A r \in Rids : Failing(r) => Failing(r)'
  BY <1>1, <1>2, BrokenFails
<1>7. \A l \in call'.launch : l.dep.rid = q =>
          IF l.op = "create" THEN ~Alive(q)' ELSE Empty(q)'
  BY <1>1, <1>2, <1>4 DEF Kept
<1>8. ASSUME NEW d \in hot', d.rid = q, state'[q] = "HOT", ~Starting(q)'
      PROVE  \/ Alive(q)' /\ Aim(q)' = At(d)
             \/ Alive(q)' /\ actor'[q].astray /\ ~Recalled(q)'
             \/ Empty(q)' /\ Failing(q)'
  <2>1. \/ Aim(q) = At(d)
        \/ actor[q].astray /\ ~Recalled(q)
        \/ Empty(q) /\ Failing(q)
    <3>1. ~Starting(q) /\ actor[q].life # "lost"
      BY <1>2, <1>8 DEF Starting, Alive
    <3> QED BY <1>1, <1>2, <1>8, <3>1 DEF Kept
  <2>2. CASE actor'[q].astray /\ Where(q)' = Nowhere
    BY <1>2, <1>3, <2>2
  <2>3. CASE Where(q)' = Where(q) /\ Aim(q) = Where(q) /\ ~actor'[q].astray
    <3>1. ~actor[q].astray
      BY <1>1, <2>3, RestartStrays
    <3> QED BY <1>2, <1>3, <1>4, <1>6, <2>1, <2>3, <3>1
  <2>4. CASE Where(q)' = Where(q) /\ Aim(q) # Where(q)
    <3>1. Where(q) = Nowhere
      BY <1>1, <2>4, RestartMoves DEF Kept
    <3>2. Empty(q)'
      BY <1>2, <2>4, <3>1 DEF Empty, Where
    <3>3. PICK i \in Mons : Pending(i) /\ Watched(i, q)
      BY <1>1, <2>4, LettersWatched
    <3>4. Failing(q)'
      BY <1>1, <1>2, <3>3, BrokenShape DEF Failing, Watched, Pending, ActorsTyped
    <3> QED BY <3>2, <3>4
  <2>5. CASE Where(q)' = Where(q) /\ actor'[q].astray
    <3>1. CASE Where(q)' = Nowhere
      BY <2>2, <2>5, <3>1
    <3>2. CASE Where(q)' # Nowhere
      BY <2>5, <3>2 DEF Where
    <3> QED BY <3>1, <3>2
  <2> QED BY <1>2, <2>2, <2>3, <2>4, <2>5
<1>9. Kept(q)'
  <2>1. ASSUME NEW d \in hot', d.rid = q PROVE Housed(q, d)'
    BY <1>1, <1>2, <1>3, <2>1 DEF Kept
  <2>2. ASSUME NEW w \in warm', w.rid = q
        PROVE  Housed(q, w)' /\ At(w) = Nowhere
    BY <1>1, <1>2, <1>3, <2>2 DEF Kept
  <2>3. state'[q] # "none" /\ (state'[q] = "WARM" /\ ~Unseen(q)' => Empty(q)')
    BY <1>1, <1>2, <1>4, <1>5 DEF Kept
  <2> QED BY <1>3, <1>7, <1>8, <2>1, <2>2, <2>3 DEF Kept
<1> QED BY <1>2, <1>6, <1>9, OtherActorsKept

\* What an answer does to the actor: the weights go where they were to go, or
\* stay if to_cache() raised.
LEMMA AnswerMoves ==
    ASSUME IInv, Faithful, NEW q \in Rids, Moves(q) \/ MoveFails(q)
    PROVE  \E m \in Messages, fut \in {"ok", "failed"} :
              /\ actor[q].inbox # <<>> /\ m = actor[q].inbox[1]
              /\ Letter(q, 1) /\ Alive(q) /\ Alive(q)'
              /\ UNCHANGED <<ledger, state, call>>
              /\ actor'[q].inbox = Tail(actor[q].inbox)
              /\ actor'[q].node = actor[q].node /\ actor'[q].size = actor[q].size
              /\ actor'[q].astray = (actor[q].astray /\ fut = "failed")
              /\ Where(q)' = IF fut = "failed" /\ (m.op = "to_cache" \/ actor[q].astray)
                             THEN Where(q) ELSE m.at
              /\ mon' = IF m.mon = None THEN mon ELSE [mon EXCEPT ![m.mon].fut = fut]
              /\ parking'[q] = IF m.mon = None THEN fut ELSE parking[q]
              /\ \A r \in Rids : r # q => actor'[r] = actor[r] /\ parking'[r] = parking[r]
<1>1. /\ ActorsTyped /\ Posted /\ actor[q] \in ActorRecs
  BY DEF IInv, Typed, ActorsTyped
<1>2. /\ actor[q].inbox # <<>> /\ actor[q].life = "up" /\ actor[q].inbox \in Seq(Messages)
      /\ UNCHANGED <<ledger, state, call>>
  BY <1>1 DEF Moves, MoveFails, ActorRecs
<1>3. PICK m \in Messages : m = actor[q].inbox[1]
  BY <1>2
<1>4. Head(actor[q].inbox) = m /\ 1 \in DOMAIN actor[q].inbox
  BY <1>2, <1>3
<1>5. \E fut \in {"ok", "failed"} : \E at \in Holdings :
          /\ Answer(q, fut, at)
          /\ at = IF m.op = "to_cache" /\ fut = "failed" THEN actor[q].at ELSE m.at
  <2>1. m.at \in Holdings /\ actor[q].at \in Holdings
    BY <1>1 DEF Messages, ActorRecs
  <2>2. CASE Moves(q)
    BY <1>4, <2>1, <2>2 DEF Moves
  <2>3. CASE MoveFails(q)
    BY <1>4, <2>1, <2>3 DEF MoveFails
  <2> QED BY <2>2, <2>3
<1>6. PICK fut \in {"ok", "failed"}, at \in Holdings :
          /\ Answer(q, fut, at)
          /\ at = IF m.op = "to_cache" /\ fut = "failed" THEN actor[q].at ELSE m.at
  BY <1>5
<1>7. /\ actor' = [actor EXCEPT ![q].inbox = Tail(@), ![q].at = at,
                                 ![q].astray = @ /\ fut = "failed"]
      /\ mon' = IF m.mon = None THEN mon ELSE [mon EXCEPT ![m.mon].fut = fut]
      /\ parking' = IF m.mon = None THEN [parking EXCEPT ![q] = fut] ELSE parking
  BY <1>4, <1>6 DEF Answer
<1>8. /\ actor'[q].inbox = Tail(actor[q].inbox) /\ actor'[q].at = at
      /\ actor'[q].astray = (actor[q].astray /\ fut = "failed")
      /\ actor'[q].life = actor[q].life
      /\ actor'[q].node = actor[q].node /\ actor'[q].size = actor[q].size
      /\ \A r \in Rids : r # q => actor'[r] = actor[r]
  BY <1>1, <1>7 DEF ActorsTyped, ActorRecs
<1>9. /\ parking'[q] = IF m.mon = None THEN fut ELSE parking[q]
      /\ \A r \in Rids : r # q => parking'[r] = parking[r]
  BY <1>1, <1>7 DEF ActorsTyped
<1>10. Letter(q, 1) /\ Alive(q) /\ Alive(q)'
  BY <1>1, <1>2, <1>4, <1>8 DEF Posted, Alive
<1>11. Where(q)' = IF fut = "failed" /\ (m.op = "to_cache" \/ actor[q].astray)
                   THEN Where(q) ELSE m.at
  BY <1>6, <1>8 DEF Where
<1> QED BY <1>2, <1>3, <1>6, <1>7, <1>8, <1>9, <1>10, <1>11

\* to_cache() and from_cache() return, or raise.
LEMMA AnswersKept ==
    ASSUME IInv, Faithful, NEW q \in Rids, Moves(q) \/ MoveFails(q)
    PROVE  \A r \in Rids : Kept(r)'
<1>1. /\ ActorsTyped /\ Distinct /\ Parks /\ actor[q] \in ActorRecs
  BY DEF IInv, Typed, ActorsTyped
<1>2. PICK m \in Messages, fut \in {"ok", "failed"} :
              /\ actor[q].inbox # <<>> /\ m = actor[q].inbox[1]
              /\ Letter(q, 1) /\ Alive(q) /\ Alive(q)'
              /\ UNCHANGED <<ledger, state, call>>
              /\ actor'[q].inbox = Tail(actor[q].inbox)
              /\ actor'[q].node = actor[q].node /\ actor'[q].size = actor[q].size
              /\ actor'[q].astray = (actor[q].astray /\ fut = "failed")
              /\ Where(q)' = IF fut = "failed" /\ (m.op = "to_cache" \/ actor[q].astray)
                             THEN Where(q) ELSE m.at
              /\ mon' = IF m.mon = None THEN mon ELSE [mon EXCEPT ![m.mon].fut = fut]
              /\ parking'[q] = IF m.mon = None THEN fut ELSE parking[q]
              /\ \A r \in Rids : r # q => actor'[r] = actor[r] /\ parking'[r] = parking[r]
  BY AnswerMoves
<1>3. UNCHANGED <<hot, warm, state, call>>
  BY <1>2 DEF ledger
<1>4. /\ actor[q].inbox \in Seq(Messages) /\ 1 \in DOMAIN actor[q].inbox
      /\ \A k \in DOMAIN actor'[q].inbox :
            k > 0 /\ k + 1 \in DOMAIN actor[q].inbox
            /\ actor'[q].inbox[k] = actor[q].inbox[k + 1]
  BY <1>1, <1>2 DEF ActorRecs
<1>5. Kept(q) /\ ~Empty(q)
  BY <1>2 DEF Faithful, Empty, Where
<1>6. Boxed(q)'
  <2> SUFFICES ASSUME NEW k \in DOMAIN actor'[q].inbox
               PROVE  LET x == actor'[q].inbox[k]
                      IN  IF x.op = "from_cache" THEN k = 1 /\ Where(q)' = Nowhere
                                                 ELSE x.at = Nowhere
    BY DEF Boxed, Where
  <2>1. k \in Nat /\ k + 1 # 1
    BY <1>1, <1>2, <1>4 DEF ActorRecs
  <2> QED BY <1>4, <1>5, <2>1 DEF Kept, Boxed, Where
<1>7. \A x : Housed(q, x)' <=> Housed(q, x)
  BY <1>2 DEF Housed
<1>8. ASSUME NEW r \in Rids, Failing(r) PROVE Failing(r)'
  <2>1. PICK j \in Mons : Watched(j, r) /\ mon[j].fut = "failed"
    BY <1>8 DEF Failing
  <2>2. m.mon # None => j # m.mon
    BY <1>2, <2>1 DEF Letter, Pending
  <2>3. mon'[j] = mon[j]
    BY <1>1, <1>2, <2>2 DEF ActorsTyped
  <2> QED BY <2>1, <2>3 DEF Failing, Watched
<1>9. \A l \in call'.launch : l.dep.rid # q
  BY <1>2, <1>3, <1>5 DEF Kept
<1>10. CASE m.op = "from_cache"
  <2>1. m.mon # None /\ Where(q) = Nowhere
    BY <1>2, <1>4, <1>5, <1>10 DEF Kept, Boxed, Letter, Where
  <2>2. Recalled(q) /\ ~Recalled(q)' /\ (Aim(q)' = Aim(q) \/ actor'[q].astray)
    <3>1. Recalled(q) /\ Aim(q) = m.at
      BY <1>2, <1>10 DEF Aim, Recalled
    <3>2. actor'[q].inbox # <<>> => 1 \in DOMAIN actor'[q].inbox
      BY <1>1, <1>2 DEF ActorRecs
    <3>3. actor'[q].inbox # <<>> => actor'[q].inbox[1].op # "from_cache"
      BY <1>4, <1>5, <3>2 DEF Kept, Boxed, Where
    <3>4. ~Recalled(q)' /\ Aim(q)' = Where(q)'
      BY <3>3 DEF Aim, Recalled
    <3>5. CASE fut = "failed" /\ actor[q].astray
      <4>1. actor'[q].astray
        BY <1>2, <3>5
      <4> QED BY <3>1, <3>4, <4>1
    <3>6. CASE ~(fut = "failed" /\ actor[q].astray)
      <4>1. Where(q)' = IF fut = "failed" /\ (m.op = "to_cache" \/ actor[q].astray)
                       THEN Where(q) ELSE m.at
        BY <1>2
      <4>2. ~(fut = "failed" /\ (m.op = "to_cache" \/ actor[q].astray))
        BY <1>10, <3>6
      <4>3. Where(q)' = m.at
        BY <4>1, <4>2
      <4> QED BY <3>1, <3>4, <4>3
    <3> QED BY <3>5, <3>6
  <2>3. Unseen(q)' <=> Unseen(q)
    BY <1>2, <1>3, <2>1 DEF Unseen
  <2>4. state'[q] # "none" /\ (state'[q] = "WARM" => Unseen(q)')
    BY <1>2, <1>3, <1>5, <2>3 DEF Kept
  <2>5. ASSUME NEW d \in hot', d.rid = q
        PROVE  /\ Housed(q, d)'
               /\ \/ state'[q] # "HOT"
                  \/ Alive(q)' /\ Aim(q)' = At(d)
                  \/ Alive(q)' /\ actor'[q].astray /\ ~Recalled(q)'
    <3>1. ~Starting(q) /\ actor[q].life # "lost"
      BY <1>2, <1>3, <1>9 DEF Starting, Alive
    <3>2. state'[q] # "HOT" \/ Aim(q) = At(d)
      <4>1. d \in hot /\ state'[q] = state[q]
        BY <1>3, <2>5
      <4>2. \/ state[q] # "HOT"
            \/ Starting(q)
            \/ Alive(q) /\ Aim(q) = At(d)
            \/ Alive(q) /\ actor[q].astray /\ ~Recalled(q)
            \/ actor[q].life = "lost"
            \/ Empty(q) /\ Failing(q)
        BY <1>5, <2>5, <4>1 DEF Kept
      <4>3. ~Empty(q)
        BY <1>5
      <4>4. CASE state[q] # "HOT"
        BY <4>1, <4>4
      <4> QED BY <2>2, <3>1, <4>2, <4>3, <4>4
    <3> QED BY <1>2, <1>3, <1>5, <1>7, <2>2, <2>5, <3>2 DEF Kept
  <2>6. ASSUME NEW w \in warm', w.rid = q
        PROVE  Housed(q, w)' /\ At(w) = Nowhere
    BY <1>3, <1>5, <1>7, <2>6 DEF Kept
  <2>7. Kept(q)'
    BY <1>2, <1>6, <1>9, <2>4, <2>5, <2>6 DEF Kept
  <2> QED BY <1>2, <1>8, <2>7, OtherActorsKept
<1>11. CASE m.op # "from_cache"
  <2>1. /\ m.mon = None /\ m.at = Nowhere /\ m.op = "to_cache"
        /\ Len(actor[q].inbox) = 1 /\ parking[q] = "pending"
    BY <1>2, <1>4, <1>5, <1>11 DEF Kept, Boxed, Letter, Messages, Where
  <2>2. actor'[q].inbox = <<>> /\ parking'[q] = fut
    BY <1>2, <1>4, <2>1
  <2>3. fut = "ok" => Empty(q)'
    BY <1>2, <2>1, <2>2 DEF Empty, Where
  <2>4. call.pc = "cache" /\ q \in call.work /\ q \in RidsOf(warm)
    BY <1>1, <2>1 DEF Parks
  <2>5. fut # "ok" => Unseen(q)'
    BY <1>3, <2>2, <2>4 DEF Unseen
  <2>6. \A d \in hot' : d.rid # q
    BY <1>1, <1>3, <2>4 DEF Distinct, RidsOf
  <2>7. state'[q] # "none"
    BY <1>2, <1>3, <1>5 DEF Kept
  <2>8. ASSUME NEW w \in warm', w.rid = q
        PROVE  Housed(q, w)' /\ At(w) = Nowhere
    BY <1>3, <1>5, <1>7, <2>8 DEF Kept
  <2>9. Kept(q)'
    BY <1>2, <1>6, <1>9, <2>3, <2>5, <2>6, <2>7, <2>8 DEF Kept
  <2> QED BY <1>2, <1>8, <2>9, OtherActorsKept
<1> QED BY <1>10, <1>11

Sized(c) == c.size = DefaultSize[c.model]

\* deploy() and scale() ask for models at their size.
LEMMA AskedBegins ==
    ASSUME IInv, Faithful, OneSize,
           (\E cfgs \in Deploys : Deploy(cfgs)) \/ (\E m \in Models : Scale(m))
    PROVE  call'.pc = "place" /\ \A k \in DOMAIN call'.todo : Sized(call'.todo[k])
<1>1. ASSUME NEW cfgs \in Deploys, Deploy(cfgs)
      PROVE  call'.pc = "place" /\ \A k \in DOMAIN call'.todo : Sized(call'.todo[k])
  <2>1. PICK turns \in Turns(cfgs) :
            call' = [Idle EXCEPT !.pc = "place", !.todo = turns,
                                 !.names = {c.model : c \in cfgs}]
    BY <1>1 DEF Deploy
  <2>2. call'.pc = "place" /\ call'.todo = turns
    BY <2>1 DEF Idle
  <2>3. \A k \in DOMAIN turns : turns[k] \in cfgs
    BY TurnsTyped
  <2> QED BY <2>2, <2>3 DEF OneSize, Sized
<1>2. ASSUME NEW m \in Models, Scale(m)
      PROVE  call'.pc = "place" /\ \A k \in DOMAIN call'.todo : Sized(call'.todo[k])
  <2> DEFINE live == {d \in hot : d.model = m}
             Like(size, k) == [model |-> m, size |-> size, gpus |-> k,
                               pinned |-> FALSE, n |-> 1]
  <2>1. PICK cfg \in IF live = {} THEN {Like(DefaultSize[m], 0)}
                     ELSE {Like(d.size, Cardinality(d.gpus)) : d \in live} :
            call' = [Idle EXCEPT !.pc = "place", !.todo = <<cfg>>, !.names = {m}]
    BY <1>2 DEF Scale
  <2>2. call'.pc = "place" /\ call'.todo = <<cfg>>
    BY <2>1 DEF Idle
  <2>3. Sized(cfg)
    <3>1. CASE live = {}
      BY <2>1, <3>1 DEF Sized
    <3>2. CASE live # {}
      <4>1. PICK d \in live : cfg = Like(d.size, Cardinality(d.gpus))
        BY <2>1, <3>2
      <4>2. d \in hot /\ d.rid \in Rids
        BY <4>1 DEF IInv, Typed, LedgerTyped, Deployments
      <4>3. d.size = DefaultSize[d.model]
        BY <4>2 DEF Faithful, Kept, Housed
      <4> QED BY <4>1, <4>3 DEF Sized
    <3> QED BY <3>1, <3>2
  <2> QED BY <2>2, <2>3
<1> QED BY <1>1, <1>2

\* The sizes of what is still to be placed.
LEMMA AskedKeeps ==
    ASSUME IInv, Faithful, [Next]_vars
    PROVE  Asked'
<1> SUFFICES ASSUME OneSize, call'.pc \in {"place", "room"}
             PROVE  /\ \A k \in DOMAIN call'.todo : Sized(call'.todo[k])
                    /\ call'.pc = "room" => Sized(call'.cand.cfg)
  BY DEF Asked, Sized, OneSize
<1>1. /\ CallTyped /\ LedgerTyped /\ Launching /\ call.todo \in Seq(Configs)
      /\ call \in CallRecs /\ Placing
  BY DEF IInv, Typed, CallTyped, CallRecs
<1>2. /\ call.pc \in {"place", "room"} => \A k \in DOMAIN call.todo : Sized(call.todo[k])
      /\ call.pc = "room" => Sized(call.cand.cfg)
  BY DEF Faithful, Asked, Sized
<1>3. CASE call' = call
  BY <1>2, <1>3
<1>4. CASE (\E cfgs \in Deploys : Deploy(cfgs)) \/ (\E m \in Models : Scale(m))
  BY <1>4, AskedBegins
<1>5. CASE Choose
  <2>1. PICK c \in Best(Head(call.todo)) :
            call' = [call EXCEPT !.pc = "room", !.cand = c,
                                 !.work = {d.rid : d \in c.victims}]
    BY <1>5 DEF Choose
  <2>2. Head(call.todo) \in Configs /\ Head(call.todo) = call.todo[1]
        /\ 1 \in DOMAIN call.todo /\ call.pc = "place"
    BY <1>1, <1>5 DEF Choose
  <2>3. c.cfg = Head(call.todo)
    BY <1>1, <2>2, BestFits
  <2>4. call'.todo = call.todo /\ call'.cand = c
    BY <1>1, <2>1 DEF CallRecs
  <2> QED BY <1>2, <2>2, <2>3, <2>4
<1>6. CASE CantAccommodate
  <2>1. /\ call'.todo = Tail(call.todo) /\ call'.pc = "place" /\ call.pc = "place"
        /\ call.todo # <<>>
    BY <1>1, <1>6 DEF CantAccommodate, CallRecs
  <2>2. \A k \in DOMAIN Tail(call.todo) : Alike(Tail(call.todo)[k], call.todo)
    BY <1>1, <2>1, TurnTakenTyped DEF Placing
  <2> QED BY <1>2, <2>1, <2>2 DEF Alike, Sized
<1>7. ASSUME NEW q \in Rids, Placed(q)
      PROVE  call'.pc = "place" /\ \A k \in DOMAIN call'.todo : Sized(call'.todo[k])
  <2>1. /\ call'.todo = TurnTaken(call.todo) /\ call'.pc = "place" /\ call.pc = "room"
        /\ call.todo # <<>>
    BY <1>1, <1>7 DEF Placed, CallRecs, Placing
  <2>2. \A k \in DOMAIN TurnTaken(call.todo) : Alike(TurnTaken(call.todo)[k], call.todo)
    BY <1>1, <2>1, TurnTakenTyped DEF Placing
  <2> QED BY <1>2, <2>1, <2>2 DEF Alike, Sized
<1>8. ASSUME NEW d, MakeRoom(d)
      PROVE  call'.todo = call.todo /\ call'.pc = "room" /\ call'.cand = call.cand
             /\ call.pc = "room"
  BY <1>1, <1>8 DEF MakeRoom, CallRecs
<1>9. \/ call' = call \/ Choose \/ CantAccommodate
      \/ (\E cfgs \in Deploys : Deploy(cfgs)) \/ (\E m \in Models : Scale(m))
      \/ \E q \in Rids : Placed(q)
      \/ \E d \in hot \cup warm : MakeRoom(d)
  <2>1. call \in [pc : Pcs, names : SUBSET Models, todo : Seq(Configs),
             cand : Cands \cup {None}, work : SUBSET Rids,
             launch : SUBSET Launches, change : BOOLEAN]
    BY <1>1 DEF CallRecs
  <2>2. ~(PlacedAll \/ Drained \/ Build \/ CachedAll \/ Applied)
    <3>1. ~PlacedAll
      BY <2>1 DEF PlacedAll, Idle
    <3>2. ~Drained /\ ~CachedAll /\ ~Applied
      <4>1. Drained => call'.pc = "apply"
        BY <2>1 DEF Drained
      <4>2. CachedAll => call'.pc = "launch"
        BY <2>1 DEF CachedAll
      <4>3. Applied => call'.pc = "idle"
        BY DEF Applied, Idle
      <4> QED BY <4>1, <4>2, <4>3
    <3>3. ~Build
      <4>1. ASSUME Build PROVE call'.pc = "cache"
        BY <2>1, <4>1 DEF Build
      <4> QED BY <4>1
    <3> QED BY <3>1, <3>2, <3>3
  <2>3. \A d : ~(Drain(d) /\ call' # call) /\ ~CacheFails(d)
    BY <2>1 DEF Drain, CacheFails
  <2>4. \A q : ~Cached(q)
    BY <2>1 DEF Cached
  <2>5. \A l : ~(Restore(l) \/ RestoreFails(l) \/ Create(l) \/ CreateFails(l))
    BY <2>1 DEF Restore, RestoreFails, Create, CreateFails
  <2>6. \A m : ~EvictAll(m)
    BY DEF EvictAll, Idle
  <2>7. \A d : ~EvictOne(d)
    BY DEF EvictOne, Idle
  <2>8. CASE ServeCall
    BY <2>2, <2>3, <2>4, <2>5, <2>8 DEF ServeCall
  <2>9. CASE ~ServeCall
    BY <2>6, <2>7, <2>9 DEF Next, vars, Deployed, DeployFails, NodeJoins, NodeLeaves, Ages,
       ActorStep, Loads, Moves, LoadFails, MoveFails, Restarts, Dies, Dead
  <2> QED BY <2>8, <2>9
<1>10. CASE \E q \in Rids : Placed(q)
  BY <1>7, <1>10
<1>11. CASE \E d \in hot \cup warm : MakeRoom(d)
  <2>1. PICK d \in hot \cup warm : MakeRoom(d)
    BY <1>11
  <2>2. /\ call'.todo = call.todo /\ call'.pc = "room" /\ call'.cand = call.cand
        /\ call.pc = "room"
    BY <1>8, <2>1
  <2>3. \A k \in DOMAIN call'.todo : Sized(call'.todo[k])
    BY <1>2, <2>2
  <2>4. Sized(call'.cand.cfg)
    <3>1. Sized(call.cand.cfg)
      BY <1>2, <2>2
    <3>2. call'.cand.cfg = call.cand.cfg
      BY <2>2
    <3> QED BY <3>1, <3>2 DEF Sized
  <2> QED BY <2>3, <2>4
<1> QED BY <1>3, <1>4, <1>5, <1>6, <1>9, <1>10, <1>11

\* The steps of the call that change neither lists nor actors.
LEMMA QuietCallsKept ==
    ASSUME IInv, Faithful,
           \/ \E cfgs \in Deploys : Deploy(cfgs)
           \/ \E m \in Models : Scale(m) \/ EvictAll(m)
           \/ Choose \/ CantAccommodate \/ PlacedAll \/ Drained
           \/ CachedAll \/ Applied
    PROVE  \A r \in Rids : Kept(r)'
<1>1. call \in CallRecs /\ Launching
  BY DEF IInv, Typed, CallTyped
<1>2. /\ UNCHANGED <<ledger, state, mon, parking, actor>>
      /\ call.pc = "cache" => call.work = {}
  BY DEF Deploy, Scale, EvictAll, Choose, CantAccommodate, PlacedAll, Drained,
         CachedAll, Applied
<1>3. call'.launch = call.launch
  <2>1. Idle.launch = {}
    BY DEF Idle
  <2>2. (\E cfgs \in Deploys : Deploy(cfgs)) => call'.launch = call.launch
    BY <1>1 DEF Deploy, Launching, Idle
  <2>3. (\E m \in Models : Scale(m) \/ EvictAll(m)) => call'.launch = call.launch
    BY <1>1 DEF Scale, EvictAll, Launching, Idle
  <2>4. Choose \/ CantAccommodate \/ Drained \/ CachedAll => call'.launch = call.launch
    BY <1>1 DEF Choose, CantAccommodate, Drained, CachedAll, CallRecs
  <2>5. PlacedAll => call'.launch = call.launch
    BY <1>1, <2>1 DEF PlacedAll, CallRecs, Launching
  <2>6. Applied => call'.launch = call.launch
    BY <2>1 DEF Applied
  <2> QED BY <2>2, <2>3, <2>4, <2>5, <2>6
<1> QED BY <1>2, <1>3, CallKeepsKept

\* The steps that take replicas off the GPUs.
LEMMA EvictionsKept ==
    ASSUME IInv, Faithful, NEW d \in hot \cup warm, MakeRoom(d) \/ EvictOne(d) \/ Drain(d)
    PROVE  \A r \in Rids : Kept(r)'
<1>1. /\ LedgerTyped /\ Distinct /\ Placing /\ Applies /\ Launching /\ call \in CallRecs
  BY DEF IInv, Typed, CallTyped
<1>2. PICK names : Evict(d, names) \/ Purge(d)
  BY DEF MakeRoom, EvictOne, Drain
<1>3. /\ UNCHANGED <<state, mon, parking, actor>>
      /\ call.pc # "cache" /\ call.launch = {} /\ call'.launch = {}
  BY <1>1 DEF MakeRoom, EvictOne, Drain, Launching, Idle, CallRecs
<1>4. d \in hot => state[d.rid] = "HOT"
  <2>1. CASE MakeRoom(d)
    BY <1>1, <2>1, VictimsMayGo DEF MakeRoom
  <2>2. CASE EvictOne(d) \/ Drain(d)
    BY <1>1, <2>2 DEF EvictOne, Drain, Applies, Changing
  <2> QED BY <2>1, <2>2
<1> QED BY <1>1, <1>2, <1>3, <1>4, EvictKeepsKept

\* Every step keeps what the records say of the actors.
LEMMA KeptKeeps ==
    ASSUME IInv, Faithful, [Next]_vars
    PROVE  \A r \in Rids : Kept(r)'
<1>1. CASE ServeCall
  <2>1. CASE Choose \/ CantAccommodate \/ PlacedAll \/ Drained \/ CachedAll \/ Applied
    BY <2>1, QuietCallsKept
  <2>2. CASE \E d \in hot \cup warm : MakeRoom(d) \/ Drain(d) \/ CacheFails(d)
    BY <2>2, EvictionsKept, CacheFailsKept
  <2>3. CASE \E r \in Rids : Placed(r) \/ Cached(r)
    BY <2>3, PlacedKeepsKept, CachedKept
  <2>4. CASE Build
    BY <2>4, BuildKept
  <2>5. CASE \E l \in call.launch : \/ Restore(l) \/ RestoreFails(l)
                                     \/ Create(l) \/ CreateFails(l)
    BY <2>5, RestoreKept, LaunchFailsKept, CreateKept
  <2> QED BY <1>1, <2>1, <2>2, <2>3, <2>4, <2>5 DEF ServeCall
<1>2. CASE \/ \E cfgs \in Deploys : Deploy(cfgs)
           \/ \E m \in Models : Scale(m) \/ EvictAll(m)
  BY <1>2, QuietCallsKept
<1>3. CASE \E d \in hot \cup warm : EvictOne(d)
  BY <1>3, EvictionsKept
<1>4. CASE \E i \in Mons : Deployed(i) \/ DeployFails(i)
  BY <1>4, OthersKept, DeployFailsKept
<1>5. CASE \E n \in Nodes : NodeJoins(n) \/ NodeLeaves(n)
  BY <1>5, OthersKept, NodeLeavesKept
<1>6. ASSUME NEW r \in Rids, \/ Ages(r) \/ ActorStep(r) \/ LoadFails(r)
                             \/ MoveFails(r) \/ Restarts(r) \/ Dies(r)
      PROVE  \A q \in Rids : Kept(q)'
  <2>1. CASE Ages(r)
    BY <2>1, OthersKept
  <2>2. CASE ActorStep(r) \/ MoveFails(r)
    BY <2>2, LoadsKept, AnswersKept DEF ActorStep
  <2>3. CASE LoadFails(r) \/ Dies(r)
    BY <2>3, DeadKept DEF LoadFails, Dies, Alive
  <2>4. CASE Restarts(r)
    BY <2>4, RestartsKept
  <2> QED BY <1>6, <2>1, <2>2, <2>3, <2>4
<1>7. CASE UNCHANGED vars
  BY <1>7, OthersKept
<1> QED BY <1>1, <1>2, <1>3, <1>4, <1>5, <1>6, <1>7 DEF Next

\* Nothing is listed or alive at the start.
LEMMA InitFaithful == Init => Faithful
<1> SUFFICES ASSUME Init PROVE Faithful
  OBVIOUS
<1>1. /\ hot = {} /\ warm = {} /\ state = [r \in Rids |-> "none"]
      /\ call.pc = "idle" /\ call.launch = {} /\ actor = [r \in Rids |-> NoActor]
  BY DEF Init, Idle
<1>2. \A r \in Rids : ~Alive(r) /\ Empty(r) /\ Boxed(r) /\ state[r] = "none"
  BY <1>1 DEF NoActor, Alive, Empty, Boxed, Where
<1> QED BY <1>1, <1>2 DEF Faithful, Kept, Asked

\* The records say of the actors what is so.
LEMMA InductiveFaithful == Spec => [](IInv /\ Faithful)
<1>1. Init => IInv /\ Faithful
  BY InitInv, InitFaithful
<1>2. IInv /\ Faithful /\ [Next]_vars => (IInv /\ Faithful)'
  BY NextKeeps, KeptKeeps, AskedKeeps DEF Faithful
<1> QED BY <1>1, <1>2, PTL DEF Spec

\* Between calls, once its monitor is through, a HOT replica has an actor with
\* its weights on the GPUs that are booked for it, at its size, and a WARM one an
\* actor with none on any, or the actor is astray (controller.py:341-465, 758-761).
THEOREM RecordsAgree ==
    ASSUME OneSize
    PROVE  Spec => []RecordsAndActorsAgree
<1>1. IInv /\ Faithful => RecordsMatchActors
  <2> SUFFICES ASSUME IInv, Faithful, call.pc = "idle", NEW d \in hot \cup warm,
                      \A i \in Mons : ~(mon[i] # None /\ mon[i].dep.rid = d.rid),
                      actor[d.rid].life # "lost"
               PROVE  /\ Alive(d.rid)
                      /\ actor[d.rid].at = At(d) \/ actor[d.rid].astray
                      /\ actor[d.rid].size = d.size
    BY DEF RecordsMatchActors
  <2>1. /\ d.rid \in Rids /\ ActorsTyped /\ Applies /\ Launching /\ Posted /\ Parks
        /\ Distinct
    BY DEF IInv, Typed, LedgerTyped, Deployments
  <2>2. Kept(d.rid) /\ ~Unseen(d.rid) /\ ~Starting(d.rid) /\ ~Failing(d.rid)
    BY <2>1 DEF Faithful, Unseen, Starting, Failing, Watched, Launching
  <2>3. actor[d.rid].inbox = <<>>
    <3>1. \A k \in DOMAIN actor[d.rid].inbox : Letter(d.rid, k)
      BY <2>1 DEF Posted
    <3>2. parking[d.rid] # "pending"
      BY <2>1 DEF Parks
    <3>3. \A k \in DOMAIN actor[d.rid].inbox : actor[d.rid].inbox[k] \in Messages
      BY <2>1 DEF ActorsTyped, ActorRecs
    <3>4. \A k \in DOMAIN actor[d.rid].inbox : FALSE
      <4> SUFFICES ASSUME NEW k \in DOMAIN actor[d.rid].inbox PROVE FALSE
        OBVIOUS
      <4>1. actor[d.rid].inbox[k].mon # None
        BY <3>1, <3>2 DEF Letter
      <4>2. actor[d.rid].inbox[k].mon \in Mons
        BY <3>3, <4>1 DEF Messages
      <4>3. Watched(actor[d.rid].inbox[k].mon, d.rid)
        BY <3>1, <4>1 DEF Letter
      <4> QED BY <4>2, <4>3 DEF Watched
    <3>5. PICK box \in Seq(Messages) : box = actor[d.rid].inbox
      BY <2>1 DEF ActorsTyped, ActorRecs
    <3>6. box # <<>> => 1 \in DOMAIN box
      OBVIOUS
    <3> QED BY <3>4, <3>5, <3>6
  <2>4. Aim(d.rid) = Where(d.rid)
    BY <2>3 DEF Aim, Recalled, Where
  <2>5. CASE d \in hot
    <3>1. state[d.rid] = "HOT"
      BY <2>1, <2>5 DEF Applies, Changing
    <3> QED BY <2>2, <2>4, <2>5, <3>1 DEF Kept, Housed, Where
  <2>6. CASE d \in warm
    <3>1. state[d.rid] = "WARM"
      BY <2>1, <2>6 DEF Applies, Changing
    <3> QED BY <2>2, <2>6, <3>1 DEF Kept, Housed, Empty, Where
  <2> QED BY <2>5, <2>6
<1>2. Spec => [](NoLeakedActor /\ CachedIsInState /\ NoLostAnswer)
  BY NobodyIsForgotten
<1> QED BY <1>1, <1>2, InductiveFaithful, PTL DEF RecordsAndActorsAgree

-----------------------------------------------------------------------------
(* What the actors hold *)

held == [r \in Rids |-> actor[r].at.share]
aims == [r \in Rids |-> Aim(r).share]

\* Who holds memory of a GPU, and who does once from_cache() is served.
Holders(n, g) == {r \in Rids : /\ actor[r].node = n
                               /\ ~actor[r].astray
                               /\ g \in actor[r].at.gpus}
Aimed(n, g) == {r \in Rids : actor[r].node = n /\ g \in Aim(r).gpus}

\* Whatever is on the way to a GPU fits there.
Fits == \A n \in Nodes, g \in Gpus : Sum(aims, Aimed(n, g)) <= GpuMem

\* The sum of what replicas hold.
LEMMA HeldSum ==
    ASSUME NEW S, S \subseteq Rids, IsFiniteSet(S)
    PROVE  MapThenSumSet(LAMBDA r : actor[r].at.share, S) = Sum(held, S)
<1> DEFINE w == [r \in S |-> actor[r].at.share]
<1>1. \A s \in SUBSET S : \A f :
         (IF s = {} THEN 0 ELSE
             LET x == CHOOSE x \in s : TRUE IN actor[x].at.share + f[s \ {x}])
         = SumBody(w, f, s)
  BY DEF SumBody
<1> HIDE DEF w
<1>2. \A f : [s \in SUBSET S |-> (IF s = {} THEN 0 ELSE
                  LET x == CHOOSE x \in s : TRUE IN actor[x].at.share + f[s \ {x}])]
             = [s \in SUBSET S |-> SumBody(w, f, s)]
  BY <1>1
<1>3. (CHOOSE f : f = [s \in SUBSET S |-> (IF s = {} THEN 0 ELSE
                  LET x == CHOOSE x \in s : TRUE IN actor[x].at.share + f[s \ {x}])])
      = CHOOSE f : IsSum(w, S, f)
  BY <1>2, Zenon DEF IsSum
<1>4. MapThenSumSet(LAMBDA r : actor[r].at.share, S)
      = (CHOOSE f : f = [s \in SUBSET S |-> (IF s = {} THEN 0 ELSE
            LET x == CHOOSE x \in s : TRUE IN actor[x].at.share + f[s \ {x}])])[S]
  BY Zenon DEF MapThenSumSet, MapThenFoldSet
<1>5. MapThenSumSet(LAMBDA r : actor[r].at.share, S) = Sum(w, S)
  BY <1>3, <1>4 DEF Sum
<1>6. \A r \in S : w[r] = held[r]
  BY DEF w, held
<1> QED BY <1>5, <1>6, SumCong

Of(D, T) == {d \in D : d.rid \in T}

\* Replicas that each have a listing of their own hold no more than is listed.
LEMMA CoverSum ==
    ASSUME NEW R, IsFiniteSet(R), NEW v,
           NEW D, D \subseteq Deployments, IsFiniteSet(D),
           \A d, e \in D : d.rid = e.rid => d = e,
           \A r \in R : \E d \in D : d.rid = r /\ v[r] = d.share
    PROVE  Sum(v, R) <= Sum(shares, D)
<1> DEFINE G == {T \in SUBSET R : Sum(v, T) = Sum(shares, Of(D, T))}
<1>1. {} \in G
  <2>1. Of(D, {}) = {}
    BY DEF Of
  <2> QED BY <2>1, SumEmpty
<1>2. ASSUME NEW T \in SUBSET R, NEW x \in R, T \in G, x \notin T
      PROVE  T \cup {x} \in G
  <2>1. PICK d \in D : d.rid = x /\ v[x] = d.share
    OBVIOUS
  <2>2. Of(D, T \cup {x}) = Of(D, T) \cup {d} /\ d \notin Of(D, T)
    BY <1>2, <2>1 DEF Of
  <2>3. Of(D, T) \subseteq Deployments /\ IsFiniteSet(Of(D, T))
    BY FS_Subset DEF Of
  <2>4. Weighs(shares, Of(D, T)) /\ shares[d] = d.share /\ d.share \in Nat
    BY <2>1, <2>3, ReplicasWeigh DEF shares, Deployments
  <2>5. Sum(shares, Of(D, T) \cup {d}) = d.share + Sum(shares, Of(D, T))
    BY <2>2, <2>4, SumAdd
  <2>6. Weighs(v, T)
    <3>1. \A r \in R : v[r] \in Nat
      BY DEF Deployments
    <3> QED BY <3>1, FS_Subset DEF Weighs
  <2>7. Sum(v, T \cup {x}) = v[x] + Sum(v, T)
    BY <1>2, <2>1, <2>4, <2>6, SumAdd
  <2> QED BY <1>2, <2>1, <2>2, <2>5, <2>7
<1>3. R \in G
  <2> HIDE DEF G
  <2>1. \A T \in SUBSET R, x \in R : T \in G /\ x \notin T => T \cup {x} \in G
    BY <1>2
  <2> QED BY <1>1, <2>1, SubsetsInduct
<1>4. Sum(v, R) = Sum(shares, Of(D, R))
  BY <1>3
<1>5. Of(D, R) \in SUBSET D /\ Weighs(shares, D)
  BY ReplicasWeigh DEF Of
<1> QED BY <1>4, <1>5, SumPart

\* Whoever is to hold memory of a GPU is listed there.
Covered ==
    \A r \in Rids : Aim(r) # Nowhere =>
        \E d \in hot : d.rid = r /\ At(d) = Aim(r) /\ d.node = actor[r].node

\* apply() launches when who was parked has left the GPUs.
LEMMA LaunchesCovered ==
    ASSUME IInv, Faithful, call.pc = "launch"
    PROVE  Covered
<1> SUFFICES ASSUME NEW r \in Rids, Aim(r) # Nowhere
             PROVE  \E d \in hot : d.rid = r /\ At(d) = Aim(r) /\ d.node = actor[r].node
  BY DEF Covered
<1>1. /\ Owned /\ Applies /\ ActorsTyped
  BY DEF IInv, Typed
<1>2. Kept(r) /\ ~Unseen(r) /\ ~Empty(r)
  BY DEF Faithful, Unseen, Empty, Aim, Recalled, Where
<1>3. Alive(r) /\ actor[r].life # "lost"
  BY <1>2 DEF Kept, Alive
<1>4. r \in RidsOf(hot \cup warm)
  BY <1>1, <1>3 DEF Owned, Listed, Changing
<1>5. \A w \in warm : w.rid # r
  BY <1>1, <1>2 DEF Applies, Changing, Kept
<1>6. PICK d \in hot : d.rid = r
  BY <1>4, <1>5 DEF RidsOf
<1>7. state[r] = "HOT"
  BY <1>1, <1>6 DEF Applies, Changing
<1>8. ~Starting(r)
  BY <1>2, <1>3 DEF Kept, Starting
<1>9. ~(actor[r].astray /\ ~Recalled(r))
  BY DEF Aim, Where
<1> QED BY <1>2, <1>3, <1>6, <1>7, <1>8, <1>9 DEF Kept, Housed

\* What is listed fits.
LEMMA CoveredFits ==
    ASSUME IInv, Balanced, Bounded, Covered
    PROVE  Fits
<1> SUFFICES ASSUME NEW n \in Nodes, NEW g \in Gpus
             PROVE  Sum(aims, Aimed(n, g)) <= GpuMem
  BY DEF Fits
<1>1. LedgerTyped /\ Distinct /\ GpuMem \in Nat
  BY NodeAssumption DEF IInv, Typed
<1>2. IsFiniteSet(Aimed(n, g))
  BY NodeAssumption, FS_Subset DEF Aimed
<1>3. ASSUME NEW r \in Aimed(n, g)
      PROVE  \E d \in OnGpu(n, g) : d.rid = r /\ aims[r] = d.share
  <2>1. r \in Rids /\ actor[r].node = n /\ g \in Aim(r).gpus
    BY DEF Aimed
  <2>2. Aim(r) # Nowhere
    BY <2>1 DEF Nowhere
  <2>3. PICK d \in hot : d.rid = r /\ At(d) = Aim(r) /\ d.node = actor[r].node
    BY <2>1, <2>2 DEF Covered
  <2>4. d.gpus = Aim(r).gpus /\ d.share = Aim(r).share
    BY <2>3 DEF At
  <2>5. d \in OnGpu(n, g)
    BY <2>1, <2>3, <2>4 DEF OnGpu
  <2> QED BY <2>1, <2>3, <2>4, <2>5 DEF aims
<1>4. CASE n \in up
  <2>1. OnGpu(n, g) \subseteq Deployments /\ IsFiniteSet(OnGpu(n, g))
    BY <1>1, FS_Subset DEF OnGpu, LedgerTyped
  <2>2. \A d, e \in OnGpu(n, g) : d.rid = e.rid => d = e
    BY <1>1 DEF OnGpu, Distinct
  <2>3. Sum(aims, Aimed(n, g)) <= Sum(shares, OnGpu(n, g))
    BY <1>2, <1>3, <2>1, <2>2, CoverSum
  <2>4. Sum(shares, OnGpu(n, g)) \in Nat
    BY <2>1, ReplicasWeigh
  <2>5. avail[n][g] = GpuMem - Sum(shares, OnGpu(n, g)) /\ avail[n][g] \in 0..GpuMem
    BY <1>1, <1>4 DEF Balanced, Bounded
  <2>6. Sum(aims, Aimed(n, g)) \in Nat
    <3>1. \A r \in Aimed(n, g) : aims[r] \in Nat
      BY <1>3, <2>1 DEF Deployments
    <3> QED BY <1>2, <3>1, SumNat DEF Weighs
  <2> QED BY <1>1, <2>3, <2>4, <2>5, <2>6
<1>5. CASE n \notin up
  <2>1. OnGpu(n, g) = {}
    BY <1>1, <1>5 DEF OnGpu, Distinct
  <2>2. Aimed(n, g) = {}
    BY <1>3, <2>1
  <2> QED BY <1>1, <2>2, SumEmpty
<1> QED BY <1>4, <1>5

\* The weights of r do not go anywhere they were not to go before.
Retreats(r) ==
    \/ Aim(r)' = Nowhere
    \/ Aim(r)' = Aim(r) /\ actor'[r].node = actor[r].node

\* What they are to take is memory on GPUs.
LEMMA AimsTyped ==
    ASSUME ActorsTyped, NEW r \in Rids
    PROVE  Aim(r) \in Holdings /\ aims[r] \in Nat
<1>1. actor[r] \in ActorRecs
  BY DEF ActorsTyped
<1>2. actor[r].inbox # <<>> => actor[r].inbox[1] \in Messages
  BY <1>1 DEF ActorRecs
<1>3. Aim(r) \in Holdings
  BY <1>1, <1>2 DEF Aim, Recalled, ActorRecs, Messages, Where, Nowhere, Holdings
<1> QED BY <1>3 DEF aims, Holdings

\* What fits goes on fitting.
LEMMA FitsShrinks ==
    ASSUME ActorsTyped, Fits, \A r \in Rids : Retreats(r)
    PROVE  Fits'
<1> SUFFICES ASSUME NEW n \in Nodes, NEW g \in Gpus
             PROVE  Sum(aims', Aimed(n, g)') <= GpuMem
  BY DEF Fits
<1>1. Aimed(n, g)' \in SUBSET Aimed(n, g) /\ \A r \in Aimed(n, g)' : aims'[r] = aims[r]
  <2> SUFFICES ASSUME NEW r \in Aimed(n, g)'
               PROVE  r \in Aimed(n, g) /\ aims'[r] = aims[r]
    OBVIOUS
  <2>1. r \in Rids /\ actor'[r].node = n /\ g \in Aim(r)'.gpus
    BY DEF Aimed
  <2>2. Aim(r)' = Aim(r) /\ actor'[r].node = actor[r].node
    BY <2>1 DEF Retreats, Nowhere
  <2> QED BY <2>1, <2>2 DEF Aimed, aims
<1>2. IsFiniteSet(Aimed(n, g)) /\ IsFiniteSet(Aimed(n, g)')
  BY <1>1, NodeAssumption, FS_Subset DEF Aimed
<1>3. Weighs(aims, Aimed(n, g))
  BY <1>2, AimsTyped DEF Weighs, Aimed
<1>4. Sum(aims', Aimed(n, g)') = Sum(aims, Aimed(n, g)')
  BY <1>1, <1>2, SumCong
<1>5. Sum(aims, Aimed(n, g)') <= Sum(aims, Aimed(n, g))
  BY <1>1, <1>3, SumPart
<1>6. Sum(aims, Aimed(n, g)') \in Nat /\ Sum(aims, Aimed(n, g)) \in Nat
  <2>1. Weighs(aims, Aimed(n, g)')
    BY <1>1, <1>2, <1>3 DEF Weighs
  <2> QED BY <1>3, <2>1, SumNat
<1> QED BY <1>4, <1>5, <1>6, NodeAssumption DEF Fits

\* from_cache() goes where it was sent, to_cache() goes off the GPUs.
LEMMA AnswersRetreat ==
    ASSUME IInv, Faithful, NEW q \in Rids, Moves(q) \/ MoveFails(q)
    PROVE  \A r \in Rids : Retreats(r)
<1>1. ActorsTyped /\ actor[q] \in ActorRecs
  BY DEF IInv, Typed, ActorsTyped
<1>2. PICK m \in Messages, fut \in {"ok", "failed"} :
              /\ actor[q].inbox # <<>> /\ m = actor[q].inbox[1]
              /\ Letter(q, 1)
              /\ actor'[q].inbox = Tail(actor[q].inbox)
              /\ actor'[q].node = actor[q].node
              /\ actor'[q].astray = (actor[q].astray /\ fut = "failed")
              /\ Where(q)' = IF fut = "failed" /\ (m.op = "to_cache" \/ actor[q].astray)
                             THEN Where(q) ELSE m.at
              /\ \A r \in Rids : r # q => actor'[r] = actor[r]
  BY AnswerMoves
<1>3. /\ 1 \in DOMAIN actor[q].inbox
      /\ actor'[q].inbox # <<>> => /\ 2 \in DOMAIN actor[q].inbox
                                   /\ actor'[q].inbox[1] = actor[q].inbox[2]
  BY <1>1, <1>2 DEF ActorRecs
<1>4. Boxed(q)
  BY DEF Faithful, Kept
<1>5. actor'[q].inbox # <<>> => actor'[q].inbox[1].op # "from_cache"
  BY <1>3, <1>4 DEF Boxed, Where
<1>6. Aim(q)' = Where(q)'
  BY <1>5 DEF Aim, Recalled, Where
<1>7. CASE m.op = "from_cache"
  <2>1. Aim(q) = m.at /\ Where(q) = Nowhere
    BY <1>2, <1>3, <1>4, <1>7 DEF Aim, Recalled, Boxed, Where
  <2>2. Retreats(q)
    BY <1>2, <1>6, <1>7, <2>1 DEF Retreats
  <2> QED BY <1>2, <2>2 DEF Retreats, Aim, Recalled, Where
<1>8. CASE m.op # "from_cache"
  <2>1. Aim(q) = Where(q) /\ m.at = Nowhere
    BY <1>2, <1>3, <1>4, <1>8 DEF Aim, Recalled, Boxed, Where
  <2>2. Retreats(q)
    BY <1>2, <1>6, <2>1 DEF Retreats
  <2> QED BY <1>2, <2>2 DEF Retreats, Aim, Recalled, Where
<1> QED BY <1>7, <1>8

\* Who is deleted holds nothing.
LEMMA GoneRetreats ==
    ASSUME NEW r, NEW life, actor'[r] = [NoActor EXCEPT !.life = life]
    PROVE  Retreats(r)
<1>1. actor'[r].inbox = <<>> /\ actor'[r].at = Nowhere
  BY DEF NoActor
<1> QED BY <1>1 DEF Retreats, Aim, Recalled, Where

\* Who keeps its weights and its calls goes nowhere else.
LEMMA SameRetreats ==
    ASSUME NEW r, Where(r)' = Where(r), actor'[r].node = actor[r].node,
           actor'[r].inbox = actor[r].inbox
    PROVE  Retreats(r)
  BY DEF Retreats, Aim, Recalled, Where

\* build() only asks to leave the GPUs.
LEMMA BuildRetreats ==
    ASSUME IInv, Build, NEW r \in Rids
    PROVE  Retreats(r)
<1>1. actor[r] \in ActorRecs
  BY DEF IInv, Typed, ActorsTyped
<1>2. PICK m : m = [op |-> "to_cache", at |-> Nowhere, mon |-> None]
  OBVIOUS
<1>3. \/ actor'[r] = [NoActor EXCEPT !.life = "gone"]
      \/ actor'[r] = [actor[r] EXCEPT !.inbox = Append(@, m)]
      \/ actor'[r] = actor[r]
  BY <1>2 DEF Build
<1>4. CASE actor'[r] = [actor[r] EXCEPT !.inbox = Append(@, m)]
  <2>1. /\ actor'[r].inbox = Append(actor[r].inbox, m)
        /\ Where(r)' = Where(r) /\ actor'[r].node = actor[r].node
    BY <1>1, <1>4 DEF ActorRecs, Where
  <2>2. PICK box \in Seq(Messages) : box = actor[r].inbox
    BY <1>1 DEF ActorRecs
  <2>3. IF box = <<>> THEN Append(box, m)[1] = m
        ELSE Append(box, m)[1] = box[1]
    BY <2>2
  <2>4. Append(box, m) # <<>>
    BY <2>2
  <2>5. Aim(r)' = Aim(r)
    BY <1>2, <2>1, <2>2, <2>3, <2>4 DEF Aim, Recalled, Where
  <2> QED BY <2>1, <2>5 DEF Retreats
<1> QED BY <1>3, <1>4, GoneRetreats, SameRetreats DEF Where

\* Nothing but a launch sends weights to a GPU.
LEMMA StepRetreats ==
    ASSUME IInv, Faithful, [Next]_vars,
           \A l \in call.launch : ~(Restore(l) \/ Create(l)), NEW r \in Rids
    PROVE  Retreats(r)
<1>1. ActorsTyped /\ actor[r] \in ActorRecs /\ LedgerTyped
  BY DEF IInv, Typed, ActorsTyped
<1>2. CASE \E q \in Rids : Moves(q) \/ MoveFails(q)
  BY <1>2, AnswersRetreat
<1>3. CASE Build
  BY <1>3, BuildRetreats
<1>4. CASE actor'[r] = actor[r]
  BY <1>4, SameRetreats DEF Where
<1>5. CASE \E life : actor'[r] = [NoActor EXCEPT !.life = life]
  BY <1>5, GoneRetreats
<1>6. ASSUME NEW q \in Rids, Loads(q) PROVE Retreats(r)
  <2>1. \/ actor'[r] = actor[r]
        \/ actor'[r] = [actor[r] EXCEPT !.life = "up"]
    BY <1>1, <1>6 DEF Loads, ActorsTyped
  <2>2. /\ Where(r)' = Where(r) /\ actor'[r].node = actor[r].node
        /\ actor'[r].inbox = actor[r].inbox
    BY <1>1, <2>1 DEF ActorRecs, Where
  <2> QED BY <2>2, SameRetreats
<1>7. ASSUME NEW q \in Rids, Restarts(q) PROVE Retreats(r)
  <2>1. CASE r # q
    <3>1. actor'[r] = actor[r]
      BY <1>1, <1>7, <2>1 DEF Restarts, ActorsTyped
    <3> QED BY <1>4, <3>1
  <2>2. CASE r = q
    <3>1. Boxed(q)
      BY DEF Faithful, Kept
    <3>2. /\ actor'[q].node = actor[q].node /\ Aim(q)' = Where(q)'
          /\ Where(q)' = Nowhere \/ Where(q)' = Where(q)
          /\ Aim(q) # Where(q) => Where(q) = Nowhere
      BY <1>1, <1>7, <3>1, RestartMoves
    <3> QED BY <2>2, <3>2 DEF Retreats
  <2> QED BY <2>1, <2>2
<1>8. CASE ServeCall
  <2>1. ASSUME NEW d \in hot \cup warm, CacheFails(d)
        PROVE  Retreats(r)
    <3>1. actor'[r] = actor[r] \/ actor'[r] = [NoActor EXCEPT !.life = "gone"]
      BY <1>1, <2>1 DEF CacheFails, ActorsTyped
    <3> QED BY <1>4, <1>5, <3>1
  <2>2. ASSUME NEW l \in call.launch, RestoreFails(l) \/ CreateFails(l)
        PROVE  Retreats(r)
    <3>1. actor'[r] = actor[r] \/ actor'[r] = [NoActor EXCEPT !.life = "gone"]
      BY <1>1, <2>2 DEF RestoreFails, CreateFails, Delete
    <3> QED BY <1>4, <1>5, <3>1
  <2>3. \/ actor' = actor \/ Build
        \/ \E d \in hot \cup warm : CacheFails(d)
        \/ \E l \in call.launch : RestoreFails(l) \/ CreateFails(l)
    BY <1>8 DEF ServeCall, Choose, CantAccommodate, PlacedAll, Drained, MakeRoom, Drain,
                Placed, Cached, CachedAll, Applied
  <2> QED BY <1>3, <1>4, <2>1, <2>2, <2>3
<1>9. CASE ~ServeCall
  <2>1. ASSUME NEW i \in Mons, DeployFails(i) PROVE Retreats(r)
    <3>1. actor'[r] = actor[r] \/ actor'[r] = [NoActor EXCEPT !.life = "gone"]
      BY <1>1, <2>1 DEF DeployFails, ActorsTyped
    <3> QED BY <1>4, <1>5, <3>1
  <2>2. ASSUME NEW n \in Nodes, NodeLeaves(n) PROVE Retreats(r)
    <3>1. actor'[r] = actor[r] \/ actor'[r] = [NoActor EXCEPT !.life = "gone"]
      BY <1>1, <2>2 DEF NodeLeaves, Delete
    <3> QED BY <1>4, <1>5, <3>1
  <2>3. ASSUME NEW q \in Rids, Dead(q) PROVE Retreats(r)
    <3>1. \/ actor'[r] = actor[r]
          \/ \E life : actor'[r] = [NoActor EXCEPT !.life = life]
      BY <1>1, <2>3 DEF Dead, ActorsTyped
    <3> QED BY <1>4, <1>5, <3>1
  <2>4. \/ actor' = actor
        \/ \E i \in Mons : DeployFails(i)
        \/ \E n \in Nodes : NodeLeaves(n)
        \/ \E q \in Rids : Dead(q) \/ Loads(q) \/ Moves(q) \/ MoveFails(q) \/ Restarts(q)
    BY <1>9 DEF Next, vars, Deploy, Scale, EvictAll, EvictOne, Deployed, NodeJoins, Ages,
                ActorStep, LoadFails, Dies
  <2> QED BY <1>2, <1>4, <1>6, <1>7, <2>1, <2>2, <2>3, <2>4
<1> QED BY <1>8, <1>9

\* While apply() launches, everything that is on the way fits.
LEMMA LaunchFits == IInv /\ Faithful /\ Exact /\ call.pc = "launch" => Fits
  BY LaunchesCovered, CoveredFits DEF Exact

\* Every step keeps what is on the way within the GPUs.
LEMMA FitsKeeps ==
    ASSUME IInv, Faithful, Exact, Fits, [Next]_vars, Prompt
    PROVE  Fits'
<1>1. CASE \E l \in call.launch : Restore(l) \/ Create(l)
  <2>1. IInv' /\ Exact' /\ Faithful'
    BY NextKeeps, ExactKeeps, KeptKeeps, AskedKeeps DEF Faithful
  <2>2. call'.pc = "launch"
    BY <1>1 DEF Restore, Create, IInv, Typed, CallTyped, CallRecs
  <2>3. (IInv /\ Faithful /\ Exact /\ call.pc = "launch" => Fits)'
    BY LaunchFits, PTL
  <2> QED BY <2>1, <2>2, <2>3
<1>2. CASE \A l \in call.launch : ~(Restore(l) \/ Create(l))
  <2>1. \A r \in Rids : Retreats(r)
    BY <1>2, StepRetreats
  <2> QED BY <2>1, FitsShrinks DEF IInv, Typed
<1> QED BY <1>1, <1>2

\* Nobody holds anything at the start.
LEMMA InitFits == Init => Fits
<1> SUFFICES ASSUME Init, NEW n \in Nodes, NEW g \in Gpus
             PROVE  Sum(aims, Aimed(n, g)) <= GpuMem
  BY DEF Fits
<1>1. \A r \in Rids : Aim(r) = Nowhere
  BY DEF Init, NoActor, Aim, Recalled, Where
<1>2. Aimed(n, g) = {}
  BY <1>1 DEF Aimed, Nowhere
<1> QED BY <1>2, SumEmpty, NodeAssumption

\* What is on the way fits throughout.
LEMMA InductiveFits == Spec /\ [][Prompt]_vars => [](IInv /\ Faithful /\ Exact /\ Fits)
<1>1. Init => IInv /\ Faithful /\ Exact /\ Fits
  BY InitInv, InitFaithful, InitExact, InitFits
<1>2. UNCHANGED vars => Prompt
  BY DEF Prompt, vars
<1>3. IInv /\ Faithful /\ Exact /\ Fits /\ [Next]_vars /\ [Prompt]_vars => Fits'
  BY <1>2, FitsKeeps
<1> QED BY <1>1, <1>3, InductiveFaithful, InductiveExact, PTL DEF Spec

\* The weights the actors really hold on a GPU never exceed it, at any point of
\* apply(): it waits for to_cache() before it sends from_cache() and creates
\* (controller.py:396-465).  Actors astray come on top.
THEOREM NeverOvercommitted == Spec /\ [][Prompt]_vars => []NoOvercommit
<1>1. IInv /\ Faithful /\ Fits => NoOvercommit
  <2> SUFFICES ASSUME IInv, Faithful, Fits, NEW n \in Nodes, NEW g \in Gpus
               PROVE  MapThenSumSet(LAMBDA r : actor[r].at.share, Holders(n, g)) <= GpuMem
    BY DEF NoOvercommit, Holders
  <2>1. ActorsTyped /\ GpuMem \in Nat
    BY NodeAssumption DEF IInv, Typed
  <2>2. /\ IsFiniteSet(Holders(n, g)) /\ IsFiniteSet(Aimed(n, g))
        /\ Holders(n, g) \subseteq Rids
    BY NodeAssumption, FS_Subset DEF Holders, Aimed
  <2>3. ASSUME NEW r \in Holders(n, g)
        PROVE  r \in Aimed(n, g) /\ held[r] = aims[r]
    <3>1. /\ r \in Rids /\ actor[r].node = n /\ g \in actor[r].at.gpus
          /\ Where(r) = actor[r].at
      BY DEF Holders, Where
    <3>2. Where(r) # Nowhere
      BY <3>1 DEF Nowhere
    <3>3. actor[r].inbox # <<>> => 1 \in DOMAIN actor[r].inbox
      BY <2>1, <3>1 DEF ActorsTyped, ActorRecs
    <3>4. Aim(r) = Where(r)
      BY <3>1, <3>2, <3>3 DEF Faithful, Kept, Boxed, Aim, Recalled, Where
    <3> QED BY <3>1, <3>4 DEF Aimed, held, aims
  <2>4. Holders(n, g) \in SUBSET Aimed(n, g)
    BY <2>3
  <2>5. Weighs(aims, Aimed(n, g)) /\ Weighs(aims, Holders(n, g))
    BY <2>1, <2>2, <2>4, AimsTyped DEF Weighs, Aimed
  <2>6. Sum(held, Holders(n, g)) = Sum(aims, Holders(n, g))
    BY <2>2, <2>3, SumCong
  <2>7. Sum(aims, Holders(n, g)) <= Sum(aims, Aimed(n, g))
    BY <2>4, <2>5, SumPart
  <2>8. Sum(aims, Holders(n, g)) \in Nat /\ Sum(aims, Aimed(n, g)) \in Nat
    BY <2>5, SumNat
  <2>9. Sum(aims, Aimed(n, g)) <= GpuMem
    BY DEF Fits
  <2>10. MapThenSumSet(LAMBDA r : actor[r].at.share, Holders(n, g)) = Sum(held, Holders(n, g))
    BY <2>2, HeldSum, Zenon
  <2>11. Sum(held, Holders(n, g)) <= GpuMem
    BY <2>1, <2>6, <2>7, <2>8, <2>9
  <2> QED BY <2>10, <2>11, Zenon
<1> QED BY <1>1, InductiveFits, PTL
=============================================================================
