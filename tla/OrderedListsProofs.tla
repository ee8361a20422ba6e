------------------------- MODULE OrderedListsProofs -------------------------
(***************************************************************************)
(* Lemmas about finite sets of numbers, sequences and ordered lists, which *)
(* the proofs about the components share.                                  *)
(***************************************************************************)
EXTENDS OrderedLists, Integers, FiniteSetTheorems, FunctionTheorems,
        SequenceTheorems, TLAPS

\* A finite set of integers has a least element: the one whose set of smaller
\* elements is minimal.
LEMMA LeastElement ==
  ASSUME NEW S \in SUBSET Int, IsFiniteSet(S), S # {}
  PROVE  \E x \in S : \A y \in S : x <= y
<1> DEFINE Below(x) == {y \in S : y < x}
           T == {Below(x) : x \in S}
<1>1. IsWellFoundedOn(StrictSubsetOrdering(S), SUBSET S)
  BY FS_StrictSubsetOrderingWellFounded, FS_FiniteSubsetsOfFinite
<1>2. T \subseteq SUBSET S /\ T # {}
  OBVIOUS
<1>3. PICK B \in T : \A C \in T : ~ (<<C, B>> \in StrictSubsetOrdering(S))
  <2> HIDE DEF T
  <2> QED
    BY <1>1, <1>2, WFMin
<1>4. PICK x \in S : B = Below(x)
  BY <1>3
<1>5. ASSUME NEW y \in S, y < x PROVE FALSE
  <2>1. Below(y) \subseteq Below(x)
    <3>1. ASSUME NEW z \in S, z < y PROVE z < x
      BY <1>5, <3>1
    <3> QED
      BY <3>1
  <2>2. y \in Below(x) /\ y \notin Below(y)
    BY <1>5
  <2>3. Below(y) # Below(x) /\ Below(y) \in SUBSET S /\ Below(x) \in SUBSET S
    BY <2>2
  <2>4. <<Below(y), Below(x)>> \in StrictSubsetOrdering(S)
    <3> HIDE DEF Below
    <3> QED
      BY <2>1, <2>3 DEF StrictSubsetOrdering
  <2> QED
    BY <2>4, <1>3, <1>4
<1>6. \A y \in S : x <= y
  BY <1>5
<1> QED
  BY <1>6

\* A set of positions has a greatest one.
LEMMA GreatestElement ==
  ASSUME NEW n \in Nat, NEW S \in SUBSET (0 .. n), S # {}
  PROVE  \E x \in S : \A y \in S : y <= x
<1> DEFINE T == {k \in 0 .. n : n - k \in S}
<1>1. T # {}
  <2>1. PICK x \in S : TRUE
    OBVIOUS
  <2>2. n - x \in 0 .. n /\ n - (n - x) = x
    OBVIOUS
  <2> QED
    BY <2>1, <2>2
<1>2. IsFiniteSet(T) /\ T \in SUBSET Int
  <2>1. IsFiniteSet(0 .. n)
    BY FS_Interval
  <2>2. T \in SUBSET (0 .. n)
    OBVIOUS
  <2> QED
    BY <2>1, <2>2, FS_Subset
<1>3. PICK k \in T : \A y \in T : k <= y
  <2> HIDE DEF T
  <2> QED
    BY <1>1, <1>2, LeastElement
<1>4. ASSUME NEW y \in S PROVE y <= n - k
  <2>1. n - y \in 0 .. n /\ n - (n - y) = y
    OBVIOUS
  <2>2. n - y \in T
    BY <2>1
  <2> QED
    BY <1>3, <2>1, <2>2
<1> QED
  BY <1>3, <1>4

\* A sequence that continues another by an element.
LEMMA IsAppend ==
  ASSUME NEW S, NEW q \in Seq(S), NEW r \in Seq(S), NEW e \in S,
         Len(r) = Len(q) + 1, \A k \in 1 .. Len(q) : r[k] = q[k],
         r[Len(q) + 1] = e
  PROVE  r = Append(q, e)
<1> DEFINE a == Append(q, e)
<1>1. /\ a \in Seq(S) /\ Len(a) = Len(q) + 1
      /\ \A k \in 1 .. Len(q) : a[k] = q[k]
      /\ a[Len(q) + 1] = e
  BY AppendProperties
<1>2. Len(q) \in Nat
  BY LenProperties
<1> HIDE DEF a
<1>3. ASSUME NEW k \in 1 .. Len(r) PROVE r[k] = a[k]
  <2>1. CASE k \in 1 .. Len(q)
    BY <1>1, <2>1
  <2>2. CASE k = Len(q) + 1
    BY <1>1, <2>2
  <2> QED
    BY <1>2, <2>1, <2>2
<1> QED
  BY <1>1, <1>3, SeqEqual DEF a

\* A sequence that lacks another's first element.
LEMMA IsTail ==
  ASSUME NEW S, NEW q \in Seq(S), NEW r \in Seq(S),
         Len(q) = Len(r) + 1, \A k \in 1 .. Len(r) : r[k] = q[k + 1]
  PROVE  r = Tail(q) /\ q # <<>> /\ Head(q) = q[1]
<1>1. Len(r) \in Nat /\ Len(q) \in Nat
  BY LenProperties
<1>2. q # <<>>
  BY <1>1
<1>3. /\ Tail(q) \in Seq(S) /\ Len(Tail(q)) = Len(r)
      /\ \A k \in 1 .. Len(r) : Tail(q)[k] = q[k + 1]
  BY <1>1, <1>2, HeadTailProperties
<1>4. r = Tail(q)
  BY <1>3, SeqEqual
<1> QED
  BY <1>2, <1>4


-----------------------------------------------------------------------------
(* OrderedList lists.                                                          *)

\* The keys are numbers, and no two elements have the same.
Keyed(W, key) ==
  /\ \A w \in W : key[w] \in Nat
  /\ \A v, w \in W : key[v] = key[w] => v = w

OrderedList(s, W, key) == s \in Seq(W) /\ Lists(s, W, key)

\* Both keys put the elements in the same order.
SameOrder(key, new, W) == \A v, w \in W : key[v] < key[w] => new[v] < new[w]

\* What a list says of its positions.
LEMMA ListFacts ==
  ASSUME NEW W, NEW key, Keyed(W, key), NEW s, OrderedList(s, W, key)
  PROVE  /\ DOMAIN s = 1 .. Len(s) /\ Len(s) \in Nat
         /\ s \in [1 .. Len(s) -> W]
         /\ \A k \in 1 .. Len(s) : s[k] \in W
         /\ \A w \in W : \E k \in 1 .. Len(s) : s[k] = w
         /\ \A j, k \in 1 .. Len(s) : j < k => key[s[j]] < key[s[k]]
         /\ IsFiniteSet(W) /\ Cardinality(W) = Len(s)
<1>1. /\ DOMAIN s = 1 .. Len(s) /\ Len(s) \in Nat
      /\ s \in [1 .. Len(s) -> W]
      /\ \A k \in 1 .. Len(s) : s[k] \in W
  BY LenProperties, ElementOfSeq DEF OrderedList
<1>2. /\ \A w \in W : \E k \in 1 .. Len(s) : s[k] = w
      /\ \A j, k \in 1 .. Len(s) : j < k => key[s[j]] < key[s[k]]
  BY <1>1 DEF OrderedList, Lists
<1>3. ASSUME NEW j \in 1 .. Len(s), NEW k \in 1 .. Len(s), s[j] = s[k]
      PROVE  j = k
  <2>1. /\ j < k => key[s[j]] < key[s[k]]
        /\ k < j => key[s[k]] < key[s[j]]
    BY <1>2
  <2>2. key[s[j]] \in Nat /\ key[s[k]] = key[s[j]]
    BY <1>1, <1>3 DEF Keyed
  <2>3. ~(j < k) /\ ~(k < j)
    BY <2>1, <2>2
  <2> QED
    BY <1>1, <2>3
<1>4. s \in Bijection(1 .. Len(s), W)
  BY <1>1, <1>2, <1>3, Fun_IsBij
<1>5. ExistsBijection(1 .. Len(s), W)
  BY <1>4 DEF ExistsBijection
<1>6. IsFiniteSet(W) /\ Cardinality(W) = Len(s)
  BY <1>1, <1>5, FS_CountingElements, FS_NatBijection
<1> QED
  BY <1>1, <1>2, <1>6

\* There is one list at most: where two differed first, each would have to
\* hold the other's element further on.
LEMMA ListUnique ==
  ASSUME NEW W, NEW key, Keyed(W, key),
         NEW s, NEW t, OrderedList(s, W, key), OrderedList(t, W, key)
  PROVE  s = t
<1>1. /\ Len(s) \in Nat /\ Len(t) = Len(s)
      /\ \A k \in 1 .. Len(s) : s[k] \in W /\ t[k] \in W
      /\ \A w \in W : /\ \E k \in 1 .. Len(s) : s[k] = w
                      /\ \E k \in 1 .. Len(s) : t[k] = w
      /\ \A j, k \in 1 .. Len(s) : j < k => /\ key[s[j]] < key[s[k]]
                                            /\ key[t[j]] < key[t[k]]
      /\ \A w \in W : key[w] \in Nat
  <2>1. /\ Len(s) \in Nat /\ Cardinality(W) = Len(s)
        /\ \A k \in 1 .. Len(s) : s[k] \in W
        /\ \A w \in W : \E k \in 1 .. Len(s) : s[k] = w
        /\ \A j, k \in 1 .. Len(s) : j < k => key[s[j]] < key[s[k]]
    BY ListFacts
  <2>2. /\ Cardinality(W) = Len(t)
        /\ \A k \in 1 .. Len(t) : t[k] \in W
        /\ \A w \in W : \E k \in 1 .. Len(t) : t[k] = w
        /\ \A j, k \in 1 .. Len(t) : j < k => key[t[j]] < key[t[k]]
    BY ListFacts
  <2>3. Len(t) = Len(s)
    BY <2>1, <2>2
  <2> QED
    BY <2>1, <2>2, <2>3 DEF Keyed
<1> DEFINE Differ == {k \in 1 .. Len(s) : s[k] # t[k]}
<1>2. Differ = {}
  <2> SUFFICES ASSUME Differ # {} PROVE FALSE
    OBVIOUS
  <2>1. PICK k \in Differ : \A y \in Differ : k <= y
    <3>1. IsFiniteSet(Differ) /\ Differ \in SUBSET Int
      <4>1. IsFiniteSet(1 .. Len(s)) /\ Differ \in SUBSET (1 .. Len(s))
        BY <1>1, FS_Interval
      <4>2. Differ \in SUBSET Int
        BY <1>1
      <4> HIDE DEF Differ
      <4>3. IsFiniteSet(Differ)
        BY <4>1, FS_Subset
      <4> QED
        BY <4>2, <4>3
    <3> HIDE DEF Differ
    <3> QED
      BY <3>1, LeastElement
  <2>2. /\ k \in 1 .. Len(s) /\ s[k] # t[k] /\ s[k] \in W /\ t[k] \in W
        /\ \A j \in 1 .. Len(s) : j < k => s[j] = t[j]
        /\ key[s[k]] \in Nat /\ key[t[k]] \in Nat
    <3>1. k \in 1 .. Len(s) /\ s[k] # t[k]
      BY <2>1
    <3>2. /\ s[k] \in W /\ t[k] \in W
          /\ key[s[k]] \in Nat /\ key[t[k]] \in Nat
      BY <1>1, <3>1
    <3>3. ASSUME NEW j \in 1 .. Len(s), j < k PROVE s[j] = t[j]
      <4>1. ~(k <= j)
        BY <1>1, <3>1, <3>3
      <4> QED
        BY <2>1, <4>1
    <3> QED
      BY <3>1, <3>2, <3>3
  <2> HIDE DEF Differ
  <2>3. PICK j \in 1 .. Len(s) : t[j] = s[k]
    BY <1>1, <2>2
  <2>4. PICK m \in 1 .. Len(s) : s[m] = t[k]
    BY <1>1, <2>2
  <2>5. j > k
    <3>1. j < k => key[s[k]] < key[s[k]]
      <4> SUFFICES ASSUME j < k PROVE key[s[k]] < key[s[k]]
        OBVIOUS
      <4>1. s[j] = s[k]
        BY <2>2, <2>3
      <4> QED
        BY <1>1, <2>2, <4>1
    <3>2. ~(key[s[k]] < key[s[k]])
      BY <2>2
    <3>3. j # k
      BY <2>2, <2>3
    <3> QED
      BY <2>2, <2>3, <3>1, <3>2, <3>3
  <2>6. m > k
    <3>1. m < k => key[t[k]] < key[t[k]]
      <4> SUFFICES ASSUME m < k PROVE key[t[k]] < key[t[k]]
        OBVIOUS
      <4>1. t[m] = t[k]
        BY <2>2, <2>4
      <4> QED
        BY <1>1, <2>2, <4>1
    <3>2. ~(key[t[k]] < key[t[k]])
      BY <2>2
    <3>3. m # k
      BY <2>2, <2>4
    <3> QED
      BY <2>2, <2>4, <3>1, <3>2, <3>3
  <2>7. key[t[k]] < key[s[k]] /\ key[s[k]] < key[t[k]]
    BY <1>1, <2>2, <2>3, <2>4, <2>5, <2>6
  <2> QED
    BY <2>2, <2>7
<1>3. \A k \in 1 .. Len(s) : s[k] = t[k]
  BY <1>2
<1> QED
  BY <1>1, <1>3, SeqEqual DEF OrderedList

\* An element with a greater key than all others goes to the end.
LEMMA ListAppended ==
  ASSUME NEW W, NEW key, Keyed(W, key), NEW s, OrderedList(s, W, key),
         NEW d, d \notin W, NEW V, V = W \cup {d}, NEW new,
         SameOrder(key, new, W),
         \A w \in W : new[w] < new[d]
  PROVE  OrderedList(Append(s, d), V, new)
<1> DEFINE t == Append(s, d)
<1>1. /\ DOMAIN s = 1 .. Len(s) /\ Len(s) \in Nat /\ s \in Seq(W)
      /\ \A k \in 1 .. Len(s) : s[k] \in W
      /\ \A w \in W : \E k \in 1 .. Len(s) : s[k] = w
      /\ \A j, k \in 1 .. Len(s) : j < k => key[s[j]] < key[s[k]]
  BY ListFacts DEF OrderedList
<1>2. s \in Seq(V)
  BY <1>1, SeqMonotonic
<1>3. /\ t \in Seq(V) /\ Len(t) = Len(s) + 1
      /\ \A k \in 1 .. Len(s) : t[k] = s[k]
      /\ t[Len(s) + 1] = d
  BY <1>2, AppendProperties
<1> HIDE DEF t
<1>4. DOMAIN t = 1 .. Len(s) + 1
  BY <1>3, LenProperties
<1>5. ASSUME NEW w \in V PROVE \E k \in DOMAIN t : t[k] = w
  <2>1. CASE w = d
    BY <1>1, <1>3, <1>4, <2>1
  <2>2. CASE w # d
    <3>1. PICK k \in 1 .. Len(s) : s[k] = w
      BY <1>1, <1>5, <2>2
    <3> QED
      BY <1>1, <1>3, <1>4, <3>1
  <2> QED
    BY <2>1, <2>2
<1>6. ASSUME NEW j \in DOMAIN t, NEW k \in DOMAIN t, j < k
      PROVE  new[t[j]] < new[t[k]]
  <2>1. j \in 1 .. Len(s) /\ t[j] = s[j] /\ s[j] \in W
    BY <1>1, <1>3, <1>4, <1>6
  <2>2. CASE k \in 1 .. Len(s)
    <3>1. t[k] = s[k] /\ s[k] \in W /\ key[s[j]] < key[s[k]]
      BY <1>1, <1>3, <1>6, <2>1, <2>2
    <3> QED
      BY <2>1, <3>1 DEF SameOrder
  <2>3. CASE k = Len(s) + 1
    BY <1>3, <2>1, <2>3
  <2> QED
    BY <1>1, <1>4, <2>2, <2>3
<1> QED
  BY <1>3, <1>5, <1>6 DEF OrderedList, Lists, t

\* The element with the least key is the first.
LEMMA ListTail ==
  ASSUME NEW W, NEW key, Keyed(W, key), NEW s, OrderedList(s, W, key),
         NEW d \in W, \A w \in W \ {d} : key[d] < key[w],
         NEW V, V = W \ {d}, NEW new,
         SameOrder(key, new, V)
  PROVE  s # <<>> /\ s[1] = d /\ OrderedList(Tail(s), V, new)
<1> DEFINE t == Tail(s)
<1>1. /\ DOMAIN s = 1 .. Len(s) /\ Len(s) \in Nat /\ s \in Seq(W)
      /\ \A k \in 1 .. Len(s) : s[k] \in W
      /\ \A w \in W : \E k \in 1 .. Len(s) : s[k] = w
      /\ \A j, k \in 1 .. Len(s) : j < k => key[s[j]] < key[s[k]]
      /\ \A w \in W : key[w] \in Nat
  BY ListFacts DEF OrderedList, Keyed
<1>2. Len(s) >= 1 /\ s[1] = d
  <2>1. PICK k \in 1 .. Len(s) : s[k] = d
    BY <1>1
  <2>2. 1 \in 1 .. Len(s)
    BY <1>1, <2>1
  <2>3. s[1] # d => FALSE
    <3> SUFFICES ASSUME s[1] # d PROVE FALSE
      OBVIOUS
    <3>1. 1 < k
      BY <1>1, <2>1
    <3>2. key[s[1]] < key[d] /\ key[d] < key[s[1]]
      BY <1>1, <2>1, <2>2, <3>1
    <3> QED
      BY <1>1, <2>2, <3>2
  <2> QED
    BY <1>1, <2>1, <2>3
<1>3. /\ s # <<>> /\ Len(t) = Len(s) - 1
      /\ \A k \in 1 .. Len(t) : t[k] = s[k + 1]
      /\ t \in Seq(W)
  <2>1. s # <<>>
    BY <1>2
  <2> QED
    BY <1>1, <2>1, HeadTailProperties
<1> HIDE DEF t
<1>4. DOMAIN t = 1 .. Len(t) /\ Len(t) \in Nat
  BY <1>3, LenProperties
<1>5. \A k \in 1 .. Len(t) : t[k] \in V
  <2> SUFFICES ASSUME NEW k \in 1 .. Len(t) PROVE t[k] \in V
    OBVIOUS
  <2>1. k + 1 \in 1 .. Len(s) /\ 1 \in 1 .. Len(s) /\ 1 < k + 1
    BY <1>1, <1>3, <1>4
  <2>2. key[s[1]] < key[s[k + 1]]
    BY <1>1, <2>1
  <2>3. s[k + 1] # d
    BY <1>1, <1>2, <2>1, <2>2
  <2> QED
    BY <1>1, <1>3, <2>1, <2>3
<1>6. t \in Seq(V)
  <2>1. t = [k \in 1 .. Len(t) |-> t[k]]
    <3>1. t \in [1 .. Len(t) -> W]
      BY <1>3, LenProperties
    <3> QED
      BY <3>1
  <2>2. [k \in 1 .. Len(t) |-> t[k]] \in Seq(V)
    BY <1>4, <1>5
  <2> QED
    BY <2>1, <2>2
<1>7. ASSUME NEW w \in V PROVE \E k \in DOMAIN t : t[k] = w
  <2>1. PICK k \in 1 .. Len(s) : s[k] = w
    BY <1>1, <1>7
  <2>2. k # 1
    BY <1>2, <1>7, <2>1
  <2>3. k - 1 \in 1 .. Len(t) /\ (k - 1) + 1 = k
    BY <1>1, <1>3, <2>1, <2>2
  <2>4. t[k - 1] = w
    BY <1>3, <2>1, <2>3
  <2> QED
    BY <1>4, <2>3, <2>4
<1>8. ASSUME NEW j \in DOMAIN t, NEW k \in DOMAIN t, j < k
      PROVE  new[t[j]] < new[t[k]]
  <2>0. j \in 1 .. Len(t) /\ k \in 1 .. Len(t)
    BY <1>4, <1>8
  <2>a. Len(s) \in Nat /\ Len(t) = Len(s) - 1
    BY <1>1, <1>3
  <2>1. /\ j + 1 \in 1 .. Len(s) /\ k + 1 \in 1 .. Len(s)
        /\ j + 1 < k + 1
    BY <1>8, <2>0, <2>a
  <2>2. key[t[j]] < key[t[k]]
    <3>1. t[j] = s[j + 1] /\ t[k] = s[k + 1]
      BY <1>3, <2>0
    <3> QED
      BY <1>1, <2>1, <3>1
  <2> QED
    BY <1>5, <2>0, <2>2 DEF SameOrder
<1> QED
  BY <1>2, <1>3, <1>6, <1>7, <1>8 DEF OrderedList, Lists, t

\* A finite set can be listed: the least set that could not would lack its
\* element with the greatest key.
LEMMA ListExists ==
  ASSUME NEW W, NEW key, Keyed(W, key), IsFiniteSet(W),
         NEW n \in Nat, \A w \in W : key[w] <= n
  PROVE  \E s : OrderedList(s, W, key)
<1> DEFINE Listable(V) == \E s : OrderedList(s, V, key)
           Bad == {Cardinality(V) : V \in {U \in SUBSET W : ~Listable(U)}}
<1>1. ASSUME NEW V \in SUBSET W
      PROVE  IsFiniteSet(V) /\ Cardinality(V) \in Nat /\ Keyed(V, key)
  BY FS_Subset, FS_CardinalityType DEF Keyed
<1>2. Bad = {}
  <2> SUFFICES ASSUME Bad # {} PROVE FALSE
    OBVIOUS
  <2>1. IsFiniteSet(Bad) /\ Bad \in SUBSET Int
    <3>1. Bad \in SUBSET Nat
      BY <1>1
    <3>2. Cardinality(W) \in Nat /\ \A c \in Bad : c <= Cardinality(W)
      BY FS_Subset, FS_CardinalityType
    <3> HIDE DEF Bad
    <3> QED
      BY <3>1, <3>2, FS_BoundedSetOfNaturals
  <2>2. PICK c \in Bad : \A e \in Bad : c <= e
    <3> HIDE DEF Bad
    <3> QED
      BY <2>1, LeastElement
  <2>3. PICK V \in SUBSET W : ~Listable(V) /\ Cardinality(V) = c
    BY <2>2
  <2>4. V # {}
    <3>1. OrderedList(<<>>, {}, key)
      BY DEF OrderedList, Lists
    <3> QED
      BY <2>3, <3>1
  <2> DEFINE K == {key[v] : v \in V}
  <2>5. PICK v \in V : \A w \in V : key[w] <= key[v]
    <3>1. K \in SUBSET (0 .. n) /\ K # {}
      BY <2>4 DEF Keyed
    <3>2. \E x \in K : \A y \in K : y <= x
      <4> HIDE DEF K
      <4> QED
        BY <3>1, GreatestElement
    <3> QED
      BY <3>2
  <2> DEFINE U == V \ {v}
  <2>6. /\ U \in SUBSET W /\ v \notin U /\ V = U \cup {v}
        /\ Cardinality(U) = c - 1 /\ c \in Nat
    <3>1. IsFiniteSet(V) /\ Cardinality(V) = c /\ c \in Nat
      BY <1>1, <2>3
    <3>2. U \in SUBSET W /\ v \notin U /\ V = U \cup {v}
      BY <2>5
    <3>3. Cardinality(V \ {v}) = Cardinality(V) - 1
      BY <2>5, <3>1, FS_RemoveElement
    <3> QED
      BY <3>1, <3>2, <3>3
  <2>7. Listable(U)
    <3>1. c - 1 \notin Bad
      <4> HIDE DEF Bad
      <4> QED
        BY <2>2, <2>6
    <3> HIDE DEF Listable, U
    <3> QED
      BY <2>6, <3>1
  <2>8. PICK s : OrderedList(s, U, key)
    BY <2>7
  <2>9. \A w \in U : key[w] < key[v]
    BY <2>5, <2>3 DEF Keyed
  <2>10. Keyed(U, key)
    BY <1>1, <2>6
  <2>a. SameOrder(key, key, U)
    BY DEF SameOrder
  <2> HIDE DEF U
  <2>11. OrderedList(Append(s, v), V, key)
    BY <2>6, <2>8, <2>9, <2>10, <2>a, ListAppended
  <2> QED
    BY <2>3, <2>11
<1>3. Listable(W)
  <2> HIDE DEF Listable
  <2> QED
    BY <1>2
<1> QED
  BY <1>3

-----------------------------------------------------------------------------
(* The values in the order of their keys.                                  *)

\* A set that can be listed.
Ranked(W, key) ==
  /\ IsFiniteSet(W)
  /\ Keyed(W, key)
  /\ \E n \in Nat : \A w \in W : key[w] <= n

\* The values are in S.
Values(val, W, S) == \A w \in W : val[w] \in S

\* They are the same.
SameValues(val, fresh, W) == \A w \in W : fresh[w] = val[w]

\* They are those of the list.
LEMMA OrderOfList ==
  ASSUME NEW W, NEW key, Keyed(W, key), NEW s, OrderedList(s, W, key),
         NEW S, NEW val, Values(val, W, S)
  PROVE  /\ InKeyOrder(W, key, val) = [k \in 1 .. Len(s) |-> val[s[k]]]
         /\ InKeyOrder(W, key, val) \in Seq(S)
         /\ Len(InKeyOrder(W, key, val)) = Len(s)
<1>1. /\ Len(s) \in Nat /\ Cardinality(W) = Len(s)
      /\ s \in [1 .. Len(s) -> W] /\ Lists(s, W, key)
      /\ \A k \in 1 .. Len(s) : s[k] \in W
  BY ListFacts DEF OrderedList
<1>2. Listing(W, key) = s
  <2>1. /\ Listing(W, key) \in [1 .. Len(s) -> W]
        /\ Lists(Listing(W, key), W, key)
    BY <1>1 DEF Listing
  <2>2. Listing(W, key) \in Seq(W)
    BY <1>1, <2>1
  <2> QED
    BY <2>1, <2>2, ListUnique DEF OrderedList
<1>3. InKeyOrder(W, key, val) = [k \in 1 .. Len(s) |-> val[s[k]]]
  BY <1>1, <1>2 DEF InKeyOrder
<1>4. \A k \in 1 .. Len(s) : val[s[k]] \in S
  BY <1>1 DEF Values
<1> QED
  BY <1>1, <1>3, <1>4

\* There are as many as elements.
LEMMA OrderLength ==
  ASSUME NEW W, NEW key, Ranked(W, key), NEW S, NEW val, Values(val, W, S)
  PROVE  /\ InKeyOrder(W, key, val) \in Seq(S)
         /\ Len(InKeyOrder(W, key, val)) = Cardinality(W)
<1>1. Keyed(W, key)
  BY DEF Ranked
<1>2. PICK s : OrderedList(s, W, key)
  BY ListExists DEF Ranked
<1>3. Cardinality(W) = Len(s)
  BY <1>1, <1>2, ListFacts
<1> QED
  BY <1>1, <1>2, <1>3, OrderOfList

\* A step that changes neither the set, the order nor the values.
LEMMA OrderKept ==
  ASSUME NEW W, NEW key, Ranked(W, key), NEW new, Ranked(W, new),
         SameOrder(key, new, W),
         NEW S, NEW val, Values(val, W, S),
         NEW fresh, Values(fresh, W, S), SameValues(val, fresh, W)
  PROVE  InKeyOrder(W, new, fresh) = InKeyOrder(W, key, val)
<1>1. Keyed(W, key) /\ Keyed(W, new)
  BY DEF Ranked
<1>2. PICK s : OrderedList(s, W, key)
  BY ListExists DEF Ranked
<1>3. /\ Len(s) \in Nat /\ DOMAIN s = 1 .. Len(s)
      /\ \A k \in 1 .. Len(s) : s[k] \in W
  BY <1>1, <1>2, ListFacts
<1>4. OrderedList(s, W, new)
  BY <1>2, <1>3 DEF OrderedList, Lists, SameOrder
<1>5. InKeyOrder(W, key, val) = [k \in 1 .. Len(s) |-> val[s[k]]]
  BY <1>1, <1>2, OrderOfList
<1>6. InKeyOrder(W, new, fresh) = [k \in 1 .. Len(s) |-> fresh[s[k]]]
  BY <1>1, <1>4, OrderOfList
<1>7. \A k \in 1 .. Len(s) : fresh[s[k]] = val[s[k]]
  BY <1>3 DEF SameValues
<1> QED
  BY <1>5, <1>6, <1>7

IsLonger(t, s, d) == t = Append(s, d)
IsShorter(t, s) == t = Tail(s)

\* The list grows by an element at its end.
LEMMA ValuesAppended ==
  ASSUME NEW W, NEW key, Keyed(W, key), NEW s, OrderedList(s, W, key),
         NEW V, NEW new, Keyed(V, new),
         NEW d, NEW t, IsLonger(t, s, d), OrderedList(t, V, new),
         NEW S, NEW val, Values(val, W, S),
         NEW fresh, Values(fresh, V, S), SameValues(val, fresh, W)
  PROVE  IsLonger(InKeyOrder(V, new, fresh), InKeyOrder(W, key, val), fresh[d])
<1> DEFINE q == InKeyOrder(W, key, val)
           r == InKeyOrder(V, new, fresh)
<1>1. /\ Len(s) \in Nat /\ s \in Seq(W)
      /\ \A k \in 1 .. Len(s) : s[k] \in W
  BY ListFacts DEF OrderedList
<1>2. /\ Len(t) = Len(s) + 1 /\ t[Len(s) + 1] = d
      /\ \A k \in 1 .. Len(s) : t[k] = s[k]
  BY <1>1, AppendProperties DEF IsLonger
<1>3. OrderedList(t, V, new)
  OBVIOUS
<1> HIDE DEF q, r
<1>4. /\ q = [k \in 1 .. Len(s) |-> val[s[k]]] /\ q \in Seq(S)
      /\ Len(q) = Len(s)
  BY OrderOfList DEF q
<1>5. /\ r = [k \in 1 .. Len(t) |-> fresh[t[k]]] /\ r \in Seq(S)
      /\ Len(r) = Len(t)
  BY <1>3, OrderOfList DEF r
<1>6. \A k \in 1 .. Len(q) : r[k] = q[k]
  BY <1>1, <1>2, <1>4, <1>5 DEF SameValues
<1>7. r[Len(q) + 1] = fresh[d] /\ Len(r) = Len(q) + 1
  BY <1>1, <1>2, <1>4, <1>5
<1>8. fresh[d] \in S
  <2>1. t[Len(t)] \in V
    BY <1>1, <1>2, <1>3, ListFacts
  <2> QED
    BY <1>2, <2>1 DEF Values
<1>9. r = Append(q, fresh[d])
  <2>1. PICK e \in S : e = fresh[d]
    BY <1>8
  <2>2. \A k \in 1 .. Len(q) : r[k] = q[k]
    BY <1>6
  <2>3. q \in Seq(S) /\ r \in Seq(S)
    BY <1>4, <1>5
  <2>4. Len(r) = Len(q) + 1 /\ r[Len(q) + 1] = e
    BY <1>7, <2>1
  <2>5. r = Append(q, e)
    BY <2>2, <2>3, <2>4, IsAppend
  <2> QED
    BY <2>1, <2>5
<1> QED
  BY <1>9 DEF q, r, IsLonger

\* The list loses its first element.
LEMMA ValuesTail ==
  ASSUME NEW W, NEW key, Keyed(W, key), NEW s, OrderedList(s, W, key), s # <<>>,
         NEW d, d = s[1], NEW t, IsShorter(t, s),
         NEW V, NEW new, Keyed(V, new), OrderedList(t, V, new),
         NEW S, NEW val, Values(val, W, S),
         NEW fresh, Values(fresh, V, S), SameValues(val, fresh, V)
  PROVE  /\ InKeyOrder(W, key, val) # <<>>
         /\ Head(InKeyOrder(W, key, val)) = val[d]
         /\ IsShorter(InKeyOrder(V, new, fresh), InKeyOrder(W, key, val))
<1> DEFINE q == InKeyOrder(W, key, val)
           r == InKeyOrder(V, new, fresh)
<1>1. Len(s) \in Nat /\ s \in Seq(W)
  BY ListFacts DEF OrderedList
<1>2. /\ Len(t) = Len(s) - 1 /\ Len(s) >= 1
      /\ \A k \in 1 .. Len(t) : t[k] = s[k + 1]
  BY <1>1, HeadTailProperties DEF IsShorter
<1>3. OrderedList(t, V, new)
  OBVIOUS
<1> HIDE DEF q, r
<1>4. /\ q = [k \in 1 .. Len(s) |-> val[s[k]]] /\ q \in Seq(S)
      /\ Len(q) = Len(s)
  BY OrderOfList DEF q
<1>5. /\ r = [k \in 1 .. Len(t) |-> fresh[t[k]]] /\ r \in Seq(S)
      /\ Len(r) = Len(t)
  BY <1>3, OrderOfList DEF r
<1>6. \A k \in 1 .. Len(t) : fresh[t[k]] = val[t[k]]
  BY <1>3, ListFacts DEF SameValues
<1>7. \A k \in 1 .. Len(r) : r[k] = q[k + 1]
  <2> SUFFICES ASSUME NEW k \in 1 .. Len(t) PROVE r[k] = q[k + 1]
    BY <1>5
  <2>1. k + 1 \in 1 .. Len(s)
    BY <1>1, <1>2
  <2> QED
    BY <1>2, <1>4, <1>5, <1>6, <2>1
<1>8. Len(q) = Len(r) + 1 /\ q[1] = val[d]
  BY <1>1, <1>2, <1>4, <1>5
<1>9. r = Tail(q) /\ q # <<>> /\ Head(q) = q[1]
  BY <1>4, <1>5, <1>7, <1>8, IsTail
<1> QED
  BY <1>8, <1>9 DEF q, r, IsShorter

\* A step that adds an element with the greatest key.
LEMMA OrderAppended ==
  ASSUME NEW W, NEW key, Ranked(W, key), NEW d, d \notin W,
         NEW V, V = W \cup {d}, NEW new, Ranked(V, new),
         SameOrder(key, new, W),
         \A w \in W : new[w] < new[d],
         NEW S, NEW val, Values(val, W, S),
         NEW fresh, Values(fresh, V, S), SameValues(val, fresh, W)
  PROVE  IsLonger(InKeyOrder(V, new, fresh), InKeyOrder(W, key, val), fresh[d])
<1>1. Keyed(W, key) /\ Keyed(V, new)
  BY DEF Ranked
<1>2. PICK s : OrderedList(s, W, key)
  BY ListExists DEF Ranked
<1>3. OrderedList(Append(s, d), V, new)
  BY <1>1, <1>2, ListAppended
<1>4. PICK t : IsLonger(t, s, d) /\ OrderedList(t, V, new)
  BY <1>3 DEF IsLonger
<1> QED
  BY <1>1, <1>2, <1>4, ValuesAppended

\* A step that takes the element with the least key away.
LEMMA OrderTail ==
  ASSUME NEW W, NEW key, Ranked(W, key),
         NEW d \in W, \A w \in W \ {d} : key[d] < key[w],
         NEW V, V = W \ {d}, NEW new, Ranked(V, new),
         SameOrder(key, new, V),
         NEW S, NEW val, Values(val, W, S),
         NEW fresh, Values(fresh, V, S), SameValues(val, fresh, V)
  PROVE  /\ InKeyOrder(W, key, val) # <<>>
         /\ Head(InKeyOrder(W, key, val)) = val[d]
         /\ IsShorter(InKeyOrder(V, new, fresh), InKeyOrder(W, key, val))
<1>1. Keyed(W, key) /\ Keyed(V, new)
  BY DEF Ranked
<1>2. PICK s : OrderedList(s, W, key)
  BY ListExists DEF Ranked
<1>3. s # <<>> /\ s[1] = d /\ OrderedList(Tail(s), V, new)
  BY <1>1, <1>2, ListTail
<1>4. PICK t : IsShorter(t, s) /\ OrderedList(t, V, new)
  BY <1>3 DEF IsShorter
<1>5. d = s[1] /\ s # <<>>
  BY <1>3
<1> QED
  BY <1>1, <1>2, <1>4, <1>5, ValuesTail
=============================================================================
