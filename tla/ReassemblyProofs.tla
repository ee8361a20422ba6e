-------------------------- MODULE ReassemblyProofs --------------------------
(***************************************************************************)
(* Proofs about Reassembly, for any set of datagrams of any lengths, cut   *)
(* up in any way, and any limits.                                          *)
(***************************************************************************)
EXTENDS Reassembly, FiniteSetTheorems, SequenceTheorems, TLAPS

-----------------------------------------------------------------------------
(* Counting pbufs.                                                         *)

\* A fragment starts before it ends, and none is as long as u16_t can count.
LEMMA FragmentFacts ==
  ASSUME NEW f \in Fragments
  PROVE  /\ f.id \in Ids /\ Size[f.id] \in Nat /\ Size[f.id] <= Wrap
         /\ f.start \in Nat /\ f.end \in Nat /\ Wrap \in Nat /\ Clen(f) \in Nat
         /\ f.start < f.end /\ f.end <= Size[f.id] /\ f.end <= Wrap
         /\ Clen(f) < Size[f.id] /\ Clen(f) >= 1
<1>1. Wrap \in Nat /\ Size \in [Ids -> Nat \ {0}] /\ \A d \in Ids : Size[d] <= Wrap
  BY ReassemblyAssumption
<1>2. /\ f.id \in Ids /\ f.start \in 0..Wrap /\ f.end \in 0..Wrap
      /\ f.start < f.end /\ f.end <= Size[f.id]
      /\ f.end - f.start < Size[f.id]
  BY DEF Fragments
<1> QED
  BY <1>1, <1>2 DEF Clen

\* There are only so many ways to cut a datagram up.
LEMMA FragmentsFinite == IsFiniteSet(Fragments)
<1> DEFINE T == 0..Wrap
           P == Ids \X (T \X T)
           g == [f \in Fragments |-> <<f.id, <<f.start, f.end>>>>]
<1>1. IsFiniteSet(Ids) /\ IsFiniteSet(T)
  <2>1. 0 \in Int /\ Wrap \in Int
    BY ReassemblyAssumption
  <2> QED
    BY <2>1, ReassemblyAssumption, FS_Interval
<1>2. IsFiniteSet(P)
  BY <1>1, FS_Product
<1>3. g \in [Fragments -> P]
  BY DEF Fragments
<1>4. ASSUME NEW f1 \in Fragments, NEW f2 \in Fragments, g[f1] = g[f2]
      PROVE  f1 = f2
  BY <1>4 DEF Fragments
<1> HIDE DEF g, P
<1>5. g \in Injection(Fragments, P)
  BY <1>3, <1>4 DEF Injection, IsInjective
<1> QED
  BY <1>2, <1>5, FS_Injection

\* Pieces of datagrams can be counted in pbufs.
LEMMA UnitsFinite ==
  ASSUME NEW ps \in SUBSET Fragments
  PROVE  IsFiniteSet(Units(ps)) /\ PbufsOf(ps) \in Nat
<1> DEFINE T == 0..(Wrap - 1)
<1>1. IsFiniteSet(T)
  <2>1. 0 \in Int /\ Wrap - 1 \in Int
    BY ReassemblyAssumption
  <2> QED
    BY <2>1, FS_Interval
<1>2. IsFiniteSet(ps)
  BY FragmentsFinite, FS_Subset
<1>3. IsFiniteSet(ps \X T)
  <2> HIDE DEF T
  <2> QED
    BY <1>1, <1>2, FS_Product
<1>4. Units(ps) \in SUBSET (ps \X T)
  BY DEF Units
<1>5. IsFiniteSet(Units(ps))
  BY <1>3, <1>4, FS_Subset
<1> QED
  BY <1>5, FS_CardinalityType DEF PbufsOf

\* Fewer pieces are no more pbufs.
LEMMA FewerPbufs ==
  ASSUME NEW qs \in SUBSET Fragments, NEW ps \in SUBSET qs
  PROVE  PbufsOf(ps) <= PbufsOf(qs)
<1>1. Units(ps) \in SUBSET Units(qs)
  BY DEF Units
<1> QED
  BY <1>1, UnitsFinite, FS_Subset DEF PbufsOf

\* Pieces apart from others count by themselves.
LEMMA PbufsApart ==
  ASSUME NEW ps \in SUBSET Fragments, NEW qs \in SUBSET Fragments,
         ps \cap qs = {}
  PROVE  PbufsOf(ps \cup qs) = PbufsOf(ps) + PbufsOf(qs)
<1>1. Units(ps \cup qs) = Units(ps) \cup Units(qs)
  BY DEF Units
<1>2. Units(ps) \cap Units(qs) = {}
  BY DEF Units
<1>3. IsFiniteSet(Units(ps)) /\ IsFiniteSet(Units(qs))
      /\ PbufsOf(ps) \in Nat /\ PbufsOf(qs) \in Nat
  BY UnitsFinite
<1>4. Cardinality(Units(ps) \cup Units(qs))
        = Cardinality(Units(ps)) + Cardinality(Units(qs))
            - Cardinality(Units(ps) \cap Units(qs))
  BY <1>3, FS_Union
<1>5. Cardinality(Units(ps) \cap Units(qs)) = 0
  BY <1>2, FS_EmptySet
<1>6. /\ PbufsOf(ps \cup qs) = Cardinality(Units(ps) \cup Units(qs))
      /\ PbufsOf(ps) = Cardinality(Units(ps))
      /\ PbufsOf(qs) = Cardinality(Units(qs))
  BY <1>1 DEF PbufsOf
<1> QED
  BY <1>3, <1>4, <1>5, <1>6

\* A fragment of n units comes in n pbufs.
LEMMA PbufsOfOne ==
  ASSUME NEW f \in Fragments
  PROVE  PbufsOf({f}) = Clen(f)
<1> DEFINE T == f.start..(f.end - 1)
           g == [u \in T |-> <<f, u>>]
           U == Units({f})
<1>1. /\ f.start \in Nat /\ f.end \in Nat /\ f.start < f.end /\ f.end <= Wrap
      /\ Wrap \in Nat
  BY FragmentFacts
<1>2. IsFiniteSet(T) /\ Cardinality(T) = Clen(f)
  <2>1. f.start \in Int /\ f.end - 1 \in Int
    BY <1>1
  <2>2. /\ IsFiniteSet(T)
        /\ Cardinality(T) = IF f.start > f.end - 1 THEN 0 ELSE (f.end - 1) - f.start + 1
    BY <2>1, FS_Interval
  <2> QED
    BY <1>1, <2>2 DEF Clen
<1>3. \A u \in T : u \in 0..(Wrap - 1) /\ f.start <= u /\ u < f.end
  BY <1>1
<1>4. U = {<<f, u>> : u \in T}
  BY <1>1, <1>3 DEF Units
<1>5. g \in [T -> U]
  BY <1>4
<1>6. \A u, v \in T : g[u] = g[v] => u = v
  OBVIOUS
<1>7. \A x \in U : \E u \in T : g[u] = x
  BY <1>4
<1> HIDE DEF g, T, U
<1>8. g \in Injection(T, U) /\ g \in Surjection(T, U)
  BY <1>5, <1>6, <1>7 DEF Injection, IsInjective, Surjection
<1>9. Cardinality(U) = Cardinality(T)
  BY <1>2, <1>8, FS_Surjection
<1> QED
  BY <1>2, <1>9 DEF PbufsOf, U

\* No pieces, no pbufs.
LEMMA PbufsOfNone == PbufsOf({}) = 0
<1>1. Units({}) = {}
  BY DEF Units
<1> QED
  BY <1>1, FS_EmptySet DEF PbufsOf

-----------------------------------------------------------------------------
(* Sub: a part of a list, in its order.                                    *)

\* e tells where the elements of r come from.
Picks(e, r, l) ==
  /\ e \in [1..Len(r) -> 1..Len(l)]
  /\ \A k \in 1..Len(r) : r[k] = l[e[k]]
  /\ \A j, k \in 1..Len(r) : j < k => e[j] < e[k]

\* Sub takes what is at the positions of I, all of it, in order.
LEMMA SubPicks ==
  ASSUME NEW S, NEW l \in Seq(S), NEW I \in SUBSET (1..Len(l))
  PROVE  /\ Sub(l, I) \in Seq(S)
         /\ IsFiniteSet(I) /\ Len(Sub(l, I)) = Cardinality(I)
         /\ Cardinality(I) \in Nat
         /\ \E e : /\ Picks(e, Sub(l, I), l)
                   /\ \A k \in 1..Len(Sub(l, I)) : e[k] \in I
                   /\ \A i \in I : \E k \in 1..Len(Sub(l, I)) : e[k] = i
<1> DEFINE n == Cardinality(I)
           Upto(i) == {j \in I : j <= i}
           rank == [i \in I |-> Cardinality(Upto(i))]
<1>1. Len(l) \in Nat
  BY LenProperties
<1>2. IsFiniteSet(I) /\ n \in Nat
  <2>1. 1 \in Int /\ Len(l) \in Int
    BY <1>1
  <2>2. IsFiniteSet(1..Len(l))
    BY <2>1, FS_Interval
  <2>3. IsFiniteSet(I)
    BY <2>2, FS_Subset
  <2> QED
    BY <2>3, FS_CardinalityType
<1>3. ASSUME NEW i \in I
      PROVE  IsFiniteSet(Upto(i)) /\ rank[i] \in 1..n
  <2>1. Upto(i) \in SUBSET I /\ i \in Upto(i)
    OBVIOUS
  <2> HIDE DEF Upto
  <2>2. IsFiniteSet(Upto(i)) /\ Cardinality(Upto(i)) <= n
        /\ Cardinality(Upto(i)) \in Nat
    BY <1>2, <2>1, FS_Subset, FS_CardinalityType
  <2>3. Cardinality(Upto(i)) # 0
    BY <2>1, <2>2, FS_EmptySet
  <2> QED
    BY <1>2, <2>2, <2>3
<1>4. ASSUME NEW i \in I, NEW j \in I, i < j PROVE rank[i] < rank[j]
  <2>0. /\ i \in Int /\ j \in Int /\ i < j /\ j \in I
        /\ \A k \in I : k \in Int
    BY <1>1, <1>4
  <2>a. \A k \in I : k <= i => k <= j
    BY <2>0
  <2>b. j <= j /\ ~(j <= i)
    BY <2>0
  <2>1. Upto(i) \in SUBSET Upto(j) /\ j \in Upto(j) /\ j \notin Upto(i)
    BY <2>0, <2>a, <2>b
  <2>2. IsFiniteSet(Upto(i)) /\ IsFiniteSet(Upto(j))
        /\ rank[i] = Cardinality(Upto(i)) /\ rank[j] = Cardinality(Upto(j))
        /\ rank[i] \in 1..n /\ rank[j] \in 1..n
    BY <1>3
  <2> HIDE DEF Upto, rank
  <2>3. Cardinality(Upto(i)) <= Cardinality(Upto(j))
        /\ Cardinality(Upto(i)) # Cardinality(Upto(j))
    BY <2>1, <2>2, FS_Subset
  <2> QED
    BY <1>2, <2>2, <2>3
<1>5. rank \in [I -> 1..n]
  BY <1>3
<1> HIDE DEF rank
<1>6. \A i, j \in I : rank[i] = rank[j] => i = j
  <2>1. SUFFICES ASSUME NEW i \in I, NEW j \in I, rank[i] = rank[j], i # j
                 PROVE  FALSE
    OBVIOUS
  <2>2. i < j \/ j < i
    BY <1>1, <2>1
  <2>3. rank[i] \in Nat /\ rank[j] \in Nat
    BY <1>2, <1>5
  <2> QED
    BY <1>4, <2>1, <2>2, <2>3
<1>7. \A k \in 1..n : \E i \in I : rank[i] = k
  <2>1. IsFiniteSet(1..n) /\ Cardinality(1..n) = n
    <3>1. 1 \in Int /\ n \in Int
      BY <1>2
    <3>2. IsFiniteSet(1..n) /\ Cardinality(1..n) = IF 1 > n THEN 0 ELSE n - 1 + 1
      BY <3>1, FS_Interval
    <3> QED
      BY <1>2, <3>2
  <2>2. rank \in Injection(I, 1..n)
    BY <1>5, <1>6 DEF Injection, IsInjective
  <2>3. rank \in Surjection(I, 1..n)
    <3> HIDE DEF n
    <3>1. Cardinality(I) = Cardinality(1..n)
      BY <2>1 DEF n
    <3> QED
      BY <2>1, <2>2, <3>1, FS_Injection
  <2> QED
    BY <2>3 DEF Surjection
<1> DEFINE e == [k \in 1..n |-> CHOOSE i \in I : Cardinality({j \in I : j <= i}) = k]
           r == Sub(l, I)
<1>8. \A k \in 1..n : e[k] \in I /\ rank[e[k]] = k
  <2>1. \A i \in I : rank[i] = Cardinality({j \in I : j <= i})
    BY DEF rank
  <2>2. SUFFICES ASSUME NEW k \in 1..n PROVE e[k] \in I /\ rank[e[k]] = k
    OBVIOUS
  <2>3. \E i \in I : Cardinality({j \in I : j <= i}) = k
    BY <1>7, <2>1
  <2>4. e[k] \in I /\ Cardinality({j \in I : j <= e[k]}) = k
    BY <2>3
  <2> QED
    BY <2>1, <2>4
<1>9. r = [k \in 1..n |-> l[e[k]]]
  BY DEF Sub
<1> HIDE DEF e, r
<1>10. \A k \in 1..n : l[e[k]] \in S
  BY <1>8, ElementOfSeq
<1>11. r \in Seq(S) /\ Len(r) = n
  BY <1>2, <1>9, <1>10
<1>0. \A i \in I : i \in Int
  BY <1>1
<1>12. ASSUME NEW j \in 1..n, NEW k \in 1..n, j < k PROVE e[j] < e[k]
  <2>1. e[j] \in I /\ e[k] \in I /\ rank[e[j]] = j /\ rank[e[k]] = k
    BY <1>8
  <2>2. e[j] \in Int /\ e[k] \in Int /\ j \in Int /\ k \in Int
    <3>1. e[j] \in Int /\ e[k] \in Int
      BY <1>0, <2>1
    <3>2. n \in Nat => j \in Int /\ k \in Int
      OBVIOUS
    <3> QED
      BY <1>2, <3>1, <3>2
  <2>3. e[j] # e[k]
    BY <2>1, <2>2, <1>12
  <2>4. ~(e[k] < e[j])
    BY <1>4, <1>12, <2>1, <2>2
  <2> QED
    BY <2>2, <2>3, <2>4
<1>13. Picks(e, r, l)
  <2>1. e \in [1..n -> 1..Len(l)]
    BY <1>8 DEF e
  <2> QED
    BY <1>9, <1>11, <1>12, <2>1 DEF Picks
<1>14. \A i \in I : \E k \in 1..n : e[k] = i
  <2>1. SUFFICES ASSUME NEW i \in I PROVE e[rank[i]] = i /\ rank[i] \in 1..n
    OBVIOUS
  <2>2. rank[i] \in 1..n
    BY <1>5
  <2> QED
    BY <1>6, <1>8, <2>2
<1> QED
  BY <1>2, <1>8, <1>11, <1>13, <1>14 DEF r


-----------------------------------------------------------------------------
(* What a list of datagrams, and an entry of it, must be.                  *)

EntryOK(ipr) ==
  /\ ipr \in Entry
  /\ \A f \in ipr.p : f.id = ipr.id
  /\ \A f, g \in ipr.p : Overlap(f, g) => f = g
  /\ ipr.last <=> \E f \in ipr.p : IsLast(f)
  /\ ipr.last => ipr.len = Size[ipr.id]
  /\ (\E f \in ipr.p : f.start = 0) => ipr.first

ListOK(l) ==
  /\ l \in Seq(Entry)
  /\ \A i \in 1..Len(l) : EntryOK(l[i])
  /\ \A i, j \in 1..Len(l) : l[j].id = l[i].id => i = j
  /\ \A i, j \in 1..Len(l) : i < j => l[j].timer <= l[i].timer

Filled(l) == \A i \in 1..Len(l) : l[i].p # {}

\* Between two calls a list fits into the pool of entries and the limit on
\* pbufs, and has no empty entry.
Sound(l) ==
  /\ ListOK(l)
  /\ Filled(l)
  /\ Len(l) <= NumReassdata
  /\ Pbufs(l) <= MaxPbufs

\* The inductive invariant.
IInv ==
  /\ Sound(reassdatagrams)
  /\ CountIsHeld
  /\ delivered \in Entry \cup {None}
  /\ WholeDatagram

\* Every entry of r is an entry of l.
From(r, l) ==
  \A k \in 1..Len(r) : \E i \in 1..Len(l) : r[k] = l[i]

\* The pieces of a list are the pieces of its entries, and can be counted.
LEMMA PiecesOfList ==
  ASSUME NEW l \in Seq(Entry)
  PROVE  /\ DOMAIN l = 1..Len(l) /\ Len(l) \in Nat
         /\ \A i \in 1..Len(l) : l[i] \in Entry /\ l[i].p \in SUBSET Fragments
         /\ PiecesAt(l, DOMAIN l) \in SUBSET Fragments
         /\ \A f : f \in PiecesAt(l, DOMAIN l) <=> \E i \in 1..Len(l) : f \in l[i].p
         /\ Pbufs(l) \in Nat /\ Pbufs(l) = PbufsOf(PiecesAt(l, DOMAIN l))
<1>1. DOMAIN l = 1..Len(l) /\ Len(l) \in Nat
  BY LenProperties
<1>2. \A i \in 1..Len(l) : l[i] \in Entry
  BY ElementOfSeq
<1>3. \A i \in 1..Len(l) : l[i].p \in SUBSET Fragments
  BY <1>2 DEF Entry
<1>4. \A f : f \in PiecesAt(l, DOMAIN l) <=> \E i \in 1..Len(l) : f \in l[i].p
  BY <1>1 DEF PiecesAt
<1>5. PiecesAt(l, DOMAIN l) \in SUBSET Fragments
  BY <1>3, <1>4
<1>6. PbufsOf(PiecesAt(l, DOMAIN l)) \in Nat
  BY <1>5, UnitsFinite
<1> QED
  BY <1>1, <1>2, <1>3, <1>4, <1>5, <1>6 DEF Pbufs

\* A list whose entries are all entries of another holds no more pbufs.
LEMMA FromPieces ==
  ASSUME NEW l \in Seq(Entry), NEW r \in Seq(Entry), From(r, l)
  PROVE  /\ PiecesAt(r, DOMAIN r) \in SUBSET PiecesAt(l, DOMAIN l)
         /\ Pbufs(r) <= Pbufs(l)
<1>1. PiecesAt(r, DOMAIN r) \in SUBSET PiecesAt(l, DOMAIN l)
  BY PiecesOfList DEF From
<1> QED
  BY <1>1, PiecesOfList, FewerPbufs

\* Lists whose entries have the same pieces hold the same pieces.
LEMMA SamePieces ==
  ASSUME NEW l \in Seq(Entry), NEW r \in Seq(Entry), Len(r) = Len(l),
         \A k \in 1..Len(l) : r[k].p = l[k].p
  PROVE  PiecesAt(r, DOMAIN r) = PiecesAt(l, DOMAIN l)
<1>1. /\ \A f : f \in PiecesAt(l, DOMAIN l) <=> \E i \in 1..Len(l) : f \in l[i].p
      /\ \A f : f \in PiecesAt(r, DOMAIN r) <=> \E i \in 1..Len(r) : f \in r[i].p
  BY PiecesOfList
<1> DEFINE P == PiecesAt(l, DOMAIN l)
           Q == PiecesAt(r, DOMAIN r)
<1>2. \A f : f \in P <=> f \in Q
  BY <1>1
<1> HIDE DEF P, Q
<1>3. P = Q
  BY <1>2
<1> QED
  BY <1>3 DEF P, Q

\* A part of a list that is as it must be is so too.
LEMMA SubOK ==
  ASSUME NEW l, ListOK(l), NEW I \in SUBSET (1..Len(l))
  PROVE  /\ ListOK(Sub(l, I))
         /\ From(Sub(l, I), l)
         /\ Len(Sub(l, I)) <= Len(l)
         /\ I # 1..Len(l) => Len(Sub(l, I)) < Len(l)
         /\ \A k \in 1..Len(Sub(l, I)) : \E i \in I : Sub(l, I)[k] = l[i]
         /\ \A i \in I : \E k \in 1..Len(Sub(l, I)) : Sub(l, I)[k] = l[i]
<1> DEFINE r == Sub(l, I)
<1>1. l \in Seq(Entry) /\ Len(l) \in Nat
  BY PiecesOfList DEF ListOK
<1>2. /\ r \in Seq(Entry) /\ Len(r) \in Nat
      /\ IsFiniteSet(I) /\ Len(r) = Cardinality(I)
  BY <1>1, SubPicks
<1>3. PICK e : /\ Picks(e, r, l)
               /\ \A k \in 1..Len(r) : e[k] \in I
               /\ \A i \in I : \E k \in 1..Len(r) : e[k] = i
  BY <1>1, SubPicks
<1>4. IsFiniteSet(1..Len(l)) /\ Cardinality(1..Len(l)) = Len(l)
  <2>1. 1 \in Int /\ Len(l) \in Int
    BY <1>1
  <2>2. IsFiniteSet(1..Len(l))
        /\ Cardinality(1..Len(l)) = IF 1 > Len(l) THEN 0 ELSE Len(l) - 1 + 1
    BY <2>1, FS_Interval
  <2> QED
    BY <1>1, <2>2
<1>5. /\ Cardinality(I) <= Cardinality(1..Len(l))
      /\ Cardinality(I) = Cardinality(1..Len(l)) => I = 1..Len(l)
  BY <1>4, FS_Subset
<1>6. Len(r) <= Len(l) /\ (I # 1..Len(l) => Len(r) < Len(l))
  BY <1>1, <1>2, <1>4, <1>5
<1> HIDE DEF r
<1>7. \A k \in 1..Len(r) : e[k] \in I /\ e[k] \in 1..Len(l) /\ r[k] = l[e[k]]
  BY <1>3 DEF Picks
<1>8. \A k \in 1..Len(r) : EntryOK(r[k])
  BY <1>7 DEF ListOK
<1>9. ASSUME NEW i \in 1..Len(r), NEW j \in 1..Len(r), i < j
      PROVE  e[i] < e[j] /\ r[j].timer <= r[i].timer
  BY <1>3, <1>7, <1>9 DEF Picks, ListOK
<1>10. ASSUME NEW i \in 1..Len(r), NEW j \in 1..Len(r), r[j].id = r[i].id
       PROVE  i = j
  <2>1. e[i] = e[j]
    <3>1. /\ e[i] \in 1..Len(l) /\ e[j] \in 1..Len(l)
          /\ l[e[j]].id = l[e[i]].id
      BY <1>7, <1>10
    <3> QED
      BY <3>1 DEF ListOK
  <2>2. i \in Int /\ j \in Int /\ e[i] \in Int
    BY <1>1, <1>2, <1>7
  <2>3. ~(i < j) /\ ~(j < i)
    BY <1>9, <2>1, <2>2
  <2> QED
    BY <2>2, <2>3
<1>11. ListOK(r)
  BY <1>2, <1>8, <1>9, <1>10 DEF ListOK
<1>12. From(r, l)
  BY <1>7 DEF From
<1>13. \A i \in I : \E k \in 1..Len(r) : r[k] = l[i]
  BY <1>3, <1>7
<1> QED
  BY <1>6, <1>7, <1>11, <1>12, <1>13 DEF r

\* What is freed goes, the rest stays; the list is shorter if anything went.
LEMMA WithoutOK ==
  ASSUME NEW l, ListOK(l), NEW iprs
  PROVE  /\ ListOK(Without(l, iprs))
         /\ From(Without(l, iprs), l)
         /\ Len(Without(l, iprs)) <= Len(l)
         /\ \A k \in 1..Len(Without(l, iprs)) : Without(l, iprs)[k] \notin iprs
         /\ \A i \in 1..Len(l) : l[i] \notin iprs =>
              \E k \in 1..Len(Without(l, iprs)) : Without(l, iprs)[k] = l[i]
         /\ (\E i \in 1..Len(l) : l[i] \in iprs) => Len(Without(l, iprs)) < Len(l)
<1> DEFINE I == {i \in 1..Len(l) : l[i] \notin iprs}
<1>1. DOMAIN l = 1..Len(l)
  BY PiecesOfList DEF ListOK
<1>2. Without(l, iprs) = Sub(l, I)
  BY <1>1 DEF Without
<1>3. I \in SUBSET (1..Len(l))
  OBVIOUS
<1>4. /\ \A i \in I : l[i] \notin iprs
      /\ \A i \in 1..Len(l) : l[i] \notin iprs => i \in I
      /\ (\E i \in 1..Len(l) : l[i] \in iprs) => I # 1..Len(l)
  OBVIOUS
<1> HIDE DEF I
<1>5. /\ ListOK(Sub(l, I)) /\ From(Sub(l, I), l) /\ Len(Sub(l, I)) <= Len(l)
      /\ I # 1..Len(l) => Len(Sub(l, I)) < Len(l)
      /\ \A k \in 1..Len(Sub(l, I)) : \E i \in I : Sub(l, I)[k] = l[i]
      /\ \A i \in I : \E k \in 1..Len(Sub(l, I)) : Sub(l, I)[k] = l[i]
  BY <1>3, SubOK
<1> QED
  BY <1>2, <1>4, <1>5


\* Without an entry its pieces are gone too, and no other's.
LEMMA WithoutOne ==
  ASSUME NEW l, ListOK(l), NEW i \in 1..Len(l)
  PROVE  LET r == Without(l, {l[i]})
         IN  /\ PiecesAt(r, DOMAIN r) = PiecesAt(l, DOMAIN l) \ l[i].p
             /\ \A k \in 1..Len(r) : r[k].id # l[i].id
             /\ Pbufs(l) = Pbufs(r) + PbufsOf(l[i].p)
<1> DEFINE r == Without(l, {l[i]})
           P == PiecesAt(r, DOMAIN r)
           Q == PiecesAt(l, DOMAIN l)
<1>1. /\ ListOK(r) /\ From(r, l)
      /\ \A k \in 1..Len(r) : r[k] \notin {l[i]}
      /\ \A j \in 1..Len(l) : l[j] \notin {l[i]} => \E k \in 1..Len(r) : r[k] = l[j]
  BY WithoutOK
<1> HIDE DEF r
<1>2. l \in Seq(Entry) /\ r \in Seq(Entry)
  BY <1>1 DEF ListOK
<1>3. /\ \A f : f \in P <=> \E k \in 1..Len(r) : f \in r[k].p
      /\ \A f : f \in Q <=> \E k \in 1..Len(l) : f \in l[k].p
      /\ P \in SUBSET Fragments /\ Q \in SUBSET Fragments
      /\ l[i].p \in SUBSET Fragments
      /\ Pbufs(l) = PbufsOf(Q) /\ Pbufs(r) = PbufsOf(P)
  BY <1>2, PiecesOfList
<1>4. \A k \in 1..Len(r) : r[k].id # l[i].id
  <2>1. SUFFICES ASSUME NEW k \in 1..Len(r) PROVE r[k].id # l[i].id
    OBVIOUS
  <2>2. PICK j \in 1..Len(l) : r[k] = l[j]
    BY <1>1 DEF From
  <2>3. j # i
    BY <1>1, <2>2
  <2> QED
    BY <2>2, <2>3 DEF ListOK
<1> HIDE DEF P, Q
<1>5. \A j \in 1..Len(l) : \A f \in l[j].p : f.id = l[j].id
  BY DEF ListOK, EntryOK
<1>6. P \cap l[i].p = {}
  <2>1. SUFFICES ASSUME NEW f \in P, f \in l[i].p PROVE FALSE
    OBVIOUS
  <2>2. PICK k \in 1..Len(r) : f \in r[k].p
    BY <1>3
  <2>3. f.id = r[k].id
    <3>1. PICK j \in 1..Len(l) : r[k] = l[j]
      BY <1>1, <2>2 DEF From
    <3> QED
      BY <1>5, <2>2, <3>1
  <2>4. f.id = l[i].id
    BY <1>5, <2>1
  <2> QED
    BY <1>4, <2>2, <2>3, <2>4
<1>7. Q = P \cup l[i].p
  <2>1. ASSUME NEW f \in Q PROVE f \in P \cup l[i].p
    <3>1. PICK j \in 1..Len(l) : f \in l[j].p
      BY <1>3
    <3>2. CASE l[j] = l[i]
      BY <3>1, <3>2
    <3>3. CASE l[j] # l[i]
      BY <1>1, <1>3, <3>1, <3>3
    <3> QED
      BY <3>2, <3>3
  <2>2. ASSUME NEW f \in P PROVE f \in Q
    <3>1. PICK k \in 1..Len(r) : f \in r[k].p
      BY <1>3, <2>2
    <3>2. PICK j \in 1..Len(l) : r[k] = l[j]
      BY <1>1, <3>1 DEF From
    <3> QED
      BY <1>3, <3>1, <3>2
  <2>3. ASSUME NEW f \in l[i].p PROVE f \in Q
    BY <1>3, <2>3
  <2> QED
    BY <2>1, <2>2, <2>3
<1>8. P = Q \ l[i].p
  BY <1>6, <1>7
<1>9. PbufsOf(Q) = PbufsOf(P) + PbufsOf(l[i].p)
  BY <1>3, <1>6, <1>7, PbufsApart
<1> QED
  BY <1>3, <1>4, <1>8, <1>9 DEF P, Q, r

-----------------------------------------------------------------------------
(* Making room, and an entry.                                              *)

\* CountAfter is the number of pbufs in the list it is asked about.
LEMMA CountAfterIs ==
  ASSUME IInv, NEW l \in Seq(Entry)
  PROVE  CountAfter(l) = Pbufs(l) /\ Pbufs(l) \in Nat
<1>1. reassdatagrams \in Seq(Entry) /\ pbufcount = Pbufs(reassdatagrams)
  BY DEF IInv, Sound, ListOK, CountIsHeld
<1>2. Pbufs(l) \in Nat /\ Pbufs(reassdatagrams) \in Nat
  BY <1>1, PiecesOfList
<1> QED
  BY <1>1, <1>2 DEF CountAfter

\* The list with room for f has lost only entries of other datagrams.
LEMMA RoomOK ==
  ASSUME IInv, NEW f \in Fragments
  PROVE  /\ Sound(MakeRoom(f))
         /\ From(MakeRoom(f), reassdatagrams)
         /\ \A i \in 1..Len(reassdatagrams) : reassdatagrams[i].id = f.id =>
              \E k \in 1..Len(MakeRoom(f)) : MakeRoom(f)[k] = reassdatagrams[i]
         /\ CountAfter(MakeRoom(f)) = Pbufs(MakeRoom(f))
<1> DEFINE l == reassdatagrams
           old == Oldest(l, f.id, Clen(f))
           r == Without(l, old)
<1>1. Sound(l) /\ ListOK(l) /\ l \in Seq(Entry)
  BY DEF IInv, Sound, ListOK
<1>2. \A i \in 1..Len(l) : l[i].id = f.id => l[i] \notin old
  BY DEF Oldest
<1>3. /\ ListOK(r) /\ From(r, l) /\ Len(r) <= Len(l)
      /\ \A i \in 1..Len(l) : l[i] \notin old => \E k \in 1..Len(r) : r[k] = l[i]
  <2> HIDE DEF l, old
  <2> QED
    BY <1>1, WithoutOK
<1>4. r \in Seq(Entry)
  BY <1>3 DEF ListOK
<1>5. Pbufs(r) <= Pbufs(l) /\ Pbufs(r) \in Nat /\ Pbufs(l) \in Nat
      /\ Len(r) \in Nat /\ Len(l) \in Nat
  <2> HIDE DEF l, r
  <2> QED
    BY <1>1, <1>3, <1>4, FromPieces, PiecesOfList
<1> HIDE DEF r, old
<1>6. Sound(r)
  <2>1. Filled(r)
    BY <1>1, <1>3 DEF Sound, Filled, From
  <2>2. Len(r) <= NumReassdata /\ Pbufs(r) <= MaxPbufs
    BY <1>1, <1>3, <1>5, ReassemblyAssumption DEF Sound
  <2> QED
    BY <1>3, <2>1, <2>2 DEF Sound
<1>7. From(l, l)
  BY DEF From
<1>8. MakeRoom(f) = r \/ MakeRoom(f) = l
  BY DEF MakeRoom, r, old
<1>9. MakeRoom(f) \in Seq(Entry)
  BY <1>1, <1>4, <1>8
<1>10. CountAfter(MakeRoom(f)) = Pbufs(MakeRoom(f))
  BY <1>9, CountAfterIs
<1>11. CASE MakeRoom(f) = r
  BY <1>2, <1>3, <1>6, <1>10, <1>11
<1>12. CASE MakeRoom(f) = l
  BY <1>1, <1>7, <1>10, <1>12
<1> QED
  BY <1>8, <1>11, <1>12

\* A fresh entry is as an entry must be.
LEMMA NewEntryOK ==
  ASSUME NEW f \in Fragments
  PROVE  EntryOK(NewEntry(f)) /\ NewEntry(f).id = f.id
         /\ NewEntry(f).p = {} /\ NewEntry(f).timer = MaxAge
<1>1. f.id \in Ids /\ MaxAge \in 0..MaxAge /\ 0 \in 0..MaxLen
  BY FragmentFacts, ReassemblyAssumption
<1>2. NewEntry(f) \in Entry
  BY <1>1 DEF NewEntry, Entry
<1> QED
  BY <1>2 DEF NewEntry, EntryOK

\* What f is looked for in: the list with room, or a list with an entry in
\* front of what is left of it.
LEMMA EnqueueOK ==
  ASSUME NEW l, Sound(l), NEW f \in Fragments
  PROVE  LET r == Enqueue(l, f)
         IN  /\ ListOK(r)
             /\ Len(r) <= NumReassdata
             /\ Pbufs(r) <= Pbufs(l)
             /\ \A k \in 1..Len(r) : r[k].id # f.id => r[k].p # {}
             /\ \A i \in 1..Len(l) : l[i].id = f.id =>
                  \E k \in 1..Len(r) : r[k] = l[i]
<1> DEFINE victims == IF Len(l) < NumReassdata
                      THEN {} ELSE Oldest(l, f.id, Clen(f))
           rest == Without(l, victims)
           new  == <<NewEntry(f)>> \o rest
<1>1. /\ ListOK(l) /\ l \in Seq(Entry) /\ Len(l) \in Nat /\ DOMAIN l = 1..Len(l)
      /\ Pbufs(l) \in Nat /\ Len(l) <= NumReassdata
      /\ Filled(l) /\ NumReassdata \in Nat
  BY PiecesOfList, ReassemblyAssumption DEF Sound, ListOK
<1>2. CASE Known(l, f.id)
  <2>1. Enqueue(l, f) = l
    BY <1>2 DEF Enqueue
  <2>2. Pbufs(l) <= Pbufs(l)
    BY <1>1
  <2> QED
    BY <1>1, <2>1, <2>2 DEF Filled
<1>3. CASE ~Known(l, f.id)
  <2>1. \A i \in 1..Len(l) : l[i].id # f.id
    BY <1>1, <1>3 DEF Known
  <2>2. /\ ListOK(rest) /\ From(rest, l) /\ Len(rest) <= Len(l)
        /\ (\E i \in 1..Len(l) : l[i] \in victims) => Len(rest) < Len(l)
        /\ \A i \in 1..Len(l) : l[i] \notin victims =>
             \E k \in 1..Len(rest) : rest[k] = l[i]
    <3> HIDE DEF victims
    <3> QED
      BY <1>1, WithoutOK
  <2>3. \/ Enqueue(l, f) = rest
        \/ /\ Enqueue(l, f) = new
           /\ \/ Len(l) < NumReassdata
              \/ Pbufs(l) - Pbufs(rest) >= Clen(f)
    BY <1>3 DEF Enqueue
  <2> HIDE DEF rest, victims
  <2>4. rest \in Seq(Entry) /\ Len(rest) \in Nat /\ Pbufs(rest) \in Nat
        /\ Pbufs(rest) <= Pbufs(l)
    <3>1. rest \in Seq(Entry)
      BY <2>2 DEF ListOK
    <3> QED
      BY <1>1, <2>2, <3>1, FromPieces, PiecesOfList
  <2>5. \A k \in 1..Len(rest) : rest[k].id # f.id /\ rest[k].p # {}
    BY <1>1, <2>1, <2>2 DEF From, Filled
  <2>6. CASE Enqueue(l, f) = rest
    <3>1. Len(rest) <= NumReassdata
      BY <1>1, <2>2, <2>4
    <3> QED
      BY <2>1, <2>2, <2>4, <2>5, <2>6, <3>1
  <2>7. CASE /\ Enqueue(l, f) = new
             /\ \/ Len(l) < NumReassdata
                \/ Pbufs(l) - Pbufs(rest) >= Clen(f)
    <3>1. Len(rest) < NumReassdata
      <4>1. CASE Len(l) < NumReassdata
        BY <1>1, <2>2, <2>4, <4>1
      <4>2. CASE Pbufs(l) - Pbufs(rest) >= Clen(f)
        <5>1. Pbufs(l) # Pbufs(rest)
          <6>1. Clen(f) >= 1 /\ Clen(f) \in Nat
            BY FragmentFacts
          <6> QED
            BY <1>1, <2>4, <4>2, <6>1
        <5>2. \E i \in 1..Len(l) : l[i] \in victims
          <6>1. SUFFICES ASSUME \A i \in 1..Len(l) : l[i] \notin victims
                         PROVE  FALSE
            OBVIOUS
          <6>2. From(l, rest)
            BY <2>2, <6>1 DEF From
          <6>3. Pbufs(l) <= Pbufs(rest)
            BY <1>1, <2>4, <6>2, FromPieces
          <6> QED
            BY <1>1, <2>4, <5>1, <6>3
        <5> QED
          BY <1>1, <2>2, <2>4, <5>2
      <4> QED
        BY <2>7, <4>1, <4>2
    <3>2. /\ EntryOK(NewEntry(f)) /\ NewEntry(f).id = f.id
          /\ NewEntry(f).p = {} /\ NewEntry(f).timer = MaxAge
          /\ NewEntry(f) \in Entry
      BY NewEntryOK DEF EntryOK
    <3> HIDE DEF new
    <3>3. /\ new \in Seq(Entry) /\ Len(new) = Len(rest) + 1
          /\ new[1] = NewEntry(f)
          /\ \A k \in 2..Len(new) : k - 1 \in 1..Len(rest) /\ new[k] = rest[k - 1]
      BY <2>4, <3>2 DEF new
    <3>4. \A k \in 1..Len(new) : k = 1 \/ k \in 2..Len(new)
      BY <2>4, <3>3
    <3>5. \A k \in 1..Len(new) : EntryOK(new[k])
      <4>1. \A k \in 1..Len(rest) : EntryOK(rest[k])
        BY <2>2 DEF ListOK
      <4> QED
        BY <3>2, <3>3, <3>4, <4>1
    <3>6. \A i, j \in 1..Len(new) : new[j].id = new[i].id => i = j
      <4>1. SUFFICES ASSUME NEW i \in 1..Len(new), NEW j \in 1..Len(new),
                            new[j].id = new[i].id
                     PROVE  i = j
        OBVIOUS
      <4>2. CASE i \in 2..Len(new) /\ j \in 2..Len(new)
        <5>1. PICK m \in 1..Len(rest) : m = i - 1 /\ new[i] = rest[m]
          BY <3>3, <4>2
        <5>2. PICK n \in 1..Len(rest) : n = j - 1 /\ new[j] = rest[n]
          BY <3>3, <4>2
        <5>3. m = n
          BY <2>2, <4>1, <5>1, <5>2 DEF ListOK
        <5>4. i \in Int /\ j \in Int
          OBVIOUS
        <5> QED
          BY <5>1, <5>2, <5>3, <5>4
      <4>3. \A k \in 2..Len(new) : new[k].id # f.id
        BY <2>5, <3>3
      <4>4. CASE i = 1 \/ j = 1
        <5>1. new[1].id = f.id
          BY <3>2, <3>3
        <5> QED
          BY <3>4, <4>1, <4>3, <4>4, <5>1
      <4> QED
        BY <3>4, <4>2, <4>4
    <3>7. \A i, j \in 1..Len(new) : i < j => new[j].timer <= new[i].timer
      <4>1. SUFFICES ASSUME NEW i \in 1..Len(new), NEW j \in 1..Len(new), i < j
                     PROVE  new[j].timer <= new[i].timer
        OBVIOUS
      <4>2. j \in 2..Len(new)
        BY <2>4, <3>3, <4>1
      <4>3. CASE i = 1
        <5>1. new[j] \in Entry
          BY <2>4, <3>3, <4>2
        <5>2. new[j].timer \in 0..MaxAge
          BY <5>1 DEF Entry
        <5> QED
          BY <3>2, <3>3, <4>3, <5>2, ReassemblyAssumption
      <4>4. CASE i \in 2..Len(new)
        <5>1. i - 1 < j - 1
          BY <2>4, <3>3, <4>1, <4>4
        <5>2. /\ i - 1 \in 1..Len(rest) /\ new[i] = rest[i - 1]
              /\ j - 1 \in 1..Len(rest) /\ new[j] = rest[j - 1]
          BY <3>3, <4>2, <4>4
        <5>3. \A a, b \in 1..Len(rest) : a < b => rest[b].timer <= rest[a].timer
          BY <2>2 DEF ListOK
        <5>4. rest[j - 1].timer <= rest[i - 1].timer
          BY <5>1, <5>2, <5>3
        <5> QED
          BY <5>2, <5>4
      <4> QED
        BY <3>4, <4>3, <4>4
    <3>8. ListOK(new)
      BY <3>3, <3>5, <3>6, <3>7 DEF ListOK
    <3>9. Len(new) <= NumReassdata
      BY <1>1, <2>4, <3>1, <3>3
    <3>10. \A k \in 1..Len(new) : new[k].id # f.id => new[k].p # {}
      BY <2>5, <3>2, <3>3, <3>4
    <3>11. Pbufs(new) <= Pbufs(l)
      <4>1. PiecesAt(new, DOMAIN new) \in SUBSET PiecesAt(rest, DOMAIN rest)
        <5>1. new[1].p = {}
          BY <3>2, <3>3
        <5>2. DOMAIN new = 1..Len(new) /\ DOMAIN rest = 1..Len(rest)
          BY <2>4, <3>3
        <5>3. \A k \in 1..Len(new) :
                new[k].p = {} \/ \E j \in 1..Len(rest) : new[k].p = rest[j].p
          BY <3>3, <3>4, <5>1
        <5> QED
          BY <5>2, <5>3 DEF PiecesAt
      <4>2. Pbufs(new) <= Pbufs(rest) /\ Pbufs(new) \in Nat
        BY <2>4, <3>3, <4>1, PiecesOfList, FewerPbufs
      <4> QED
        BY <1>1, <2>4, <4>2
    <3> QED
      BY <2>1, <2>7, <3>8, <3>9, <3>10, <3>11
  <2> QED
    BY <2>3, <2>6, <2>7
<1> QED
  BY <1>2, <1>3


-----------------------------------------------------------------------------
(* One fragment.                                                           *)

\* An entry whose header has been looked at, and one with f chained in, is
\* as it must be; and it has one more piece of Clen(f) pbufs.
LEMMA ChainedOK ==
  ASSUME NEW ipr, EntryOK(ipr), NEW f \in Fragments, f.id = ipr.id,
         ~Rejected(ipr, f)
  PROVE  LET new == Chained(WithHeader(ipr, f), f)
         IN  /\ EntryOK(new)
             /\ new.id = ipr.id /\ new.timer = ipr.timer
             /\ new.p = ipr.p \cup {f} /\ f \notin ipr.p
             /\ PbufsOf(new.p) = PbufsOf(ipr.p) + Clen(f)
<1> DEFINE new == Chained(WithHeader(ipr, f), f)
<1>1. /\ f.id \in Ids /\ Size[f.id] \in Nat /\ Size[f.id] <= Wrap
      /\ f.start \in Nat /\ f.end \in Nat /\ Wrap \in Nat /\ Clen(f) \in Nat
      /\ f.start < f.end /\ f.end <= Size[f.id] /\ f.end <= Wrap
      /\ Clen(f) < Size[f.id] /\ Clen(f) >= 1
  BY FragmentFacts
<1>2. ipr \in Entry /\ ipr.p \in SUBSET Fragments
      /\ ipr.first \in BOOLEAN /\ ipr.last \in BOOLEAN /\ ipr.len \in 0..MaxLen
  BY DEF EntryOK, Entry
<1>3. IsLast(f) => f.end \in 0..MaxLen
  <2>1. SUFFICES ASSUME IsLast(f) PROVE f.end \in 0..MaxLen
    OBVIOUS
  <2>2. ~(f.end % Wrap < f.start) /\ ~(f.end % Wrap > MaxLen)
    BY <2>1 DEF Rejected
  <2>3. f.end # Wrap
    <3>1. SUFFICES ASSUME f.end = Wrap PROVE FALSE
      OBVIOUS
    <3>2. f.end % Wrap = 0
      <4>1. Wrap > 0
        BY <1>1, <3>1
      <4>2. Wrap % Wrap = 0
        BY <1>1, <4>1
      <4> QED
        BY <3>1, <4>2
    <3>3. f.start = 0
      BY <1>1, <2>2, <3>2
    <3> QED
      BY <1>1, <3>1, <3>3 DEF Clen
  <2>4. f.end % Wrap = f.end
    BY <1>1, <2>3
  <2> QED
    BY <1>1, <2>2, <2>4, ReassemblyAssumption
<1>4. new = [ipr EXCEPT !.first = @ \/ f.start = 0,
                        !.p = @ \cup {f},
                        !.last = @ \/ IsLast(f),
                        !.len = IF IsLast(f) THEN f.end ELSE @]
  BY <1>2 DEF Chained, WithHeader, Entry
<1> HIDE DEF new
<1>5. /\ new.id = ipr.id /\ new.timer = ipr.timer
      /\ new.p = ipr.p \cup {f}
      /\ new.first = (ipr.first \/ f.start = 0)
      /\ new.last = (ipr.last \/ IsLast(f))
      /\ new.len = IF IsLast(f) THEN f.end ELSE ipr.len
  BY <1>2, <1>4 DEF Entry
<1>6. new \in Entry
  <2>1. ipr.p \cup {f} \in SUBSET Fragments
    BY <1>2
  <2>2. (IF IsLast(f) THEN f.end ELSE ipr.len) \in 0..MaxLen
    BY <1>2, <1>3
  <2>3. (ipr.first \/ f.start = 0) \in BOOLEAN /\ (ipr.last \/ IsLast(f)) \in BOOLEAN
    OBVIOUS
  <2> QED
    BY <1>2, <1>4, <2>1, <2>2, <2>3 DEF Entry
<1>7. \A g \in ipr.p : ~Overlap(g, f) /\ ~Overlap(f, g)
  BY DEF Rejected, Overlap
<1>8. Overlap(f, f)
  BY <1>1 DEF Overlap
<1>9. f \notin ipr.p
  BY <1>7, <1>8
<1>10. EntryOK(new)
  <2>1. \A g \in new.p : g.id = new.id
    BY <1>5 DEF EntryOK
  <2>2. \A g, h \in new.p : Overlap(g, h) => g = h
    BY <1>5, <1>7 DEF EntryOK
  <2>3. new.last <=> \E g \in new.p : IsLast(g)
    BY <1>5 DEF EntryOK
  <2>4. new.last => new.len = Size[new.id]
    BY <1>5 DEF EntryOK, IsLast
  <2>5. (\E g \in new.p : g.start = 0) => new.first
    BY <1>5 DEF EntryOK
  <2> QED
    BY <1>6, <2>1, <2>2, <2>3, <2>4, <2>5 DEF EntryOK
<1>11. PbufsOf(new.p) = PbufsOf(ipr.p) + Clen(f)
  <2>1. {f} \in SUBSET Fragments /\ ipr.p \cap {f} = {}
    BY <1>9
  <2> QED
    BY <1>2, <1>5, <2>1, PbufsApart, PbufsOfOne
<1> QED
  BY <1>5, <1>9, <1>10, <1>11 DEF new

\* So is the entry of a fragment that is dropped.
LEMMA WithHeaderOK ==
  ASSUME NEW ipr, EntryOK(ipr), NEW f
  PROVE  LET new == WithHeader(ipr, f)
         IN  /\ EntryOK(new)
             /\ new.id = ipr.id /\ new.timer = ipr.timer /\ new.p = ipr.p
<1> DEFINE new == WithHeader(ipr, f)
<1>1. ipr \in Entry /\ ipr.first \in BOOLEAN
  BY DEF EntryOK, Entry
<1>2. new = [ipr EXCEPT !.first = @ \/ f.start = 0]
  BY DEF WithHeader
<1> HIDE DEF new
<1>3. /\ new.id = ipr.id /\ new.timer = ipr.timer /\ new.p = ipr.p
      /\ new.last = ipr.last /\ new.len = ipr.len
      /\ new.first = (ipr.first \/ f.start = 0)
  BY <1>1, <1>2 DEF Entry
<1>4. new \in Entry
  BY <1>1, <1>2 DEF Entry
<1>5. EntryOK(new)
  BY <1>3, <1>4 DEF EntryOK
<1> QED
  BY <1>3, <1>5 DEF new

\* An entry replaced by one of the same datagram and age.
LEMMA PutOK ==
  ASSUME NEW l, ListOK(l), NEW i \in 1..Len(l), NEW new, EntryOK(new),
         new.id = l[i].id, new.timer = l[i].timer
  PROVE  LET r == Put(l, i, new)
         IN  /\ ListOK(r) /\ Len(r) = Len(l)
             /\ r[i] = new
             /\ \A k \in 1..Len(l) : k # i => r[k] = l[k]
<1> DEFINE r == Put(l, i, new)
<1>1. l \in Seq(Entry) /\ DOMAIN l = 1..Len(l) /\ Len(l) \in Nat /\ new \in Entry
  BY PiecesOfList DEF ListOK, EntryOK
<1>2. /\ r \in Seq(Entry) /\ Len(r) = Len(l)
      /\ \A k \in 1..Len(l) : r[k] = IF k = i THEN new ELSE l[k]
  BY <1>1 DEF Put
<1> HIDE DEF r
<1>3. \A k \in 1..Len(l) : r[k].id = l[k].id /\ r[k].timer = l[k].timer
                           /\ EntryOK(r[k])
  BY <1>2 DEF ListOK
<1>4. ListOK(r)
  BY <1>2, <1>3 DEF ListOK
<1> QED
  BY <1>2, <1>4 DEF r

\* What is delivered is whole.
LEMMA WholeIfComplete ==
  ASSUME NEW ipr, EntryOK(ipr), Complete(ipr)
  PROVE  /\ \A u \in 0..(Size[ipr.id] - 1) :
              \E f \in ipr.p :
                /\ f.start <= u /\ u < f.end
                /\ \A g \in ipr.p : g.start <= u /\ u < g.end => f = g
         /\ ipr.len = Size[ipr.id]
         /\ ipr.len <= MaxLen
         /\ ipr.first
<1>1. ipr \in Entry /\ ipr.p \in SUBSET Fragments /\ ipr.len \in 0..MaxLen
      /\ ipr.last
  BY DEF EntryOK, Entry, Complete
<1>2. ipr.len = Size[ipr.id] /\ ipr.len <= MaxLen
  BY <1>1, ReassemblyAssumption DEF EntryOK
<1>3. \A f \in ipr.p : /\ f.start \in Nat /\ f.end \in Nat /\ f.start < f.end
                       /\ f.end <= Size[ipr.id]
  BY <1>1, FragmentFacts DEF EntryOK
<1>4. PICK z \in ipr.p : z.end = Size[ipr.id]
  BY <1>1 DEF EntryOK, IsLast
\* Of the pieces that satisfy a condition one starts first.
<1>5. ASSUME NEW Q \in SUBSET ipr.p, Q # {}
      PROVE  \E f \in Q : \A g \in Q : f.start <= g.start
  <2> DEFINE Below(f) == {g \in Q : g.start < f.start}
             T == {Below(f) : f \in Q}
  <2>1. IsFiniteSet(Q)
    <3>1. Q \in SUBSET Fragments
      BY <1>1
    <3> QED
      BY <3>1, FragmentsFinite, FS_Subset
  <2>2. IsWellFoundedOn(StrictSubsetOrdering(Q), SUBSET Q)
    BY <2>1, FS_StrictSubsetOrderingWellFounded, FS_FiniteSubsetsOfFinite
  <2>3. T \subseteq SUBSET Q /\ T # {}
    BY <1>5
  <2>4. PICK B \in T : \A C \in T : ~(<<C, B>> \in StrictSubsetOrdering(Q))
    <3> HIDE DEF T
    <3> QED
      BY <2>2, <2>3, WFMin
  <2>5. PICK f \in Q : B = Below(f)
    BY <2>4
  <2>6. \A g \in Q : g.start \in Int
    BY <1>3
  <2>7. ASSUME NEW g \in Q, g.start < f.start PROVE FALSE
    <3>1. \A h \in Q : h.start < g.start => h.start < f.start
      BY <2>6, <2>7
    <3>2. g \in Below(f) /\ g \notin Below(g) /\ Below(g) \in SUBSET Below(f)
      BY <2>6, <2>7, <3>1
    <3>3. <<Below(g), Below(f)>> \in StrictSubsetOrdering(Q)
      <4>1. Below(g) \in SUBSET Q /\ Below(f) \in SUBSET Q
        OBVIOUS
      <4> HIDE DEF Below
      <4> QED
        BY <3>2, <4>1 DEF StrictSubsetOrdering
    <3>4. Below(g) \in T
      OBVIOUS
    <3> QED
      BY <2>4, <2>5, <3>3, <3>4
  <2> QED
    BY <2>6, <2>7
<1>6. ASSUME NEW u \in 0..(Size[ipr.id] - 1)
      PROVE  \E f \in ipr.p : f.start <= u /\ u < f.end
  <2> DEFINE Q == {f \in ipr.p : u < f.end}
  <2>1. z \in Q
    BY <1>2, <1>3, <1>4, <1>1
  <2>2. PICK f \in Q : \A g \in Q : f.start <= g.start
    BY <1>5, <2>1
  <2>3. CASE f.start = 0
    BY <2>2, <2>3
  <2>4. CASE \E h \in ipr.p : h.end = f.start
    <3>1. PICK h \in ipr.p : h.end = f.start
      BY <2>4
    <3>2. h \notin Q
      BY <1>3, <2>2, <3>1
    <3>3. ~(u < h.end)
      BY <3>2
    <3>4. f.start <= u
      BY <1>1, <1>2, <1>3, <3>1, <3>3
    <3> QED
      BY <2>2, <3>4
  <2> QED
    BY <2>2, <2>3, <2>4 DEF Complete
<1>7. ASSUME NEW u \in 0..(Size[ipr.id] - 1), NEW f \in ipr.p, NEW g \in ipr.p,
             f.start <= u, u < f.end, g.start <= u, u < g.end
      PROVE  f = g
  <2>1. Overlap(f, g)
    BY <1>1, <1>2, <1>3, <1>7 DEF Overlap
  <2> QED
    BY <2>1 DEF EntryOK
<1>8. ipr.first
  <2>1. PICK f \in ipr.p : \A g \in ipr.p : f.start <= g.start
    BY <1>4, <1>5
  <2>2. f.start = 0
    <3>1. SUFFICES ASSUME NEW h \in ipr.p, h.end = f.start PROVE FALSE
      BY DEF Complete
    <3> QED
      BY <1>3, <2>1, <3>1
  <2> QED
    BY <2>2 DEF EntryOK
<1> QED
  BY <1>2, <1>6, <1>7, <1>8


-----------------------------------------------------------------------------
(* The steps.                                                              *)

\* A step that leaves a sound list and its count, and delivers nothing.
LEMMA Quiet ==
  ASSUME NEW l, Sound(l), reassdatagrams' = l, pbufcount' = Pbufs(l),
         delivered' = None
  PROVE  IInv'
<1>1. Sound(reassdatagrams')
  OBVIOUS
<1>2. CountIsHeld'
  BY DEF CountIsHeld
<1>3. WholeDatagram'
  BY DEF WholeDatagram
<1> QED
  BY <1>1, <1>2, <1>3 DEF IInv


\* A fragment for which there is no room or no entry.
LEMMA RefuseStep ==
  ASSUME IInv, NEW f \in Fragments, Refuse(f)
  PROVE  IInv'
<1> DEFINE room == MakeRoom(f)
           list == Enqueue(room, f)
<1>1. Sound(room) /\ CountAfter(room) = Pbufs(room)
  BY RoomOK
<1>2. /\ ListOK(list) /\ Len(list) <= NumReassdata /\ Pbufs(list) <= Pbufs(room)
      /\ \A k \in 1..Len(list) : list[k].id # f.id => list[k].p # {}
  <2> HIDE DEF room
  <2> QED
    BY <1>1, EnqueueOK
<1>3. /\ \/ reassdatagrams' = room
         \/ ~Known(list, f.id) /\ reassdatagrams' = list
      /\ pbufcount' = CountAfter(reassdatagrams')
      /\ delivered' = None
  BY DEF Refuse
<1> HIDE DEF room, list
<1>4. CASE reassdatagrams' = room
  BY <1>1, <1>3, <1>4, Quiet
<1>5. CASE ~Known(list, f.id) /\ reassdatagrams' = list
  <2>1. list \in Seq(Entry) /\ room \in Seq(Entry) /\ DOMAIN list = 1..Len(list)
    BY <1>1, <1>2, PiecesOfList DEF ListOK, Sound
  <2>2. Filled(list)
    BY <1>2, <1>5, <2>1 DEF Known, Filled
  <2>3. Pbufs(list) <= MaxPbufs
    <3>1. Pbufs(list) \in Nat /\ Pbufs(room) \in Nat
      BY <2>1, PiecesOfList
    <3> QED
      BY <1>1, <1>2, <3>1, ReassemblyAssumption DEF Sound
  <2>4. Sound(list)
    BY <1>2, <2>2, <2>3 DEF Sound
  <2>5. CountAfter(list) = Pbufs(list)
    BY <2>1, CountAfterIs
  <2> QED
    BY <1>3, <1>5, <2>4, <2>5, Quiet
<1> QED
  BY <1>3, <1>4, <1>5

\* What the list in which a fragment is put has in common in all cases.
LEMMA ListOfFragment ==
  ASSUME IInv, NEW f \in Fragments,
         CountAfter(MakeRoom(f)) + Clen(f) <= MaxPbufs
  PROVE  LET list == Enqueue(MakeRoom(f), f)
         IN  /\ ListOK(list) /\ Len(list) <= NumReassdata
             /\ DOMAIN list = 1..Len(list)
             /\ \A k \in 1..Len(list) : list[k].id # f.id => list[k].p # {}
             /\ CountAfter(list) = Pbufs(list) /\ Pbufs(list) \in Nat
             /\ Pbufs(list) + Clen(f) <= MaxPbufs
<1> DEFINE room == MakeRoom(f)
           list == Enqueue(room, f)
<1>1. Sound(room) /\ CountAfter(room) = Pbufs(room)
  BY RoomOK
<1>2. Pbufs(room) + Clen(f) <= MaxPbufs
  BY <1>1
<1> HIDE DEF room
<1>3. /\ ListOK(list) /\ Len(list) <= NumReassdata /\ Pbufs(list) <= Pbufs(room)
      /\ \A k \in 1..Len(list) : list[k].id # f.id => list[k].p # {}
  BY <1>1, EnqueueOK
<1> HIDE DEF list
<1>4. list \in Seq(Entry) /\ room \in Seq(Entry)
  BY <1>1, <1>3 DEF ListOK, Sound
<1>5. /\ Pbufs(list) \in Nat /\ Pbufs(room) \in Nat /\ DOMAIN list = 1..Len(list)
      /\ CountAfter(list) = Pbufs(list)
  BY <1>4, PiecesOfList, CountAfterIs
<1>6. Pbufs(list) + Clen(f) <= MaxPbufs
  BY <1>2, <1>3, <1>5, FragmentFacts, ReassemblyAssumption
<1> QED
  BY <1>3, <1>5, <1>6 DEF list, room

\* A fragment that is dropped.
LEMMA DropStep ==
  ASSUME IInv, NEW f \in Fragments, NEW list, ListOK(list),
         Len(list) <= NumReassdata,
         \A k \in 1..Len(list) : list[k].id # f.id => list[k].p # {},
         CountAfter(list) = Pbufs(list), Pbufs(list) \in Nat,
         Pbufs(list) + Clen(f) <= MaxPbufs,
         NEW i \in 1..Len(list), list[i].id = f.id,
         Drop(list, i, f)
  PROVE  IInv'
<1>0. /\ NumReassdata \in Nat /\ MaxPbufs \in Nat /\ Clen(f) \in Nat
      /\ list \in Seq(Entry) /\ Len(list) \in Nat /\ Pbufs(list) <= MaxPbufs
  BY FragmentFacts, PiecesOfList, ReassemblyAssumption DEF ListOK
<1>1. \A k \in 1..Len(list) : k # i => list[k].p # {}
  BY DEF ListOK
<1>2. pbufcount' = Pbufs(list) /\ delivered' = None
  BY DEF Drop
<1>3. CASE list[i].p = {}
  <2> DEFINE r == Without(list, {list[i]})
  <2>1. reassdatagrams' = r
    BY <1>3 DEF Drop
  <2>2. /\ ListOK(r) /\ From(r, list) /\ Len(r) <= Len(list)
    BY WithoutOK
  <2>3. /\ \A k \in 1..Len(r) : r[k].id # list[i].id
        /\ Pbufs(list) = Pbufs(r) + PbufsOf(list[i].p)
    BY WithoutOne
  <2> HIDE DEF r
  <2>4. Filled(r)
    BY <2>2, <2>3 DEF Filled, From
  <2>5. Pbufs(r) \in Nat /\ Len(r) \in Nat
    BY <2>2, PiecesOfList DEF ListOK
  <2>6. Pbufs(r) = Pbufs(list)
    BY <1>3, <2>3, <2>5, PbufsOfNone
  <2>7. Sound(r)
    BY <1>0, <2>2, <2>4, <2>5, <2>6 DEF Sound
  <2> QED
    BY <1>2, <2>1, <2>6, <2>7, Quiet
<1>4. CASE list[i].p # {}
  <2> DEFINE new == WithHeader(list[i], f)
             r == Put(list, i, new)
  <2>1. reassdatagrams' = r
    BY <1>4 DEF Drop
  <2>2. /\ EntryOK(new) /\ new.id = list[i].id /\ new.timer = list[i].timer
        /\ new.p = list[i].p
    BY WithHeaderOK DEF ListOK
  <2> HIDE DEF new
  <2>3. /\ ListOK(r) /\ Len(r) = Len(list)
        /\ r[i] = new
        /\ \A k \in 1..Len(list) : k # i => r[k] = list[k]
    BY <2>2, PutOK
  <2> HIDE DEF r
  <2>4. \A k \in 1..Len(list) : r[k].p = list[k].p
    BY <2>2, <2>3
  <2>5. Filled(r)
    BY <1>1, <1>4, <2>3, <2>4 DEF Filled
  <2>6. Pbufs(r) = Pbufs(list)
    <3>1. r \in Seq(Entry)
      BY <2>3 DEF ListOK
    <3>2. PiecesAt(r, DOMAIN r) = PiecesAt(list, DOMAIN list)
      BY <1>0, <2>3, <2>4, <3>1, SamePieces
    <3> QED
      BY <3>2 DEF Pbufs
  <2>7. Sound(r)
    BY <1>0, <2>3, <2>5, <2>6 DEF Sound
  <2> QED
    BY <1>2, <2>1, <2>6, <2>7, Quiet
<1> QED
  BY <1>3, <1>4

\* A fragment that is chained into its datagram.
LEMMA KeepStep ==
  ASSUME IInv, NEW f \in Fragments, NEW list, ListOK(list),
         Len(list) <= NumReassdata,
         \A k \in 1..Len(list) : list[k].id # f.id => list[k].p # {},
         CountAfter(list) = Pbufs(list), Pbufs(list) \in Nat,
         Pbufs(list) + Clen(f) <= MaxPbufs,
         NEW i \in 1..Len(list), list[i].id = f.id,
         Keep(list, i, f)
  PROVE  IInv'
<1> DEFINE new == Chained(WithHeader(list[i], f), f)
           r == Put(list, i, new)
           P == PiecesAt(list, DOMAIN list)
<1>0. /\ list \in Seq(Entry) /\ Len(list) \in Nat /\ EntryOK(list[i])
  BY PiecesOfList DEF ListOK
<1>1. /\ ~Rejected(list[i], f)
      /\ reassdatagrams' = r
      /\ pbufcount' = Pbufs(list) + Clen(f)
      /\ delivered' = None
  BY DEF Keep
<1>2. /\ EntryOK(new)
      /\ new.id = list[i].id /\ new.timer = list[i].timer
      /\ new.p = list[i].p \cup {f} /\ f \notin list[i].p
  BY <1>0, <1>1, ChainedOK
<1> HIDE DEF new
<1>3. /\ ListOK(r) /\ Len(r) = Len(list)
      /\ r[i] = new
      /\ \A k \in 1..Len(list) : k # i => r[k] = list[k]
  BY <1>2, PutOK
<1> HIDE DEF r
<1>4. Filled(r)
  BY <1>2, <1>3 DEF Filled, ListOK
<1>5. r \in Seq(Entry)
  BY <1>3 DEF ListOK
<1>6. P \in SUBSET Fragments
      /\ \A g : g \in P <=> \E k \in 1..Len(list) : g \in list[k].p
  BY <1>0, PiecesOfList
<1>7. PiecesAt(r, DOMAIN r) = P \cup {f}
  <2>1. \A g : g \in PiecesAt(r, DOMAIN r) <=> \E k \in 1..Len(r) : g \in r[k].p
    BY <1>5, PiecesOfList
  <2> HIDE DEF P
  <2> QED
    BY <1>2, <1>3, <1>6, <2>1
<1>8. f \notin P
  <2>1. SUFFICES ASSUME NEW k \in 1..Len(list), f \in list[k].p PROVE FALSE
    BY <1>6
  <2>2. list[k].id = list[i].id
    BY <2>1 DEF ListOK, EntryOK
  <2> QED
    BY <1>2, <2>1, <2>2 DEF ListOK
<1>9. Pbufs(r) = Pbufs(list) + Clen(f)
  <2>1. {f} \in SUBSET Fragments /\ P \cap {f} = {}
    BY <1>8
  <2>2. PbufsOf(P \cup {f}) = PbufsOf(P) + PbufsOf({f})
    <3> HIDE DEF P
    <3> QED
      BY <1>6, <2>1, PbufsApart
  <2> QED
    BY <1>7, <2>2, PbufsOfOne DEF Pbufs
<1>10. Sound(r)
  BY <1>3, <1>4, <1>9 DEF Sound
<1> QED
  BY <1>1, <1>9, <1>10, Quiet

\* A fragment that completes its datagram.
LEMMA DeliverStep ==
  ASSUME IInv, NEW f \in Fragments, NEW list, ListOK(list),
         Len(list) <= NumReassdata,
         \A k \in 1..Len(list) : list[k].id # f.id => list[k].p # {},
         CountAfter(list) = Pbufs(list), Pbufs(list) \in Nat,
         Pbufs(list) + Clen(f) <= MaxPbufs,
         NEW i \in 1..Len(list), list[i].id = f.id,
         Deliver(list, i, f)
  PROVE  IInv'
<1> DEFINE new == Chained(WithHeader(list[i], f), f)
           r == Without(list, {list[i]})
<1>0. /\ list \in Seq(Entry) /\ Len(list) \in Nat /\ EntryOK(list[i])
      /\ NumReassdata \in Nat /\ MaxPbufs \in Nat /\ Clen(f) \in Nat
  BY FragmentFacts, PiecesOfList, ReassemblyAssumption DEF ListOK
<1>1. /\ ~Rejected(list[i], f)
      /\ Complete(new)
      /\ reassdatagrams' = r
      /\ pbufcount' = Pbufs(list) + Clen(f) - PbufsOf(new.p)
      /\ delivered' = new
  BY DEF Deliver
<1>2. /\ EntryOK(new) /\ PbufsOf(new.p) = PbufsOf(list[i].p) + Clen(f)
  BY <1>0, <1>1, ChainedOK
<1> HIDE DEF new
<1>3. /\ ListOK(r) /\ From(r, list) /\ Len(r) <= Len(list)
  BY WithoutOK
<1>4. /\ \A k \in 1..Len(r) : r[k].id # list[i].id
      /\ Pbufs(list) = Pbufs(r) + PbufsOf(list[i].p)
  BY WithoutOne
<1> HIDE DEF r
<1>5. Filled(r)
  BY <1>3, <1>4 DEF Filled, From
<1>6. Pbufs(r) \in Nat /\ Len(r) \in Nat /\ PbufsOf(list[i].p) \in Nat
  <2>1. list[i].p \in SUBSET Fragments
    BY <1>0 DEF EntryOK, Entry
  <2> QED
    BY <1>3, <2>1, PiecesOfList, UnitsFinite DEF ListOK
<1>7. pbufcount' = Pbufs(r)
  BY <1>0, <1>1, <1>2, <1>4, <1>6
<1>8. Pbufs(r) <= MaxPbufs /\ Len(r) <= NumReassdata
  BY <1>0, <1>3, <1>4, <1>6
<1>9. Sound(r)
  BY <1>3, <1>5, <1>8 DEF Sound
<1>10. new \in Entry
  BY <1>2 DEF EntryOK
<1>11. WholeDatagram'
  <2>1. /\ \A u \in 0..(Size[new.id] - 1) :
              \E g \in new.p :
                /\ g.start <= u /\ u < g.end
                /\ \A h \in new.p : h.start <= u /\ u < h.end => g = h
        /\ new.len = Size[new.id]
        /\ new.len <= MaxLen
        /\ new.first
    BY <1>1, <1>2, WholeIfComplete
  <2> QED
    BY <1>1, <2>1 DEF WholeDatagram
<1>12. CountIsHeld'
  BY <1>1, <1>7 DEF CountIsHeld
<1>13. Sound(reassdatagrams') /\ delivered' \in Entry
  BY <1>1, <1>9, <1>10
<1> QED
  BY <1>11, <1>12, <1>13 DEF IInv

\* The timer.
LEMMA TimerStep ==
  ASSUME IInv, IpReassTmr
  PROVE  IInv'
<1> DEFINE l == reassdatagrams
           I == {i \in DOMAIN l : l[i].timer > 0}
           live == Sub(l, I)
           r == [i \in DOMAIN live |-> [live[i] EXCEPT !.timer = @ - 1]]
<1>0. MaxAge \in Nat /\ NumReassdata \in Nat /\ MaxPbufs \in Nat
  BY ReassemblyAssumption
<1>1. Sound(l) /\ ListOK(l) /\ l \in Seq(Entry) /\ DOMAIN l = 1..Len(l)
      /\ Len(l) \in Nat /\ Pbufs(l) \in Nat
  BY PiecesOfList DEF IInv, Sound, ListOK
<1>2. reassdatagrams' = r /\ pbufcount' = CountAfter(live) /\ delivered' = None
  BY DEF IpReassTmr
<1>3. /\ ListOK(live) /\ From(live, l) /\ Len(live) <= Len(l)
      /\ \A k \in 1..Len(live) : \E i \in I : live[k] = l[i]
  <2>1. I \in SUBSET (1..Len(l))
    BY <1>1
  <2> HIDE DEF I, l
  <2> QED
    BY <1>1, <2>1, SubOK
<1>4. \A k \in 1..Len(live) : live[k].timer > 0
  BY <1>3
<1> HIDE DEF l, I, live
<1>5. live \in Seq(Entry) /\ DOMAIN live = 1..Len(live) /\ Len(live) \in Nat
      /\ Pbufs(live) \in Nat
  BY <1>3, PiecesOfList DEF ListOK
<1>6. ASSUME NEW k \in 1..Len(live)
      PROVE  /\ r[k] = [live[k] EXCEPT !.timer = @ - 1]
             /\ live[k] \in Entry /\ live[k].timer \in 0..MaxAge
             /\ live[k].timer - 1 \in 0..MaxAge
  <2>1. live[k] \in Entry
    BY <1>5, ElementOfSeq
  <2>2. live[k].timer \in 0..MaxAge
    BY <2>1 DEF Entry
  <2> QED
    BY <1>0, <1>4, <1>5, <2>1, <2>2
<1>7. ASSUME NEW k \in 1..Len(live)
      PROVE  /\ r[k] \in Entry /\ r[k].timer = live[k].timer - 1
             /\ r[k].id = live[k].id /\ r[k].p = live[k].p
             /\ r[k].last = live[k].last /\ r[k].len = live[k].len
             /\ r[k].first = live[k].first
  <2> HIDE DEF r
  <2> QED
    BY <1>6 DEF Entry
<1>8. r \in Seq(Entry) /\ Len(r) = Len(live) /\ DOMAIN r = 1..Len(live)
  <2>1. r \in [1..Len(live) -> Entry]
    BY <1>5, <1>7
  <2> HIDE DEF r
  <2> QED
    BY <1>5, <2>1, SeqDef
<1> HIDE DEF r
<1>9. \A k \in 1..Len(live) : EntryOK(r[k])
  BY <1>3, <1>7 DEF ListOK, EntryOK
<1>10. \A i, j \in 1..Len(live) : i < j => r[j].timer <= r[i].timer
  <2>1. SUFFICES ASSUME NEW i \in 1..Len(live), NEW j \in 1..Len(live), i < j
                 PROVE  r[j].timer <= r[i].timer
    OBVIOUS
  <2>2. live[j].timer <= live[i].timer
    BY <1>3, <2>1 DEF ListOK
  <2>3. live[j].timer \in 0..MaxAge /\ live[i].timer \in 0..MaxAge
    BY <1>6
  <2>4. r[j].timer = live[j].timer - 1 /\ r[i].timer = live[i].timer - 1
    BY <1>7
  <2> QED
    BY <1>0, <2>2, <2>3, <2>4
<1>11. \A i, j \in 1..Len(live) : r[j].id = r[i].id => i = j
  BY <1>3, <1>7 DEF ListOK
<1>12. ListOK(r)
  BY <1>8, <1>9, <1>10, <1>11 DEF ListOK
<1>13. Filled(r)
  BY <1>1, <1>3, <1>7, <1>8 DEF Filled, From, Sound
<1>14. PiecesAt(r, DOMAIN r) = PiecesAt(live, DOMAIN live)
  BY <1>5, <1>7, <1>8, SamePieces
<1>15. Pbufs(r) = Pbufs(live) /\ Pbufs(live) <= Pbufs(l)
  BY <1>1, <1>3, <1>5, <1>14, FromPieces DEF Pbufs
<1>16. Sound(r)
  <2>1. Len(r) <= NumReassdata /\ Pbufs(r) <= MaxPbufs
    BY <1>0, <1>1, <1>3, <1>5, <1>8, <1>15 DEF Sound
  <2> QED
    BY <1>12, <1>13, <2>1 DEF Sound
<1>17. CountAfter(live) = Pbufs(live)
  BY <1>5, CountAfterIs
<1> QED
  BY <1>2, <1>15, <1>16, <1>17, Quiet


-----------------------------------------------------------------------------
(* Theorems.                                                               *)

\* The empty list to begin with is as it must be.
LEMMA InitOK == Init => IInv
<1> SUFFICES ASSUME Init PROVE IInv
  OBVIOUS
<1>1. /\ reassdatagrams = <<>> /\ pbufcount = 0 /\ delivered = None
      /\ NumReassdata \in Nat /\ MaxPbufs \in Nat
  BY ReassemblyAssumption DEF Init
<1>2. <<>> \in Seq(Entry) /\ Len(<<>>) = 0
  OBVIOUS
<1>3. ListOK(<<>>) /\ Filled(<<>>)
  BY <1>2 DEF ListOK, Filled
<1>4. Pbufs(<<>>) = 0
  <2>1. PiecesAt(<<>>, DOMAIN <<>>) = {}
    BY <1>2 DEF PiecesAt
  <2> QED
    BY <2>1, PbufsOfNone DEF Pbufs
<1>5. Sound(<<>>)
  BY <1>1, <1>2, <1>3, <1>4 DEF Sound
<1> QED
  BY <1>1, <1>4, <1>5 DEF IInv, CountIsHeld, WholeDatagram

\* Every fragment, dropped, kept or delivered, with all it evicts, and every
\* tick of the timer preserve the invariant.
LEMMA StepOK == IInv /\ [Next]_vars => IInv'
<1> SUFFICES ASSUME IInv, [Next]_vars PROVE IInv'
  OBVIOUS
<1>1. ASSUME NEW f \in Fragments, Ip4Reass(f) PROVE IInv'
  <2> DEFINE list == Enqueue(MakeRoom(f), f)
  <2>1. CASE Refuse(f)
    BY <2>1, RefuseStep
  <2>2. CASE /\ CountAfter(MakeRoom(f)) + Clen(f) <= MaxPbufs
             /\ \E i \in DOMAIN list :
                  /\ list[i].id = f.id
                  /\ \/ Drop(list, i, f)
                     \/ Keep(list, i, f)
                     \/ Deliver(list, i, f)
    <3>1. /\ ListOK(list) /\ Len(list) <= NumReassdata
          /\ DOMAIN list = 1..Len(list)
          /\ \A k \in 1..Len(list) : list[k].id # f.id => list[k].p # {}
          /\ CountAfter(list) = Pbufs(list) /\ Pbufs(list) \in Nat
          /\ Pbufs(list) + Clen(f) <= MaxPbufs
      BY <2>2, ListOfFragment
    <3> HIDE DEF list
    <3>2. PICK i \in 1..Len(list) :
            /\ list[i].id = f.id
            /\ \/ Drop(list, i, f)
               \/ Keep(list, i, f)
               \/ Deliver(list, i, f)
      BY <2>2, <3>1
    <3>3. CASE Drop(list, i, f)
      BY <3>1, <3>2, <3>3, DropStep
    <3>4. CASE Keep(list, i, f)
      BY <3>1, <3>2, <3>4, KeepStep
    <3>5. CASE Deliver(list, i, f)
      BY <3>1, <3>2, <3>5, DeliverStep
    <3> QED
      BY <3>2, <3>3, <3>4, <3>5
  <2> QED
    BY <1>1, <2>1, <2>2 DEF Ip4Reass
<1>2. CASE IpReassTmr
  BY <1>2, TimerStep
<1>3. CASE UNCHANGED vars
  BY <1>3 DEF vars, IInv, CountIsHeld, WholeDatagram
<1> QED
  BY <1>1, <1>2, <1>3 DEF Next

\* The list, its count and what has been delivered are right in every state:
\* ip4_reass and ip_reass_tmr for every order of arrivals and ticks.
THEOREM Inductive == Spec => []IInv
BY InitOK, StepOK, PTL DEF Spec

\* The count of pbufs is what the list holds, no entry is empty, no two
\* pieces of a datagram overlap, the oldest datagram is at the end, and the
\* header kept is the one of the first fragment.
THEOREM Listed == Spec => []ListSound
<1>1. IInv => ListSound
  <2> SUFFICES ASSUME IInv PROVE ListSound
    OBVIOUS
  <2> DEFINE l == reassdatagrams
  <2>1. /\ l \in Seq(Entry) /\ DOMAIN l = 1..Len(l) /\ ListOK(l) /\ Filled(l)
        /\ Len(l) <= NumReassdata /\ Pbufs(l) <= MaxPbufs /\ Pbufs(l) \in Nat
        /\ \A i \in 1..Len(l) : l[i] \in Entry /\ EntryOK(l[i])
        /\ pbufcount = Pbufs(l) /\ delivered \in Entry \cup {None}
    BY PiecesOfList DEF IInv, Sound, ListOK, CountIsHeld
  <2>2. TypeOK
    BY <2>1, ReassemblyAssumption DEF TypeOK
  <2>3. CountIsHeld /\ NoEmptyEntry
    BY <2>1 DEF CountIsHeld, NoEmptyEntry, Filled
  <2>4. Pieces
    <3>1. SUFFICES ASSUME NEW i \in DOMAIN l
                   PROVE  /\ \A j \in DOMAIN l : l[j].id = l[i].id => i = j
                          /\ \A f, g \in l[i].p : f.id = l[i].id /\ (Overlap(f, g) => f = g)
                          /\ l[i].last <=> \E f \in l[i].p : IsLast(f)
                          /\ l[i].last => l[i].len = Size[l[i].id]
      BY DEF Pieces
    <3>2. EntryOK(l[i])
      BY <2>1, <3>1
    <3>3. \A j \in DOMAIN l : l[j].id = l[i].id => i = j
      BY <2>1, <3>1 DEF ListOK
    <3> QED
      BY <3>2, <3>3 DEF EntryOK
  <2>5. OldestAtTheEnd
    BY <2>1 DEF OldestAtTheEnd, ListOK
  <2>6. HeaderOfFirst
    BY <2>1 DEF HeaderOfFirst, EntryOK
  <2> QED
    BY <2>2, <2>3, <2>4, <2>5, <2>6 DEF ListSound
<1> QED
  BY <1>1, Inductive, PTL

\* What ip4_reass hands to ip4_input is a whole datagram, every unit of it
\* once, however it was cut up and in whatever order it came.
THEOREM Delivered == Spec => []WholeDatagram
<1>1. IInv => WholeDatagram
  BY DEF IInv
<1> QED
  BY <1>1, Inductive, PTL

\* An arriving fragment never costs its own datagram what it has already.
THEOREM Spared == Spec => OwnPiecesStay
<1>1. IInv /\ [Next]_vars => [PiecesStay]_vars
  <2> SUFFICES ASSUME IInv, NEW i \in DOMAIN reassdatagrams,
                      delivered' = None, NEW f \in Fragments,
                      f.id = reassdatagrams[i].id, Ip4Reass(f)
               PROVE  \E j \in DOMAIN reassdatagrams' :
                        /\ reassdatagrams'[j].id = reassdatagrams[i].id
                        /\ reassdatagrams[i].p \subseteq reassdatagrams'[j].p
    BY DEF PiecesStay
  <2> DEFINE l == reassdatagrams
             room == MakeRoom(f)
             list == Enqueue(room, f)
  <2>1. /\ l \in Seq(Entry) /\ DOMAIN l = 1..Len(l) /\ ListOK(l) /\ Filled(l)
    BY PiecesOfList DEF IInv, Sound, ListOK
  <2>2. /\ Sound(room)
        /\ \E k \in 1..Len(room) : room[k] = l[i]
    BY <2>1, RoomOK
  <2>3. PICK a \in 1..Len(room) : room[a] = l[i]
    BY <2>2
  <2> HIDE DEF room
  <2>4. /\ ListOK(list)
        /\ \A b \in 1..Len(room) : room[b].id = f.id =>
             \E k \in 1..Len(list) : list[k] = room[b]
    BY <2>2, EnqueueOK
  <2>5. PICK b \in 1..Len(list) : list[b] = l[i]
    BY <2>3, <2>4
  <2>6. DOMAIN room = 1..Len(room) /\ DOMAIN list = 1..Len(list)
        /\ list \in Seq(Entry)
    BY <2>2, <2>4, PiecesOfList DEF Sound, ListOK
  <2> HIDE DEF list, l
  <2>7. l[i].p # {}
    BY <2>1 DEF Filled, l
  <2>8. CASE reassdatagrams' = room
    BY <2>3, <2>6, <2>8 DEF l
  <2>9. CASE reassdatagrams' = list
    BY <2>5, <2>6, <2>9 DEF l
  <2>10. CASE \E k \in DOMAIN list :
                /\ list[k].id = f.id
                /\ \/ Drop(list, k, f)
                   \/ Keep(list, k, f)
                   \/ Deliver(list, k, f)
    <3>1. PICK k \in 1..Len(list) :
                /\ list[k].id = f.id
                /\ \/ Drop(list, k, f)
                   \/ Keep(list, k, f)
                   \/ Deliver(list, k, f)
      BY <2>6, <2>10
    <3>2. k = b
      BY <2>4, <2>5, <3>1 DEF ListOK, l
    <3>3. EntryOK(list[k]) /\ list[k] = l[i]
      BY <2>4, <2>5, <3>2 DEF ListOK
    <3>4. ASSUME NEW new, EntryOK(new), new.id = list[k].id,
                 new.timer = list[k].timer, list[k].p \subseteq new.p,
                 reassdatagrams' = Put(list, k, new)
          PROVE  \E j \in DOMAIN reassdatagrams' :
                   /\ reassdatagrams'[j].id = l[i].id
                   /\ l[i].p \subseteq reassdatagrams'[j].p
      <4> DEFINE r == Put(list, k, new)
      <4>1. ListOK(r) /\ Len(r) = Len(list) /\ r[k] = new
        BY <2>4, <3>4, PutOK
      <4> HIDE DEF r
      <4>2. DOMAIN r = 1..Len(list)
        BY <4>1, PiecesOfList DEF ListOK
      <4>3. reassdatagrams' = r
        BY <3>4 DEF r
      <4> QED
        BY <3>3, <3>4, <4>1, <4>2, <4>3
    <3>5. CASE Drop(list, k, f)
      <4> DEFINE new == WithHeader(list[k], f)
      <4>1. reassdatagrams' = Put(list, k, new)
        BY <2>7, <3>3, <3>5 DEF Drop
      <4>2. EntryOK(new) /\ new.id = list[k].id /\ new.timer = list[k].timer
            /\ new.p = list[k].p
        BY <3>3, WithHeaderOK
      <4> HIDE DEF new
      <4> QED
        BY <3>4, <4>1, <4>2 DEF l
    <3>6. CASE Keep(list, k, f)
      <4> DEFINE new == Chained(WithHeader(list[k], f), f)
      <4>1. reassdatagrams' = Put(list, k, new) /\ ~Rejected(list[k], f)
        BY <3>6 DEF Keep
      <4>2. EntryOK(new) /\ new.id = list[k].id /\ new.timer = list[k].timer
            /\ new.p = list[k].p \cup {f}
        BY <3>1, <3>3, <4>1, ChainedOK
      <4> HIDE DEF new
      <4>3. list[k].p \subseteq new.p
        BY <4>2
      <4> QED
        BY <3>4, <4>1, <4>2, <4>3 DEF l
    <3>7. CASE Deliver(list, k, f)
      <4> DEFINE new == Chained(WithHeader(list[k], f), f)
      <4>1. delivered' = new /\ ~Rejected(list[k], f)
        BY <3>7 DEF Deliver
      <4>2. EntryOK(new)
        BY <3>1, <3>3, <4>1, ChainedOK
      <4> HIDE DEF new
      <4>3. None \in Entry
        BY <4>1, <4>2 DEF EntryOK
      <4>4. "p" \in DOMAIN None
        BY <4>3 DEF Entry
      <4> QED
        BY <4>4 DEF None
    <3> QED
      BY <3>1, <3>5, <3>6, <3>7 DEF l
  <2>11. \/ reassdatagrams' = room
         \/ reassdatagrams' = list
         \/ \E k \in DOMAIN list :
                /\ list[k].id = f.id
                /\ \/ Drop(list, k, f)
                   \/ Keep(list, k, f)
                   \/ Deliver(list, k, f)
    BY DEF Ip4Reass, Refuse, list, room
  <2> QED
    BY <2>8, <2>9, <2>10, <2>11 DEF l
<1> QED
  BY <1>1, Inductive, PTL DEF Spec, OwnPiecesStay
=============================================================================
