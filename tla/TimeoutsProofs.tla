--------------------------- MODULE TimeoutsProofs ---------------------------
(***************************************************************************)
(* Proofs about Timeouts, for a clock of any width, any set of timers with *)
(* any intervals, and any use the application makes of its timeouts.       *)
(***************************************************************************)
EXTENDS Timeouts, OrderedListsProofs

-----------------------------------------------------------------------------
(* Arithmetic modulo Wrap.                                                 *)

\* The longest timeout is a quarter of a turn of the clock.
LEMMA Quarter ==
  /\ MaxMsecs \in Nat \ {0}
  /\ Wrap = 4 * MaxMsecs
  /\ LWIP_MAX_TIMEOUT = 2 * MaxMsecs - 1
  /\ MaxLate \in 1 .. MaxMsecs - 1
<1>1. Wrap \in Nat \ {0} /\ Wrap % 4 = 0
  BY TimerAssumption
<1>2. Wrap = 4 * (Wrap \div 4) /\ Wrap \div 2 = 2 * (Wrap \div 4)
      /\ Wrap \div 4 \in Nat \ {0}
  BY <1>1
<1> QED
  BY <1>2, TimerAssumption DEF MaxMsecs, LWIP_MAX_TIMEOUT

\* The remainder of a number less than a turn, or less than two, away from 0.
LEMMA Remainder ==
  ASSUME NEW x \in Int
  PROVE  /\ x % Wrap \in Clock
         /\ x \in 0 .. Wrap - 1 => x % Wrap = x
         /\ x \in Wrap .. 2 * Wrap - 1 => x % Wrap = x - Wrap
         /\ x \in -Wrap .. -1 => x % Wrap = x + Wrap
<1>1. Wrap \in Nat \ {0}
  BY TimerAssumption
<1>2. x % Wrap \in 0 .. Wrap - 1
  BY <1>1
<1>3. ASSUME x \in 0 .. Wrap - 1 PROVE x % Wrap = x
  BY <1>1, <1>3
<1>4. ASSUME x \in Wrap .. 2 * Wrap - 1 PROVE x % Wrap = x - Wrap
  BY <1>1, <1>4
<1>5. ASSUME x \in -Wrap .. -1 PROVE x % Wrap = x + Wrap
  BY <1>1, <1>5
<1> QED
  BY <1>2, <1>3, <1>4, <1>5 DEF Clock

\* On the clock at c, time is "left" milliseconds away.
Agree(c, time, left) == time \in {c + left, c + left - Wrap, c + left + Wrap}

\* A time is what the clock will show when what is left is over.
LEMMA AgreeAhead ==
  ASSUME NEW c \in Clock, NEW n \in 0 .. MaxMsecs
  PROVE  (c + n) % Wrap \in Clock /\ Agree(c, (c + n) % Wrap, n)
<1>1. c \in Int /\ n \in Int /\ c + n \in Int /\ Wrap \in Int
  BY Quarter DEF Clock
<1>2. c + n \in 0 .. Wrap - 1 \/ c + n \in Wrap .. 2 * Wrap - 1
  BY Quarter DEF Clock
<1> QED
  BY <1>1, <1>2, Remainder DEF Agree

\* A millisecond later, a millisecond less is left.
LEMMA AgreeTick ==
  ASSUME NEW c \in Clock, NEW time \in Clock, NEW left \in -MaxLate .. MaxMsecs,
         Agree(c, time, left)
  PROVE  Agree((c + 1) % Wrap, time, left - 1)
<1>1. c \in 0 .. Wrap - 1 /\ time \in 0 .. Wrap - 1 /\ Wrap \in Nat /\ Wrap >= 4
      /\ left \in Int /\ MaxMsecs \in Nat /\ MaxLate \in Nat
      /\ MaxLate < MaxMsecs /\ Wrap = 4 * MaxMsecs
  BY Quarter DEF Clock
<1>2. CASE c = Wrap - 1
  <2>1. (c + 1) % Wrap = 0
    <3>1. c + 1 \in Wrap .. 2 * Wrap - 1 /\ c + 1 \in Int
      BY <1>1, <1>2
    <3>2. (c + 1) % Wrap = (c + 1) - Wrap
      BY <3>1, Remainder
    <3> QED
      BY <1>1, <1>2, <3>2
  <2> QED
    BY <1>1, <1>2, <2>1 DEF Agree
<1>3. CASE c # Wrap - 1
  <2>1. (c + 1) % Wrap = c + 1
    <3>1. c + 1 \in 0 .. Wrap - 1 /\ c + 1 \in Int
      BY <1>1, <1>3
    <3> QED
      BY <3>1, Remainder
  <2> QED
    BY <1>1, <2>1 DEF Agree
<1> QED
  BY <1>2, <1>3

\* TIME_LESS_THAN compares two times as the true distances to them do, as long
\* as these are less than half a turn of the clock apart.
LEMMA Compare ==
  ASSUME NEW c \in Clock, NEW t1 \in Clock, NEW t2 \in Clock,
         NEW l1 \in Int, NEW l2 \in Int,
         Agree(c, t1, l1), Agree(c, t2, l2),
         l1 - l2 \in -(2 * MaxMsecs) .. 2 * MaxMsecs - 1
  PROVE  TIME_LESS_THAN(t1, t2) <=> l1 < l2
<1>1. /\ c \in 0 .. Wrap - 1 /\ t1 \in 0 .. Wrap - 1 /\ t2 \in 0 .. Wrap - 1
      /\ MaxMsecs \in Nat \ {0} /\ Wrap = 4 * MaxMsecs
  BY Quarter DEF Clock
<1>2. t1 - t2 \in {l1 - l2, l1 - l2 - Wrap, l1 - l2 + Wrap,
                   l1 - l2 - 2 * Wrap, l1 - l2 + 2 * Wrap}
  BY <1>1 DEF Agree
<1>3. t1 - t2 \in Int
  BY <1>1
<1>4. CASE l1 < l2
  <2>1. (t1 - t2) % Wrap = l1 - l2 + Wrap
    <3>1. l1 - l2 \in -(2 * MaxMsecs) .. -1
      BY <1>4, <1>1
    <3>2. t1 - t2 \in {l1 - l2, l1 - l2 + Wrap}
      BY <1>1, <1>2, <3>1
    <3>3. CASE t1 - t2 = l1 - l2
      <4>1. t1 - t2 \in -Wrap .. -1
        BY <1>1, <3>1, <3>3
      <4> QED
        BY <1>3, <3>3, <4>1, Remainder
    <3>4. CASE t1 - t2 = l1 - l2 + Wrap
      <4>1. t1 - t2 \in 0 .. Wrap - 1
        BY <1>1, <3>1, <3>4
      <4> QED
        BY <1>3, <3>4, <4>1, Remainder
    <3> QED
      BY <3>2, <3>3, <3>4
  <2>2. l1 - l2 + Wrap > 2 * MaxMsecs - 1
    BY <1>1
  <2> QED
    BY <1>4, <2>1, <2>2, Quarter DEF TIME_LESS_THAN
<1>5. CASE ~(l1 < l2)
  <2>1. (t1 - t2) % Wrap = l1 - l2
    <3>1. l1 - l2 \in 0 .. 2 * MaxMsecs - 1
      BY <1>5, <1>1
    <3>2. t1 - t2 \in {l1 - l2, l1 - l2 - Wrap}
      BY <1>1, <1>2, <3>1
    <3>3. CASE t1 - t2 = l1 - l2
      <4>1. t1 - t2 \in 0 .. Wrap - 1
        BY <1>1, <3>1, <3>3
      <4> QED
        BY <1>3, <3>3, <4>1, Remainder
    <3>4. CASE t1 - t2 = l1 - l2 - Wrap
      <4>1. t1 - t2 \in -Wrap .. -1 /\ t1 - t2 + Wrap = l1 - l2
        BY <1>1, <3>1, <3>4
      <4> QED
        BY <1>3, <4>1, Remainder
    <3> QED
      BY <3>2, <3>3, <3>4
  <2>2. ~(l1 - l2 > 2 * MaxMsecs - 1)
    BY <1>1
  <2> QED
    BY <1>5, <2>1, <2>2, Quarter DEF TIME_LESS_THAN
<1> QED
  BY <1>4, <1>5

-----------------------------------------------------------------------------
(* Sequences.                                                              *)

WithAt(s, t, k) == SubSeq(s, 1, k - 1) \o <<t>> \o SubSeq(s, k, Len(s))

\* One element more.
LEMMA OneMore ==
  ASSUME NEW S, NEW s \in Seq(S), NEW t \in S, NEW k \in 1 .. Len(s) + 1
  PROVE  /\ WithAt(s, t, k) \in Seq(S)
         /\ Len(WithAt(s, t, k)) = Len(s) + 1
         /\ \A j \in 1 .. k - 1 : WithAt(s, t, k)[j] = s[j]
         /\ WithAt(s, t, k)[k] = t
         /\ \A j \in k + 1 .. Len(s) + 1 : WithAt(s, t, k)[j] = s[j - 1]
<1> DEFINE a == SubSeq(s, 1, k - 1)
           b == SubSeq(s, k, Len(s))
<1>1. Len(s) \in Nat /\ k \in Nat /\ k >= 1 /\ k <= Len(s) + 1
  BY LenProperties
<1>2. a \in Seq(S) /\ Len(a) = k - 1 /\ \A j \in 1 .. k - 1 : a[j] = s[j]
  BY <1>1, SubSeqProperties
<1>3. b \in Seq(S) /\ Len(b) = Len(s) - k + 1
      /\ \A j \in 1 .. Len(s) - k + 1 : b[j] = s[k + j - 1]
  BY <1>1, SubSeqProperties
<1> HIDE DEF a, b
<1>4. <<t>> \in Seq(S) /\ Len(<<t>>) = 1 /\ <<t>>[1] = t
  OBVIOUS
<1> DEFINE ab == a \o <<t>>
<1>5. ab \in Seq(S) /\ Len(ab) = k /\ ab[k] = t
      /\ \A j \in 1 .. k - 1 : ab[j] = s[j]
  BY <1>1, <1>2, <1>4, ConcatProperties
<1> HIDE DEF ab
<1> DEFINE r == ab \o b
<1>6. r \in Seq(S) /\ Len(r) = Len(s) + 1
  BY <1>1, <1>3, <1>5, ConcatProperties
<1>7. \A j \in 1 .. k : r[j] = ab[j]
  BY <1>1, <1>3, <1>5, ConcatProperties
<1>8. \A j \in k + 1 .. Len(s) + 1 : r[j] = s[j - 1]
  <2>1. SUFFICES ASSUME NEW j \in k + 1 .. Len(s) + 1 PROVE r[j] = s[j - 1]
    OBVIOUS
  <2>2. j - k \in 1 .. Len(s) - k + 1 /\ k + (j - k) - 1 = j - 1
    BY <1>1
  <2>3. r[j] = b[j - k]
    BY <1>1, <1>3, <1>5, ConcatProperties
  <2> QED
    BY <1>3, <2>2, <2>3
<1>9. WithAt(s, t, k) = r
  BY DEF WithAt, ab, a, b
<1> HIDE DEF r
<1> QED
  BY <1>1, <1>5, <1>6, <1>7, <1>8, <1>9

\* One element less.
LEMMA OneLess ==
  ASSUME NEW S, NEW s \in Seq(S), NEW k \in 1 .. Len(s)
  PROVE  LET r == SubSeq(s, 1, k - 1) \o SubSeq(s, k + 1, Len(s))
         IN  /\ r \in Seq(S)
             /\ Len(r) = Len(s) - 1
             /\ \A j \in 1 .. k - 1 : r[j] = s[j]
             /\ \A j \in k .. Len(s) - 1 : r[j] = s[j + 1]
<1> DEFINE a == SubSeq(s, 1, k - 1)
           b == SubSeq(s, k + 1, Len(s))
<1>1. Len(s) \in Nat /\ k \in Nat /\ k >= 1 /\ k <= Len(s)
  BY LenProperties
<1>2. a \in Seq(S) /\ Len(a) = k - 1 /\ \A j \in 1 .. k - 1 : a[j] = s[j]
  BY <1>1, SubSeqProperties
<1>3. b \in Seq(S) /\ Len(b) = Len(s) - k
      /\ \A j \in 1 .. Len(s) - k : b[j] = s[k + j]
  BY <1>1, SubSeqProperties
<1> HIDE DEF a, b
<1> DEFINE r == a \o b
<1>4. r \in Seq(S) /\ Len(r) = Len(s) - 1
  <2>1. r \in Seq(S) /\ Len(r) = Len(a) + Len(b)
    BY <1>2, <1>3, ConcatProperties
  <2> QED
    BY <2>1, <1>1, <1>2, <1>3
<1>5. \A j \in 1 .. k - 1 : r[j] = s[j]
  BY <1>1, <1>2, <1>3, ConcatProperties
<1>6. \A j \in k .. Len(s) - 1 : r[j] = s[j + 1]
  <2>1. SUFFICES ASSUME NEW j \in k .. Len(s) - 1 PROVE r[j] = s[j + 1]
    OBVIOUS
  <2>2. j - (k - 1) \in 1 .. Len(s) - k /\ k + (j - (k - 1)) = j + 1
    BY <1>1
  <2>3. r[j] = b[j - (k - 1)]
    BY <1>1, <1>2, <1>3, ConcatProperties
  <2> QED
    BY <1>3, <2>2, <2>3
<1> QED
  BY <1>4, <1>5, <1>6 DEF a, b

-----------------------------------------------------------------------------
(* What a timeout more or less does to the list.                           *)

Ordered(l) == \A j, k \in 1 .. Len(l) : j <= k => l[j].left <= l[k].left

\* Only the application may start a timeout twice.
Single(l) ==
  \A j, k \in 1 .. Len(l) : l[j].h = l[k].h /\ l[j].h \notin App => j = k

Has(l, x) == \E k \in 1 .. Len(l) : l[k].h = x

AppAt(l) == {k \in 1 .. Len(l) : l[k].h \in App}

\* The times in the list are right on the clock at c.
Agreed(l, c) == \A k \in 1 .. Len(l) : Agree(c, l[k].time, l[k].left)

\* r is s with t at k.
Extends(r, s, t, k) ==
  /\ k \in 1 .. Len(s) + 1
  /\ r \in Seq(Timeouts)
  /\ Len(r) = Len(s) + 1
  /\ \A j \in 1 .. k - 1 : r[j] = s[j]
  /\ r[k] = t
  /\ \A j \in k + 1 .. Len(s) + 1 : r[j] = s[j - 1]

\* r is s without what is at k.
Lacks(r, s, k) ==
  /\ k \in 1 .. Len(s)
  /\ r \in Seq(Timeouts)
  /\ Len(r) = Len(s) - 1
  /\ \A j \in 1 .. k - 1 : r[j] = s[j]
  /\ \A j \in k .. Len(s) - 1 : r[j] = s[j + 1]

\* The application's share of the list can be counted.
LEMMA AppAtFinite ==
  ASSUME NEW s \in Seq(Timeouts)
  PROVE  IsFiniteSet(AppAt(s)) /\ Cardinality(AppAt(s)) \in Nat
<1>1. Len(s) \in Nat
  BY LenProperties
<1>2. IsFiniteSet(1 .. Len(s))
  <2>1. 1 \in Int /\ Len(s) \in Int
    BY <1>1
  <2> QED
    BY <2>1, FS_Interval
<1>3. AppAt(s) \in SUBSET (1 .. Len(s))
  BY DEF AppAt
<1>4. IsFiniteSet(AppAt(s))
  BY <1>2, <1>3, FS_Subset
<1> QED
  BY <1>4, FS_CardinalityType

\* Where an element of r comes from.
LEMMA ExtendsFrom ==
  ASSUME NEW s \in Seq(Timeouts), NEW r, NEW t, NEW k, Extends(r, s, t, k)
  PROVE  \A i \in 1 .. Len(r) :
           \/ i = k /\ r[i] = t
           \/ i < k /\ i \in 1 .. Len(s) /\ r[i] = s[i]
           \/ i > k /\ i - 1 \in 1 .. Len(s) /\ r[i] = s[i - 1]
<1>1. Len(s) \in Nat /\ k \in Nat /\ k >= 1 /\ k <= Len(s) + 1
      /\ Len(r) = Len(s) + 1
  BY LenProperties DEF Extends
<1> SUFFICES ASSUME NEW i \in 1 .. Len(r)
             PROVE  \/ i = k /\ r[i] = t
                    \/ i < k /\ i \in 1 .. Len(s) /\ r[i] = s[i]
                    \/ i > k /\ i - 1 \in 1 .. Len(s) /\ r[i] = s[i - 1]
  OBVIOUS
<1>2. CASE i = k
  BY <1>2 DEF Extends
<1>3. CASE i < k
  <2>1. i \in 1 .. k - 1 /\ i \in 1 .. Len(s)
    BY <1>1, <1>3
  <2> QED
    BY <1>3, <2>1 DEF Extends
<1>4. CASE i > k
  <2>1. i \in k + 1 .. Len(s) + 1 /\ i - 1 \in 1 .. Len(s)
    BY <1>1, <1>4
  <2> QED
    BY <1>4, <2>1 DEF Extends
<1>5. i \in Int
  OBVIOUS
<1> QED
  BY <1>1, <1>2, <1>3, <1>4, <1>5

\* Where an element of s goes to.
LEMMA ExtendsTo ==
  ASSUME NEW s \in Seq(Timeouts), NEW r, NEW t, NEW k, Extends(r, s, t, k)
  PROVE  /\ k \in 1 .. Len(r)
         /\ \A i \in 1 .. Len(s) : \/ i < k /\ i \in 1 .. Len(r) /\ r[i] = s[i]
                                   \/ i >= k /\ i + 1 \in 1 .. Len(r) /\ r[i + 1] = s[i]
<1>1. Len(s) \in Nat /\ k \in Nat /\ k >= 1 /\ k <= Len(s) + 1
      /\ Len(r) = Len(s) + 1
  BY LenProperties DEF Extends
<1> SUFFICES ASSUME NEW i \in 1 .. Len(s)
             PROVE  \/ i < k /\ i \in 1 .. Len(r) /\ r[i] = s[i]
                    \/ i >= k /\ i + 1 \in 1 .. Len(r) /\ r[i + 1] = s[i]
  BY <1>1
<1>2. CASE i < k
  <2>1. i \in 1 .. k - 1 /\ i \in 1 .. Len(r)
    BY <1>1, <1>2
  <2> QED
    BY <1>2, <2>1 DEF Extends
<1>3. CASE i >= k
  <2>1. i + 1 \in k + 1 .. Len(s) + 1 /\ i + 1 \in 1 .. Len(r) /\ (i + 1) - 1 = i
    BY <1>1, <1>3
  <2>2. r[i + 1] = s[(i + 1) - 1]
    BY <2>1 DEF Extends
  <2> QED
    BY <1>3, <2>1, <2>2
<1>4. i \in Int
  OBVIOUS
<1> QED
  BY <1>1, <1>2, <1>3, <1>4

\* What a timeout more does to who is in the list, and to their times.
LEMMA ExtendsKeeps ==
  ASSUME NEW s \in Seq(Timeouts), NEW r, NEW t, NEW k, Extends(r, s, t, k)
  PROVE  /\ \A x : Has(r, x) <=> Has(s, x) \/ t.h = x
         /\ Single(s) /\ (t.h \in App \/ ~Has(s, t.h)) => Single(r)
         /\ \A c : Agreed(s, c) /\ Agree(c, t.time, t.left) => Agreed(r, c)
<1>1. Len(s) \in Nat /\ k \in Nat /\ k >= 1 /\ k <= Len(s) + 1
      /\ Len(r) = Len(s) + 1
  BY LenProperties DEF Extends
<1>2. \A i \in 1 .. Len(r) :
         \/ i = k /\ r[i] = t
         \/ i < k /\ i \in 1 .. Len(s) /\ r[i] = s[i]
         \/ i > k /\ i - 1 \in 1 .. Len(s) /\ r[i] = s[i - 1]
  BY ExtendsFrom
<1>3. /\ k \in 1 .. Len(r) /\ r[k] = t
      /\ \A i \in 1 .. Len(s) : \/ i < k /\ i \in 1 .. Len(r) /\ r[i] = s[i]
                                \/ i >= k /\ i + 1 \in 1 .. Len(r) /\ r[i + 1] = s[i]
  <2>1. r[k] = t
    BY DEF Extends
  <2> QED
    BY <2>1, ExtendsTo
<1>4. ASSUME NEW x PROVE Has(r, x) <=> Has(s, x) \/ t.h = x
  <2>1. Has(r, x) => Has(s, x) \/ t.h = x
    BY <1>2 DEF Has
  <2>2. Has(s, x) \/ t.h = x => Has(r, x)
    BY <1>3 DEF Has
  <2> QED
    BY <2>1, <2>2
<1>5. ASSUME Single(s), t.h \in App \/ ~Has(s, t.h) PROVE Single(r)
  <2>1. SUFFICES ASSUME NEW i \in 1 .. Len(r), NEW j \in 1 .. Len(r),
                        r[i].h = r[j].h, r[i].h \notin App
                 PROVE  i = j
    BY DEF Single
  <2>2. CASE i = k
    <3>1. r[j].h = t.h /\ ~Has(s, t.h)
      BY <1>3, <1>5, <2>1, <2>2
    <3>2. ASSUME j < k PROVE FALSE
      <4>1. j \in 1 .. Len(s) /\ s[j].h = t.h
        BY <1>1, <1>2, <3>1, <3>2
      <4> QED
        BY <3>1, <4>1 DEF Has
    <3>3. ASSUME j > k PROVE FALSE
      <4>1. j - 1 \in 1 .. Len(s) /\ s[j - 1].h = t.h
        BY <1>1, <1>2, <3>1, <3>3
      <4> QED
        BY <3>1, <4>1 DEF Has
    <3> QED
      BY <1>1, <2>2, <3>2, <3>3
  <2>3. CASE j = k
    <3>1. r[i].h = t.h /\ ~Has(s, t.h)
      BY <1>3, <1>5, <2>1, <2>3
    <3>2. ASSUME i < k PROVE FALSE
      <4>1. i \in 1 .. Len(s) /\ s[i].h = t.h
        BY <1>1, <1>2, <3>1, <3>2
      <4> QED
        BY <3>1, <4>1 DEF Has
    <3>3. ASSUME i > k PROVE FALSE
      <4>1. i - 1 \in 1 .. Len(s) /\ s[i - 1].h = t.h
        BY <1>1, <1>2, <3>1, <3>3
      <4> QED
        BY <3>1, <4>1 DEF Has
    <3> QED
      BY <1>1, <2>3, <3>2, <3>3
  <2>4. CASE i # k /\ j # k
    <3> DEFINE f(n) == IF n < k THEN n ELSE n - 1
    <3>1. f(i) \in 1 .. Len(s) /\ r[i] = s[f(i)]
      BY <1>1, <1>2, <2>4
    <3>2. f(j) \in 1 .. Len(s) /\ r[j] = s[f(j)]
      BY <1>1, <1>2, <2>4
    <3>3. f(i) = f(j)
      <4> HIDE DEF f
      <4> QED
        BY <1>5, <2>1, <3>1, <3>2 DEF Single
    <3> QED
      BY <1>1, <2>4, <3>3
  <2> QED
    BY <2>2, <2>3, <2>4
<1>6. ASSUME NEW c, Agreed(s, c), Agree(c, t.time, t.left) PROVE Agreed(r, c)
  BY <1>2, <1>6 DEF Agreed
<1> QED
  BY <1>4, <1>5, <1>6

\* The list stays in order when the new timeout is put in its place.
LEMMA ExtendsOrdered ==
  ASSUME NEW s \in Seq(Timeouts), NEW r, NEW t \in Timeouts, NEW k,
         Extends(r, s, t, k), Ordered(s),
         \A j \in 1 .. Len(s) : j < k => s[j].left <= t.left,
         \A j \in 1 .. Len(s) : j >= k => t.left <= s[j].left
  PROVE  Ordered(r)
<1>1. Len(s) \in Nat /\ k \in Nat /\ k >= 1 /\ k <= Len(s) + 1
      /\ Len(r) = Len(s) + 1
  BY LenProperties DEF Extends
<1>2. \A i \in 1 .. Len(r) :
         \/ i = k /\ r[i] = t
         \/ i < k /\ i \in 1 .. Len(s) /\ r[i] = s[i]
         \/ i > k /\ i - 1 \in 1 .. Len(s) /\ r[i] = s[i - 1]
  BY ExtendsFrom
<1>3. SUFFICES ASSUME NEW i \in 1 .. Len(r), NEW j \in 1 .. Len(r), i <= j
               PROVE  r[i].left <= r[j].left
  BY DEF Ordered
<1>4. t.left \in Int
  BY Quarter DEF Timeouts
<1>5. CASE i = k
  <2>1. CASE j = k
    BY <1>4, <1>2, <1>5, <2>1
  <2>2. CASE j > k
    <3>1. j - 1 \in 1 .. Len(s) /\ r[j] = s[j - 1] /\ r[i] = t
      BY <1>2, <1>1, <1>5, <2>2
    <3>2. j - 1 >= k
      BY <1>1, <2>2
    <3> QED
      BY <3>1, <3>2
  <2> QED
    BY <1>1, <1>3, <1>5, <2>1, <2>2
<1>6. CASE i < k
  <2>1. i \in 1 .. Len(s) /\ r[i] = s[i]
    BY <1>1, <1>2, <1>6
  <2>2. CASE j = k
    BY <1>2, <1>6, <2>1, <2>2
  <2>3. CASE j < k
    BY <1>1, <1>2, <1>3, <2>1, <2>3 DEF Ordered
  <2>4. CASE j > k
    <3>1. j - 1 \in 1 .. Len(s) /\ r[j] = s[j - 1] /\ i <= j - 1
      BY <1>1, <1>2, <1>6, <2>4
    <3> QED
      BY <2>1, <3>1 DEF Ordered
  <2> QED
    BY <1>1, <2>2, <2>3, <2>4
<1>7. CASE i > k
  <2>1. i - 1 \in 1 .. Len(s) /\ r[i] = s[i - 1]
    BY <1>1, <1>2, <1>7
  <2>2. j - 1 \in 1 .. Len(s) /\ r[j] = s[j - 1] /\ i - 1 <= j - 1
    BY <1>1, <1>2, <1>3, <1>7
  <2> QED
    BY <2>1, <2>2 DEF Ordered
<1> QED
  BY <1>1, <1>5, <1>6, <1>7

\* Where an element of the shorter list comes from.
LEMMA LacksFrom ==
  ASSUME NEW s \in Seq(Timeouts), NEW r, NEW k, Lacks(r, s, k)
  PROVE  \A i \in 1 .. Len(r) :
           \/ i < k /\ i \in 1 .. Len(s) /\ r[i] = s[i]
           \/ i >= k /\ i + 1 \in 1 .. Len(s) /\ r[i] = s[i + 1]
<1>1. Len(s) \in Nat /\ k \in Nat /\ k >= 1 /\ k <= Len(s)
      /\ Len(r) = Len(s) - 1
  BY LenProperties DEF Lacks
<1> SUFFICES ASSUME NEW i \in 1 .. Len(r)
             PROVE  \/ i < k /\ i \in 1 .. Len(s) /\ r[i] = s[i]
                    \/ i >= k /\ i + 1 \in 1 .. Len(s) /\ r[i] = s[i + 1]
  OBVIOUS
<1>2. CASE i < k
  <2>1. i \in 1 .. k - 1 /\ i \in 1 .. Len(s)
    BY <1>1, <1>2
  <2> QED
    BY <1>2, <2>1 DEF Lacks
<1>3. CASE i >= k
  <2>1. i \in k .. Len(s) - 1 /\ i + 1 \in 1 .. Len(s)
    BY <1>1, <1>3
  <2> QED
    BY <1>3, <2>1 DEF Lacks
<1>4. i \in Int
  OBVIOUS
<1> QED
  BY <1>1, <1>2, <1>3, <1>4

\* Where an element of the longer list goes to.
LEMMA LacksTo ==
  ASSUME NEW s \in Seq(Timeouts), NEW r, NEW k, Lacks(r, s, k)
  PROVE  \A i \in 1 .. Len(s) \ {k} :
           \/ i < k /\ i \in 1 .. Len(r) /\ r[i] = s[i]
           \/ i > k /\ i - 1 \in 1 .. Len(r) /\ r[i - 1] = s[i]
<1>1. Len(s) \in Nat /\ k \in Nat /\ k >= 1 /\ k <= Len(s)
      /\ Len(r) = Len(s) - 1
  BY LenProperties DEF Lacks
<1> SUFFICES ASSUME NEW i \in 1 .. Len(s) \ {k}
             PROVE  \/ i < k /\ i \in 1 .. Len(r) /\ r[i] = s[i]
                    \/ i > k /\ i - 1 \in 1 .. Len(r) /\ r[i - 1] = s[i]
  OBVIOUS
<1>2. CASE i < k
  <2>1. i \in 1 .. k - 1 /\ i \in 1 .. Len(r)
    BY <1>1, <1>2
  <2> QED
    BY <1>2, <2>1 DEF Lacks
<1>3. CASE i > k
  <2>1. i - 1 \in k .. Len(s) - 1 /\ i - 1 \in 1 .. Len(r) /\ (i - 1) + 1 = i
    BY <1>1, <1>3
  <2>2. r[i - 1] = s[(i - 1) + 1]
    BY <2>1 DEF Lacks
  <2> QED
    BY <1>3, <2>1, <2>2
<1>4. i \in Int /\ i # k
  OBVIOUS
<1> QED
  BY <1>1, <1>2, <1>3, <1>4

\* What a timeout less does to who is in the list, its order and its times.
LEMMA LacksKeeps ==
  ASSUME NEW s \in Seq(Timeouts), NEW r, NEW k, Lacks(r, s, k)
  PROVE  /\ \A x : Has(r, x) => Has(s, x)
         /\ \A x : Has(s, x) /\ s[k].h # x => Has(r, x)
         /\ Single(s) => Single(r)
         /\ Single(s) /\ s[k].h \notin App => ~Has(r, s[k].h)
         /\ Ordered(s) => Ordered(r)
         /\ \A c : Agreed(s, c) => Agreed(r, c)
<1>1. Len(s) \in Nat /\ k \in 1 .. Len(s) /\ Len(r) = Len(s) - 1
  BY LenProperties DEF Lacks
<1>2. \A i \in 1 .. Len(r) :
           \/ i < k /\ i \in 1 .. Len(s) /\ r[i] = s[i]
           \/ i >= k /\ i + 1 \in 1 .. Len(s) /\ r[i] = s[i + 1]
  BY LacksFrom
<1> DEFINE f(n) == IF n < k THEN n ELSE n + 1
<1>3. \A i \in 1 .. Len(r) : f(i) \in 1 .. Len(s) /\ f(i) # k /\ r[i] = s[f(i)]
  BY <1>1, <1>2
<1>4. \A i, j \in 1 .. Len(r) : (f(i) = f(j) => i = j) /\ (i <= j => f(i) <= f(j))
  BY <1>1
<1> HIDE DEF f
<1>5. ASSUME NEW x PROVE Has(r, x) => Has(s, x)
  BY <1>3 DEF Has
<1>6. ASSUME NEW x, Has(s, x), s[k].h # x PROVE Has(r, x)
  <2>1. PICK i \in 1 .. Len(s) : s[i].h = x
    BY <1>6 DEF Has
  <2>2. i \in 1 .. Len(s) \ {k}
    BY <1>6, <2>1
  <2>3. \/ i \in 1 .. Len(r) /\ r[i] = s[i]
        \/ i - 1 \in 1 .. Len(r) /\ r[i - 1] = s[i]
    BY <2>2, LacksTo
  <2> QED
    BY <2>1, <2>3 DEF Has
<1>7. ASSUME Single(s) PROVE Single(r)
  <2>1. SUFFICES ASSUME NEW i \in 1 .. Len(r), NEW j \in 1 .. Len(r),
                        r[i].h = r[j].h, r[i].h \notin App
                 PROVE  i = j
    BY DEF Single
  <2>2. f(i) = f(j)
    BY <1>3, <1>7, <2>1 DEF Single
  <2> QED
    BY <1>4, <2>2
<1>8. ASSUME Single(s), s[k].h \notin App PROVE ~Has(r, s[k].h)
  <2>1. SUFFICES ASSUME NEW i \in 1 .. Len(r), r[i].h = s[k].h
                 PROVE  FALSE
    BY DEF Has
  <2>2. f(i) = k
    BY <1>1, <1>3, <1>8, <2>1 DEF Single
  <2> QED
    BY <1>3, <2>2
<1>9. ASSUME Ordered(s) PROVE Ordered(r)
  <2>1. SUFFICES ASSUME NEW i \in 1 .. Len(r), NEW j \in 1 .. Len(r), i <= j
                 PROVE  r[i].left <= r[j].left
    BY DEF Ordered
  <2>2. f(i) <= f(j)
    BY <1>4, <2>1
  <2> QED
    BY <1>3, <1>9, <2>2 DEF Ordered
<1>10. ASSUME NEW c, Agreed(s, c) PROVE Agreed(r, c)
  BY <1>3, <1>10 DEF Agreed
<1> QED
  BY <1>5, <1>6, <1>7, <1>8, <1>9, <1>10

\* A timeout less is none more of the application.
LEMMA LacksCount ==
  ASSUME NEW s \in Seq(Timeouts), NEW r, NEW k, Lacks(r, s, k)
  PROVE  Cardinality(AppAt(r)) <= Cardinality(AppAt(s))
<1> DEFINE f == [i \in AppAt(r) |-> IF i < k THEN i ELSE i + 1]
<1>1. k \in Nat /\ Len(r) \in Nat
  BY LenProperties DEF Lacks
<1>2. \A i \in 1 .. Len(r) :
           \/ i < k /\ i \in 1 .. Len(s) /\ r[i] = s[i]
           \/ i >= k /\ i + 1 \in 1 .. Len(s) /\ r[i] = s[i + 1]
  BY LacksFrom
<1>3. ASSUME NEW i \in AppAt(r) PROVE f[i] \in AppAt(s)
  <2>1. i \in 1 .. Len(r) /\ r[i].h \in App
    BY DEF AppAt
  <2>2. CASE i < k
    <3>1. i \in 1 .. Len(s) /\ s[i].h \in App
      BY <1>1, <1>2, <2>1, <2>2
    <3> QED
      BY <2>2, <3>1 DEF AppAt
  <2>3. CASE ~(i < k)
    <3>1. i + 1 \in 1 .. Len(s) /\ s[i + 1].h \in App
      BY <1>1, <1>2, <2>1, <2>3
    <3> QED
      BY <2>3, <3>1 DEF AppAt
  <2> QED
    BY <2>2, <2>3
<1>4. ASSUME NEW i \in AppAt(r), NEW j \in AppAt(r), f[i] = f[j] PROVE i = j
  BY <1>1, <1>4 DEF AppAt
<1>5. f \in [AppAt(r) -> AppAt(s)]
  BY <1>3
<1> HIDE DEF f
<1>6. f \in Injection(AppAt(r), AppAt(s))
  BY <1>4, <1>5 DEF Injection, IsInjective
<1> QED
  BY <1>6, AppAtFinite, FS_Injection

\* A timeout more is one more of the application at the most.
LEMMA ExtendsCount ==
  ASSUME NEW s \in Seq(Timeouts), NEW r, NEW t, NEW k, Extends(r, s, t, k)
  PROVE  /\ Cardinality(AppAt(r)) <= Cardinality(AppAt(s)) + 1
         /\ t.h \notin App => Cardinality(AppAt(r)) <= Cardinality(AppAt(s))
<1> DEFINE A == AppAt(r) \ {k}
           f == [i \in A |-> IF i < k THEN i ELSE i - 1]
<1>1. k \in Nat /\ Len(r) \in Nat /\ r \in Seq(Timeouts)
  BY LenProperties DEF Extends
<1>2. \A i \in 1 .. Len(r) :
         \/ i = k /\ r[i] = t
         \/ i < k /\ i \in 1 .. Len(s) /\ r[i] = s[i]
         \/ i > k /\ i - 1 \in 1 .. Len(s) /\ r[i] = s[i - 1]
  BY ExtendsFrom
<1>3. ASSUME NEW i \in A PROVE f[i] \in AppAt(s)
  <2>1. i \in 1 .. Len(r) /\ r[i].h \in App /\ i # k
    BY DEF AppAt
  <2>2. CASE i < k
    <3>1. i \in 1 .. Len(s) /\ s[i].h \in App
      BY <1>1, <1>2, <2>1, <2>2
    <3> QED
      BY <2>2, <3>1 DEF AppAt
  <2>3. CASE ~(i < k)
    <3>1. i - 1 \in 1 .. Len(s) /\ s[i - 1].h \in App
      BY <1>1, <1>2, <2>1, <2>3
    <3> QED
      BY <2>3, <3>1 DEF AppAt
  <2> QED
    BY <2>2, <2>3
<1>4. ASSUME NEW i \in A, NEW j \in A, f[i] = f[j] PROVE i = j
  BY <1>1, <1>4 DEF AppAt
<1>5. f \in [A -> AppAt(s)]
  BY <1>3
<1>6. IsFiniteSet(AppAt(s)) /\ Cardinality(AppAt(s)) \in Nat
      /\ IsFiniteSet(AppAt(r)) /\ Cardinality(AppAt(r)) \in Nat
  BY <1>1, AppAtFinite
<1> HIDE DEF f
<1>7. f \in Injection(A, AppAt(s))
  BY <1>4, <1>5 DEF Injection, IsInjective
<1>8. Cardinality(A) <= Cardinality(AppAt(s))
  <2> HIDE DEF A
  <2> QED
    BY <1>6, <1>7, FS_Injection
<1>9. CASE k \in AppAt(r)
  <2>1. Cardinality(A) = Cardinality(AppAt(r)) - 1
    BY <1>6, <1>9, FS_RemoveElement
  <2>2. t.h \in App
    BY <1>9 DEF AppAt, Extends
  <2> QED
    BY <1>6, <1>8, <2>1, <2>2
<1>10. CASE k \notin AppAt(r)
  <2>1. A = AppAt(r)
    BY <1>10
  <2> HIDE DEF A
  <2> QED
    BY <1>6, <1>8, <2>1
<1> QED
  BY <1>9, <1>10

\* How long the list can be when its handlers are the application's and those
\* of C.
LEMMA LenBound ==
  ASSUME NEW s \in Seq(Timeouts), NEW C, IsFiniteSet(C), Single(s),
         \A k \in 1 .. Len(s) : s[k].h \in C \cup App
  PROVE  Len(s) <= Cardinality(C) + Cardinality(AppAt(s))
<1> DEFINE A == AppAt(s)
           B == (1 .. Len(s)) \ A
           f == [k \in B |-> s[k].h]
<1>1. Len(s) \in Nat
  BY LenProperties
<1>2. IsFiniteSet(1 .. Len(s)) /\ Cardinality(1 .. Len(s)) = Len(s)
  <2>1. 1 \in Int /\ Len(s) \in Int
    BY <1>1
  <2>2. IsFiniteSet(1 .. Len(s))
        /\ Cardinality(1 .. Len(s)) = IF 1 > Len(s) THEN 0 ELSE Len(s) - 1 + 1
    BY <2>1, FS_Interval
  <2> QED
    BY <1>1, <2>2
<1>3. IsFiniteSet(A) /\ Cardinality(A) \in Nat /\ A \subseteq 1 .. Len(s)
  BY AppAtFinite DEF AppAt
<1>4. ASSUME NEW i \in B PROVE s[i].h \notin App /\ f[i] \in C
  BY <1>4 DEF AppAt
<1>5. ASSUME NEW i \in B, NEW j \in B, f[i] = f[j] PROVE i = j
  BY <1>4, <1>5 DEF Single
<1>6. f \in [B -> C]
  BY <1>4
<1> HIDE DEF f
<1>7. f \in Injection(B, C)
  BY <1>5, <1>6 DEF Injection, IsInjective
<1>8. Cardinality(B) <= Cardinality(C) /\ Cardinality(C) \in Nat
  <2> HIDE DEF B
  <2> QED
    BY <1>7, FS_Injection, FS_CardinalityType
<1>9. Cardinality(B) = Len(s) - Cardinality(A)
  <2> HIDE DEF A
  <2>1. (1 .. Len(s)) \cap A = A
    BY <1>3
  <2>2. Cardinality((1 .. Len(s)) \ A)
          = Cardinality(1 .. Len(s)) - Cardinality((1 .. Len(s)) \cap A)
    BY <1>2, FS_Difference
  <2> QED
    BY <1>2, <2>1, <2>2
<1> QED
  BY <1>1, <1>3, <1>8, <1>9

-----------------------------------------------------------------------------
(* sys_timeout_abs and sys_untimeout.                                      *)

\* Position finds a place, and what is before it is due no later, what is
\* behind it no sooner.
LEMMA Placed ==
  ASSUME NEW s \in Seq(Timeouts), NEW c \in Clock, NEW t \in Timeouts,
         Agreed(s, c), Agree(c, t.time, t.left), Ordered(s)
  PROVE  LET k == Position(s, t.time)
         IN  /\ k \in 1 .. Len(s) + 1
             /\ \A j \in 1 .. Len(s) : j < k => s[j].left <= t.left
             /\ \A j \in 1 .. Len(s) : j >= k => t.left <= s[j].left
<1>1. Len(s) \in Nat
  BY LenProperties
<1>2. t.time \in Clock /\ t.left \in -MaxLate .. MaxMsecs
  BY DEF Timeouts
<1>3. ASSUME NEW j \in 1 .. Len(s)
      PROVE  s[j].time \in Clock /\ s[j].left \in -MaxLate .. MaxMsecs
  <2>1. s[j] \in Timeouts
    BY ElementOfSeq
  <2> QED
    BY <2>1 DEF Timeouts
<1>4. MaxMsecs \in Nat \ {0} /\ MaxLate \in 1 .. MaxMsecs - 1
  BY Quarter
<1>5. ASSUME NEW j \in 1 .. Len(s)
      PROVE  TIME_LESS_THAN(t.time, s[j].time) <=> t.left < s[j].left
  <2>1. t.left \in Int /\ s[j].left \in Int
    BY <1>2, <1>3, <1>4
  <2>2. t.left - s[j].left \in -(2 * MaxMsecs) .. 2 * MaxMsecs - 1
    BY <1>2, <1>3, <1>4
  <2>3. Agree(c, s[j].time, s[j].left)
    BY DEF Agreed
  <2> QED
    BY <1>2, <1>3, <2>1, <2>2, <2>3, Compare
<1> DEFINE P(k) == /\ k <= Len(s) => TIME_LESS_THAN(t.time, s[k].time)
                   /\ \A j \in 1 .. k - 1 : ~TIME_LESS_THAN(t.time, s[j].time)
           L == {j \in 1 .. Len(s) : TIME_LESS_THAN(t.time, s[j].time)}
<1>6. \E k \in 1 .. Len(s) + 1 : P(k)
  <2>1. CASE L = {}
    <3>1. Len(s) + 1 \in 1 .. Len(s) + 1 /\ ~(Len(s) + 1 <= Len(s))
          /\ (Len(s) + 1) - 1 = Len(s)
      BY <1>1
    <3>2. P(Len(s) + 1)
      BY <2>1, <3>1
    <3> HIDE DEF P
    <3> QED
      BY <3>1, <3>2
  <2>2. CASE L # {}
    <3>1. IsFiniteSet(L)
      <4>1. 1 \in Int /\ Len(s) \in Int
        BY <1>1
      <4> QED
        BY <4>1, FS_Interval, FS_Subset
    <3>2. L \in SUBSET Int
      OBVIOUS
    <3>3. PICK k \in L : \A j \in L : k <= j
      <4> HIDE DEF L
      <4> QED
        BY <2>2, <3>1, <3>2, LeastElement
    <3>4. k \in 1 .. Len(s) + 1
      BY <1>1
    <3>5. \A j \in 1 .. k - 1 : ~TIME_LESS_THAN(t.time, s[j].time)
      <4>1. SUFFICES ASSUME NEW j \in 1 .. k - 1, TIME_LESS_THAN(t.time, s[j].time)
                     PROVE  FALSE
        OBVIOUS
      <4>2. j \in L
        BY <1>1, <4>1
      <4> QED
        BY <3>3, <4>2
    <3>6. P(k)
      BY <3>5
    <3> HIDE DEF P
    <3> QED
      BY <3>4, <3>6
  <2> QED
    BY <2>1, <2>2
<1> DEFINE p == Position(s, t.time)
<1>7. p \in 1 .. Len(s) + 1 /\ P(p)
  BY <1>6 DEF Position
<1> HIDE DEF p
<1>8. ASSUME NEW j \in 1 .. Len(s), j < p PROVE s[j].left <= t.left
  <2>1. j \in 1 .. p - 1
    BY <1>1, <1>7, <1>8
  <2>2. ~(t.left < s[j].left)
    BY <1>5, <1>7, <2>1
  <2> QED
    BY <1>2, <1>3, <1>4, <2>2
<1>9. ASSUME NEW j \in 1 .. Len(s), j >= p PROVE t.left <= s[j].left
  <2>1. p \in 1 .. Len(s) /\ p <= j
    BY <1>1, <1>7, <1>9
  <2>2. t.left < s[p].left
    BY <1>5, <1>7, <2>1
  <2>3. s[p].left <= s[j].left
    BY <2>1 DEF Ordered
  <2> QED
    BY <1>2, <1>3, <1>4, <2>1, <2>2, <2>3
<1> QED
  BY <1>7, <1>8, <1>9 DEF p

\* Inserting is what Extends says.
LEMMA OneMoreExtends ==
  ASSUME NEW s \in Seq(Timeouts), NEW t \in Timeouts,
         NEW k \in 1 .. Len(s) + 1
  PROVE  Extends(WithAt(s, t, k), s, t, k)
BY OneMore DEF Extends

\* What a new timeout does to the list.
LEMMA Started ==
  ASSUME NEW s \in Seq(Timeouts), NEW c \in Clock, NEW t \in Timeouts,
         Agreed(s, c), Agree(c, t.time, t.left), Ordered(s), Single(s),
         t.h \in App \/ ~Has(s, t.h)
  PROVE  LET r == Inserted(s, t)
         IN  /\ r \in Seq(Timeouts)
             /\ Agreed(r, c) /\ Ordered(r) /\ Single(r)
             /\ \A x : Has(r, x) <=> Has(s, x) \/ t.h = x
             /\ Cardinality(AppAt(r)) <= Cardinality(AppAt(s)) + 1
             /\ t.h \notin App => Cardinality(AppAt(r)) <= Cardinality(AppAt(s))
             /\ \A i \in 1 .. Len(r) :
                  r[i] = t \/ \E j \in 1 .. Len(s) : r[i] = s[j]
<1> DEFINE k == Position(s, t.time)
           r == Inserted(s, t)
<1>1. /\ k \in 1 .. Len(s) + 1
      /\ \A j \in 1 .. Len(s) : j < k => s[j].left <= t.left
      /\ \A j \in 1 .. Len(s) : j >= k => t.left <= s[j].left
  BY Placed
<1>2. r = WithAt(s, t, k)
  BY DEF Inserted, WithAt
<1> HIDE DEF k, r
<1>3. Extends(r, s, t, k)
  BY <1>1, <1>2, OneMoreExtends
<1>4. r \in Seq(Timeouts)
  BY <1>3 DEF Extends
<1>5. Ordered(r)
  BY <1>1, <1>3, ExtendsOrdered
<1>6. /\ \A x : Has(r, x) <=> Has(s, x) \/ t.h = x
      /\ Single(r) /\ Agreed(r, c)
  BY <1>3, ExtendsKeeps
<1>7. /\ Cardinality(AppAt(r)) <= Cardinality(AppAt(s)) + 1
      /\ t.h \notin App => Cardinality(AppAt(r)) <= Cardinality(AppAt(s))
  BY <1>3, ExtendsCount
<1>8. \A i \in 1 .. Len(r) : r[i] = t \/ \E j \in 1 .. Len(s) : r[i] = s[j]
  BY <1>3, ExtendsFrom
<1> QED
  BY <1>4, <1>5, <1>6, <1>7, <1>8 DEF r

\* What a timeout less does to the list.
LEMMA Dropped ==
  ASSUME NEW s \in Seq(Timeouts), NEW r, NEW k, Lacks(r, s, k),
         Ordered(s), Single(s)
  PROVE  /\ r \in Seq(Timeouts)
         /\ Ordered(r) /\ Single(r)
         /\ \A c : Agreed(s, c) => Agreed(r, c)
         /\ \A x : x # s[k].h => (Has(r, x) <=> Has(s, x))
         /\ s[k].h \notin App => ~Has(r, s[k].h)
         /\ Has(s, s[k].h)
         /\ Cardinality(AppAt(r)) <= Cardinality(AppAt(s))
         /\ \A i \in 1 .. Len(r) : \E j \in 1 .. Len(s) : r[i] = s[j]
<1>1. r \in Seq(Timeouts) /\ Has(s, s[k].h)
  BY DEF Lacks, Has
<1>2. /\ \A x : Has(r, x) => Has(s, x)
      /\ \A x : Has(s, x) /\ s[k].h # x => Has(r, x)
      /\ Single(s) => Single(r)
      /\ Single(s) /\ s[k].h \notin App => ~Has(r, s[k].h)
      /\ Ordered(s) => Ordered(r)
      /\ \A c : Agreed(s, c) => Agreed(r, c)
  BY LacksKeeps
<1>3. Cardinality(AppAt(r)) <= Cardinality(AppAt(s))
  BY LacksCount
<1>4. \A i \in 1 .. Len(r) : \E j \in 1 .. Len(s) : r[i] = s[j]
  BY LacksFrom
<1> QED
  BY <1>1, <1>2, <1>3, <1>4

\* sys_untimeout drops the first timeout with the handler, if there is one.
LEMMA WithoutLacks ==
  ASSUME NEW s \in Seq(Timeouts), NEW a
  PROVE  \/ Without(s, a) = s
         \/ \E k \in 1 .. Len(s) : s[k].h = a /\ Lacks(Without(s, a), s, k)
<1>1. CASE At(s, a) = {}
  BY <1>1 DEF Without
<1>2. CASE At(s, a) # {}
  <2>1. IsFiniteSet(At(s, a)) /\ At(s, a) \in SUBSET Int
    <3>1. 1 \in Int /\ Len(s) \in Int
      BY LenProperties
    <3>2. IsFiniteSet(1 .. Len(s))
      BY <3>1, FS_Interval
    <3>3. At(s, a) \in SUBSET (1 .. Len(s))
      BY DEF At
    <3>4. IsFiniteSet(At(s, a))
      BY <3>2, <3>3, FS_Subset
    <3> QED
      BY <3>3, <3>4
  <2>2. \E k \in At(s, a) : \A j \in At(s, a) : k <= j
    BY <1>2, <2>1, LeastElement
  <2> DEFINE k == CHOOSE i \in At(s, a) : \A j \in At(s, a) : i <= j
  <2>3. k \in At(s, a)
    BY <2>2
  <2>4. Without(s, a) = SubSeq(s, 1, k - 1) \o SubSeq(s, k + 1, Len(s))
    BY <1>2 DEF Without
  <2> HIDE DEF k
  <2>5. k \in 1 .. Len(s) /\ s[k].h = a
    BY <2>3 DEF At
  <2>6. Lacks(Without(s, a), s, k)
    <3> DEFINE r == SubSeq(s, 1, k - 1) \o SubSeq(s, k + 1, Len(s))
    <3>1. /\ r \in Seq(Timeouts)
          /\ Len(r) = Len(s) - 1
          /\ \A j \in 1 .. k - 1 : r[j] = s[j]
          /\ \A j \in k .. Len(s) - 1 : r[j] = s[j + 1]
      BY <2>5, OneLess
    <3>2. Without(s, a) = r
      BY <2>4
    <3> HIDE DEF r
    <3> QED
      BY <2>5, <3>1, <3>2 DEF Lacks
  <2> QED
    BY <2>5, <2>6
<1> QED
  BY <1>1, <1>2

\* The tail of the list is the list without its first timeout.
LEMMA TailLacks ==
  ASSUME NEW s \in Seq(Timeouts), s # <<>>
  PROVE  Lacks(Tail(s), s, 1) /\ Head(s) = s[1] /\ s[1] \in Timeouts
<1>1. Len(s) \in Nat /\ Len(s) # 0
  BY LenProperties, EmptySeq
<1>2. 1 \in 1 .. Len(s)
  BY <1>1
<1>3. /\ Tail(s) \in Seq(Timeouts)
      /\ Len(Tail(s)) = Len(s) - 1
      /\ \A i \in 1 .. Len(Tail(s)) : Tail(s)[i] = s[i + 1]
      /\ Head(s) = s[1]
  BY HeadTailProperties
<1>4. s[1] \in Timeouts
  BY <1>2, ElementOfSeq
<1>5. \A j \in 1 .. 1 - 1 : Tail(s)[j] = s[j]
  BY 1 - 1 = 0
<1> QED
  BY <1>2, <1>3, <1>4, <1>5 DEF Lacks

-----------------------------------------------------------------------------
(* The inductive invariant.                                                *)

\* The handler of x runs.
Running(x) == pc = "handler" /\ h = x

\* The timers of the stack are in the list, but for the one whose handler
\* runs, and TCP's only while the flag says so.
StackTimers ==
  /\ \A c \in Cyclic : Has(next_timeout, c) <=> ~Running(c)
  /\ Has(next_timeout, Tcp) <=> (tcpip_tcp_timer_active /\ ~Running(Tcp))
  /\ (tcp_pcbs \/ Running(Tcp)) => tcpip_tcp_timer_active

\* The application keeps to its share of the pool.
WithinQuota == Cardinality(AppAt(next_timeout)) <= AppQuota

\* How long ago sys_check_timeouts read the clock.
Elapsed == (clock - now) % Wrap

\* While it goes through the list, what is in it is no further away from the
\* time it compares with than the clock can tell, and what it has taken off
\* was due.
Recent ==
  pc # "idle" =>
    /\ \A k \in 1 .. Len(next_timeout) :
         next_timeout[k].left + Elapsed <= MaxMsecs + MaxLate
    /\ pc = "handler" => dueLeft + Elapsed <= 0

\* The list itself.
ListOK == /\ Agreed(next_timeout, clock)
          /\ Ordered(next_timeout)
          /\ Single(next_timeout)
          /\ WithinQuota

\* The handler that runs was taken off the list.
HandlerOK == pc = "handler" => h \in Handlers /\ Agree(clock, due, dueLeft)

IInv == TypeOK /\ ListOK /\ StackTimers /\ Recent /\ HandlerOK

\* A list whose neighbours are in order is in order.
LEMMA Neighbours ==
  ASSUME NEW s \in Seq(Timeouts),
         \A k \in 2 .. Len(s) : s[k - 1].left <= s[k].left
  PROVE  Ordered(s)
<1>1. Len(s) \in Nat
  BY LenProperties
<1>2. \A k \in 1 .. Len(s) : s[k].left \in Int
  <2>1. \A k \in 1 .. Len(s) : s[k] \in Timeouts
    BY ElementOfSeq
  <2> QED
    BY <2>1, Quarter DEF Timeouts
<1>3. SUFFICES ASSUME NEW j \in 1 .. Len(s), NEW k \in 1 .. Len(s), j <= k,
                      ~(s[j].left <= s[k].left)
               PROVE  FALSE
  BY DEF Ordered
<1> DEFINE L == {i \in j .. Len(s) : s[i].left < s[j].left}
<1>4. PICK i \in L : \A n \in L : i <= n
  <2>1. k \in L
    BY <1>1, <1>2, <1>3
  <2>2. L \in SUBSET Int
    OBVIOUS
  <2>3. IsFiniteSet(L)
    <3>1. j \in Int /\ Len(s) \in Int
      BY <1>1
    <3> QED
      BY <3>1, FS_Interval, FS_Subset
  <2> HIDE DEF L
  <2> QED
    BY <2>1, <2>2, <2>3, LeastElement
<1>5. i # j /\ i \in 2 .. Len(s) /\ i - 1 \in j .. Len(s) /\ i - 1 \in 1 .. Len(s)
      /\ i \in 1 .. Len(s)
  BY <1>1, <1>2
<1>6. ~(i <= i - 1)
  OBVIOUS
<1>7. ~(s[i - 1].left < s[j].left)
  BY <1>4, <1>5, <1>6
<1>8. s[i - 1].left <= s[i].left
  BY <1>5
<1>9. s[i].left < s[j].left
  OBVIOUS
<1>10. PICK a \in Int, b \in Int, c \in Int :
         a = s[i - 1].left /\ b = s[i].left /\ c = s[j].left
  BY <1>2, <1>5
<1> QED
  BY <1>7, <1>8, <1>9, <1>10

\* The intervals are timeouts sys_timeout accepts.
LEMMA IntervalType ==
  ASSUME NEW x \in Cyclic \cup {Tcp}
  PROVE  Interval[x] \in 1 .. MaxMsecs /\ Interval[x] \in 0 .. MaxMsecs
         /\ Interval[x] \in -MaxLate .. MaxMsecs
<1>1. Interval[x] \in 1 .. MaxMsecs
  BY TimerAssumption
<1> QED
  BY <1>1, Quarter

\* The invariant holds initially.
LEMMA InitIInv == Init => IInv
<1> SUFFICES ASSUME Init PROVE IInv
  OBVIOUS
<1> DEFINE s == next_timeout
           n == Cardinality(Cyclic)
<1>1. IsFiniteSet(Cyclic) /\ n \in Nat
  BY TimerAssumption, FS_CardinalityType
<1>2. clock = 0 /\ clock \in Clock /\ 0 \in Clock
  BY Quarter DEF Init, Clock
<1>3. /\ s \in [1 .. n -> {[h |-> c, time |-> (clock + Interval[c]) % Wrap,
                            left |-> Interval[c]] : c \in Cyclic}]
      /\ \A c \in Cyclic : At(s, c) # {}
      /\ \A k \in 2 .. Len(s) : s[k - 1].left <= s[k].left
  BY DEF Init
<1>4. Len(s) = n /\ Len(s) \in Nat
  BY <1>1, <1>3
<1>5. ASSUME NEW k \in 1 .. Len(s)
      PROVE  /\ s[k] \in Timeouts
             /\ s[k].h \in Cyclic
             /\ Agree(clock, s[k].time, s[k].left)
  <2>1. PICK c \in Cyclic :
          s[k] = [h |-> c, time |-> (clock + Interval[c]) % Wrap,
                  left |-> Interval[c]]
    BY <1>3, <1>4
  <2>2. Interval[c] \in 0 .. MaxMsecs /\ Interval[c] \in -MaxLate .. MaxMsecs
    BY IntervalType
  <2>3. (clock + Interval[c]) % Wrap \in Clock
        /\ Agree(clock, (clock + Interval[c]) % Wrap, Interval[c])
    BY <1>2, <2>2, AgreeAhead
  <2> QED
    BY <2>1, <2>2, <2>3 DEF Timeouts, Handlers
<1> HIDE DEF n
<1>6. s \in Seq(Timeouts)
  BY <1>1, <1>3, <1>4, <1>5
<1>7. TypeOK
  <2>1. 0 \in -MaxLate .. MaxMsecs
    BY Quarter
  <2> QED
    BY <1>2, <1>6, <2>1 DEF Init, TypeOK
<1>8. Agreed(s, clock)
  BY <1>5 DEF Agreed
<1>9. Ordered(s)
  BY <1>3, <1>6, Neighbours
<1>10. Single(s)
  <2> DEFINE f == [k \in 1 .. Len(s) |-> s[k].h]
  <2>1. f \in [1 .. Len(s) -> Cyclic]
    BY <1>5
  <2>2. \A c \in Cyclic : \E k \in 1 .. Len(s) : f[k] = c
    BY <1>3 DEF At
  <2> HIDE DEF f
  <2>3. f \in Surjection(1 .. Len(s), Cyclic)
    BY <2>1, <2>2 DEF Surjection
  <2>4. IsFiniteSet(1 .. Len(s)) /\ Cardinality(1 .. Len(s)) = n
    <3>1. 1 \in Int /\ Len(s) \in Int
      BY <1>4
    <3>2. IsFiniteSet(1 .. Len(s))
          /\ Cardinality(1 .. Len(s)) = IF 1 > Len(s) THEN 0 ELSE Len(s) - 1 + 1
      BY <3>1, FS_Interval
    <3> QED
      BY <1>1, <1>4, <3>2
  <2>5. f \in Injection(1 .. Len(s), Cyclic)
    BY <2>3, <2>4, FS_Surjection DEF n
  <2>6. \A j, k \in 1 .. Len(s) : f[j] = f[k] => j = k
    BY <2>5 DEF Injection, IsInjective
  <2> QED
    BY <2>6 DEF f, Single
<1>11. WithinQuota
  <2>1. AppAt(s) = {}
    BY <1>5, TimerAssumption DEF AppAt
  <2>2. Cardinality(AppAt(next_timeout)) = 0
    BY <2>1, FS_EmptySet
  <2> QED
    BY <2>2, TimerAssumption DEF WithinQuota
<1>12. StackTimers
  <2>1. pc = "idle" /\ tcpip_tcp_timer_active = FALSE /\ tcp_pcbs = FALSE
    BY DEF Init
  <2>2. \A c \in Cyclic : Has(next_timeout, c)
    BY <1>3 DEF At, Has
  <2>3. ~Has(next_timeout, Tcp)
    BY <1>5, TimerAssumption DEF Has
  <2> QED
    BY <2>1, <2>2, <2>3 DEF StackTimers, Running
<1>13. Recent /\ HandlerOK
  BY DEF Init, Recent, HandlerOK
<1> QED
  BY <1>7, <1>8, <1>9, <1>10, <1>11, <1>12, <1>13 DEF IInv, ListOK

-----------------------------------------------------------------------------
(* What the steps need of the clock.                                       *)

\* A millisecond later, a millisecond more has passed.
LEMMA ElapsedTick ==
  ASSUME NEW c \in Clock, NEW n \in Clock, ((c - n) % Wrap) + 1 < Wrap
  PROVE  (((c + 1) % Wrap) - n) % Wrap = ((c - n) % Wrap) + 1
<1>1. /\ c \in 0 .. Wrap - 1 /\ n \in 0 .. Wrap - 1
      /\ MaxMsecs \in Nat \ {0} /\ Wrap = 4 * MaxMsecs /\ c - n \in Int
  BY Quarter DEF Clock
<1>2. CASE c >= n
  <2>1. (c - n) % Wrap = c - n
    <3>1. c - n \in 0 .. Wrap - 1
      BY <1>1, <1>2
    <3> QED
      BY <1>1, <3>1, Remainder
  <2>2. CASE c = Wrap - 1
    <3>1. c + 1 \in Wrap .. 2 * Wrap - 1 /\ c + 1 \in Int
      BY <1>1, <2>2
    <3>2. (c + 1) % Wrap = (c + 1) - Wrap
      BY <3>1, Remainder
    <3>3. ((c + 1) % Wrap) - n \in -Wrap .. -1
      BY <1>1, <2>1, <2>2, <3>2
    <3>4. ((c + 1) % Wrap) - n \in Int
      BY <1>1, <3>2
    <3>5. (((c + 1) % Wrap) - n) % Wrap = (((c + 1) % Wrap) - n) + Wrap
      BY <3>3, <3>4, Remainder
    <3> QED
      BY <1>1, <2>1, <3>2, <3>5
  <2>3. CASE c # Wrap - 1
    <3>1. c + 1 \in 0 .. Wrap - 1 /\ c + 1 \in Int
      BY <1>1, <2>3
    <3>2. (c + 1) % Wrap = c + 1
      BY <3>1, Remainder
    <3>3. (c + 1) - n \in 0 .. Wrap - 1 /\ (c + 1) - n \in Int
      BY <1>1, <1>2, <2>1
    <3>4. ((c + 1) - n) % Wrap = (c + 1) - n
      BY <3>3, Remainder
    <3> QED
      BY <1>1, <2>1, <3>2, <3>4
  <2> QED
    BY <2>2, <2>3
<1>3. CASE c < n
  <2>1. (c - n) % Wrap = c - n + Wrap
    <3>1. c - n \in -Wrap .. -1
      BY <1>1, <1>3
    <3> QED
      BY <1>1, <3>1, Remainder
  <2>2. c + 1 \in 0 .. Wrap - 1 /\ c + 1 \in Int
    BY <1>1, <1>3
  <2>3. (c + 1) % Wrap = c + 1
    BY <2>2, Remainder
  <2>4. (c + 1) - n \in -Wrap .. -1 /\ (c + 1) - n \in Int
    BY <1>1, <1>3, <2>1
  <2>5. ((c + 1) - n) % Wrap = (c + 1) - n + Wrap
    BY <2>4, Remainder
  <2> QED
    BY <1>1, <2>1, <2>3, <2>5
<1> QED
  BY <1>1, <1>2, <1>3

\* How far away a time was when sys_check_timeouts read the clock.
LEMMA AgreeSince ==
  ASSUME NEW c \in Clock, NEW n \in Clock, NEW time \in Clock,
         NEW left \in -MaxLate .. MaxMsecs,
         left + ((c - n) % Wrap) <= MaxMsecs + MaxLate,
         Agree(c, time, left)
  PROVE  Agree(n, time, left + ((c - n) % Wrap))
<1>1. /\ c \in 0 .. Wrap - 1 /\ n \in 0 .. Wrap - 1 /\ time \in 0 .. Wrap - 1
      /\ MaxMsecs \in Nat \ {0} /\ Wrap = 4 * MaxMsecs /\ c - n \in Int
      /\ MaxLate \in Nat /\ MaxLate < MaxMsecs
      /\ left \in Int /\ -MaxLate <= left
  BY Quarter DEF Clock
<1>2. (c - n) % Wrap \in {c - n, c - n + Wrap} /\ (c - n) % Wrap \in 0 .. Wrap - 1
  <2>1. (c - n) % Wrap \in Clock
    BY <1>1, Remainder
  <2>2. c - n \in 0 .. Wrap - 1 \/ c - n \in -Wrap .. -1
    BY <1>1
  <2>3. (c - n) % Wrap \in {c - n, c - n + Wrap}
    BY <1>1, <2>2, Remainder
  <2> QED
    BY <2>1, <2>3 DEF Clock
<1> DEFINE e == (c - n) % Wrap
<1>3. /\ e \in 0 .. Wrap - 1 /\ e \in {c - n, c - n + Wrap}
      /\ left + e <= MaxMsecs + MaxLate
  BY <1>2
<1> HIDE DEF e
<1>4. time \in {c + left, c + left - Wrap, c + left + Wrap}
  BY DEF Agree
<1>5. time \in {n + (left + e), n + (left + e) - Wrap, n + (left + e) + Wrap}
  BY <1>1, <1>3, <1>4
<1> QED
  BY <1>5 DEF Agree, e

\* What an interval more does to a time that is over.
LEMMA AgreeLater ==
  ASSUME NEW c \in Clock, NEW time \in Clock, NEW left \in -MaxLate .. 0,
         NEW n \in 1 .. MaxMsecs, Agree(c, time, left)
  PROVE  (time + n) % Wrap \in Clock /\ Agree(c, (time + n) % Wrap, left + n)
<1>1. /\ c \in 0 .. Wrap - 1 /\ time \in 0 .. Wrap - 1
      /\ MaxMsecs \in Nat \ {0} /\ Wrap = 4 * MaxMsecs /\ time + n \in Int
      /\ MaxLate \in Nat /\ MaxLate < MaxMsecs
      /\ left \in Int /\ -MaxLate <= left /\ left <= 0
      /\ n \in Int /\ 1 <= n /\ n <= MaxMsecs
  BY Quarter DEF Clock
<1>2. (time + n) % Wrap \in Clock
  BY <1>1, Remainder
<1>3. (time + n) % Wrap \in {time + n, time + n - Wrap}
  <2>1. CASE time + n \in 0 .. Wrap - 1
    BY <1>1, <2>1, Remainder
  <2>2. CASE time + n \in Wrap .. 2 * Wrap - 1
    <3>1. (time + n) % Wrap = (time + n) - Wrap
      BY <1>1, <2>2, Remainder
    <3> QED
      BY <1>1, <3>1
  <2>3. time + n \in 0 .. Wrap - 1 \/ time + n \in Wrap .. 2 * Wrap - 1
    BY <1>1
  <2> QED
    BY <2>1, <2>2, <2>3
<1> DEFINE m == (time + n) % Wrap
<1>4. m \in 0 .. Wrap - 1 /\ m \in {time + n, time + n - Wrap}
  BY <1>2, <1>3 DEF Clock
<1> HIDE DEF m
<1>5. time \in {c + left, c + left - Wrap, c + left + Wrap}
  BY DEF Agree
<1>6. m \in {c + (left + n), c + (left + n) - Wrap, c + (left + n) + Wrap}
  BY <1>1, <1>4, <1>5
<1> QED
  BY <1>2, <1>6 DEF Agree, m

\* sys_check_timeouts finds due what was due when it read the clock.
LEMMA Due ==
  ASSUME TypeOK, Agreed(next_timeout, clock), Recent, pc # "idle",
         NEW k \in 1 .. Len(next_timeout)
  PROVE  TIME_LESS_THAN(now, next_timeout[k].time)
           <=> 0 < next_timeout[k].left + Elapsed
<1> DEFINE t == next_timeout[k]
<1>1. t.time \in Clock /\ t.left \in -MaxLate .. MaxMsecs
  <2>1. t \in Timeouts
    BY ElementOfSeq DEF TypeOK
  <2> QED
    BY <2>1 DEF Timeouts
<1>2. clock \in Clock /\ now \in Clock
  BY DEF TypeOK
<1>3. Agree(clock, t.time, t.left)
  BY DEF Agreed
<1>4. t.left + Elapsed <= MaxMsecs + MaxLate
  BY DEF Recent
<1> HIDE DEF t
<1>5. Agree(now, t.time, t.left + Elapsed)
  BY <1>1, <1>2, <1>3, <1>4, AgreeSince DEF Elapsed
<1>6. Elapsed \in 0 .. Wrap - 1
  <2>1. clock - now \in Int
    BY <1>2, Quarter DEF Clock
  <2> QED
    BY <2>1, Remainder DEF Elapsed, Clock
<1>7. Agree(now, now, 0)
  BY <1>2, Quarter DEF Agree, Clock
<1> DEFINE l == t.left + Elapsed
<1>8. l \in Int /\ 0 \in Int /\ 0 - l \in -(2 * MaxMsecs) .. 2 * MaxMsecs - 1
  BY <1>1, <1>4, <1>6, Quarter
<1>9. Agree(now, t.time, l)
  BY <1>5
<1> HIDE DEF l
<1>10. TIME_LESS_THAN(now, t.time) <=> 0 < l
  BY <1>1, <1>2, <1>7, <1>8, <1>9, Compare
<1> QED
  BY <1>10 DEF l, t

\* Since a handler's timeout was due when the clock was read, not much has
\* passed since, and it is over now.
LEMMA Overdue ==
  ASSUME TypeOK, Recent, pc = "handler"
  PROVE  /\ Elapsed \in 0 .. MaxLate
         /\ dueLeft \in -MaxLate .. 0
<1>1. clock - now \in Int
  BY Quarter DEF TypeOK, Clock
<1>2. Elapsed \in 0 .. Wrap - 1
  BY <1>1, Remainder DEF Elapsed, Clock
<1>3. dueLeft + Elapsed <= 0 /\ dueLeft \in -MaxLate .. MaxMsecs
  BY DEF Recent, TypeOK
<1> QED
  BY <1>2, <1>3, Quarter

-----------------------------------------------------------------------------
(* A timeout more on the list.                                             *)

\* The pool has an element for a timer of the stack that is not in the list.
LEMMA Room ==
  ASSUME TypeOK, ListOK, NEW x \in Cyclic \cup {Tcp}, ~Has(next_timeout, x)
  PROVE  Len(next_timeout) < MEMP_NUM_SYS_TIMEOUT
<1> DEFINE S == Cyclic \cup {Tcp}
           C == S \ {x}
<1>1. IsFiniteSet(Cyclic) /\ Cardinality(Cyclic) \in Nat /\ Tcp \notin Cyclic
  BY TimerAssumption, FS_CardinalityType
<1>2. IsFiniteSet(S) /\ Cardinality(S) = Cardinality(Cyclic) + 1
  BY <1>1, FS_AddElement
<1>3. IsFiniteSet(C) /\ Cardinality(C) = Cardinality(Cyclic)
  <2>1. x \in S
    OBVIOUS
  <2> HIDE DEF S
  <2>2. IsFiniteSet(C) /\ Cardinality(C) = Cardinality(S) - 1
    BY <1>2, <2>1, FS_RemoveElement
  <2> QED
    BY <1>1, <1>2, <2>2
<1>4. \A k \in 1 .. Len(next_timeout) : next_timeout[k].h \in C \cup App
  <2>1. SUFFICES ASSUME NEW k \in 1 .. Len(next_timeout)
                 PROVE  next_timeout[k].h \in C \cup App
    OBVIOUS
  <2>2. next_timeout[k] \in Timeouts
    BY ElementOfSeq DEF TypeOK
  <2>3. next_timeout[k].h # x
    BY DEF Has
  <2> QED
    BY <2>2, <2>3 DEF Timeouts, Handlers
<1> HIDE DEF C
<1>5. Len(next_timeout) <= Cardinality(C) + Cardinality(AppAt(next_timeout))
  BY <1>3, <1>4, LenBound DEF TypeOK, ListOK
<1>6. Cardinality(AppAt(next_timeout)) \in Nat
      /\ Cardinality(AppAt(next_timeout)) <= AppQuota
  BY AppAtFinite DEF TypeOK, ListOK, WithinQuota
<1>7. Len(next_timeout) \in Nat
  BY LenProperties DEF TypeOK
<1> QED
  BY <1>1, <1>3, <1>5, <1>6, <1>7, TimerAssumption, PoolAssumption

\* sys_timeout_abs keeps the list in order and the pool in its shares, and the
\* timers of the stack get the element they need.
LEMMA Arms ==
  ASSUME TypeOK, ListOK, Recent, pc # "check",
         NEW t \in Timeouts, Agree(clock, t.time, t.left),
         \/ t.h \in App /\ Cardinality(AppAt(next_timeout)) < AppQuota
         \/ t.h \in Cyclic \cup {Tcp} /\ ~Has(next_timeout, t.h),
         next_timeout' = SysTimeoutAbs(next_timeout, t),
         UNCHANGED <<clock, now>>
  PROVE  /\ next_timeout' \in Seq(Timeouts)
         /\ ListOK'
         /\ \A x : x \notin App =>
              (Has(next_timeout', x) <=> Has(next_timeout, x) \/ t.h = x)
         /\ pc = "handler" =>
              \A k \in 1 .. Len(next_timeout') :
                next_timeout'[k].left + Elapsed' <= MaxMsecs + MaxLate
<1> DEFINE r == Inserted(next_timeout, t)
<1>1. /\ next_timeout \in Seq(Timeouts) /\ clock \in Clock
      /\ Agreed(next_timeout, clock) /\ Ordered(next_timeout)
      /\ Single(next_timeout)
      /\ Cardinality(AppAt(next_timeout)) <= AppQuota
  BY DEF TypeOK, ListOK, WithinQuota
<1>2. t.h \in App \/ (t.h \notin App /\ ~Has(next_timeout, t.h))
  BY TimerAssumption
<1>3. /\ r \in Seq(Timeouts)
      /\ Agreed(r, clock) /\ Ordered(r) /\ Single(r)
      /\ \A x : Has(r, x) <=> Has(next_timeout, x) \/ t.h = x
      /\ Cardinality(AppAt(r)) <= Cardinality(AppAt(next_timeout)) + 1
      /\ t.h \notin App => Cardinality(AppAt(r)) <= Cardinality(AppAt(next_timeout))
      /\ \A i \in 1 .. Len(r) :
           r[i] = t \/ \E j \in 1 .. Len(next_timeout) : r[i] = next_timeout[j]
  BY <1>1, <1>2, Started
<1>4. \/ next_timeout' = r
      \/ next_timeout' = next_timeout /\ t.h \in App
  <2>1. CASE Len(next_timeout) < MEMP_NUM_SYS_TIMEOUT
    BY <2>1 DEF SysTimeoutAbs
  <2>2. CASE ~(Len(next_timeout) < MEMP_NUM_SYS_TIMEOUT)
    BY <2>2, Room DEF SysTimeoutAbs
  <2> QED
    BY <2>1, <2>2
<1> HIDE DEF r
<1>5. Cardinality(AppAt(r)) <= AppQuota
  <2>1. Cardinality(AppAt(r)) \in Nat /\ Cardinality(AppAt(next_timeout)) \in Nat
    BY <1>1, <1>3, AppAtFinite
  <2> QED
    BY <1>1, <1>2, <1>3, <2>1, TimerAssumption
<1>6. ListOK'
  <2>1. CASE next_timeout' = r
    BY <1>3, <1>5, <2>1 DEF ListOK, WithinQuota
  <2>2. CASE next_timeout' = next_timeout
    BY <2>2 DEF ListOK, WithinQuota
  <2> QED
    BY <1>4, <2>1, <2>2
<1>7. next_timeout' \in Seq(Timeouts)
  BY <1>1, <1>3, <1>4
<1>8. ASSUME NEW x, x \notin App
      PROVE  Has(next_timeout', x) <=> Has(next_timeout, x) \/ t.h = x
  BY <1>3, <1>4, <1>8
<1>9. ASSUME pc = "handler", NEW k \in 1 .. Len(next_timeout')
      PROVE  next_timeout'[k].left + Elapsed' <= MaxMsecs + MaxLate
  <2>1. Elapsed' = Elapsed /\ Elapsed \in 0 .. MaxLate
    BY <1>9, Overdue DEF Elapsed
  <2>2. t.left \in -MaxLate .. MaxMsecs
    BY DEF Timeouts
  <2>3. next_timeout'[k] = t
        \/ \E j \in 1 .. Len(next_timeout) : next_timeout'[k] = next_timeout[j]
    BY <1>3, <1>4
  <2>4. CASE next_timeout'[k] = t
    BY <2>1, <2>2, <2>4, Quarter
  <2>5. ASSUME NEW j \in 1 .. Len(next_timeout), next_timeout'[k] = next_timeout[j]
        PROVE  next_timeout'[k].left + Elapsed' <= MaxMsecs + MaxLate
    BY <1>9, <2>1, <2>5 DEF Recent
  <2> QED
    BY <2>3, <2>4, <2>5
<1> QED
  BY <1>6, <1>7, <1>8, <1>9

\* What lwip_cyclic_timer arms.
LEMMA NextDueOK ==
  ASSUME TypeOK, Recent, HandlerOK, pc = "handler", h \in Cyclic
  PROVE  /\ NextDue(h) \in Timeouts
         /\ NextDue(h).h = h
         /\ Agree(clock, NextDue(h).time, NextDue(h).left)
<1> DEFINE i == Interval[h]
<1>1. clock \in Clock /\ due \in Clock /\ Agree(clock, due, dueLeft)
  BY DEF TypeOK, HandlerOK
<1>2. dueLeft \in -MaxLate .. 0
  BY Overdue
<1>3. i \in 1 .. MaxMsecs /\ i \in 0 .. MaxMsecs /\ i \in -MaxLate .. MaxMsecs
  BY IntervalType
<1>4. h \in Handlers
  BY DEF Handlers
<1>5. (clock + i) % Wrap \in Clock /\ Agree(clock, (clock + i) % Wrap, i)
  BY <1>1, <1>3, AgreeAhead
<1>6. (due + i) % Wrap \in Clock /\ Agree(clock, (due + i) % Wrap, dueLeft + i)
  BY <1>1, <1>2, <1>3, AgreeLater
<1>7. CASE TIME_LESS_THAN((due + i) % Wrap, clock)
  <2>1. NextDue(h) = [h |-> h, time |-> (clock + i) % Wrap, left |-> i]
    BY <1>7 DEF NextDue
  <2> HIDE DEF i
  <2> QED
    BY <1>3, <1>4, <1>5, <2>1 DEF Timeouts
<1>8. CASE ~TIME_LESS_THAN((due + i) % Wrap, clock)
  <2>1. NextDue(h) = [h |-> h, time |-> (due + i) % Wrap, left |-> dueLeft + i]
    BY <1>8 DEF NextDue
  <2> HIDE DEF i
  <2>2. dueLeft + i \in -MaxLate .. MaxMsecs
    BY <1>2, <1>3, Quarter
  <2> QED
    BY <1>4, <1>6, <2>1, <2>2 DEF Timeouts
<1> QED
  BY <1>7, <1>8

\* What sys_timeout arms.
LEMMA TimeoutOK ==
  ASSUME TypeOK, NEW x \in Handlers, NEW msecs \in 0 .. MaxMsecs
  PROVE  LET t == [h |-> x, time |-> (clock + msecs) % Wrap, left |-> msecs]
         IN  t \in Timeouts /\ t.h = x /\ Agree(clock, t.time, t.left)
<1>1. (clock + msecs) % Wrap \in Clock /\ Agree(clock, (clock + msecs) % Wrap, msecs)
  BY AgreeAhead DEF TypeOK
<1>2. msecs \in -MaxLate .. MaxMsecs
  BY Quarter
<1> QED
  BY <1>1, <1>2 DEF Timeouts

-----------------------------------------------------------------------------
(* The steps.                                                              *)

\* A millisecond that passes keeps it.
LEMMA TickKeeps == ASSUME IInv, Tick PROVE IInv'
<1> DEFINE s == next_timeout
           r == next_timeout'
<1>1. /\ TypeOK /\ ListOK /\ StackTimers /\ Recent /\ HandlerOK
      /\ s \in Seq(Timeouts) /\ clock \in Clock /\ Len(s) \in Nat
  BY LenProperties DEF IInv, TypeOK
<1>2. /\ clock' = (clock + 1) % Wrap
      /\ r = [k \in 1 .. Len(s) |-> [s[k] EXCEPT !.left = @ - 1]]
      /\ \A k \in 1 .. Len(s) : s[k].left > -MaxLate
      /\ pc = "handler" => dueLeft > -MaxLate
      /\ dueLeft' = IF pc = "handler" THEN dueLeft - 1 ELSE dueLeft
      /\ UNCHANGED <<pc, now, h, due, tcpip_tcp_timer_active, tcp_pcbs>>
  BY DEF Tick
<1>3. ASSUME NEW k \in 1 .. Len(s)
      PROVE  /\ s[k] \in Timeouts /\ r[k] \in Timeouts
             /\ r[k].h = s[k].h /\ r[k].time = s[k].time
             /\ r[k].left = s[k].left - 1
             /\ s[k].left \in -MaxLate + 1 .. MaxMsecs
             /\ s[k].time \in Clock
  <2>1. s[k] \in Timeouts
    BY <1>1, ElementOfSeq
  <2>2. r[k] = [s[k] EXCEPT !.left = s[k].left - 1]
    BY <1>2
  <2>3. s[k].left \in -MaxLate + 1 .. MaxMsecs
    BY <1>2, <2>1, Quarter DEF Timeouts
  <2>4. s[k].left - 1 \in -MaxLate .. MaxMsecs
    BY <2>3, Quarter
  <2> QED
    BY <2>1, <2>2, <2>3, <2>4 DEF Timeouts
<1>4. Len(r) = Len(s) /\ r \in Seq(Timeouts)
  <2>1. \A k \in 1 .. Len(s) : [s[k] EXCEPT !.left = @ - 1] \in Timeouts
    BY <1>2, <1>3
  <2> QED
    BY <1>1, <1>2, <2>1
<1>5. clock' \in Clock
  <2>1. clock + 1 \in Int
    BY <1>1, Quarter DEF Clock
  <2> QED
    BY <1>2, <2>1, Remainder
<1>6. TypeOK'
  <2>1. dueLeft' \in -MaxLate .. MaxMsecs
    BY <1>1, <1>2, Quarter DEF TypeOK
  <2> QED
    BY <1>1, <1>2, <1>4, <1>5, <2>1 DEF TypeOK
<1>7. Agreed(r, clock')
  <2>1. SUFFICES ASSUME NEW k \in 1 .. Len(s)
                 PROVE  Agree(clock', r[k].time, r[k].left)
    BY <1>4 DEF Agreed
  <2>2. s[k].left \in -MaxLate .. MaxMsecs /\ s[k].time \in Clock
    BY <1>3, Quarter
  <2>3. Agree(clock, s[k].time, s[k].left)
    BY <1>1 DEF ListOK, Agreed
  <2>4. Agree((clock + 1) % Wrap, s[k].time, s[k].left - 1)
    BY <1>1, <2>2, <2>3, AgreeTick
  <2> QED
    BY <1>2, <1>3, <2>4
<1>8. Ordered(r)
  <2>1. SUFFICES ASSUME NEW j \in 1 .. Len(s), NEW k \in 1 .. Len(s), j <= k
                 PROVE  r[j].left <= r[k].left
    BY <1>4 DEF Ordered
  <2>2. s[j].left <= s[k].left
    BY <1>1, <2>1 DEF ListOK, Ordered
  <2>3. s[j].left \in Int /\ s[k].left \in Int
    BY <1>3, Quarter
  <2> QED
    BY <1>3, <2>2, <2>3
<1>9. Single(r)
  BY <1>1, <1>3, <1>4 DEF ListOK, Single
<1>10. AppAt(r) = AppAt(s)
  BY <1>3, <1>4 DEF AppAt
<1>11. \A x : Has(r, x) <=> Has(s, x)
  BY <1>3, <1>4 DEF Has
<1>12. ListOK'
  BY <1>1, <1>7, <1>8, <1>9, <1>10 DEF ListOK, WithinQuota
<1>13. StackTimers'
  BY <1>1, <1>2, <1>11 DEF StackTimers, Running
<1>14. now \in Clock /\ Elapsed \in 0 .. Wrap - 1
  <2>1. now \in Clock /\ clock - now \in Int
    BY <1>1, Quarter DEF TypeOK, Clock
  <2> QED
    BY <2>1, Remainder DEF Elapsed, Clock
<1>15. ASSUME Elapsed + 1 < Wrap PROVE Elapsed' = Elapsed + 1
  BY <1>1, <1>2, <1>14, <1>15, ElapsedTick DEF Elapsed
<1>16. Recent'
  <2>1. ASSUME pc # "idle", NEW k \in 1 .. Len(s)
        PROVE  r[k].left + Elapsed' <= MaxMsecs + MaxLate
    <3>1. s[k].left + Elapsed <= MaxMsecs + MaxLate
      BY <1>1, <2>1 DEF Recent
    <3>2. Elapsed + 1 < Wrap
      BY <1>3, <1>14, <3>1, Quarter
    <3> QED
      BY <1>3, <1>14, <1>15, <3>1, <3>2, Quarter
  <2>2. ASSUME pc = "handler" PROVE dueLeft' + Elapsed' <= 0
    <3>1. dueLeft + Elapsed <= 0 /\ dueLeft \in -MaxLate .. MaxMsecs
      BY <1>1, <2>2 DEF Recent, TypeOK
    <3>2. Elapsed + 1 < Wrap
      BY <1>14, <3>1, Quarter
    <3> QED
      BY <1>2, <1>14, <1>15, <2>2, <3>1, <3>2, Quarter
  <2> QED
    BY <1>2, <1>4, <2>1, <2>2 DEF Recent
<1>17. HandlerOK'
  <2>1. ASSUME pc = "handler" PROVE h \in Handlers /\ Agree(clock', due, dueLeft - 1)
    <3>1. Agree(clock, due, dueLeft) /\ h \in Handlers
          /\ due \in Clock /\ dueLeft \in -MaxLate .. MaxMsecs
      BY <1>1, <2>1 DEF HandlerOK, TypeOK
    <3> QED
      BY <1>1, <1>2, <3>1, AgreeTick
  <2> QED
    BY <1>2, <2>1 DEF HandlerOK
<1> QED
  BY <1>6, <1>12, <1>13, <1>16, <1>17 DEF IInv

\* The call of sys_check_timeouts keeps it.
LEMMA CheckKeeps == ASSUME IInv, Check PROVE IInv'
<1>1. /\ TypeOK /\ ListOK /\ StackTimers /\ pc = "idle"
      /\ now' = clock /\ pc' = "check"
      /\ UNCHANGED <<clock, next_timeout, h, due, dueLeft,
                     tcpip_tcp_timer_active, tcp_pcbs>>
  BY DEF IInv, Check
<1>2. TypeOK' /\ ListOK' /\ HandlerOK'
  BY <1>1 DEF TypeOK, ListOK, WithinQuota, HandlerOK
<1>3. StackTimers'
  BY <1>1 DEF StackTimers, Running
<1>4. Recent'
  <2>1. Elapsed' = 0
    <3>1. clock \in Int /\ 0 \in 0 .. Wrap - 1
      BY <1>1, Quarter DEF TypeOK, Clock
    <3>2. clock - clock = 0
      BY <3>1
    <3>3. 0 % Wrap = 0
      BY <3>1, Remainder
    <3> QED
      BY <1>1, <3>2, <3>3 DEF Elapsed
  <2>2. ASSUME NEW k \in 1 .. Len(next_timeout)
        PROVE  next_timeout[k].left + 0 <= MaxMsecs + MaxLate
    <3>1. next_timeout[k] \in Timeouts
      BY <1>1, ElementOfSeq DEF TypeOK
    <3>2. next_timeout[k].left \in -MaxLate .. MaxMsecs
      BY <3>1 DEF Timeouts
    <3> QED
      BY <3>2, Quarter
  <2> QED
    BY <1>1, <2>1, <2>2 DEF Recent
<1> QED
  BY <1>2, <1>3, <1>4 DEF IInv

\* So does its return.
LEMMA ReturnKeeps == ASSUME IInv, Return PROVE IInv'
<1>1. /\ TypeOK /\ ListOK /\ StackTimers /\ pc = "check"
      /\ now' = 0 /\ pc' = "idle"
      /\ UNCHANGED <<clock, next_timeout, h, due, dueLeft,
                     tcpip_tcp_timer_active, tcp_pcbs>>
  BY DEF IInv, Return
<1>2. 0 \in Clock
  BY Quarter DEF Clock
<1>3. TypeOK' /\ ListOK' /\ HandlerOK' /\ Recent'
  BY <1>1, <1>2 DEF TypeOK, ListOK, WithinQuota, HandlerOK, Recent
<1>4. StackTimers'
  BY <1>1 DEF StackTimers, Running
<1> QED
  BY <1>3, <1>4 DEF IInv

\* Taking a due timeout off the list keeps it.
LEMMA ExpireKeeps == ASSUME IInv, Expire PROVE IInv'
<1> DEFINE s == next_timeout
           t == s[1]
<1>1. /\ TypeOK /\ ListOK /\ StackTimers /\ Recent /\ pc = "check"
      /\ s \in Seq(Timeouts)
  BY DEF IInv, Expire, TypeOK
<1>2. s # <<>> /\ ~TIME_LESS_THAN(now, Head(s).time)
  BY DEF Expire, NothingDue
<1>3. Lacks(Tail(s), s, 1) /\ Head(s) = t /\ t \in Timeouts
  BY <1>1, <1>2, TailLacks
<1>4. /\ h' = t.h /\ due' = t.time /\ dueLeft' = t.left
      /\ next_timeout' = Tail(s) /\ pc' = "handler"
      /\ UNCHANGED <<clock, now, tcpip_tcp_timer_active, tcp_pcbs>>
  BY <1>3 DEF Expire
<1>5. 1 \in 1 .. Len(s)
  BY <1>3 DEF Lacks
<1>6. /\ t.h \in Handlers /\ t.time \in Clock /\ t.left \in -MaxLate .. MaxMsecs
      /\ Agree(clock, t.time, t.left)
  BY <1>1, <1>3, <1>5 DEF Timeouts, ListOK, Agreed
<1>7. ~(0 < t.left + Elapsed)
  BY <1>1, <1>2, <1>3, <1>5, Due DEF ListOK
<1>8. Elapsed' = Elapsed /\ Elapsed \in 0 .. Wrap - 1
  <2>1. clock - now \in Int
    BY <1>1, Quarter DEF TypeOK, Clock
  <2> QED
    BY <1>4, <2>1, Remainder DEF Elapsed, Clock
<1>9. /\ Tail(s) \in Seq(Timeouts)
      /\ Ordered(Tail(s)) /\ Single(Tail(s))
      /\ \A c : Agreed(s, c) => Agreed(Tail(s), c)
      /\ \A x : x # t.h => (Has(Tail(s), x) <=> Has(s, x))
      /\ t.h \notin App => ~Has(Tail(s), t.h)
      /\ Has(s, t.h)
      /\ Cardinality(AppAt(Tail(s))) <= Cardinality(AppAt(s))
      /\ \A i \in 1 .. Len(Tail(s)) : \E j \in 1 .. Len(s) : Tail(s)[i] = s[j]
  <2> HIDE DEF s
  <2> QED
    BY <1>1, <1>3, Dropped DEF ListOK, s
<1>10. TypeOK'
  BY <1>1, <1>4, <1>6, <1>9 DEF TypeOK
<1>11. ListOK'
  <2>1. Cardinality(AppAt(Tail(s))) \in Nat /\ Cardinality(AppAt(s)) \in Nat
    BY <1>1, <1>9, AppAtFinite
  <2>2. Cardinality(AppAt(Tail(s))) <= AppQuota
    BY <1>1, <1>9, <2>1, TimerAssumption DEF ListOK, WithinQuota
  <2> QED
    BY <1>1, <1>4, <1>9, <2>2 DEF ListOK, WithinQuota
<1>12. StackTimers'
  <2>1. \A c \in Cyclic : Has(Tail(s), c) <=> t.h # c
    BY <1>1, <1>9, TimerAssumption DEF StackTimers, Running
  <2>2. Has(Tail(s), Tcp) <=> (tcpip_tcp_timer_active /\ t.h # Tcp)
    BY <1>1, <1>9, TimerAssumption DEF StackTimers, Running
  <2>3. t.h = Tcp => tcpip_tcp_timer_active
    BY <1>1, <1>9 DEF StackTimers
  <2> HIDE DEF t
  <2> QED
    BY <1>1, <1>4, <2>1, <2>2, <2>3 DEF StackTimers, Running
<1>13. Recent'
  <2>1. ASSUME NEW i \in 1 .. Len(Tail(s))
        PROVE  Tail(s)[i].left + Elapsed <= MaxMsecs + MaxLate
    BY <1>1, <1>9 DEF Recent
  <2>2. t.left + Elapsed <= 0
    BY <1>6, <1>7, <1>8, Quarter
  <2> QED
    BY <1>4, <1>8, <2>1, <2>2 DEF Recent
<1>14. HandlerOK'
  BY <1>4, <1>6 DEF HandlerOK
<1> QED
  BY <1>10, <1>11, <1>12, <1>13, <1>14 DEF IInv

\* What every handler's return does, whatever it has done to the list.
LEMMA BackToCheck ==
  ASSUME IInv, pc = "handler", HandlerReturns, UNCHANGED <<clock, now>>
  PROVE  /\ clock' \in Clock /\ now' \in Clock /\ pc' = "check"
         /\ pc' \in {"idle", "check", "handler"}
         /\ h' \in Handlers \cup {NoHandler}
         /\ due' \in Clock /\ dueLeft' \in -MaxLate .. MaxMsecs
         /\ HandlerOK'
<1>1. 0 \in Clock /\ 0 \in -MaxLate .. MaxMsecs
  BY Quarter DEF Clock
<1> QED
  BY <1>1 DEF IInv, TypeOK, HandlerReturns, HandlerOK

\* The end of a cyclic handler, whose timer is armed again, keeps it.
LEMMA CyclicDoneKeeps == ASSUME IInv, CyclicDone PROVE IInv'
<1> DEFINE t == NextDue(h)
<1>1. /\ TypeOK /\ ListOK /\ StackTimers /\ Recent /\ HandlerOK
      /\ pc = "handler" /\ h \in Cyclic
      /\ next_timeout' = SysTimeoutAbs(next_timeout, t)
      /\ HandlerReturns
      /\ UNCHANGED <<clock, now>>
      /\ UNCHANGED <<tcpip_tcp_timer_active, tcp_pcbs>>
  BY DEF IInv, CyclicDone
<1>2. t \in Timeouts /\ t.h = h /\ Agree(clock, t.time, t.left)
  BY <1>1, NextDueOK
<1>3. ~Has(next_timeout, h)
  BY <1>1 DEF StackTimers, Running
<1> HIDE DEF t
<1>4. /\ next_timeout' \in Seq(Timeouts)
      /\ ListOK'
      /\ \A x : x \notin App =>
           (Has(next_timeout', x) <=> Has(next_timeout, x) \/ t.h = x)
      /\ \A k \in 1 .. Len(next_timeout') :
           next_timeout'[k].left + Elapsed' <= MaxMsecs + MaxLate
  BY <1>1, <1>2, <1>3, Arms
<1>5. /\ clock' \in Clock /\ now' \in Clock /\ pc' = "check"
      /\ pc' \in {"idle", "check", "handler"}
      /\ h' \in Handlers \cup {NoHandler}
      /\ due' \in Clock /\ dueLeft' \in -MaxLate .. MaxMsecs
      /\ HandlerOK'
  BY <1>1, BackToCheck
<1>6. TypeOK'
  BY <1>1, <1>4, <1>5 DEF TypeOK
<1>7. StackTimers'
  <2>1. \A c \in Cyclic : Has(next_timeout', c)
    BY <1>1, <1>2, <1>4, TimerAssumption DEF StackTimers, Running
  <2>2. Has(next_timeout', Tcp) <=> tcpip_tcp_timer_active
    BY <1>1, <1>2, <1>4, TimerAssumption DEF StackTimers, Running
  <2> QED
    BY <1>1, <1>5, <2>1, <2>2 DEF StackTimers, Running
<1>8. Recent'
  BY <1>4, <1>5 DEF Recent
<1> QED
  BY <1>4, <1>5, <1>6, <1>7, <1>8 DEF IInv

\* The end of the TCP handler, whose timer goes on or stops, keeps it.
LEMMA TcpDoneKeeps == ASSUME IInv, TcpDone PROVE IInv'
<1>1. /\ TypeOK /\ ListOK /\ StackTimers /\ Recent /\ HandlerOK
      /\ pc = "handler" /\ h = Tcp
      /\ HandlerReturns
      /\ UNCHANGED <<clock, now>> /\ UNCHANGED tcp_pcbs
      /\ tcpip_tcp_timer_active
  BY DEF IInv, TcpDone, StackTimers, Running
<1>2. /\ clock' \in Clock /\ now' \in Clock /\ pc' = "check"
      /\ pc' \in {"idle", "check", "handler"}
      /\ h' \in Handlers \cup {NoHandler}
      /\ due' \in Clock /\ dueLeft' \in -MaxLate .. MaxMsecs
      /\ HandlerOK'
  BY <1>1, BackToCheck
<1>3. ~Has(next_timeout, Tcp) /\ \A c \in Cyclic : Has(next_timeout, c)
  BY <1>1, TimerAssumption DEF StackTimers, Running
<1>4. CASE tcp_pcbs
  <2> DEFINE t == [h |-> Tcp, time |-> (clock + Interval[Tcp]) % Wrap,
                   left |-> Interval[Tcp]]
  <2>1. /\ next_timeout' = SysTimeoutAbs(next_timeout, t)
        /\ UNCHANGED tcpip_tcp_timer_active
    BY <1>4 DEF TcpDone, SysTimeout
  <2>2. t \in Timeouts /\ t.h = Tcp /\ Agree(clock, t.time, t.left)
    BY <1>1, IntervalType, TimeoutOK DEF Handlers
  <2> HIDE DEF t
  <2>3. /\ next_timeout' \in Seq(Timeouts)
        /\ ListOK'
        /\ \A x : x \notin App =>
             (Has(next_timeout', x) <=> Has(next_timeout, x) \/ t.h = x)
        /\ \A k \in 1 .. Len(next_timeout') :
             next_timeout'[k].left + Elapsed' <= MaxMsecs + MaxLate
    BY <1>1, <1>3, <2>1, <2>2, Arms
  <2>4. TypeOK'
    BY <1>1, <1>2, <2>1, <2>3 DEF TypeOK
  <2>5. Has(next_timeout', Tcp) /\ \A c \in Cyclic : Has(next_timeout', c)
    BY <1>3, <2>2, <2>3, TimerAssumption
  <2>6. StackTimers'
    BY <1>1, <1>2, <2>1, <2>5 DEF StackTimers, Running
  <2>7. Recent'
    BY <1>2, <2>3 DEF Recent
  <2> QED
    BY <1>2, <2>3, <2>4, <2>6, <2>7 DEF IInv
<1>5. CASE ~tcp_pcbs
  <2>1. tcpip_tcp_timer_active' = FALSE /\ next_timeout' = next_timeout
    BY <1>5 DEF TcpDone
  <2>2. TypeOK' /\ ListOK'
    BY <1>1, <1>2, <2>1 DEF TypeOK, ListOK, WithinQuota
  <2>3. StackTimers'
    BY <1>1, <1>2, <1>3, <1>5, <2>1 DEF StackTimers, Running
  <2>4. Recent'
    BY <1>1, <1>2, <2>1 DEF Recent, Elapsed
  <2> QED
    BY <1>2, <2>2, <2>3, <2>4 DEF IInv
<1> QED
  BY <1>4, <1>5

\* The end of a handler of the application keeps it.
LEMMA AppDoneKeeps == ASSUME IInv, AppDone PROVE IInv'
<1>1. /\ TypeOK /\ ListOK /\ StackTimers /\ Recent
      /\ pc = "handler" /\ h \in App
      /\ HandlerReturns
      /\ UNCHANGED <<clock, now>>
      /\ UNCHANGED <<next_timeout, tcpip_tcp_timer_active, tcp_pcbs>>
  BY DEF IInv, AppDone
<1>2. /\ clock' \in Clock /\ now' \in Clock /\ pc' = "check"
      /\ pc' \in {"idle", "check", "handler"}
      /\ h' \in Handlers \cup {NoHandler}
      /\ due' \in Clock /\ dueLeft' \in -MaxLate .. MaxMsecs
      /\ HandlerOK'
  BY <1>1, BackToCheck
<1>3. TypeOK' /\ ListOK' /\ Recent'
  BY <1>1, <1>2 DEF TypeOK, ListOK, WithinQuota, Recent, Elapsed
<1>4. StackTimers'
  BY <1>1, <1>2, TimerAssumption DEF StackTimers, Running
<1> QED
  BY <1>2, <1>3, <1>4 DEF IInv

\* sys_timeout, called by the application, keeps it.
LEMMA StartAppKeeps ==
  ASSUME IInv, NEW a \in App, NEW msecs \in 0 .. MaxMsecs, StartApp(a, msecs)
  PROVE  IInv'
<1> DEFINE t == [h |-> a, time |-> (clock + msecs) % Wrap, left |-> msecs]
<1>1. /\ TypeOK /\ ListOK /\ StackTimers /\ Recent /\ HandlerOK
      /\ pc # "check"
      /\ Cardinality(AppAt(next_timeout)) < AppQuota
      /\ next_timeout' = SysTimeoutAbs(next_timeout, t)
      /\ UNCHANGED <<clock, now>>
      /\ UNCHANGED <<pc, h, due, dueLeft, tcpip_tcp_timer_active, tcp_pcbs>>
  BY DEF IInv, StartApp, AppTimeouts, AppAt, SysTimeout
<1>2. t \in Timeouts /\ t.h = a /\ Agree(clock, t.time, t.left)
  BY <1>1, TimeoutOK DEF Handlers
<1> HIDE DEF t
<1>3. /\ next_timeout' \in Seq(Timeouts)
      /\ ListOK'
      /\ \A x : x \notin App =>
           (Has(next_timeout', x) <=> Has(next_timeout, x) \/ t.h = x)
      /\ pc = "handler" =>
           \A k \in 1 .. Len(next_timeout') :
             next_timeout'[k].left + Elapsed' <= MaxMsecs + MaxLate
  BY <1>1, <1>2, Arms
<1>4. TypeOK'
  BY <1>1, <1>3 DEF TypeOK
<1>5. \A x : x \notin App => (Has(next_timeout', x) <=> Has(next_timeout, x))
  BY <1>2, <1>3
<1>6. StackTimers'
  BY <1>1, <1>5, TimerAssumption DEF StackTimers, Running
<1>7. Recent' /\ HandlerOK'
  BY <1>1, <1>3 DEF TypeOK, Recent, HandlerOK, Elapsed
<1> QED
  BY <1>3, <1>4, <1>6, <1>7 DEF IInv

\* sys_untimeout, called by the application, keeps it.
LEMMA StopAppKeeps ==
  ASSUME IInv, NEW a \in App, StopApp(a)
  PROVE  IInv'
<1> DEFINE s == next_timeout
           r == next_timeout'
<1>1. /\ TypeOK /\ ListOK /\ StackTimers /\ Recent /\ HandlerOK
      /\ s \in Seq(Timeouts)
      /\ r = Without(s, a)
      /\ UNCHANGED <<clock, now>>
      /\ UNCHANGED <<pc, h, due, dueLeft, tcpip_tcp_timer_active, tcp_pcbs>>
  BY DEF IInv, StopApp, TypeOK
<1>2. r = s \/ \E k \in 1 .. Len(s) : s[k].h = a /\ Lacks(r, s, k)
  BY <1>1, WithoutLacks
<1>3. CASE r = s
  <2>1. TypeOK' /\ ListOK'
    BY <1>1, <1>3 DEF TypeOK, ListOK, WithinQuota
  <2>2. StackTimers' /\ Recent' /\ HandlerOK'
    BY <1>1, <1>3 DEF StackTimers, Running, Recent, Elapsed, HandlerOK
  <2> QED
    BY <2>1, <2>2 DEF IInv
<1>4. ASSUME NEW k \in 1 .. Len(s), s[k].h = a, Lacks(r, s, k) PROVE IInv'
  <2>1. /\ r \in Seq(Timeouts)
        /\ Ordered(r) /\ Single(r)
        /\ \A c : Agreed(s, c) => Agreed(r, c)
        /\ \A x : x # s[k].h => (Has(r, x) <=> Has(s, x))
        /\ Cardinality(AppAt(r)) <= Cardinality(AppAt(s))
        /\ \A i \in 1 .. Len(r) : \E j \in 1 .. Len(s) : r[i] = s[j]
    <3> HIDE DEF r, s
    <3> QED
      BY <1>1, <1>4, Dropped DEF ListOK, s
  <2>2. TypeOK'
    BY <1>1, <2>1 DEF TypeOK
  <2>3. ListOK'
    <3>1. Cardinality(AppAt(r)) \in Nat /\ Cardinality(AppAt(s)) \in Nat
      BY <1>1, <2>1, AppAtFinite
    <3>2. Cardinality(AppAt(r)) <= AppQuota
      BY <1>1, <2>1, <3>1, TimerAssumption DEF ListOK, WithinQuota
    <3> QED
      BY <1>1, <2>1, <3>2 DEF ListOK, WithinQuota
  <2>4. \A x : x \notin App => (Has(r, x) <=> Has(s, x))
    BY <1>4, <2>1
  <2>5. StackTimers'
    BY <1>1, <2>4, TimerAssumption DEF StackTimers, Running
  <2>6. Recent' /\ HandlerOK'
    BY <1>1, <2>1 DEF Recent, HandlerOK, Elapsed
  <2> QED
    BY <2>2, <2>3, <2>5, <2>6 DEF IInv
<1> QED
  BY <1>2, <1>3, <1>4

\* A first connection, which starts the TCP timer if it has to, keeps it.
LEMMA TcpOpensKeeps == ASSUME IInv, TcpOpens PROVE IInv'
<1>1. /\ TypeOK /\ ListOK /\ StackTimers /\ Recent /\ HandlerOK
      /\ pc # "check"
      /\ tcp_pcbs' = TRUE /\ tcpip_tcp_timer_active' = TRUE
      /\ next_timeout' = TcpTimerNeeded(next_timeout)
      /\ UNCHANGED <<clock, now>>
      /\ UNCHANGED <<pc, h, due, dueLeft>>
  BY DEF IInv, TcpOpens
<1>2. CASE tcpip_tcp_timer_active
  <2>1. next_timeout' = next_timeout
    BY <1>1, <1>2 DEF TcpTimerNeeded
  <2>2. TypeOK' /\ ListOK'
    BY <1>1, <2>1 DEF TypeOK, ListOK, WithinQuota
  <2>3. StackTimers' /\ Recent' /\ HandlerOK'
    BY <1>1, <1>2, <2>1 DEF StackTimers, Running, Recent, Elapsed, HandlerOK
  <2> QED
    BY <2>2, <2>3 DEF IInv
<1>3. CASE ~tcpip_tcp_timer_active
  <2> DEFINE t == [h |-> Tcp, time |-> (clock + Interval[Tcp]) % Wrap,
                   left |-> Interval[Tcp]]
  <2>1. next_timeout' = SysTimeoutAbs(next_timeout, t)
    BY <1>1, <1>3 DEF TcpTimerNeeded, SysTimeout
  <2>2. t \in Timeouts /\ t.h = Tcp /\ Agree(clock, t.time, t.left)
    BY <1>1, IntervalType, TimeoutOK DEF Handlers
  <2>3. ~Has(next_timeout, Tcp) /\ ~Running(Tcp)
    BY <1>1, <1>3 DEF StackTimers
  <2> HIDE DEF t
  <2>4. /\ next_timeout' \in Seq(Timeouts)
        /\ ListOK'
        /\ \A x : x \notin App =>
             (Has(next_timeout', x) <=> Has(next_timeout, x) \/ t.h = x)
        /\ pc = "handler" =>
             \A k \in 1 .. Len(next_timeout') :
               next_timeout'[k].left + Elapsed' <= MaxMsecs + MaxLate
    BY <1>1, <2>1, <2>2, <2>3, Arms
  <2>5. TypeOK'
    BY <1>1, <2>4 DEF TypeOK
  <2>6. /\ Has(next_timeout', Tcp)
        /\ \A c \in Cyclic : Has(next_timeout', c) <=> Has(next_timeout, c)
    BY <2>2, <2>4, TimerAssumption
  <2>7. StackTimers'
    BY <1>1, <2>3, <2>6 DEF StackTimers, Running
  <2>8. Recent' /\ HandlerOK'
    BY <1>1, <2>4 DEF TypeOK, Recent, HandlerOK, Elapsed
  <2> QED
    BY <2>4, <2>5, <2>7, <2>8 DEF IInv
<1> QED
  BY <1>2, <1>3

\* The end of the last connection keeps it.
LEMMA TcpClosesKeeps == ASSUME IInv, TcpCloses PROVE IInv'
<1>1. /\ TypeOK /\ ListOK /\ StackTimers /\ Recent /\ HandlerOK
      /\ tcp_pcbs' = FALSE
      /\ UNCHANGED <<clock, next_timeout, pc, now, h, due, dueLeft,
                     tcpip_tcp_timer_active>>
  BY DEF IInv, TcpCloses
<1>2. TypeOK' /\ ListOK'
  BY <1>1 DEF TypeOK, ListOK, WithinQuota
<1>3. StackTimers' /\ Recent' /\ HandlerOK'
  BY <1>1 DEF StackTimers, Running, Recent, Elapsed, HandlerOK
<1> QED
  BY <1>2, <1>3 DEF IInv

-----------------------------------------------------------------------------
(* The theorems.                                                           *)

\* The invariant holds initially and every step of the main loop, of the clock
\* and of the handlers keeps it: the list is in order on a clock that wraps
\* around, each timer of the stack is in it once or has its handler running,
\* and the pool has room for it.
THEOREM Inductive == Spec => []IInv
<1>1. IInv /\ [Next]_vars => IInv'
  <2> SUFFICES ASSUME IInv, [Next]_vars PROVE IInv'
    OBVIOUS
  <2>1. CASE Tick
    BY <2>1, TickKeeps
  <2>2. CASE Check
    BY <2>2, CheckKeeps
  <2>3. CASE Return
    BY <2>3, ReturnKeeps
  <2>4. CASE Expire
    BY <2>4, ExpireKeeps
  <2>5. CASE CyclicDone
    BY <2>5, CyclicDoneKeeps
  <2>6. CASE TcpDone
    BY <2>6, TcpDoneKeeps
  <2>7. CASE AppDone
    BY <2>7, AppDoneKeeps
  <2>8. ASSUME NEW a \in App, NEW msecs \in 0 .. MaxMsecs, StartApp(a, msecs)
        PROVE  IInv'
    BY <2>8, StartAppKeeps
  <2>9. ASSUME NEW a \in App, StopApp(a)
        PROVE  IInv'
    BY <2>9, StopAppKeeps
  <2>10. CASE TcpOpens
    BY <2>10, TcpOpensKeeps
  <2>11. CASE TcpCloses
    BY <2>11, TcpClosesKeeps
  <2>12. CASE UNCHANGED vars
    BY <2>12 DEF vars, IInv, TypeOK, ListOK, WithinQuota, StackTimers,
                 Running, Recent, Elapsed, HandlerOK
  <2> QED
    BY <2>1, <2>2, <2>3, <2>4, <2>5, <2>6, <2>7, <2>8, <2>9, <2>10, <2>11,
       <2>12 DEF Next
<1> QED
  BY <1>1, InitIInv, PTL DEF Spec

\* The list is in the order its timeouts are truly due, for a clock of any
\* width, across its wrap-around: sys_check_timeouts may stop at the first
\* timeout that is not due.
THEOREM InOrder == Spec => []Sorted
<1>1. IInv => Sorted
  <2> SUFFICES ASSUME IInv PROVE Sorted
    OBVIOUS
  <2>1. TypeOK /\ Ordered(next_timeout) /\ Len(next_timeout) \in Nat
    BY LenProperties DEF IInv, ListOK, TypeOK
  <2>2. ASSUME NEW k \in 2 .. Len(next_timeout)
        PROVE  next_timeout[k - 1].left <= next_timeout[k].left
    <3>1. k - 1 \in 1 .. Len(next_timeout) /\ k \in 1 .. Len(next_timeout)
          /\ k - 1 <= k
      BY <2>1
    <3> QED
      BY <2>1, <3>1 DEF Ordered
  <2> QED
    BY <2>1, <2>2 DEF Sorted
<1> QED
  BY <1>1, Inductive, PTL

\* No handler runs before its time, however late the main loop and however
\* long its handlers take.
THEOREM Waits == Spec => []NeverEarly
<1>1. IInv => NeverEarly
  <2> SUFFICES ASSUME IInv, pc = "handler" PROVE dueLeft <= 0
    BY DEF NeverEarly
  <2>1. dueLeft \in -MaxLate .. 0
    BY Overdue DEF IInv
  <2> QED
    BY <2>1, Quarter
<1> QED
  BY <1>1, Inductive, PTL

\* How often the handler of a timer of the stack is in the list.
LEMMA HowOften ==
  ASSUME Single(next_timeout), NEW x, x \notin App
  PROVE  Cardinality(At(next_timeout, x)) = IF Has(next_timeout, x) THEN 1 ELSE 0
<1>1. CASE Has(next_timeout, x)
  <2>1. PICK k \in 1 .. Len(next_timeout) : next_timeout[k].h = x
    BY <1>1 DEF Has
  <2>2. At(next_timeout, x) = {k}
    BY <2>1 DEF At, Single
  <2> QED
    BY <1>1, <2>2, FS_Singleton
<1>2. CASE ~Has(next_timeout, x)
  <2>1. At(next_timeout, x) = {}
    BY <1>2 DEF Has, At
  <2> QED
    BY <1>2, <2>1, FS_EmptySet
<1> QED
  BY <1>1, <1>2

\* No cyclic timer is ever lost or doubled: it is in the list exactly once or
\* its handler is running, however many timeouts the application starts within
\* its share of the pool.
THEOREM NoneLost == Spec => []CyclicAlive
<1>1. IInv => CyclicAlive
  <2> SUFFICES ASSUME IInv, NEW c \in Cyclic
               PROVE  Cardinality(At(next_timeout, c))
                        = IF pc = "handler" /\ h = c THEN 0 ELSE 1
    BY DEF CyclicAlive
  <2>1. Single(next_timeout) /\ c \notin App
    BY TimerAssumption DEF IInv, ListOK
  <2>2. Has(next_timeout, c) <=> ~(pc = "handler" /\ h = c)
    BY DEF IInv, StackTimers, Running
  <2> QED
    BY <2>1, <2>2, HowOften
<1> QED
  BY <1>1, Inductive, PTL

\* The TCP timer runs, once, while there are connections, however they come
\* and go around its expiry.
THEOREM TcpServed == Spec => []TcpTimerRuns
<1>1. IInv => TcpTimerRuns
  <2> SUFFICES ASSUME IInv PROVE TcpTimerRuns
    OBVIOUS
  <2>1. Single(next_timeout) /\ Tcp \notin App
    BY TimerAssumption DEF IInv, ListOK
  <2>2. Has(next_timeout, Tcp)
          <=> (tcpip_tcp_timer_active /\ ~(pc = "handler" /\ h = Tcp))
    BY DEF IInv, StackTimers, Running
  <2>3. Cardinality(At(next_timeout, Tcp))
          = IF Has(next_timeout, Tcp) THEN 1 ELSE 0
    BY <2>1, HowOften
  <2>4. tcp_pcbs => tcpip_tcp_timer_active
    BY DEF IInv, StackTimers
  <2> QED
    BY <2>2, <2>3, <2>4 DEF TcpTimerRuns
<1> QED
  BY <1>1, Inductive, PTL

\* sys_check_timeouts never returns while a timeout is in the list that was
\* due when it was called, although it stops at the first that was not.
THEOREM Punctual == Spec => AllDueHandled
<1>1. IInv => NoneLeftDue
  <2> SUFFICES ASSUME IInv, Return, NEW k \in 1 .. Len(next_timeout)
               PROVE  next_timeout[k].left + ((clock - now) % Wrap) > 0
    BY DEF NoneLeftDue
  <2>1. /\ TypeOK /\ Agreed(next_timeout, clock) /\ Recent
        /\ Ordered(next_timeout) /\ pc # "idle"
        /\ next_timeout \in Seq(Timeouts) /\ Len(next_timeout) \in Nat
    BY LenProperties DEF IInv, ListOK, TypeOK, Return
  <2>2. next_timeout # <<>> /\ 1 \in 1 .. Len(next_timeout) /\ 1 <= k
    BY <2>1
  <2>3. Head(next_timeout) = next_timeout[1]
    BY <2>1, <2>2, TailLacks
  <2>4. TIME_LESS_THAN(now, next_timeout[1].time)
    BY <2>2, <2>3 DEF Return, NothingDue
  <2>5. 0 < next_timeout[1].left + Elapsed
    BY <2>1, <2>2, <2>4, Due
  <2>6. next_timeout[1].left <= next_timeout[k].left
    BY <2>1, <2>2 DEF Ordered
  <2>7. next_timeout[1].left \in Int /\ next_timeout[k].left \in Int
    <3>1. next_timeout[1] \in Timeouts /\ next_timeout[k] \in Timeouts
      BY <2>1, <2>2, ElementOfSeq
    <3> QED
      BY <3>1, Quarter DEF Timeouts
  <2>8. Elapsed \in Int
    <3>1. clock - now \in Int
      BY <2>1, Quarter DEF TypeOK, Clock
    <3> QED
      BY <3>1, Remainder, Quarter DEF Elapsed, Clock
  <2>9. next_timeout[k].left + Elapsed > 0
    BY <2>5, <2>6, <2>7, <2>8
  <2> QED
    BY <2>9 DEF Elapsed
<1> QED
  BY <1>1, Inductive, PTL DEF AllDueHandled
=============================================================================
