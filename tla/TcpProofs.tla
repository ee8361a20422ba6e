----------------------------- MODULE TcpProofs ------------------------------
(***************************************************************************)
(* Proofs about Tcp, for every maximum segment size and window, every      *)
(* number of faults and retries, every network and every program that      *)
(* writes less than half the sequence space.                               *)
(***************************************************************************)
EXTENDS Tcp, OrderedListsProofs

-----------------------------------------------------------------------------
(* The inductive invariant.                                                *)

SeqNos == 0 .. SeqSpace - 1
Half == SeqSpace \div 2

\* Segments in the queues of a PCB, and under way.
Segs == [seq : SeqNos, data : Seq(Nat), syn : BOOLEAN, fin : BOOLEAN]

WireSegs ==
  {s \in [seq : SeqNos, data : Seq(Nat), syn : BOOLEAN, fin : BOOLEAN,
          rst : BOOLEAN, ack : BOOLEAN, ackno : SeqNos, wnd : Nat] :
     s.syn => s.data = <<>> /\ ~s.fin}

\* Where a segment of a stream that starts at i ends, counted from there.
EndOf(s, i) == Minus(s.seq, i) + TcpLen(s)

\* What a queue may hold if the stream ends at top, and what reaches number n.
Within(i, top) ==
  {s \in Segs : /\ TcpLen(s) > 0
                /\ s.syn => s.data = <<>> /\ ~s.fin
                /\ Len(s.data) <= TCP_MSS
                /\ EndOf(s, i) <= top}

Reaching(i, n) == {s \in Segs : EndOf(s, i) >= n}

NoData == {s \in Segs : s.data = <<>>}

Has(q, W) == \E k \in 1 .. Len(q) : q[k] \in W

HoldsNothing(p) == p.unsent = <<>> /\ p.unacked = <<>>

\* The states before the FIN is in the queues.
Open == {"SYN_SENT", "SYN_RCVD", "ESTABLISHED", "CLOSE_WAIT"}

TypedPcb(p) ==
  /\ DOMAIN p = DOMAIN NoPcb
  /\ p.state \in Open \cup Synchronized \cup {"NONE"}
  /\ p.lastack \in SeqNos /\ p.snd_nxt \in SeqNos /\ p.snd_lbb \in SeqNos
  /\ p.rcv_nxt \in SeqNos /\ p.rcv_ann_right_edge \in SeqNos
  /\ p.snd_wnd \in Nat /\ p.rcv_wnd \in Nat /\ p.rcv_ann_wnd \in Nat
  /\ p.rtime \in BOOLEAN /\ p.persist \in BOOLEAN
  /\ p.rxclosed \in BOOLEAN /\ p.closepend \in BOOLEAN
  /\ p.refused \in Seq(Nat)

Typed(w) ==
  /\ DOMAIN w = {"p", "a", "listen", "out", "data", "fin", "flag"}
  /\ TypedPcb(w.p)
  /\ DOMAIN w.a = DOMAIN NoApp
  /\ w.a.wrote \in 0 .. MaxStream /\ w.a.writes \in Nat
  /\ w.a.closed \in BOOLEAN /\ w.listen \in BOOLEAN
  /\ w.out \in Seq(WireSegs)
  /\ w.data \in Seq(Nat)

\* Where the stream ends: before its FIN is queued that is snd_lbb.
Top(p, a, i) ==
  IF p.state \in Open THEN Minus(p.snd_lbb, i) ELSE a.wrote + 2

\* What the queues hold lies in the stream, what was sent too, and the last
\* of what was sent is still held if anything is.
Numbered(p, a, i) ==
  /\ Top(p, a, i) <= a.wrote + IF p.state \in Open THEN 1 ELSE 2
  /\ Minus(p.lastack, i) <= Minus(p.snd_nxt, i)
  /\ Minus(p.snd_nxt, i) <= Top(p, a, i)
  /\ p.unsent \in Seq(Within(i, Top(p, a, i)))
  /\ p.unacked \in Seq(Within(i, Top(p, a, i)))
  /\ \/ HoldsNothing(p)
     \/ Has(p.unsent, Reaching(i, Minus(p.snd_nxt, i)))
     \/ Has(p.unacked, Reaching(i, Minus(p.snd_nxt, i)))

\* In SYN_SENT the SYN is held and nothing else.
Opening(p, i) ==
  p.state = "SYN_SENT" =>
    /\ Minus(p.lastack, i) < Minus(p.snd_nxt, i)
    /\ Len(p.unsent) + Len(p.unacked) = 1
    /\ p.unsent \in Seq(NoData) /\ p.unacked \in Seq(NoData)

Timed(p) ==
  /\ p.unacked # <<>> => p.rtime
  /\ p.state # "TIME_WAIT" /\ p.persist => p.unacked = <<>>
  /\ p.state \in {"NONE", "TIME_WAIT"} => HoldsNothing(p)

\* A program that has closed has no connection that opens, and one that was
\* open is being closed.
Closing(p, a, listen) ==
  /\ listen => p.state \in {"NONE", "SYN_RCVD"} /\ ~a.closed
  /\ a.closed => p.state \notin {"SYN_SENT", "SYN_RCVD"}
  /\ p.closepend => p.state # "SYN_RCVD"
  /\ a.closed /\ p.state # "NONE" =>
       p.rxclosed /\ (p.closepend \/ p.state \in FinStates \cup {"TIME_WAIT"})

\* What holds of end e, whose stream starts at i, at every point of a call.
Sound(w, e, i) ==
  /\ Typed(w)
  /\ w.p.state # "NONE" => Numbered(w.p, w.a, i)
  /\ Opening(w.p, i)
  /\ Timed(w.p)
  /\ Closing(w.p, w.a, w.listen)
  /\ e = Client => ~w.listen

\* An end that waits for its FIN to be acknowledged holds something.
Waits(p) ==
  p.state \in {"FIN_WAIT_1", "CLOSING", "LAST_ACK"} => ~HoldsNothing(p)

\* What is left after tcp_output with nothing in flight waits for the peer.
Probes(p) == HeldByPeer(p) => p.persist

\* What holds of end e between calls.
EndSound(e) ==
  /\ Sound(Work(e), e, FirstSeq(e))
  /\ Waits(pcb[e])
  /\ Probes(pcb[e])
  /\ conns[e] \in Nat
  /\ e = Client /\ (app[e].closed \/ pcb[e].state # "NONE") => conns[e] > 0

IInv ==
  /\ DOMAIN pcb = Ends /\ DOMAIN app = Ends
  /\ DOMAIN listening = Ends /\ DOMAIN conns = Ends
  /\ net \in [Ends -> Seq(WireSegs)]
  /\ \A e \in Ends : EndSound(e)

-----------------------------------------------------------------------------
(* Sequence numbers.                                                       *)

\* The sequence space, its half and the longest stream.
LEMMA Space ==
  /\ SeqSpace \in Nat \ {0} /\ Half \in Nat
  /\ SeqSpace = 2 * Half /\ Half >= 3
  /\ MaxStream \in Nat /\ MaxStream + 3 = Half
<1>1. SeqSpace \in Nat \ {0} /\ SeqSpace % 2 = 0
      /\ TCP_WND \in Nat \ {0} /\ 4 * TCP_WND < SeqSpace
  BY TcpAssumption
<1>2. SeqSpace = 2 * Half /\ Half \in Nat
  BY <1>1 DEF Half
<1> QED
  BY <1>1, <1>2 DEF MaxStream, Half

\* The remainder of a number less than a turn, or less than two, away from 0.
LEMMA Remainder ==
  ASSUME NEW x \in Int
  PROVE  /\ x % SeqSpace \in SeqNos
         /\ x \in 0 .. SeqSpace - 1 => x % SeqSpace = x
         /\ x \in SeqSpace .. 2 * SeqSpace - 1 => x % SeqSpace = x - SeqSpace
         /\ x \in -SeqSpace .. -1 => x % SeqSpace = x + SeqSpace
<1>1. SeqSpace \in Nat \ {0}
  BY Space
<1>2. x % SeqSpace \in 0 .. SeqSpace - 1
  BY <1>1
<1>3. ASSUME x \in 0 .. SeqSpace - 1 PROVE x % SeqSpace = x
  BY <1>1, <1>3
<1>4. ASSUME x \in SeqSpace .. 2 * SeqSpace - 1 PROVE x % SeqSpace = x - SeqSpace
  BY <1>1, <1>4
<1>5. ASSUME x \in -SeqSpace .. -1 PROVE x % SeqSpace = x + SeqSpace
  BY <1>1, <1>5
<1> QED
  BY <1>2, <1>3, <1>4, <1>5 DEF SeqNos

\* Plus and Minus, for two sequence numbers, turn the space once at the most.
LEMMA Turns ==
  ASSUME NEW a \in SeqNos, NEW b \in SeqNos
  PROVE  /\ Plus(a, b) = IF a + b < SeqSpace THEN a + b ELSE a + b - SeqSpace
         /\ Minus(a, b) = IF b <= a THEN a - b ELSE a - b + SeqSpace
<1>1. a \in Int /\ b \in Int /\ 0 <= a /\ 0 <= b /\ a < SeqSpace /\ b < SeqSpace
      /\ SeqSpace \in Int
  BY Space DEF SeqNos
<1>2. ASSUME a + b < SeqSpace PROVE Plus(a, b) = a + b
  <2>1. a + b \in Int /\ a + b \in 0 .. SeqSpace - 1
    BY <1>1, <1>2
  <2> QED
    BY <1>2, <2>1, Remainder DEF Plus
<1>3. ASSUME ~(a + b < SeqSpace) PROVE Plus(a, b) = a + b - SeqSpace
  <2>1. a + b \in Int /\ a + b \in SeqSpace .. 2 * SeqSpace - 1
    BY <1>1, <1>3
  <2>2. (a + b) % SeqSpace = (a + b) - SeqSpace
    BY <2>1, Remainder
  <2> QED
    BY <1>1, <2>2 DEF Plus
<1>4. ASSUME b <= a PROVE Minus(a, b) = a - b
  <2>1. a - b \in Int /\ a - b \in 0 .. SeqSpace - 1
    BY <1>1, <1>4
  <2> QED
    BY <1>4, <2>1, Remainder DEF Minus
<1>5. ASSUME ~(b <= a) PROVE Minus(a, b) = a - b + SeqSpace
  <2>1. a - b \in Int /\ a - b \in -SeqSpace .. -1
    BY <1>1, <1>5
  <2>2. (a - b) % SeqSpace = (a - b) + SeqSpace
    BY <2>1, Remainder
  <2> QED
    BY <2>2 DEF Minus
<1> QED
  BY <1>2, <1>3, <1>4, <1>5

\* Plus and Minus give sequence numbers.
LEMMA Numbers ==
  ASSUME NEW a \in Int, NEW b \in Int
  PROVE  Plus(a, b) \in SeqNos /\ Minus(a, b) \in SeqNos
<1>1. a + b \in Int /\ a - b \in Int
  OBVIOUS
<1> QED
  BY <1>1, Remainder DEF Plus, Minus

\* Going on by n in a stream that starts at i.
LEMMA OffsetPlus ==
  ASSUME NEW i \in SeqNos, NEW x \in SeqNos, NEW n \in Nat,
         Minus(x, i) + n < SeqSpace
  PROVE  Plus(x, n) \in SeqNos /\ Minus(Plus(x, n), i) = Minus(x, i) + n
<1> DEFINE y == Plus(x, n)
<1>1. x \in Int /\ i \in Int /\ SeqSpace \in Int /\ n \in SeqNos
  <2>1. x \in Int /\ i \in Int /\ SeqSpace \in Int
    BY Space DEF SeqNos
  <2>2. Minus(x, i) \in 0 .. SeqSpace - 1
    BY <2>1, Numbers DEF SeqNos
  <2> QED
    BY <2>1, <2>2 DEF SeqNos
<1>2. y \in SeqNos
  BY <1>1, Numbers
<1>3. y = IF x + n < SeqSpace THEN x + n ELSE x + n - SeqSpace
  BY <1>1, Turns
<1>4. Minus(x, i) = IF i <= x THEN x - i ELSE x - i + SeqSpace
  BY Turns
<1>5. Minus(y, i) = IF i <= y THEN y - i ELSE y - i + SeqSpace
  BY <1>2, Turns
<1> HIDE DEF y
<1>6. Minus(y, i) = Minus(x, i) + n
  BY <1>1, <1>3, <1>4, <1>5 DEF SeqNos
<1> QED
  BY <1>2, <1>6 DEF y

\* Numbers compare as their places in a stream do, where that is shorter than
\* half the space.
LEMMA Compared ==
  ASSUME NEW i \in SeqNos, NEW x \in SeqNos, NEW y \in SeqNos,
         Minus(x, i) < Half, Minus(y, i) < Half
  PROVE  /\ SeqLT(x, y) <=> Minus(x, i) < Minus(y, i)
         /\ SeqLEQ(x, y) <=> Minus(x, i) <= Minus(y, i)
<1>1. x \in Int /\ y \in Int /\ i \in Int /\ SeqSpace \in Int /\ Half \in Int
      /\ SeqSpace = 2 * Half
  BY Space DEF SeqNos
<1>2. Minus(x, i) = IF i <= x THEN x - i ELSE x - i + SeqSpace
  BY Turns
<1>3. Minus(y, i) = IF i <= y THEN y - i ELSE y - i + SeqSpace
  BY Turns
<1>4. Minus(x, y) = IF y <= x THEN x - y ELSE x - y + SeqSpace
  BY Turns
<1>5. SeqLT(x, y) <=> Minus(x, i) < Minus(y, i)
  BY <1>1, <1>2, <1>3, <1>4 DEF SeqLT, Half, SeqNos
<1>6. x = y <=> Minus(x, i) = Minus(y, i)
  BY <1>1, <1>2, <1>3 DEF SeqNos
<1>7. Minus(x, i) \in Int /\ Minus(y, i) \in Int
  BY <1>1, <1>2, <1>3
<1> QED
  BY <1>5, <1>6, <1>7 DEF SeqLEQ

\* What tcp_receive takes for an acknowledgment of something new lies between
\* what was acknowledged before and what was sent, whatever the number is.
LEMMA AckInRange ==
  ASSUME NEW i \in SeqNos, NEW a \in SeqNos, NEW l \in SeqNos, NEW n \in SeqNos,
         Minus(l, i) <= Minus(n, i), Minus(n, i) < Half,
         ~SeqLEQ(a, l), Between(a, Plus(l, 1), n)
  PROVE  Minus(l, i) < Minus(a, i) /\ Minus(a, i) <= Minus(n, i)
<1> DEFINE b == Plus(l, 1)
<1>1. /\ a \in Int /\ l \in Int /\ n \in Int /\ i \in Int /\ SeqSpace \in Int
      /\ Half \in Int /\ SeqSpace = 2 * Half /\ Half >= 3
  BY Space DEF SeqNos
<1>2. Minus(a, i) = IF i <= a THEN a - i ELSE a - i + SeqSpace
  BY Turns
<1>3. Minus(l, i) = IF i <= l THEN l - i ELSE l - i + SeqSpace
  BY Turns
<1>4. Minus(n, i) = IF i <= n THEN n - i ELSE n - i + SeqSpace
  BY Turns
<1>5. Minus(a, l) = IF l <= a THEN a - l ELSE a - l + SeqSpace
  BY Turns
<1>6. Minus(a, n) = IF n <= a THEN a - n ELSE a - n + SeqSpace
  BY Turns
<1>7. 1 \in SeqNos
  BY <1>1 DEF SeqNos
<1>8. b \in SeqNos /\ b = IF l + 1 < SeqSpace THEN l + 1 ELSE l + 1 - SeqSpace
  BY <1>1, <1>7, Turns, Numbers
<1>9. Minus(a, b) = IF b <= a THEN a - b ELSE a - b + SeqSpace
  BY <1>8, Turns
<1>10. a # l /\ Minus(a, l) < Half /\ Minus(a, b) < Half
       /\ (a = n \/ Minus(a, n) >= Half)
  <2>1. Minus(a, l) \in Int /\ Minus(a, b) \in Int
    BY <1>1, <1>5, <1>8, <1>9 DEF SeqNos
  <2> QED
    BY <1>1, <2>1 DEF SeqLEQ, SeqLT, Between, Half
<1> HIDE DEF b
<1>11. b \in Int
  BY <1>8 DEF SeqNos
<1> QED
  BY <1>1, <1>2, <1>3, <1>4, <1>5, <1>6, <1>8, <1>9, <1>10, <1>11 DEF SeqNos

-----------------------------------------------------------------------------
(* Queues of segments.                                                     *)

\* A segment's length and the number after it.
LEMMA Length ==
  ASSUME NEW s, s.seq \in SeqNos, s.data \in Seq(Nat),
         s.syn \in BOOLEAN, s.fin \in BOOLEAN
  PROVE  /\ TcpLen(s) \in Nat /\ SegEnd(s) \in SeqNos
         /\ s.syn \/ s.fin => TcpLen(s) = Len(s.data) + 1
         /\ ~s.syn /\ ~s.fin => TcpLen(s) = Len(s.data)
<1>2. Len(s.data) \in Nat
  BY LenProperties
<1>1. ASSUME s.syn \/ s.fin PROVE TcpLen(s) = Len(s.data) + 1
  BY <1>1, Zenon DEF TcpLen
<1>3. ASSUME ~(s.syn \/ s.fin) PROVE TcpLen(s) = Len(s.data)
  <2>1. TcpLen(s) = Len(s.data) + 0
    BY <1>3, Zenon DEF TcpLen
  <2> QED
    BY <1>2, <2>1
<1>4. TcpLen(s) \in Nat
  BY <1>1, <1>2, <1>3
<1>5. SegEnd(s) \in SeqNos
  <2>1. s.seq \in Int /\ TcpLen(s) \in Int
    BY <1>4 DEF SeqNos
  <2> QED
    BY <2>1, Numbers DEF SegEnd
<1> QED
  BY <1>1, <1>3, <1>4, <1>5

\* Where it ends in the stream.
LEMMA SegmentEnd ==
  ASSUME NEW i \in SeqNos, NEW s \in Segs
  PROVE  /\ TcpLen(s) \in Nat /\ Minus(s.seq, i) \in Nat /\ EndOf(s, i) \in Nat
         /\ SegEnd(s) \in SeqNos
         /\ EndOf(s, i) < SeqSpace => Minus(SegEnd(s), i) = EndOf(s, i)
<1>1. /\ s.seq \in SeqNos /\ s.data \in Seq(Nat)
      /\ s.syn \in BOOLEAN /\ s.fin \in BOOLEAN
  BY DEF Segs
<1>3. TcpLen(s) \in Nat /\ SegEnd(s) \in SeqNos
  BY <1>1, Length
<1>4. s.seq \in Int /\ i \in Int /\ SeqSpace \in Int
  BY <1>1, Space DEF SeqNos
<1>5. Minus(s.seq, i) \in SeqNos
  BY <1>4, Numbers
<1>6. EndOf(s, i) \in Nat
  BY <1>3, <1>5 DEF EndOf, SeqNos
<1>7. EndOf(s, i) < SeqSpace => Minus(SegEnd(s), i) = EndOf(s, i)
  BY <1>1, <1>3, OffsetPlus DEF EndOf, SegEnd
<1> QED
  BY <1>3, <1>5, <1>6, <1>7 DEF SeqNos

\* How many positions from the first on are in a set.
LEMMA Counted ==
  ASSUME NEW n \in Nat, NEW S \in SUBSET (1 .. n)
  PROVE  \E k \in 0 .. n : /\ \A j \in 1 .. k : j \in S
                           /\ k < n => k + 1 \notin S
<1> DEFINE T == (1 .. n) \ S
<1>1. CASE T = {}
  <2>1. n \in 0 .. n /\ \A j \in 1 .. n : j \in S
    BY <1>1
  <2> QED
    BY <2>1
<1>2. CASE T # {}
  <2>1. IsFiniteSet(T) /\ T \in SUBSET Int
    <3>1. IsFiniteSet(1 .. n)
      BY FS_Interval
    <3> QED
      BY <3>1, FS_Subset
  <2>2. PICK x \in T : \A y \in T : x <= y
    <3> HIDE DEF T
    <3> QED
      BY <1>2, <2>1, LeastElement
  <2>3. x - 1 \in 0 .. n /\ (x - 1) + 1 \notin S
    OBVIOUS
  <2>4. \A j \in 1 .. (x - 1) : j \in S
    BY <2>2
  <2> QED
    BY <2>3, <2>4
<1> QED
  BY <1>1, <1>2

\* Earlier counts segments of the queue.
LEMMA EarlierCounts ==
  ASSUME NEW S, NEW q \in Seq(S), NEW s
  PROVE  Earlier(q, s) \in 0 .. Len(q)
<1> DEFINE T == {j \in 1 .. Len(q) : SeqLT(q[j].seq, s.seq)}
<1>1. Len(q) \in Nat
  BY LenProperties
<1>2. PICK k \in 0 .. Len(q) : /\ \A j \in 1 .. k : j \in T
                               /\ k < Len(q) => k + 1 \notin T
  <2>1. T \in SUBSET (1 .. Len(q))
    OBVIOUS
  <2> HIDE DEF T
  <2> QED
    BY <1>1, <2>1, Counted
<1>3. \A j \in 1 .. k : SeqLT(q[j].seq, s.seq)
  BY <1>2
<1>4. k < Len(q) => ~SeqLT(q[k + 1].seq, s.seq)
  BY <1>1, <1>2
<1> QED
  BY <1>3, <1>4, Zenon DEF Earlier

\* So does Acked, those that end at the acknowledged number or before it.
LEMMA AckedCounts ==
  ASSUME NEW S, NEW q \in Seq(S), NEW a
  PROVE  /\ Acked(q, a) \in 0 .. Len(q)
         /\ \A j \in 1 .. Acked(q, a) : SeqLEQ(SegEnd(q[j]), a)
         /\ Acked(q, a) < Len(q) => ~SeqLEQ(SegEnd(q[Acked(q, a) + 1]), a)
<1> DEFINE T == {j \in 1 .. Len(q) : SeqLEQ(SegEnd(q[j]), a)}
<1>1. Len(q) \in Nat
  BY LenProperties
<1>2. PICK k \in 0 .. Len(q) : /\ \A j \in 1 .. k : j \in T
                               /\ k < Len(q) => k + 1 \notin T
  <2>1. T \in SUBSET (1 .. Len(q))
    OBVIOUS
  <2> HIDE DEF T
  <2> QED
    BY <1>1, <2>1, Counted
<1>3. \A j \in 1 .. k : SeqLEQ(SegEnd(q[j]), a)
  BY <1>2
<1>4. k < Len(q) => ~SeqLEQ(SegEnd(q[k + 1]), a)
  BY <1>1, <1>2
<1> QED
  BY <1>3, <1>4, Zenon DEF Acked

\* A part of a queue.
LEMMA PartOf ==
  ASSUME NEW S, NEW q \in Seq(S), NEW m \in 1 .. Len(q) + 1, NEW n \in m - 1 .. Len(q)
  PROVE  /\ SubSeq(q, m, n) \in Seq(S)
         /\ Len(SubSeq(q, m, n)) = n - m + 1
         /\ \A k \in 1 .. n - m + 1 : SubSeq(q, m, n)[k] = q[m + k - 1]
<1>1. Len(q) \in Nat /\ m \in Int /\ n \in Int
  BY LenProperties
<1>2. \A k \in m .. n : q[k] \in S
  <2>1. ASSUME NEW k \in m .. n PROVE q[k] \in S
    <3>1. k \in 1 .. Len(q)
      BY <1>1
    <3> QED
      BY <3>1, ElementOfSeq
  <2> QED
    BY <2>1
<1>3. /\ SubSeq(q, m, n) \in Seq(S)
      /\ Len(SubSeq(q, m, n)) = IF m <= n THEN n - m + 1 ELSE 0
      /\ \A k \in 1 .. n - m + 1 : SubSeq(q, m, n)[k] = q[m + k - 1]
  BY <1>1, <1>2, SubSeqProperties
<1> QED
  BY <1>1, <1>3

\* What one of two queues has, both together have, and the other way round.
LEMMA JoinKeeps ==
  ASSUME NEW S, NEW q \in Seq(S), NEW r \in Seq(S), NEW W
  PROVE  /\ q \o r \in Seq(S) /\ Len(q \o r) = Len(q) + Len(r)
         /\ Has(q, W) \/ Has(r, W) => Has(q \o r, W)
<1>1. Len(q) \in Nat /\ Len(r) \in Nat
  BY LenProperties
<1>2. /\ q \o r \in Seq(S) /\ Len(q \o r) = Len(q) + Len(r)
      /\ \A k \in 1 .. Len(q) + Len(r) :
           (q \o r)[k] = IF k <= Len(q) THEN q[k] ELSE r[k - Len(q)]
  BY ConcatProperties
<1>3. ASSUME NEW k \in 1 .. Len(q), q[k] \in W PROVE Has(q \o r, W)
  <2>1. k \in 1 .. Len(q) + Len(r) /\ k <= Len(q)
    BY <1>1
  <2>2. (q \o r)[k] = q[k]
    BY <1>2, <2>1
  <2> QED
    BY <1>2, <1>3, <2>1, <2>2 DEF Has
<1>4. ASSUME NEW k \in 1 .. Len(r), r[k] \in W PROVE Has(q \o r, W)
  <2> DEFINE j == Len(q) + k
  <2>1. j \in 1 .. Len(q) + Len(r) /\ ~(j <= Len(q)) /\ j - Len(q) = k
    BY <1>1
  <2>2. (q \o r)[j] = r[k]
    BY <1>2, <2>1
  <2> QED
    BY <1>2, <1>4, <2>1, <2>2 DEF Has
<1> QED
  BY <1>2, <1>3, <1>4 DEF Has

\* A segment put into a queue is there, with all that was there before.
LEMMA InsertKeeps ==
  ASSUME NEW S, NEW q \in Seq(S), NEW s \in S, NEW W
  PROVE  /\ Insert(q, s) \in Seq(S) /\ Len(Insert(q, s)) = Len(q) + 1
         /\ Has(q, W) \/ s \in W => Has(Insert(q, s), W)
<1> DEFINE n == Earlier(q, s)
           a == SubSeq(q, 1, n)
           b == SubSeq(q, n + 1, Len(q))
<1>1. Len(q) \in Nat /\ n \in 0 .. Len(q)
  BY EarlierCounts, LenProperties
<1>2. /\ a \in Seq(S) /\ Len(a) = n
      /\ \A k \in 1 .. n : a[k] = q[k]
  <2>1. 1 \in 1 .. Len(q) + 1 /\ n \in 1 - 1 .. Len(q)
    BY <1>1
  <2>2. /\ a \in Seq(S) /\ Len(a) = n - 1 + 1
        /\ \A k \in 1 .. n - 1 + 1 : a[k] = q[1 + k - 1]
    BY <2>1, PartOf
  <2> HIDE DEF a
  <2> QED
    BY <1>1, <2>2
<1>3. /\ b \in Seq(S) /\ Len(b) = Len(q) - n
      /\ \A k \in 1 .. Len(q) - n : b[k] = q[n + k]
  <2>1. n + 1 \in 1 .. Len(q) + 1 /\ Len(q) \in (n + 1) - 1 .. Len(q)
    BY <1>1
  <2>2. /\ b \in Seq(S) /\ Len(b) = Len(q) - (n + 1) + 1
        /\ \A k \in 1 .. Len(q) - (n + 1) + 1 : b[k] = q[(n + 1) + k - 1]
    BY <2>1, PartOf
  <2> HIDE DEF b
  <2> QED
    BY SMTT(30), <1>1, <2>2
<1>4. <<s>> \in Seq(S) /\ Len(<<s>>) = 1 /\ <<s>>[1] = s
  OBVIOUS
<1>5. Insert(q, s) = a \o <<s>> \o b
  BY DEF Insert
<1> HIDE DEF a, b, n
<1>6. /\ a \o <<s>> \in Seq(S) /\ Len(a \o <<s>>) = n + 1
      /\ Has(a, W) \/ Has(<<s>>, W) => Has(a \o <<s>>, W)
  BY ZenonT(30), <1>2, <1>4, JoinKeeps
<1> DEFINE c == a \o <<s>>
<1>7. /\ c \o b \in Seq(S) /\ Len(c \o b) = Len(c) + Len(b)
      /\ Has(c, W) \/ Has(b, W) => Has(c \o b, W)
  <2> HIDE DEF c
  <2> QED
    BY <1>3, <1>6, JoinKeeps DEF c
<1>8. ASSUME Has(q, W) PROVE Has(a, W) \/ Has(b, W)
  <2>1. PICK k \in 1 .. Len(q) : q[k] \in W
    BY <1>8 DEF Has
  <2>2. CASE k <= n
    BY <1>1, <1>2, <2>1, <2>2 DEF Has
  <2>3. CASE ~(k <= n)
    <3>1. k - n \in 1 .. Len(q) - n /\ n + (k - n) = k
      BY <1>1, <2>3
    <3>2. b[k - n] = q[k]
      BY <1>3, <3>1
    <3> QED
      BY <1>3, <2>1, <3>1, <3>2 DEF Has
  <2> QED
    BY <2>2, <2>3
<1>9. s \in W => Has(<<s>>, W)
  BY <1>4 DEF Has
<1>10. Len(c \o b) = Len(q) + 1
  BY <1>1, <1>3, <1>6, <1>7
<1> QED
  BY <1>5, <1>6, <1>7, <1>8, <1>9, <1>10

\* The head of a queue and the rest of it.
LEMMA TailKeeps ==
  ASSUME NEW S, NEW q \in Seq(S), q # <<>>, NEW W
  PROVE  /\ Head(q) \in S /\ Head(q) = q[1]
         /\ Tail(q) \in Seq(S) /\ Len(Tail(q)) = Len(q) - 1
         /\ Has(q, W) => Head(q) \in W \/ Has(Tail(q), W)
<1>1. Len(q) \in Nat \ {0}
  BY EmptySeq
<1>2. /\ Head(q) \in S /\ Tail(q) \in Seq(S) /\ Len(Tail(q)) = Len(q) - 1
      /\ \A k \in 1 .. Len(Tail(q)) : Tail(q)[k] = q[k + 1]
  BY HeadTailProperties
<1>3. Head(q) = q[1]
  OBVIOUS
<1>4. ASSUME NEW k \in 1 .. Len(q), q[k] \in W, k # 1 PROVE Has(Tail(q), W)
  <2>1. k - 1 \in 1 .. Len(Tail(q)) /\ (k - 1) + 1 = k
    BY <1>1, <1>2, <1>4
  <2>2. Tail(q)[k - 1] = q[k]
    BY <1>2, <2>1
  <2> QED
    BY <1>4, <2>1, <2>2 DEF Has
<1> QED
  BY <1>2, <1>3, <1>4 DEF Has

\* What an acknowledgment takes off a queue ends before it; if it does not
\* take all, what is left begins with a segment that does not.
LEMMA UnackedKeeps ==
  ASSUME NEW S, NEW q \in Seq(S), NEW a
  PROVE  /\ Unacked(q, a) \in Seq(S)
         /\ Unacked(q, a) = <<>> =>
              \A k \in 1 .. Len(q) : SeqLEQ(SegEnd(q[k]), a)
         /\ Unacked(q, a) # <<>> =>
              \E s \in S : ~SeqLEQ(SegEnd(s), a) /\ \A W : s \in W => Has(Unacked(q, a), W)
         /\ \A W : Has(q, W) =>
              \/ Has(Unacked(q, a), W)
              \/ \E s \in S \cap W : SeqLEQ(SegEnd(s), a)
<1> DEFINE n == Acked(q, a)
           r == Unacked(q, a)
<1>1. /\ Len(q) \in Nat /\ n \in 0 .. Len(q)
      /\ \A j \in 1 .. n : SeqLEQ(SegEnd(q[j]), a)
      /\ n < Len(q) => ~SeqLEQ(SegEnd(q[n + 1]), a)
  BY AckedCounts, LenProperties
<1>2. /\ r \in Seq(S) /\ Len(r) = Len(q) - n
      /\ \A k \in 1 .. Len(q) - n : r[k] = q[n + k]
  <2>1. n + 1 \in 1 .. Len(q) + 1 /\ Len(q) \in (n + 1) - 1 .. Len(q)
    BY <1>1
  <2>2. r = SubSeq(q, n + 1, Len(q))
    BY DEF Unacked
  <2>3. /\ r \in Seq(S) /\ Len(r) = Len(q) - (n + 1) + 1
        /\ \A k \in 1 .. Len(q) - (n + 1) + 1 : r[k] = q[(n + 1) + k - 1]
    BY <2>1, <2>2, PartOf
  <2> HIDE DEF r, n
  <2> QED
    BY <1>1, <2>3
<1> HIDE DEF r, n
<1>3. r = <<>> => n = Len(q)
  BY <1>1, <1>2
<1>4. ASSUME r # <<>>
      PROVE  \E s \in S : ~SeqLEQ(SegEnd(s), a) /\ \A W : s \in W => Has(r, W)
  <2>1. Len(r) # 0
    BY <1>2, <1>4, EmptySeq
  <2>2. n < Len(q) /\ 1 \in 1 .. Len(q) - n /\ n + 1 \in 1 .. Len(q) /\ 1 \in 1 .. Len(r)
    BY <1>1, <1>2, <2>1
  <2>3. r[1] = q[n + 1] /\ q[n + 1] \in S
    BY <1>2, <2>2, ElementOfSeq
  <2>4. \A W : r[1] \in W => Has(r, W)
    BY <2>2 DEF Has
  <2> QED
    BY <1>1, <2>2, <2>3, <2>4
<1>5. ASSUME NEW W, NEW k \in 1 .. Len(q), q[k] \in W
      PROVE  Has(r, W) \/ \E s \in S \cap W : SeqLEQ(SegEnd(s), a)
  <2>1. CASE k <= n
    <3>1. k \in 1 .. n /\ q[k] \in S
      BY <1>1, <2>1, ElementOfSeq
    <3> QED
      BY <1>1, <1>5, <3>1
  <2>2. CASE ~(k <= n)
    <3>1. k - n \in 1 .. Len(q) - n /\ n + (k - n) = k
      BY <1>1, <2>2
    <3>2. r[k - n] = q[k]
      BY <1>2, <3>1
    <3> QED
      BY <1>2, <1>5, <3>1, <3>2 DEF Has
  <2> QED
    BY <2>1, <2>2
<1>6. \A W : Has(q, W) => Has(r, W) \/ \E s \in S \cap W : SeqLEQ(SegEnd(s), a)
  BY <1>5 DEF Has
<1>7. r = <<>> => \A k \in 1 .. Len(q) : SeqLEQ(SegEnd(q[k]), a)
  BY <1>1, <1>3
<1>8. r = Unacked(q, a)
  BY DEF r
<1> QED
  BY <1>2, <1>4, <1>6, <1>7, <1>8, Zenon

-----------------------------------------------------------------------------
(* Calls that leave what is to be sent alone.                              *)

LEMMA Fields ==
  /\ DOMAIN NoPcb =
       {"state", "unsent", "unacked", "lastack", "snd_nxt", "snd_lbb",
        "snd_wnd", "snd_wl1", "snd_wl2", "rcv_nxt", "rcv_wnd", "rcv_ann_wnd",
        "rcv_ann_right_edge", "nrtx", "rtime", "persist", "probes", "ack_now",
        "ack_delay", "infr", "rxclosed", "closepend", "refused", "refused_fin"}
  /\ DOMAIN NoApp = {"wrote", "writes", "got", "ended", "eof", "closed"}
BY DEF NoPcb, NoApp

\* v sends, and is closed, as w is.
Same(w, v) ==
  /\ v.p.state = w.p.state
  /\ v.p.unsent = w.p.unsent /\ v.p.unacked = w.p.unacked
  /\ v.p.lastack = w.p.lastack /\ v.p.snd_nxt = w.p.snd_nxt
  /\ v.p.snd_lbb = w.p.snd_lbb
  /\ v.p.rtime = w.p.rtime /\ v.p.persist = w.p.persist
  /\ v.p.rxclosed = w.p.rxclosed /\ v.p.closepend = w.p.closepend
  /\ v.a.wrote = w.a.wrote /\ v.a.closed = w.a.closed
  /\ v.listen = w.listen

LEMMA SameSound ==
  ASSUME NEW w, NEW v, NEW e, NEW i, Sound(w, e, i), Typed(v), Same(w, v)
  PROVE  /\ Sound(v, e, i)
         /\ Waits(w.p) => Waits(v.p)
         /\ Probes(w.p) => Probes(v.p)
BY ZenonT(30) DEF Sound, Same, Numbered, Top, Opening, Timed, Closing, HoldsNothing, Waits, Probes, HeldByPeer, Distance

LEMMA AckNowTyped ==
  ASSUME NEW w, Typed(w)
  PROVE  Typed(AckNow(w)) /\ Same(w, AckNow(w))
BY Fields DEF Typed, TypedPcb, Same, AckNow

\* Segments under way are numbered.
LEMMA WireTyped ==
  ASSUME NEW s \in WireSegs
  PROVE  /\ s.seq \in SeqNos /\ s.ackno \in SeqNos /\ s.wnd \in Nat
         /\ s.data \in Seq(Nat) /\ s.syn \in BOOLEAN /\ s.fin \in BOOLEAN
         /\ TcpLen(s) \in Nat /\ SegEnd(s) \in SeqNos
<1>1. /\ s.seq \in SeqNos /\ s.ackno \in SeqNos /\ s.wnd \in Nat
      /\ s.data \in Seq(Nat) /\ s.syn \in BOOLEAN /\ s.fin \in BOOLEAN
  BY DEF WireSegs
<1> QED
  BY <1>1, Length

LEMMA OnWireTyped ==
  ASSUME NEW p, TypedPcb(p), NEW s \in Segs, s.syn => s.data = <<>> /\ ~s.fin
  PROVE  OnWire(p, s) \in WireSegs
<1>1. 0 \in SeqNos
  BY Space DEF SeqNos
<1> QED
  BY <1>1 DEF OnWire, TypedPcb, Segs, WireSegs

LEMMA ResetTyped ==
  ASSUME NEW seq \in SeqNos, NEW ackno \in SeqNos
  PROVE  Reset(seq, ackno) \in WireSegs
BY TcpAssumption DEF Reset, WireSegs

LEMMA SendsTyped ==
  ASSUME NEW w, Typed(w), NEW s \in WireSegs
  PROVE  /\ Typed(Sends(w, s)) /\ Same(w, Sends(w, s))
         /\ Sends(w, s).p = w.p /\ Sends(w, s).data = w.data
         /\ Sends(w, s).fin = w.fin /\ Sends(w, s).flag = w.flag
<1>1. Append(w.out, s) \in Seq(WireSegs)
  BY AppendProperties DEF Typed
<1> QED
  BY <1>1 DEF Typed, Same, Sends

LEMMA SendEmptyAckTyped ==
  ASSUME NEW w, Typed(w)
  PROVE  /\ Typed(SendEmptyAck(w)) /\ Same(w, SendEmptyAck(w))
         /\ SendEmptyAck(w).fin = w.fin /\ SendEmptyAck(w).flag = w.flag
<1> DEFINE s == QueuedSeg(w.p.snd_nxt, <<>>, FALSE, FALSE)
           x == OnWire(w.p, s)
           v == Sends(w, x)
           edge == Plus(w.p.rcv_nxt, w.p.rcv_ann_wnd)
<1>1. s \in Segs /\ ~s.syn
  BY DEF Typed, TypedPcb, Segs, QueuedSeg
<1>2. x \in WireSegs
  BY <1>1, OnWireTyped DEF Typed
<1>3. Typed(v) /\ Same(w, v) /\ v.p = w.p /\ v.fin = w.fin /\ v.flag = w.flag
  BY <1>2, SendsTyped
<1>4. edge \in SeqNos
  <2>1. w.p.rcv_nxt \in Int /\ w.p.rcv_ann_wnd \in Int
    BY DEF Typed, TypedPcb, SeqNos
  <2> QED
    BY <2>1, Numbers
<1>5. SendEmptyAck(w) =
        [v EXCEPT !.p.ack_now = FALSE, !.p.ack_delay = FALSE,
                  !.p.rcv_ann_right_edge = edge]
  BY DEF SendEmptyAck
<1> DEFINE u == [v EXCEPT !.p.ack_now = FALSE, !.p.ack_delay = FALSE,
                          !.p.rcv_ann_right_edge = edge]
<1> HIDE DEF v, edge
<1>6. Typed(u)
  BY <1>3, <1>4, Fields DEF Typed, TypedPcb
<1>7. Same(v, u) /\ u.fin = v.fin /\ u.flag = v.flag
  BY <1>3, Fields DEF Typed, TypedPcb, Same
<1> HIDE DEF u
<1>8. Same(w, u)
  BY <1>3, <1>7 DEF Same
<1> QED
  BY <1>3, <1>5, <1>6, <1>7, <1>8 DEF u

LEMMA AckIfDueTyped ==
  ASSUME NEW w, Typed(w)
  PROVE  /\ Typed(AckIfDue(w)) /\ Same(w, AckIfDue(w))
         /\ AckIfDue(w).fin = w.fin /\ AckIfDue(w).flag = w.flag
<1>1. Same(w, w)
  BY DEF Same
<1> QED
  BY <1>1, SendEmptyAckTyped DEF AckIfDue

\* The window that is announced is a number.
LEMMA WithAnnWndTyped ==
  ASSUME NEW w, Typed(w)
  PROVE  /\ Typed(WithAnnWnd(w)) /\ Same(w, WithAnnWnd(w))
         /\ WithAnnWnd(w).fin = w.fin /\ WithAnnWnd(w).flag = w.flag
<1>1. AnnouncedWnd(w.p) \in Nat
  <2>1. w.p.rcv_ann_right_edge \in Int /\ w.p.rcv_nxt \in Int /\ w.p.rcv_wnd \in Nat
    BY DEF Typed, TypedPcb, SeqNos
  <2>2. Minus(w.p.rcv_ann_right_edge, w.p.rcv_nxt) \in SeqNos
    BY <2>1, Numbers
  <2>3. Minus(w.p.rcv_ann_right_edge, w.p.rcv_nxt) \in Nat
    BY <2>2 DEF SeqNos
  <2> QED
    BY <2>1, <2>3 DEF AnnouncedWnd
<1> DEFINE n == AnnouncedWnd(w.p)
<1>2. WithAnnWnd(w) = [w EXCEPT !.p.rcv_ann_wnd = n]
  BY DEF WithAnnWnd
<1>3. n \in Nat
  BY <1>1
<1> HIDE DEF n
<1>4. Typed([w EXCEPT !.p.rcv_ann_wnd = n])
  BY <1>3, Fields DEF Typed, TypedPcb
<1>5. Same(w, WithAnnWnd(w))
  BY <1>2, Fields DEF Typed, TypedPcb, Same
<1> QED
  BY <1>2, <1>4, <1>5

LEMMA AckTyped ==
  ASSUME NEW w, Typed(w)
  PROVE  /\ Typed(Ack(w)) /\ Same(w, Ack(w))
         /\ Ack(w).fin = w.fin /\ Ack(w).flag = w.flag
BY Fields DEF Typed, TypedPcb, Same, Ack

\* The program's side of what arrives.
LEMMA EndOfStreamTyped ==
  ASSUME NEW w, Typed(w)
  PROVE  Typed(EndOfStream(w)) /\ Same(w, EndOfStream(w))
<1>1. w.p.rcv_wnd \in Nat /\ w.p.rcv_wnd + 1 \in Nat
  BY DEF Typed, TypedPcb
<1> QED
  BY <1>1, Fields DEF Typed, TypedPcb, Same, EndOfStream

LEMMA OfferTyped ==
  ASSUME NEW w, Typed(w), NEW data \in Seq(Nat), NEW fin, NEW take
  PROVE  Typed(Offer(w, data, fin, take)) /\ Same(w, Offer(w, data, fin, take))
<1> DEFINE v == [w EXCEPT !.a.got = @ \o data, !.p.refused = <<>>, !.p.refused_fin = FALSE]
           r == [w EXCEPT !.p.refused = data, !.p.refused_fin = fin]
<1>1. Typed(v) /\ Same(w, v)
  <2>1. <<>> \in Seq(Nat)
    OBVIOUS
  <2>2. Typed(v)
    BY <2>1, Fields DEF Typed, TypedPcb
  <2>3. Same(w, v)
    BY Fields DEF Typed, TypedPcb, Same
  <2> QED
    BY <2>2, <2>3
<1>2. Typed(r) /\ Same(w, r)
  <2>1. Typed(r)
    BY Fields DEF Typed, TypedPcb
  <2>2. Same(w, r)
    BY Fields DEF Typed, TypedPcb, Same
  <2> QED
    BY <2>1, <2>2
<1>3. Typed(EndOfStream(v)) /\ Same(v, EndOfStream(v))
  BY <1>1, EndOfStreamTyped
<1> HIDE DEF v
<1>4. Same(w, EndOfStream(v))
  BY <1>1, <1>3 DEF Same
<1> QED
  BY <1>1, <1>2, <1>3, <1>4 DEF Offer, v

LEMMA OfferAgainTyped ==
  ASSUME NEW w, Typed(w), NEW take
  PROVE  Typed(OfferAgain(w, take)) /\ Same(w, OfferAgain(w, take))
<1>1. w.p.refused \in Seq(Nat) /\ Same(w, w)
  BY DEF Typed, TypedPcb, Same
<1> QED
  BY <1>1, OfferTyped DEF OfferAgain

\* Typed is kept, and so is all that is sent, with the segment at hand.
Light(w, v) == Typed(v) /\ Same(w, v) /\ v.flag = w.flag

LEMMA LightTwice ==
  ASSUME NEW w, NEW u, NEW v, Light(w, u), Light(u, v)
  PROVE  Light(w, v)
BY DEF Light, Same

\* What is taken from a segment is as long as the window at the most.
LEMMA CutFits ==
  ASSUME NEW s \in WireSegs, NEW wnd \in Nat \ {0}
  PROVE  Cut(s, wnd) \in WireSegs /\ TcpLen(Cut(s, wnd)) <= wnd
<1> DEFINE d == SubSeq(s.data, 1, wnd)
           t == [s EXCEPT !.data = d, !.fin = FALSE]
<1>1. CASE TcpLen(s) <= wnd
  BY <1>1 DEF Cut
<1>2. CASE ~(TcpLen(s) <= wnd)
  <2>1. /\ s.data \in Seq(Nat) /\ s.syn \in BOOLEAN /\ s.fin \in BOOLEAN
        /\ s.syn => s.data = <<>> /\ ~s.fin
    BY DEF WireSegs
  <2>2. Len(s.data) \in Nat /\ TcpLen(s) \in Nat
    BY <2>1, LenProperties, WireTyped
  <2>3. s.syn \/ s.fin => TcpLen(s) = Len(s.data) + 1
    BY <2>1, WireTyped, Length
  <2>4. ~s.syn /\ ~s.fin => TcpLen(s) = Len(s.data)
    BY <2>1, WireTyped, Length
  <2>5. ~s.syn
    <3>1. ASSUME s.syn PROVE FALSE
      <4>1. Len(s.data) = 0
        BY <2>1, <3>1, EmptySeq
      <4>2. TcpLen(s) = 1
        BY <2>3, <3>1, <4>1
      <4> QED
        BY <1>2, <4>2
    <3> QED
      BY <3>1
  <2>6. wnd <= Len(s.data)
    BY <1>2, <2>2, <2>3, <2>4, <2>5
  <2>7. d \in Seq(Nat) /\ Len(d) = wnd
    <3>1. 1 \in 1 .. Len(s.data) + 1 /\ wnd \in 1 - 1 .. Len(s.data)
      BY <2>2, <2>6
    <3>2. d \in Seq(Nat) /\ Len(d) = wnd - 1 + 1
      BY <2>1, <3>1, PartOf
    <3> QED
      BY <3>2
  <2>8. Cut(s, wnd) = t
    BY <1>2 DEF Cut
  <2> HIDE DEF d
  <2>9. t \in WireSegs /\ t.data = d /\ ~t.syn /\ ~t.fin
    BY <2>5, <2>7 DEF WireSegs
  <2> HIDE DEF t
  <2>10. TcpLen(t) = Len(d)
    BY <2>9, WireTyped, Length
  <2> QED
    BY <2>7, <2>8, <2>9, <2>10
<1> QED
  BY <1>1, <1>2

LEMMA AcceptTyped ==
  ASSUME NEW w, Typed(w), NEW s \in WireSegs, TcpLen(s) <= w.p.rcv_wnd
  PROVE  Light(w, Accept(w, s))
<1> DEFINE nxt == SegEnd(s)
           wnd == w.p.rcv_wnd - TcpLen(s)
           u == [w EXCEPT !.p.rcv_nxt = nxt, !.p.rcv_wnd = wnd]
           a == WithAnnWnd(u)
           v == [a EXCEPT !.data = s.data, !.fin = s.fin]
<1>1. nxt \in SeqNos /\ wnd \in Nat
  <2>1. w.p.rcv_wnd \in Nat /\ TcpLen(s) \in Nat
    BY WireTyped DEF Typed, TypedPcb
  <2> QED
    BY <2>1, WireTyped
<1>2. Accept(w, s) = Ack(v)
  BY DEF Accept
<1> HIDE DEF nxt, wnd
<1>3. Light(w, u)
  <2>1. Typed(u)
    BY <1>1, Fields DEF Typed, TypedPcb
  <2>2. Same(w, u) /\ u.flag = w.flag
    BY Fields DEF Typed, TypedPcb, Same
  <2> QED
    BY <2>1, <2>2 DEF Light
<1> HIDE DEF u
<1>4. Light(u, a)
  BY <1>3, WithAnnWndTyped DEF Light
<1> HIDE DEF a
<1>5. s.data \in Seq(Nat)
  BY WireTyped
<1>6. Light(a, v)
  BY <1>4, <1>5 DEF Light, Typed, Same
<1> HIDE DEF v
<1>7. Light(v, Ack(v))
  BY <1>6, AckTyped DEF Light
<1> QED
  BY <1>2, <1>3, <1>4, <1>6, <1>7, LightTwice

\* The second half of tcp_receive touches nothing of what is to be sent.
LEMMA ReceiveDataTyped ==
  ASSUME NEW w, Typed(w), NEW s \in WireSegs
  PROVE  Light(w, ReceiveData(w, s))
<1> DEFINE nxt == w.p.rcv_nxt
           t == Trimmed(s, nxt)
           n == TcpLen(s)
           overlaps == Between(nxt, Plus(s.seq, 1), Plus(s.seq, n - 1))
           x == IF overlaps THEN t ELSE s
<1>1. Light(w, w) /\ Light(w, AckNow(w)) /\ Light(w, SendEmptyAck(w))
  BY SMTT(30), AckNowTyped, SendEmptyAckTyped DEF Light, Same, AckNow, Typed
<1>2. t \in WireSegs
  <2> DEFINE m == Minus(nxt, s.seq) + 1
             d == SubSeq(s.data, m, Len(s.data))
  <2>1. nxt \in SeqNos /\ s.seq \in SeqNos /\ s.data \in Seq(Nat)
    BY WireTyped DEF Typed, TypedPcb
  <2>2. Len(s.data) \in Nat /\ m \in Nat \ {0}
    <3>1. nxt \in Int /\ s.seq \in Int
      BY <2>1 DEF SeqNos
    <3>2. Minus(nxt, s.seq) \in SeqNos
      BY <3>1, Numbers
    <3> QED
      BY <2>1, <3>2, LenProperties DEF SeqNos
  <2>3. d \in Seq(Nat) /\ (s.data = <<>> => d = <<>>)
    <3>1. CASE m <= Len(s.data)
      <4>1. m \in 1 .. Len(s.data) + 1 /\ Len(s.data) \in m - 1 .. Len(s.data)
        BY <2>2, <3>1
      <4>2. s.data # <<>>
        BY <2>2, <3>1, EmptySeq
      <4> QED
        BY <2>1, <4>1, <4>2, PartOf
    <3>2. CASE ~(m <= Len(s.data))
      <4>1. d = <<>>
        BY <2>2, <3>2, SubSeqEmpty
      <4> QED
        BY <4>1, EmptySeq
    <3> QED
      BY <3>1, <3>2
  <2>4. t = [s EXCEPT !.seq = nxt, !.data = d]
    BY DEF Trimmed
  <2> HIDE DEF d, nxt
  <2> QED
    BY <2>1, <2>3, <2>4 DEF WireSegs
<1>3. x \in WireSegs
  BY <1>2
<1>4. w.p.rcv_wnd \in Nat
  BY DEF Typed, TypedPcb
<1>5. ASSUME w.p.rcv_wnd > 0 PROVE Light(w, Accept(w, Cut(x, w.p.rcv_wnd)))
  <2> HIDE DEF x
  <2>1. w.p.rcv_wnd \in Nat \ {0}
    BY <1>4, <1>5
  <2>2. Cut(x, w.p.rcv_wnd) \in WireSegs /\ TcpLen(Cut(x, w.p.rcv_wnd)) <= w.p.rcv_wnd
    BY <1>3, <2>1, CutFits
  <2> QED
    BY <2>2, AcceptTyped
<1>6. \/ ReceiveData(w, s) \in {w, AckNow(w), SendEmptyAck(w)}
      \/ w.p.rcv_wnd > 0 /\ ReceiveData(w, s) = Accept(w, Cut(x, w.p.rcv_wnd))
  BY Zenon DEF ReceiveData
<1> QED
  BY <1>1, <1>5, <1>6

-----------------------------------------------------------------------------
(* The end of a connection, and the states on the way there.               *)

LEMMA NoPcbTyped ==
  TypedPcb(NoPcb) /\ NoPcb.state = "NONE" /\ HoldsNothing(NoPcb)
<1>1. 0 \in SeqNos /\ TCP_WND \in Nat
  BY Space, TcpAssumption DEF SeqNos
<1> QED
  BY <1>1 DEF TypedPcb, NoPcb, HoldsNothing

LEMMA FreedTyped ==
  ASSUME NEW w, NEW e, NEW i, Typed(w), w.listen => ~w.a.closed, e = Client => ~w.listen
  PROVE  /\ Sound(Freed(w), e, i) /\ Waits(Freed(w).p) /\ Probes(Freed(w).p)
         /\ Freed(w).flag = "GONE"
<1> DEFINE v == Freed(w)
<1>1. v.p = NoPcb /\ v.a = w.a /\ v.listen = w.listen /\ v.flag = "GONE"
      /\ v.out = w.out /\ v.data = w.data /\ DOMAIN v = DOMAIN w
  BY DEF Freed, Typed
<1> HIDE DEF v
<1>2. TypedPcb(NoPcb) /\ NoPcb.state = "NONE" /\ HoldsNothing(NoPcb)
  BY NoPcbTyped
<1>3. Typed(v)
  BY <1>1, <1>2 DEF Typed
<1>4. Timed(NoPcb) /\ Waits(NoPcb) /\ Probes(NoPcb) /\ Opening(NoPcb, i)
  BY <1>2 DEF Timed, Waits, Probes, HeldByPeer, Distance, Opening, HoldsNothing
<1>5. Closing(v.p, v.a, v.listen)
  BY <1>1, <1>2 DEF Closing
<1> QED
  BY <1>1, <1>2, <1>3, <1>4, <1>5 DEF Sound, v

LEMMA FreedSound ==
  ASSUME NEW w, NEW e, NEW i, Sound(w, e, i)
  PROVE  /\ Sound(Freed(w), e, i) /\ Waits(Freed(w).p) /\ Probes(Freed(w).p)
         /\ Freed(w).flag = "GONE"
<1>1. Typed(w) /\ (w.listen => ~w.a.closed) /\ (e = Client => ~w.listen)
  BY DEF Sound, Closing
<1> QED
  BY <1>1, FreedTyped

LEMMA AbortSound ==
  ASSUME NEW w, NEW e, NEW i, Sound(w, e, i)
  PROVE  Sound(Abort(w), e, i) /\ Waits(Abort(w).p) /\ Probes(Abort(w).p)
<1> DEFINE r == Reset(w.p.snd_nxt, w.p.rcv_nxt)
<1>1. r \in WireSegs
  BY ResetTyped DEF Sound, Typed, TypedPcb
<1>2. Sound(Sends(w, r), e, i)
  <2> HIDE DEF r
  <2> QED
    BY <1>1, SendsTyped, SameSound DEF Sound
<1> QED
  BY <1>2, FreedSound DEF Abort

LEMMA ToTimeWaitSound ==
  ASSUME NEW w, NEW e, NEW i, Sound(w, e, i), w.p.state \in FinStates
  PROVE  /\ Sound(ToTimeWait(w), e, i)
         /\ Waits(ToTimeWait(w).p) /\ Probes(ToTimeWait(w).p)
<1> DEFINE q == [w.p EXCEPT !.state = "TIME_WAIT", !.unsent = <<>>, !.unacked = <<>>,
                            !.rtime = FALSE, !.refused = <<>>, !.refused_fin = FALSE]
           v == ToTimeWait(w)
<1>1. Typed(w) /\ TypedPcb(w.p)
  BY DEF Sound, Typed
<1>2. v = [w EXCEPT !.p = q]
  BY DEF ToTimeWait
<1>3. /\ q.state = "TIME_WAIT" /\ q.unsent = <<>> /\ q.unacked = <<>>
      /\ q.lastack = w.p.lastack /\ q.snd_nxt = w.p.snd_nxt
      /\ q.rxclosed = w.p.rxclosed
  BY <1>1, Fields DEF TypedPcb
<1>4. TypedPcb(q)
  <2>1. <<>> \in Seq(Nat) /\ "TIME_WAIT" \in Synchronized
    BY DEF Synchronized
  <2> QED
    BY <1>1, <2>1, Fields DEF TypedPcb
<1> HIDE DEF q, v
<1>5. v.p = q /\ v.a = w.a /\ v.listen = w.listen /\ Typed(v)
  BY <1>1, <1>2, <1>4 DEF Typed
<1>6. w.p.state \notin Open /\ "TIME_WAIT" \notin Open /\ w.p.state # "NONE"
  BY DEF FinStates, Open
<1>7. HoldsNothing(v.p)
  BY <1>3, <1>5 DEF HoldsNothing
<1>8. Numbered(v.p, v.a, i)
  <2>1. Top(v.p, v.a, i) = Top(w.p, w.a, i)
    BY <1>3, <1>5, <1>6 DEF Top
  <2>2. <<>> \in Seq(Within(i, Top(w.p, w.a, i)))
    BY EmptySeq
  <2>3. Numbered(w.p, w.a, i)
    BY <1>6 DEF Sound
  <2> QED
    BY <1>3, <1>5, <1>6, <1>7, <2>1, <2>2, <2>3 DEF Numbered
<1>9. Timed(v.p) /\ Opening(v.p, i) /\ Waits(v.p) /\ Probes(v.p)
  BY <1>3, <1>5, <1>7 DEF Timed, Opening, Waits, Probes, HeldByPeer, Distance
<1>10. Closing(v.p, v.a, v.listen)
  BY <1>3, <1>5 DEF Closing, Sound, FinStates
<1> QED
  BY <1>3, <1>5, <1>8, <1>9, <1>10 DEF Sound, v

\* A move between two states of the same side of the FIN.
LEMMA GotoSound ==
  ASSUME NEW w, NEW e, NEW i, Sound(w, e, i), NEW state,
         \/ w.p.state \in FinStates /\ state \in FinStates
         \/ w.p.state \in {"ESTABLISHED", "CLOSE_WAIT"} /\ state = "CLOSE_WAIT"
  PROVE  LET v == [w EXCEPT !.p.state = state]
         IN  /\ Sound(v, e, i)
             /\ v.p.state = state /\ v.p.unsent = w.p.unsent
             /\ v.p.unacked = w.p.unacked
<1> DEFINE v == [w EXCEPT !.p.state = state]
<1>1. /\ v.p.state = state /\ v.p.unsent = w.p.unsent /\ v.p.unacked = w.p.unacked
      /\ v.p.lastack = w.p.lastack /\ v.p.snd_nxt = w.p.snd_nxt
      /\ v.p.snd_lbb = w.p.snd_lbb /\ v.p.rtime = w.p.rtime
      /\ v.p.persist = w.p.persist /\ v.p.rxclosed = w.p.rxclosed
      /\ v.p.closepend = w.p.closepend /\ v.a = w.a /\ v.listen = w.listen
  BY Fields DEF Sound, Typed, TypedPcb
<1>2. state \in Open \cup Synchronized \cup {"NONE"}
  BY DEF FinStates, Synchronized
<1>3. Typed(v)
  BY <1>2, Fields DEF Sound, Typed, TypedPcb
<1> HIDE DEF v
<1>4. /\ w.p.state \in Open <=> state \in Open
      /\ state \notin {"NONE", "TIME_WAIT", "SYN_SENT", "SYN_RCVD"}
      /\ w.p.state \notin {"NONE", "TIME_WAIT", "SYN_SENT", "SYN_RCVD"}
  BY DEF FinStates, Open
<1>5. Numbered(v.p, v.a, i)
  BY <1>1, <1>4 DEF Sound, Numbered, Top, HoldsNothing
<1>6. Timed(v.p) /\ Opening(v.p, i)
  BY <1>1, <1>4 DEF Sound, Timed, Opening
<1>7. Closing(v.p, v.a, v.listen)
  BY <1>1, <1>4 DEF Sound, Closing, FinStates
<1> QED
  BY <1>1, <1>3, <1>5, <1>6, <1>7 DEF Sound, v

-----------------------------------------------------------------------------
(* tcp_output.                                                             *)

\* The places of what is acknowledged, sent and to be sent, all in the first
\* half of the space.
LEMMA Places ==
  ASSUME NEW i \in SeqNos, NEW w, Typed(w), Numbered(w.p, w.a, i)
  PROVE  /\ Minus(w.p.lastack, i) \in Nat /\ Minus(w.p.snd_nxt, i) \in Nat
         /\ Minus(w.p.snd_lbb, i) \in Nat
         /\ Top(w.p, w.a, i) \in Nat /\ Top(w.p, w.a, i) < Half
         /\ Minus(w.p.lastack, i) < Half /\ Minus(w.p.snd_nxt, i) < Half
<1>1. /\ w.p.lastack \in SeqNos /\ w.p.snd_nxt \in SeqNos /\ w.p.snd_lbb \in SeqNos
      /\ w.a.wrote \in 0 .. MaxStream
  BY DEF Typed, TypedPcb
<1>2. ASSUME NEW x \in SeqNos PROVE Minus(x, i) \in Nat
  <2>1. x \in Int /\ i \in Int
    BY DEF SeqNos
  <2>2. Minus(x, i) \in SeqNos
    BY <2>1, Numbers
  <2> QED
    BY <2>2 DEF SeqNos
<1>3. w.a.wrote \in Nat /\ w.a.wrote + 3 <= Half
  BY <1>1, Space
<1>4. Top(w.p, w.a, i) \in Nat
  BY <1>1, <1>2, <1>3 DEF Top
<1>5. Top(w.p, w.a, i) <= w.a.wrote + 2
  <2>1. Top(w.p, w.a, i) <= w.a.wrote + 1 \/ Top(w.p, w.a, i) <= w.a.wrote + 2
    BY DEF Numbered
  <2> QED
    BY <1>3, <1>4, <2>1
<1>6. Top(w.p, w.a, i) < Half
  BY <1>3, <1>4, <1>5, Space
<1>7. /\ Minus(w.p.lastack, i) \in Nat /\ Minus(w.p.snd_nxt, i) \in Nat
      /\ Minus(w.p.snd_lbb, i) \in Nat
  BY <1>1, <1>2
<1>8. Minus(w.p.lastack, i) <= Minus(w.p.snd_nxt, i)
      /\ Minus(w.p.snd_nxt, i) <= Top(w.p, w.a, i)
  BY DEF Numbered
<1> QED
  BY <1>4, <1>6, <1>7, <1>8, Space

\* The later of two numbers.
LEMMA LaterOf ==
  ASSUME NEW i \in SeqNos, NEW a \in SeqNos, NEW b \in SeqNos,
         Minus(a, i) \in Nat, Minus(b, i) \in Nat,
         Minus(a, i) < Half, Minus(b, i) < Half
  PROVE  /\ Later(a, b) \in {a, b}
         /\ Minus(a, i) <= Minus(Later(a, b), i)
         /\ Minus(b, i) <= Minus(Later(a, b), i)
<1>1. SeqLT(a, b) <=> Minus(a, i) < Minus(b, i)
  BY Compared
<1>2. CASE SeqLT(a, b)
  <2>1. Later(a, b) = b
    BY <1>2 DEF Later
  <2> QED
    BY <1>1, <1>2, <2>1
<1>3. CASE ~SeqLT(a, b)
  <2>1. Later(a, b) = a
    BY <1>3 DEF Later
  <2> QED
    BY <1>1, <1>3, <2>1
<1> QED
  BY <1>2, <1>3

\* A segment of a queue ends in the stream, with room to the half.
LEMMA HeldSegment ==
  ASSUME NEW i \in SeqNos, NEW w, Typed(w), Numbered(w.p, w.a, i),
         NEW s \in Within(i, Top(w.p, w.a, i))
  PROVE  /\ s \in Segs /\ (s.syn => s.data = <<>> /\ ~s.fin)
         /\ Len(s.data) <= TCP_MSS
         /\ TcpLen(s) \in Nat \ {0} /\ Minus(s.seq, i) \in Nat
         /\ SegEnd(s) \in SeqNos /\ Minus(SegEnd(s), i) = EndOf(s, i)
         /\ EndOf(s, i) \in Nat /\ EndOf(s, i) <= Top(w.p, w.a, i)
         /\ EndOf(s, i) < Half
<1>1. /\ s \in Segs /\ TcpLen(s) > 0 /\ (s.syn => s.data = <<>> /\ ~s.fin)
      /\ Len(s.data) <= TCP_MSS /\ EndOf(s, i) <= Top(w.p, w.a, i)
  BY DEF Within
<1>2. /\ TcpLen(s) \in Nat /\ Minus(s.seq, i) \in Nat /\ EndOf(s, i) \in Nat
      /\ SegEnd(s) \in SeqNos
      /\ EndOf(s, i) < SeqSpace => Minus(SegEnd(s), i) = EndOf(s, i)
  BY <1>1, SegmentEnd
<1>3. EndOf(s, i) < Half /\ EndOf(s, i) < SeqSpace
  BY <1>1, <1>2, Places, Space
<1> QED
  BY <1>1, <1>2, <1>3

\* The loop of tcp_output sends the head of unsent and holds it in unacked.
LEMMA OutputSegmentSound ==
  ASSUME NEW e, NEW i \in SeqNos, NEW w, Sound(w, e, i),
         w.p.unsent # <<>>, ~w.p.persist
  PROVE  LET v == OutputSegment(w)
         IN  /\ Sound(v, e, i) /\ ~v.p.persist
             /\ v.p.unacked # <<>> /\ Len(v.p.unsent) = Len(w.p.unsent) - 1
             /\ v.p.state = w.p.state /\ v.a = w.a
<1> DEFINE top == Top(w.p, w.a, i)
           s == Head(w.p.unsent)
           x == OnWire(w.p, s)
           u == Sends(w, x)
           unsent == Tail(w.p.unsent)
           unacked == Insert(w.p.unacked, s)
           nxt == Later(w.p.snd_nxt, SegEnd(s))
           edge == Plus(w.p.rcv_nxt, w.p.rcv_ann_wnd)
           now == w.p.ack_now /\ w.p.state = "SYN_SENT"
           delay == w.p.ack_delay /\ w.p.state = "SYN_SENT"
           v == OutputSegment(w)
           q == [w.p EXCEPT
                   !.unsent = unsent, !.unacked = unacked, !.snd_nxt = nxt,
                   !.rcv_ann_right_edge = edge, !.rtime = TRUE,
                   !.ack_now = now, !.ack_delay = delay]
<1>1. /\ Typed(w) /\ w.p.state \notin {"NONE", "TIME_WAIT"}
      /\ Numbered(w.p, w.a, i)
  BY DEF Sound, Timed, HoldsNothing
<1>2. w.p.unsent \in Seq(Within(i, top)) /\ w.p.unacked \in Seq(Within(i, top))
  BY <1>1 DEF Numbered
<1>3. s \in Within(i, top) /\ unsent \in Seq(Within(i, top))
      /\ Len(unsent) = Len(w.p.unsent) - 1
  BY <1>2, TailKeeps
<1>4. /\ s \in Segs /\ (s.syn => s.data = <<>> /\ ~s.fin)
      /\ SegEnd(s) \in SeqNos /\ Minus(SegEnd(s), i) = EndOf(s, i)
      /\ EndOf(s, i) \in Nat /\ EndOf(s, i) <= top /\ EndOf(s, i) < Half
  BY <1>1, <1>3, HeldSegment
<1>5. x \in WireSegs
  <2> HIDE DEF s
  <2> QED
    BY <1>1, <1>4, OnWireTyped DEF Typed
<1>6. Typed(u) /\ Same(w, u) /\ u.p = w.p /\ u.a = w.a
  <2> HIDE DEF x
  <2> QED
    BY <1>1, <1>5, SendsTyped DEF Sends, Typed
<1>7. unacked \in Seq(Within(i, top)) /\ Len(unacked) = Len(w.p.unacked) + 1
  <2> DEFINE W == Within(i, top)
  <2>1. w.p.unacked \in Seq(W) /\ s \in W
    BY <1>2, <1>3
  <2> HIDE DEF W, s
  <2>2. Insert(w.p.unacked, s) \in Seq(W)
        /\ Len(Insert(w.p.unacked, s)) = Len(w.p.unacked) + 1
    BY <2>1, InsertKeeps
  <2> QED
    BY <2>2 DEF W
<1>8. /\ nxt \in SeqNos /\ nxt \in {w.p.snd_nxt, SegEnd(s)}
      /\ Minus(w.p.snd_nxt, i) <= Minus(nxt, i) /\ EndOf(s, i) <= Minus(nxt, i)
      /\ Minus(nxt, i) <= top
  <2>1. w.p.snd_nxt \in SeqNos
    BY <1>1 DEF Typed, TypedPcb
  <2>2. Minus(w.p.snd_nxt, i) \in Nat /\ Minus(w.p.snd_nxt, i) < Half
    BY <1>1, Places
  <2>3. /\ nxt \in {w.p.snd_nxt, SegEnd(s)}
        /\ Minus(w.p.snd_nxt, i) <= Minus(nxt, i) /\ EndOf(s, i) <= Minus(nxt, i)
    <3> HIDE DEF s
    <3>1. Minus(SegEnd(s), i) \in Nat /\ Minus(SegEnd(s), i) < Half
      BY <1>4
    <3> QED
      BY <1>4, <2>1, <2>2, <3>1, LaterOf
  <2>4. Minus(w.p.snd_nxt, i) <= top
    BY <1>1 DEF Numbered
  <2> HIDE DEF nxt, s, top
  <2> QED
    BY <1>4, <2>1, <2>3, <2>4
<1>9. edge \in SeqNos
  <2>1. w.p.rcv_nxt \in Int /\ w.p.rcv_ann_wnd \in Int
    BY <1>1 DEF Typed, TypedPcb, SeqNos
  <2> QED
    BY <2>1, Numbers
<1>10. v = [u EXCEPT
             !.p.unsent = unsent, !.p.unacked = unacked, !.p.snd_nxt = nxt,
             !.p.rcv_ann_right_edge = edge, !.p.rtime = TRUE,
             !.p.ack_now = now, !.p.ack_delay = delay]
  BY DEF OutputSegment
<1> HIDE DEF v, u, x, unsent, unacked, nxt, edge, s, now, delay, top
<1> HIDE DEF q
<1>20. v = [u EXCEPT !.p = q]
  <2>1. "p" \in DOMAIN u
    BY <1>6 DEF Typed
  <2> QED
    BY <1>6, <1>10, <2>1 DEF q
<1>21. v.p = q /\ v.a = w.a /\ v.listen = w.listen
       /\ DOMAIN v = DOMAIN u /\ v.out = u.out /\ v.data = u.data
  <2>1. DOMAIN u = {"p", "a", "listen", "out", "data", "fin", "flag"}
        /\ u.listen = w.listen
    BY <1>6 DEF Typed, Same
  <2> QED
    BY <1>6, <1>20, <2>1
<1>22. DOMAIN w.p = DOMAIN NoPcb
  BY <1>1 DEF Typed, TypedPcb
<1>11. /\ v.p.state = w.p.state /\ v.p.unsent = unsent /\ v.p.unacked = unacked
       /\ v.p.lastack = w.p.lastack /\ v.p.snd_nxt = nxt
       /\ v.p.snd_lbb = w.p.snd_lbb /\ v.p.rtime = TRUE
       /\ v.p.persist = w.p.persist /\ v.p.rxclosed = w.p.rxclosed
       /\ v.p.closepend = w.p.closepend
  BY <1>21, <1>22, Fields DEF q
<1>12. v.a = w.a /\ v.listen = w.listen
  BY <1>21
<1>13. Typed(v)
  <2>1. TypedPcb(q)
    <3>1. TypedPcb(w.p)
      BY <1>1 DEF Typed
    <3> QED
      BY <1>8, <1>9, <3>1, Fields DEF TypedPcb, q
  <2> QED
    BY <1>1, <1>6, <1>21, <2>1 DEF Typed
<1>14. unacked # <<>>
  <2>1. Len(w.p.unacked) \in Nat
    BY <1>2, LenProperties
  <2> QED
    BY <1>7, <2>1, EmptySeq
<1>15. Numbered(v.p, v.a, i)
  <2> DEFINE R == Reaching(i, Minus(w.p.snd_nxt, i))
             Q == Reaching(i, Minus(nxt, i))
  <2>1. Top(v.p, v.a, i) = top
    BY <1>11, <1>12 DEF Top, top
  <2>2. Has(unsent, Q) \/ Has(unacked, Q)
    <3>1. CASE nxt = SegEnd(s)
      <4>1. s \in Q
        BY <1>4, <3>1 DEF Reaching
      <4> HIDE DEF Q
      <4> QED
        BY <1>2, <1>3, <4>1, InsertKeeps DEF unacked
    <3>2. CASE nxt = w.p.snd_nxt
      <4>1. Has(w.p.unsent, R) \/ Has(w.p.unacked, R)
        BY <1>1 DEF Numbered, HoldsNothing
      <4> HIDE DEF R
      <4>2. Has(w.p.unsent, R) => s \in R \/ Has(unsent, R)
        BY <1>2, TailKeeps DEF s, unsent
      <4>3. Has(w.p.unacked, R) \/ s \in R => Has(unacked, R)
        BY <1>2, <1>3, InsertKeeps DEF unacked
      <4> QED
        BY <3>2, <4>1, <4>2, <4>3 DEF R
    <3> QED
      BY <1>8, <3>1, <3>2
  <2>3. Minus(w.p.lastack, i) <= Minus(nxt, i)
    <3>1. Minus(w.p.lastack, i) <= Minus(w.p.snd_nxt, i)
      BY <1>1 DEF Numbered
    <3>2. Minus(w.p.lastack, i) \in Nat /\ Minus(w.p.snd_nxt, i) \in Nat
      BY <1>1, Places
    <3>3. Minus(nxt, i) \in Nat
      <4>1. Minus(nxt, i) \in {Minus(w.p.snd_nxt, i), EndOf(s, i)}
        BY <1>4, <1>8
      <4> QED
        BY <1>4, <3>2, <4>1
    <3> QED
      BY <1>8, <3>1, <3>2, <3>3
  <2>4. top <= w.a.wrote + IF w.p.state \in Open THEN 1 ELSE 2
    BY <1>1 DEF Numbered, top
  <2> HIDE DEF top, Q
  <2> QED
    BY <1>3, <1>7, <1>8, <1>11, <1>12, <2>1, <2>2, <2>3, <2>4 DEF Numbered, Q
<1>16. Opening(v.p, i)
  <2> SUFFICES ASSUME w.p.state = "SYN_SENT"
               PROVE  /\ Minus(w.p.lastack, i) < Minus(nxt, i)
                      /\ Len(unsent) + Len(unacked) = 1
                      /\ unsent \in Seq(NoData) /\ unacked \in Seq(NoData)
    BY <1>11 DEF Opening
  <2>1. /\ Minus(w.p.lastack, i) < Minus(w.p.snd_nxt, i)
        /\ Len(w.p.unsent) + Len(w.p.unacked) = 1
        /\ w.p.unsent \in Seq(NoData) /\ w.p.unacked \in Seq(NoData)
    BY DEF Sound, Opening
  <2>2. unsent \in Seq(NoData) /\ s \in NoData
    BY <2>1, TailKeeps DEF unsent, s
  <2>3. unacked \in Seq(NoData)
    BY <2>1, <2>2, InsertKeeps DEF unacked
  <2>4. Len(w.p.unsent) \in Nat /\ Len(w.p.unacked) \in Nat
    BY <2>1, LenProperties
  <2>7. Len(unsent) + Len(unacked) = 1
    <3>1. PICK a, b \in Nat : a = Len(w.p.unsent) /\ b = Len(w.p.unacked)
      BY <2>4
    <3>2. a + b = 1 /\ Len(unsent) = a - 1 /\ Len(unacked) = b + 1
      BY <1>3, <1>7, <2>1, <3>1
    <3> QED
      BY <3>2
  <2>5. Minus(w.p.lastack, i) \in Nat /\ Minus(w.p.snd_nxt, i) \in Nat
    BY <1>1, Places
  <2>6. Minus(nxt, i) \in Nat
    <3>1. Minus(nxt, i) \in {Minus(w.p.snd_nxt, i), EndOf(s, i)}
      BY <1>4, <1>8
    <3> QED
      BY <1>4, <2>5, <3>1
  <2>8. Minus(w.p.lastack, i) < Minus(nxt, i)
    BY <1>8, <2>1, <2>5, <2>6
  <2> QED
    BY <2>2, <2>3, <2>7, <2>8
<1>17. Timed(v.p)
  BY <1>1, <1>11 DEF Timed
<1>18. Closing(v.p, v.a, v.listen)
  BY <1>11, <1>12 DEF Sound, Closing
<1> QED
  BY <1>1, <1>3, <1>11, <1>12, <1>13, <1>14, <1>15, <1>16, <1>17, <1>18 DEF Sound, v

\* The loop as a function of how often it has been through.
LEMMA LoopExists ==
  ASSUME NEW w, NEW n \in Nat
  PROVE  \E f : f = [k \in 0 .. n |-> IF k = 0 THEN w ELSE OutputSegment(f[k - 1])]
<1> DEFINE Is(f, m) ==
             f = [k \in 0 .. m |-> IF k = 0 THEN w ELSE OutputSegment(f[k - 1])]
           Bad == {m \in 0 .. n : ~ \E f : Is(f, m)}
<1>1. ASSUME Bad # {} PROVE FALSE
  <2>1. PICK m \in Bad : \A y \in Bad : m <= y
    <3>1. IsFiniteSet(0 .. n) /\ Bad \in SUBSET (0 .. n)
      BY FS_Interval
    <3>2. IsFiniteSet(Bad) /\ Bad \in SUBSET Int
      BY <3>1, FS_Subset
    <3> HIDE DEF Bad
    <3> QED
      BY <1>1, <3>2, LeastElement
  <2>2. m \in 0 .. n /\ ~ \E f : Is(f, m)
    OBVIOUS
  <2>3. m # 0
    <3>1. Is([k \in 0 .. 0 |-> w], 0)
      OBVIOUS
    <3> QED
      BY <2>2, <3>1
  <2>4. m - 1 \in 0 .. n /\ m - 1 \notin Bad
    BY <2>1, <2>2, <2>3
  <2>5. PICK f : Is(f, m - 1)
    BY <2>4
  <2> DEFINE g == [k \in 0 .. m |-> IF k = m THEN OutputSegment(f[m - 1]) ELSE f[k]]
  <2>6. ASSUME NEW k \in 0 .. m
        PROVE  g[k] = IF k = 0 THEN w ELSE OutputSegment(g[k - 1])
    <3>1. CASE k = 0
      <4>1. 0 \in 0 .. m - 1 /\ 0 # m
        BY <2>2, <2>3
      <4>2. f[0] = w
        BY <2>5, <4>1
      <4> QED
        BY <3>1, <4>1, <4>2
    <3>2. CASE k \in 1 .. m - 1
      <4>1. k \in 0 .. m - 1 /\ k # 0 /\ k # m /\ k - 1 \in 0 .. m /\ k - 1 # m
        BY <2>2, <3>2
      <4>2. f[k] = OutputSegment(f[k - 1])
        BY <2>5, <4>1
      <4>3. g[k] = f[k] /\ g[k - 1] = f[k - 1]
        BY <4>1
      <4> QED
        BY <4>1, <4>2, <4>3
    <3>3. CASE k = m
      <4>1. m - 1 \in 0 .. m /\ m - 1 # m
        BY <2>2, <2>3
      <4>2. g[m] = OutputSegment(f[m - 1]) /\ g[m - 1] = f[m - 1]
        BY <4>1
      <4> QED
        BY <2>3, <3>3, <4>2
    <3> QED
      BY <2>2, <3>1, <3>2, <3>3
  <2>7. g = [k \in 0 .. m |-> g[k]]
    OBVIOUS
  <2>8. Is(g, m)
    <3> HIDE DEF g
    <3> QED
      BY <2>6, <2>7
  <2> QED
    BY <2>2, <2>8
<1> HIDE DEF Is
<1>2. n \in 0 .. n /\ n \notin Bad
  BY <1>1
<1>3. \E f : Is(f, n)
  BY <1>2
<1> QED
  BY <1>3 DEF Is

LEMMA OutputFirstSteps ==
  ASSUME NEW w, NEW n \in Nat
  PROVE  \E f : /\ f[0] = w /\ OutputFirst(w, n) = f[n]
                /\ \A k \in 1 .. n : f[k] = OutputSegment(f[k - 1])
<1> DEFINE Is(f) == f = [k \in 0 .. n |-> IF k = 0 THEN w ELSE OutputSegment(f[k - 1])]
           g == CHOOSE f : Is(f)
<1>1. Is(g)
  BY LoopExists, ZenonT(30)
<1>2. OutputFirst(w, n) = g[n]
  BY DEF OutputFirst
<1> HIDE DEF g
<1>3. g[0] = w /\ \A k \in 1 .. n : g[k] = OutputSegment(g[k - 1])
  <2>1. g[0] = w
    BY <1>1
  <2>2. ASSUME NEW k \in 1 .. n PROVE g[k] = OutputSegment(g[k - 1])
    <3>1. k \in 0 .. n /\ k # 0
      OBVIOUS
    <3> QED
      BY <1>1, <3>1
  <2> QED
    BY <2>1, <2>2
<1> QED
  BY <1>2, <1>3

LEMMA OutputFirstSound ==
  ASSUME NEW e, NEW i \in SeqNos, NEW w, Sound(w, e, i), ~w.p.persist,
         NEW n \in 1 .. Len(w.p.unsent)
  PROVE  LET v == OutputFirst(w, n)
         IN  /\ Sound(v, e, i) /\ v.p.unacked # <<>>
             /\ v.p.state = w.p.state /\ v.a = w.a
<1>1. PICK f : /\ f[0] = w /\ OutputFirst(w, n) = f[n]
               /\ \A k \in 1 .. n : f[k] = OutputSegment(f[k - 1])
  BY SMTT(30), OutputFirstSteps
<1> DEFINE len == Len(w.p.unsent)
           Good(k) == /\ Sound(f[k], e, i) /\ ~f[k].p.persist
                      /\ Len(f[k].p.unsent) = len - k
                      /\ k > 0 => f[k].p.unacked # <<>>
                      /\ f[k].p.state = w.p.state /\ f[k].a = w.a
           Bad == {k \in 0 .. n : ~Good(k)}
<1>2. len \in Nat
  OBVIOUS
<1>3. ASSUME Bad # {} PROVE FALSE
  <2>1. PICK m \in Bad : \A y \in Bad : m <= y
    <3>1. IsFiniteSet(0 .. n) /\ Bad \in SUBSET (0 .. n)
      BY FS_Interval
    <3>2. IsFiniteSet(Bad) /\ Bad \in SUBSET Int
      BY <3>1, FS_Subset
    <3> HIDE DEF Bad
    <3> QED
      BY <1>3, <3>2, LeastElement
  <2> HIDE DEF Good
  <2>2. m \in 0 .. n /\ ~Good(m)
    OBVIOUS
  <2>3. Good(0)
    BY <1>1, <1>2 DEF Good
  <2>4. m \in 1 .. n /\ m - 1 \in 0 .. n /\ Good(m - 1)
    BY <2>1, <2>2, <2>3
  <2> DEFINE u == f[m - 1]
  <2>5. /\ Sound(u, e, i) /\ ~u.p.persist /\ Len(u.p.unsent) = len - (m - 1)
        /\ u.p.state = w.p.state /\ u.a = w.a
    BY <2>4 DEF Good
  <2>6. f[m] = OutputSegment(u)
    BY <1>1, <2>4
  <2> HIDE DEF u
  <2>7. u.p.unsent # <<>>
    <3>1. len - (m - 1) > 0
      BY <1>2, <2>4
    <3> QED
      BY <2>5, <3>1, EmptySeq
  <2>8. /\ Sound(f[m], e, i) /\ ~f[m].p.persist /\ f[m].p.unacked # <<>>
        /\ Len(f[m].p.unsent) = Len(u.p.unsent) - 1
        /\ f[m].p.state = u.p.state /\ f[m].a = u.a
    BY ZenonT(30), <2>5, <2>6, <2>7, OutputSegmentSound
  <2>9. Len(f[m].p.unsent) = len - m
    BY <1>2, <2>2, <2>5, <2>8
  <2> HIDE DEF len
  <2> QED
    BY <2>2, <2>5, <2>8, <2>9 DEF Good
<1>4. Good(n)
  BY <1>3
<1> QED
  BY <1>1, <1>4

\* What a call may leave behind.
Fine(w, e, i) == Sound(w, e, i) /\ Waits(w.p) /\ Probes(w.p)

\* With the state w is in.
FineAs(w, v, e, i) ==
  Fine(v, e, i) /\ v.p.state = w.p.state /\ v.a.closed = w.a.closed

LEMMA SameFine ==
  ASSUME NEW w, NEW v, NEW e, NEW i, Sound(w, e, i), Waits(w.p), Probes(w.p),
         Typed(v), Same(w, v)
  PROVE  FineAs(w, v, e, i)
BY SameSound DEF FineAs, Fine, Same

\* The persist timer is switched on or off.
LEMMA PersistSound ==
  ASSUME NEW w, NEW e, NEW i, Sound(w, e, i), NEW v, Typed(v),
         v.p.unacked # <<>> => ~v.p.persist,
         Same(w, [v EXCEPT !.p.persist = w.p.persist])
  PROVE  Sound(v, e, i) /\ v.p.unsent = w.p.unsent /\ v.p.unacked = w.p.unacked
         /\ v.p.state = w.p.state /\ v.a.closed = w.a.closed
<1>1. /\ v.p.state = w.p.state
      /\ v.p.unsent = w.p.unsent /\ v.p.unacked = w.p.unacked
      /\ v.p.lastack = w.p.lastack /\ v.p.snd_nxt = w.p.snd_nxt
      /\ v.p.snd_lbb = w.p.snd_lbb /\ v.p.rtime = w.p.rtime
      /\ v.p.rxclosed = w.p.rxclosed /\ v.p.closepend = w.p.closepend
      /\ v.a.wrote = w.a.wrote /\ v.a.closed = w.a.closed
      /\ v.listen = w.listen
  BY Fields DEF Same, Typed, TypedPcb
<1>2. w.p.state # "NONE" => Numbered(v.p, v.a, i)
  BY <1>1 DEF Sound, Numbered, Top, HoldsNothing
<1>3. Opening(v.p, i)
  BY <1>1 DEF Sound, Opening
<1>4. Timed(v.p)
  BY <1>1 DEF Sound, Timed, HoldsNothing
<1>5. Closing(v.p, v.a, v.listen)
  BY <1>1 DEF Sound, Closing
<1> QED
  BY <1>1, <1>2, <1>3, <1>4, <1>5 DEF Sound

\* What tcp_output does: nothing, start the persist timer, or send.
LEMMA OutputCases ==
  ASSUME NEW w, NEW v \in Output(w)
  PROVE  LET p == w.p
             send == [w EXCEPT !.p.persist = FALSE]
             stop == [w EXCEPT !.p.persist = TRUE, !.p.probes = 0]
         IN  \/ /\ v = AckIfDue(w)
                /\ \/ p.unsent = <<>> \/ p.unacked # <<>> \/ p.persist
                   \/ \E cwnd \in TCP_MSS .. TCP_WND :
                        ~(Distance(p, p.unsent[1]) <= cwnd)
             \/ v = AckIfDue(stop) /\ p.unacked = <<>>
             \/ \E n \in 1 .. Len(p.unsent) : v = OutputFirst(send, n)
             \/ v = OutputFirst(send, 0) /\ MayHold(OutputFirst(send, 0).p)
<1> DEFINE p == w.p
           send == [w EXCEPT !.p.persist = FALSE]
           stop == [w EXCEPT !.p.persist = TRUE, !.p.probes = 0]
<1>1. CASE p.unsent = <<>>
  BY <1>1, Zenon DEF Output
<1>2. ASSUME p.unsent # <<>>,
             NEW cwnd \in TCP_MSS .. TCP_WND,
             v \in OutputWithin(w, Lesser(p.snd_wnd, cwnd))
      PROVE  \/ /\ v = AckIfDue(w)
                /\ \/ p.unacked # <<>> \/ p.persist
                   \/ ~(Distance(p, p.unsent[1]) <= cwnd)
             \/ v = AckIfDue(stop) /\ p.unacked = <<>>
             \/ \E n \in 1 .. Len(p.unsent) : v = OutputFirst(send, n)
             \/ v = OutputFirst(send, 0) /\ MayHold(OutputFirst(send, 0).p)
  <2> DEFINE wnd == Lesser(p.snd_wnd, cwnd)
             fits(n) == Distance(p, p.unsent[n]) <= wnd
             stops == {n \in 0 .. Len(p.unsent) :
                         /\ \A k \in 1 .. n : fits(k)
                         /\ n < Len(p.unsent) /\ fits(n + 1)
                              => MayHold(OutputFirst(send, n).p)}
  <2>1. v \in IF fits(1) THEN {OutputFirst(send, n) : n \in stops}
              ELSE {AckIfDue(IF wnd = p.snd_wnd THEN Blocked(w) ELSE w)}
    BY <1>2, Zenon DEF OutputWithin
  <2>2. CASE ~fits(1) /\ wnd = p.snd_wnd
    <3>1. v = AckIfDue(Blocked(w))
      BY <2>1, <2>2, Zenon
    <3> QED
      BY <3>1, Zenon DEF Blocked
  <2>3. CASE ~fits(1) /\ wnd # p.snd_wnd
    <3>1. v = AckIfDue(w)
      BY <2>1, <2>3, Zenon
    <3>2. wnd = cwnd
      BY <2>3, Zenon DEF Lesser
    <3> QED
      BY <2>3, <3>1, <3>2, Zenon
  <2>4. CASE fits(1)
    <3>1. PICK n \in stops : v = OutputFirst(send, n)
      BY <2>1, <2>4, Zenon
    <3>2. CASE n = 0
      <4>1. 0 < Len(p.unsent) /\ 0 + 1 = 1
        BY <1>2, <3>1
      <4> QED
        BY <2>4, <3>1, <3>2, <4>1, Zenon
    <3>3. CASE n # 0
      <4>1. n \in 1 .. Len(p.unsent)
        BY <3>1, <3>3
      <4> QED
        BY <3>1, <4>1, Zenon
    <3> QED
      BY <3>2, <3>3
  <2> QED
    BY <2>2, <2>3, <2>4
<1>3. CASE p.unsent # <<>>
  <2>1. PICK cwnd \in TCP_MSS .. TCP_WND :
          v \in OutputWithin(w, Lesser(p.snd_wnd, cwnd))
    BY <1>3, Zenon DEF Output
  <2> QED
    BY <1>2, <1>3, <2>1, Zenon
<1> QED
  BY <1>1, <1>3

LEMMA OutputSound ==
  ASSUME NEW e, NEW i \in SeqNos, NEW w, Sound(w, e, i), Waits(w.p),
         NEW v \in Output(w)
  PROVE  FineAs(w, v, e, i)
<1> DEFINE p == w.p
           send == [w EXCEPT !.p.persist = FALSE]
           stop == [w EXCEPT !.p.persist = TRUE, !.p.probes = 0]
<1>1. Typed(w)
  BY DEF Sound
<1>2. ASSUME Probes(w.p) PROVE FineAs(w, AckIfDue(w), e, i)
  BY <1>1, <1>2, AckIfDueTyped, SameFine
<1>3. /\ Sound(send, e, i) /\ ~send.p.persist
      /\ send.p.unsent = w.p.unsent /\ send.p.unacked = w.p.unacked
      /\ send.p.state = w.p.state /\ send.a.closed = w.a.closed
  <2>1. Typed(send) /\ ~send.p.persist
    BY <1>1, Fields DEF Typed, TypedPcb
  <2>2. Same(w, [send EXCEPT !.p.persist = w.p.persist])
    BY <1>1, Fields DEF Typed, TypedPcb, Same
  <2> HIDE DEF send
  <2> QED
    BY <2>1, <2>2, PersistSound
<1>4. ASSUME w.p.unacked # <<>> PROVE FineAs(w, send, e, i)
  <2> HIDE DEF send
  <2> QED
    BY <1>3, <1>4 DEF FineAs, Fine, Waits, Probes, HeldByPeer, Distance, HoldsNothing
<1>5. ASSUME w.p.unacked = <<>> PROVE FineAs(w, AckIfDue(stop), e, i)
  <2>1. Typed(stop) /\ stop.p.persist /\ stop.p.unacked = <<>>
    BY <1>1, <1>5, Fields DEF Typed, TypedPcb
  <2>2. Same(w, [stop EXCEPT !.p.persist = w.p.persist])
    BY <1>1, Fields DEF Typed, TypedPcb, Same
  <2> HIDE DEF stop
  <2>3. /\ Sound(stop, e, i) /\ stop.p.unsent = w.p.unsent
        /\ stop.p.unacked = w.p.unacked
        /\ stop.p.state = w.p.state /\ stop.a.closed = w.a.closed
    BY <2>1, <2>2, PersistSound
  <2>4. Waits(stop.p) /\ Probes(stop.p)
    BY <2>1, <2>3 DEF Waits, Probes, HeldByPeer, Distance, HoldsNothing
  <2>5. FineAs(stop, AckIfDue(stop), e, i)
    BY <2>1, <2>3, <2>4, AckIfDueTyped, SameFine
  <2> QED
    BY <2>3, <2>5 DEF FineAs
<1>6. ASSUME NEW n \in 1 .. Len(p.unsent) PROVE FineAs(w, OutputFirst(send, n), e, i)
  <2>1. n \in 1 .. Len(send.p.unsent)
    BY <1>3
  <2> DEFINE u == OutputFirst(send, n)
  <2> HIDE DEF send
  <2>2. Sound(u, e, i) /\ u.p.unacked # <<>> /\ u.p.state = send.p.state
        /\ u.a = send.a
    BY <1>3, <2>1, OutputFirstSound
  <2> HIDE DEF u
  <2> QED
    BY <1>3, <2>2 DEF FineAs, Fine, Waits, Probes, HeldByPeer, Distance, HoldsNothing, u
<1>7. OutputFirst(send, 0) = send
  <2> HIDE DEF send
  <2>1. PICK f : f[0] = send /\ OutputFirst(send, 0) = f[0]
    BY SMTT(30), OutputFirstSteps
  <2> QED
    BY <2>1
<1>8. ASSUME MayHold(send.p) PROVE FineAs(w, send, e, i)
  BY <1>3, <1>4, <1>8 DEF MayHold
<1>9. ASSUME NEW cwnd \in TCP_MSS .. TCP_WND,
             ~(Distance(p, p.unsent[1]) <= cwnd)
      PROVE  FineAs(w, AckIfDue(w), e, i)
  <2>1. CASE p.unsent = <<>>
    BY <1>2, <2>1 DEF Probes, HeldByPeer
  <2>2. CASE p.unsent # <<>>
    <3>1. Head(p.unsent) = p.unsent[1] /\ p.unsent[1] \in Segs
      <4>1. w.p.state # "NONE"
        BY <2>2 DEF Sound, Timed, HoldsNothing
      <4> DEFINE W == Within(i, Top(w.p, w.a, i))
      <4>2. p.unsent \in Seq(W) /\ W \subseteq Segs
        BY <4>1 DEF Sound, Numbered, Within
      <4> HIDE DEF W
      <4> QED
        BY <2>2, <4>2, TailKeeps
    <3>2. Distance(p, p.unsent[1]) \in Int /\ TCP_MSS \in Nat /\ TCP_WND \in Nat
      <4>1. p.unsent[1].seq \in SeqNos /\ p.unsent[1].data \in Seq(Nat)
        BY <3>1 DEF Segs
      <4>2. /\ p.unsent[1].seq \in Int /\ p.lastack \in Int
            /\ Len(p.unsent[1].data) \in Int
            /\ \A x \in SeqNos : x \in Int
        <5>1. \A x \in SeqNos : x \in Int
          BY Space DEF SeqNos
        <5>2. p.lastack \in SeqNos
          BY <1>1 DEF Typed, TypedPcb
        <5>3. Len(p.unsent[1].data) \in Nat
          BY <4>1, LenProperties
        <5> QED
          BY <4>1, <5>1, <5>2, <5>3
      <4>3. Plus(p.unsent[1].seq, Len(p.unsent[1].data)) \in Int
        BY <4>2, Numbers
      <4>4. Distance(p, p.unsent[1]) \in SeqNos
        BY <4>2, <4>3, Numbers DEF Distance
      <4> QED
        BY <4>2, <4>4, TcpAssumption
    <3>3. ~(Distance(p, p.unsent[1]) <= TCP_MSS)
      BY <1>9, <3>2
    <3> QED
      BY <1>2, <3>1, <3>3 DEF Probes, HeldByPeer
  <2> QED
    BY <2>1, <2>2
<1>10. p.unsent = <<>> \/ p.unacked # <<>> \/ p.persist => Probes(w.p)
  BY DEF Probes, HeldByPeer
<1>11. \/ v = AckIfDue(w) /\ (p.unsent = <<>> \/ p.unacked # <<>> \/ p.persist)
       \/ /\ v = AckIfDue(w)
          /\ \E cwnd \in TCP_MSS .. TCP_WND : ~(Distance(p, p.unsent[1]) <= cwnd)
       \/ v = AckIfDue(stop) /\ p.unacked = <<>>
       \/ \E n \in 1 .. Len(p.unsent) : v = OutputFirst(send, n)
       \/ v = OutputFirst(send, 0) /\ MayHold(OutputFirst(send, 0).p)
  BY OutputCases, ZenonT(30)
<1> HIDE DEF p, send, stop
<1>12. CASE v = AckIfDue(w) /\ (p.unsent = <<>> \/ p.unacked # <<>> \/ p.persist)
  BY <1>2, <1>10, <1>12, Zenon DEF p
<1>13. CASE \/ v = AckIfDue(stop) /\ p.unacked = <<>>
            \/ \E n \in 1 .. Len(p.unsent) : v = OutputFirst(send, n)
  BY <1>5, <1>6, <1>13, Zenon DEF p
<1>14. CASE v = OutputFirst(send, 0) /\ MayHold(OutputFirst(send, 0).p)
  BY <1>7, <1>8, <1>14
<1> QED
  BY <1>9, <1>11, <1>12, <1>13, <1>14, Zenon

-----------------------------------------------------------------------------
(* Retransmissions, the probes and the split.                              *)

\* v is w but for the segments it holds and has sent.
Kept(w, v) ==
  /\ v.p.state = w.p.state /\ v.p.snd_lbb = w.p.snd_lbb
  /\ v.p.rxclosed = w.p.rxclosed /\ v.p.closepend = w.p.closepend
  /\ v.a.wrote = w.a.wrote /\ v.a.closed = w.a.closed
  /\ v.listen = w.listen

Live(p) == p.state \notin {"NONE", "TIME_WAIT"}

\* An end with something in its queues is live.
LEMMA HoldersLive ==
  ASSUME NEW w, NEW e, NEW i, Sound(w, e, i), ~HoldsNothing(w.p)
  PROVE  Live(w.p)
BY DEF Sound, Timed, Live

LEMMA RequeuedSound ==
  ASSUME NEW e, NEW i \in SeqNos, NEW w, Sound(w, e, i), Live(w.p),
         NEW v, Typed(v), Kept(w, v), NEW top, top = Top(w.p, w.a, i),
         Minus(v.p.lastack, i) <= Minus(v.p.snd_nxt, i),
         Minus(v.p.snd_nxt, i) <= top,
         v.p.unsent \in Seq(Within(i, top)), v.p.unacked \in Seq(Within(i, top)),
         \/ HoldsNothing(v.p)
         \/ Has(v.p.unsent, Reaching(i, Minus(v.p.snd_nxt, i)))
         \/ Has(v.p.unacked, Reaching(i, Minus(v.p.snd_nxt, i))),
         Opening(v.p, i),
         v.p.unacked # <<>> => v.p.rtime /\ ~v.p.persist
  PROVE  Sound(v, e, i)
<1>1. Top(v.p, v.a, i) = top
  BY DEF Top, Kept
<1>2. top <= v.a.wrote + IF v.p.state \in Open THEN 1 ELSE 2
  BY DEF Sound, Numbered, Live, Kept
<1>3. Numbered(v.p, v.a, i)
  BY <1>1, <1>2 DEF Numbered
<1>4. Timed(v.p)
  BY DEF Timed, Live, Kept
<1>5. Closing(v.p, v.a, v.listen)
  BY DEF Closing, Sound, Kept
<1> QED
  BY <1>3, <1>4, <1>5 DEF Sound, Kept

\* The state is w's, and what w holds is not lost.
Moved(w, v, e, i) ==
  /\ Sound(v, e, i)
  /\ v.p.state = w.p.state /\ v.a.closed = w.a.closed
  /\ ~HoldsNothing(w.p) => ~HoldsNothing(v.p)

LEMMA MovedWaits ==
  ASSUME NEW w, NEW v, NEW e, NEW i, Moved(w, v, e, i), Waits(w.p)
  PROVE  Waits(v.p)
BY DEF Moved, Waits

LEMMA RexmitRtoSound ==
  ASSUME NEW e, NEW i \in SeqNos, NEW w, Sound(w, e, i), ~HoldsNothing(w.p)
  PROVE  Moved(w, RexmitRto(w), e, i) /\ RexmitRto(w).flag = w.flag
<1> DEFINE top == Top(w.p, w.a, i)
           unsent == w.p.unacked \o w.p.unsent
           R == Reaching(i, Minus(w.p.snd_nxt, i))
           W == Within(i, top)
           q == [w.p EXCEPT !.unsent = unsent, !.unacked = <<>>,
                            !.nrtx = @ + 1, !.rtime = TRUE]
           v == RexmitRto(w)
<1>1. Typed(w) /\ Live(w.p) /\ Numbered(w.p, w.a, i)
  BY HoldersLive DEF Sound, Live
<1>2. w.p.unsent \in Seq(W) /\ w.p.unacked \in Seq(W)
      /\ (Has(w.p.unsent, R) \/ Has(w.p.unacked, R))
  BY <1>1 DEF Numbered
<1>3. unsent \in Seq(W) /\ Len(unsent) = Len(w.p.unacked) + Len(w.p.unsent)
  <2> HIDE DEF W
  <2> QED
    BY <1>2, JoinKeeps
<1>4. Has(unsent, R)
  <2> HIDE DEF R, W
  <2> QED
    BY <1>2, JoinKeeps
<1>5. v = [w EXCEPT !.p = q]
  BY <1>1 DEF RexmitRto, Typed
<1> HIDE DEF v, q, unsent, W, R, top
<1>6. v.p = q /\ v.a = w.a /\ v.listen = w.listen /\ v.out = w.out
      /\ v.data = w.data /\ v.flag = w.flag /\ DOMAIN v = DOMAIN w
  BY <1>1, <1>5 DEF Typed
<1>7. /\ DOMAIN q = DOMAIN w.p
      /\ q.unsent = unsent /\ q.unacked = <<>> /\ q.rtime = TRUE
      /\ q.state = w.p.state /\ q.snd_lbb = w.p.snd_lbb
      /\ q.lastack = w.p.lastack /\ q.snd_nxt = w.p.snd_nxt
      /\ q.rxclosed = w.p.rxclosed /\ q.closepend = w.p.closepend
  BY <1>1, Fields DEF q, Typed, TypedPcb
<1>8. Typed(v)
  <2>1. TypedPcb(q)
    <3>1. TypedPcb(w.p)
      BY <1>1 DEF Typed
    <3> QED
      BY <3>1, Fields DEF TypedPcb, q
  <2> QED
    BY <1>1, <1>6, <2>1 DEF Typed
<1>9. Kept(w, v)
  BY <1>6, <1>7 DEF Kept
<1>10. Opening(v.p, i)
  <2> SUFFICES ASSUME w.p.state = "SYN_SENT"
               PROVE  /\ Minus(w.p.lastack, i) < Minus(w.p.snd_nxt, i)
                      /\ Len(unsent) + Len(q.unacked) = 1
                      /\ unsent \in Seq(NoData) /\ q.unacked \in Seq(NoData)
    BY <1>6, <1>7 DEF Opening
  <2>1. /\ Minus(w.p.lastack, i) < Minus(w.p.snd_nxt, i)
        /\ Len(w.p.unsent) + Len(w.p.unacked) = 1
        /\ w.p.unsent \in Seq(NoData) /\ w.p.unacked \in Seq(NoData)
    BY DEF Sound, Opening
  <2>2. unsent \in Seq(NoData)
    BY <2>1, JoinKeeps DEF unsent
  <2>3. Len(q.unacked) = 0 /\ q.unacked \in Seq(NoData)
    BY <1>7, EmptySeq
  <2>4. Len(w.p.unsent) \in Nat /\ Len(w.p.unacked) \in Nat
    BY <2>1, LenProperties
  <2>5. Len(unsent) + Len(q.unacked) = 1
    <3>1. PICK a, b \in Nat : a = Len(w.p.unsent) /\ b = Len(w.p.unacked)
      BY <2>4
    <3>2. a + b = 1 /\ Len(unsent) = b + a
      BY <1>3, <2>1, <3>1
    <3>4. b + a = 1
      BY <3>2
    <3>3. Len(unsent) = 1
      BY <3>2, <3>4, Zenon
    <3> QED
      BY <2>3, <3>3
  <2> QED
    BY <2>1, <2>2, <2>3, <2>5
<1>11. Minus(w.p.lastack, i) <= Minus(w.p.snd_nxt, i) /\ Minus(w.p.snd_nxt, i) <= top
  BY <1>1 DEF Numbered, top
<1>12. ~HoldsNothing(v.p)
  <2>1. PICK k \in 1 .. Len(unsent) : TRUE
    BY <1>4 DEF Has
  <2>2. ASSUME unsent = <<>> PROVE FALSE
    <3>1. Len(unsent) = 0
      BY <2>2, EmptySeq
    <3> QED
      BY <2>1, <3>1
  <2> QED
    BY <1>6, <1>7, <2>2 DEF HoldsNothing
<1>13. v.p.unacked = <<>> /\ <<>> \in Seq(Within(i, top))
  BY <1>6, <1>7, EmptySeq
<1>14. Sound(v, e, i)
  BY <1>1, <1>3, <1>4, <1>6, <1>7, <1>8, <1>9, <1>10, <1>11, <1>13, RequeuedSound
     DEF W, R, top
<1> QED
  BY <1>6, <1>7, <1>12, <1>14 DEF Moved, v

LEMMA RexmitSound ==
  ASSUME NEW e, NEW i \in SeqNos, NEW w, Sound(w, e, i), w.p.state # "SYN_SENT"
  PROVE  /\ Moved(w, Rexmit(w), e, i) /\ Rexmit(w).flag = w.flag
         /\ Rexmit(w).p.persist = w.p.persist
<1>1. CASE w.p.unacked = <<>>
  BY <1>1 DEF Rexmit, Moved
<1>2. CASE w.p.unacked # <<>>
  <2> DEFINE top == Top(w.p, w.a, i)
             s == Head(w.p.unacked)
             unsent == Insert(w.p.unsent, s)
             unacked == Tail(w.p.unacked)
             R == Reaching(i, Minus(w.p.snd_nxt, i))
             W == Within(i, top)
             q == [w.p EXCEPT !.unacked = unacked, !.unsent = unsent, !.nrtx = @ + 1]
             v == Rexmit(w)
  <2>1. /\ Typed(w) /\ Live(w.p) /\ Numbered(w.p, w.a, i)
        /\ w.p.rtime /\ ~w.p.persist
    BY <1>2, HoldersLive DEF Sound, Live, HoldsNothing, Timed
  <2>2. w.p.unsent \in Seq(W) /\ w.p.unacked \in Seq(W)
        /\ (Has(w.p.unsent, R) \/ Has(w.p.unacked, R))
    BY <1>2, <2>1 DEF Numbered, HoldsNothing
  <2>3. s \in W /\ unacked \in Seq(W) /\ (Has(w.p.unacked, R) => s \in R \/ Has(unacked, R))
    <3> HIDE DEF W, R
    <3> QED
      BY <1>2, <2>2, TailKeeps
  <2>4. /\ unsent \in Seq(W) /\ Len(unsent) = Len(w.p.unsent) + 1
        /\ Has(w.p.unsent, R) \/ s \in R => Has(unsent, R)
    <3> HIDE DEF W, R, s
    <3> QED
      BY <2>2, <2>3, InsertKeeps
  <2>5. v = [w EXCEPT !.p = q]
    BY <1>2, <2>1 DEF Rexmit, Typed
  <2> HIDE DEF v, q, unsent, unacked, s, W, R, top
  <2>6. v.p = q /\ v.a = w.a /\ v.listen = w.listen /\ v.out = w.out
        /\ v.data = w.data /\ v.flag = w.flag /\ DOMAIN v = DOMAIN w
    BY <2>1, <2>5 DEF Typed
  <2>7. /\ q.unsent = unsent /\ q.unacked = unacked /\ q.rtime = w.p.rtime
        /\ q.persist = w.p.persist
        /\ q.state = w.p.state /\ q.snd_lbb = w.p.snd_lbb
        /\ q.lastack = w.p.lastack /\ q.snd_nxt = w.p.snd_nxt
        /\ q.rxclosed = w.p.rxclosed /\ q.closepend = w.p.closepend
    BY <2>1, Fields DEF q, Typed, TypedPcb
  <2>8. Typed(v)
    <3>1. TypedPcb(q)
      <4>1. TypedPcb(w.p)
        BY <2>1 DEF Typed
      <4> QED
        BY <4>1, Fields DEF TypedPcb, q
    <3> QED
      BY <2>1, <2>6, <3>1 DEF Typed
  <2>9. Kept(w, v) /\ Opening(v.p, i)
    BY <2>6, <2>7 DEF Kept, Opening
  <2>10. Minus(w.p.lastack, i) <= Minus(w.p.snd_nxt, i) /\ Minus(w.p.snd_nxt, i) <= top
    BY <2>1 DEF Numbered, top
  <2>11. unsent # <<>>
    <3>1. Len(w.p.unsent) \in Nat
      BY <2>2, LenProperties
    <3> QED
      BY <2>4, <3>1, EmptySeq
  <2>12. Has(unsent, R) \/ Has(unacked, R)
    BY <2>2, <2>3, <2>4
  <2>13. Sound(v, e, i)
    BY <2>1, <2>3, <2>4, <2>6, <2>7, <2>8, <2>9, <2>10, <2>12, RequeuedSound
       DEF W, R, top
  <2> QED
    BY <2>6, <2>7, <2>11, <2>13 DEF Moved, HoldsNothing, v
<1> QED
  BY <1>1, <1>2

LEMMA RexmitFastSound ==
  ASSUME NEW e, NEW i \in SeqNos, NEW w, Sound(w, e, i), w.p.state # "SYN_SENT"
  PROVE  Moved(w, RexmitFast(w), e, i) /\ RexmitFast(w).flag = w.flag
<1>1. CASE w.p.unacked = <<>> \/ w.p.infr
  BY <1>1 DEF RexmitFast, Moved
<1>2. CASE ~(w.p.unacked = <<>> \/ w.p.infr)
  <2> DEFINE u == Rexmit(w)
             v == [u EXCEPT !.p.infr = TRUE, !.p.rtime = TRUE]
  <2>1. Moved(w, u, e, i) /\ u.flag = w.flag /\ Typed(u) /\ ~u.p.persist
    <3>1. Moved(w, u, e, i) /\ u.flag = w.flag /\ u.p.persist = w.p.persist
      BY RexmitSound
    <3>2. w.p.persist \in BOOLEAN /\ ~w.p.persist
      BY <1>2 DEF Sound, Timed, HoldsNothing, Typed, TypedPcb
    <3> HIDE DEF u
    <3> QED
      BY <3>1, <3>2 DEF Moved, Sound
  <2>2. RexmitFast(w) = v
    BY <1>2 DEF RexmitFast
  <2> HIDE DEF u
  <2>3. Typed(v) /\ v.flag = u.flag
    BY <2>1, Fields DEF Typed, TypedPcb
  <2>4. /\ v.p.state = u.p.state
        /\ v.p.unsent = u.p.unsent /\ v.p.unacked = u.p.unacked
        /\ v.p.lastack = u.p.lastack /\ v.p.snd_nxt = u.p.snd_nxt
        /\ v.p.snd_lbb = u.p.snd_lbb /\ v.p.rtime /\ ~v.p.persist
        /\ v.p.rxclosed = u.p.rxclosed /\ v.p.closepend = u.p.closepend
        /\ v.a = u.a /\ v.listen = u.listen
    BY <2>1, Fields DEF Typed, TypedPcb
  <2> HIDE DEF v
  <2>5. Sound(v, e, i)
    BY <2>1, <2>3, <2>4
       DEF Moved, Sound, Numbered, Top, Opening, Timed, Closing, HoldsNothing
  <2> QED
    BY <2>1, <2>2, <2>3, <2>4, <2>5 DEF Moved, HoldsNothing
<1> QED
  BY <1>1, <1>2

LEMMA ZeroWindowProbeSound ==
  ASSUME NEW e, NEW i \in SeqNos, NEW w, Sound(w, e, i)
  PROVE  LET u == ZeroWindowProbe(w)
         IN  /\ Moved(w, u, e, i) /\ u.p.persist = w.p.persist
             /\ u.p.unsent = w.p.unsent /\ u.p.unacked = w.p.unacked
             /\ u.p.lastack = w.p.lastack
<1>1. CASE w.p.unsent = <<>>
  BY <1>1 DEF ZeroWindowProbe, Moved
<1>2. CASE w.p.unsent # <<>>
  <2> DEFINE top == Top(w.p, w.a, i)
             s == Head(w.p.unsent)
             probe == IF s.data = <<>> THEN s
                      ELSE [s EXCEPT !.data = SubSeq(@, 1, 1), !.fin = FALSE]
             t == [probe EXCEPT !.syn = FALSE]
             x == OnWire(w.p, t)
             num == Plus(s.seq, 1)
             nxt == Later(w.p.snd_nxt, num)
             edge == Plus(w.p.rcv_nxt, w.p.rcv_ann_wnd)
             q == [w.p EXCEPT !.probes = @ + 1, !.snd_nxt = nxt,
                              !.rcv_ann_right_edge = edge]
             v == [w EXCEPT !.p.probes = @ + 1, !.p.snd_nxt = nxt,
                            !.p.rcv_ann_right_edge = edge]
             W == Within(i, top)
  <2>1. Typed(w) /\ Live(w.p) /\ Numbered(w.p, w.a, i)
    BY <1>2, HoldersLive DEF Sound, Live, HoldsNothing
  <2>2. w.p.unsent \in Seq(W) /\ w.p.unacked \in Seq(W)
    BY <2>1 DEF Numbered
  <2>3. s \in W /\ s = w.p.unsent[1] /\ 1 \in 1 .. Len(w.p.unsent)
    <3> HIDE DEF W
    <3>1. Len(w.p.unsent) \in Nat \ {0}
      BY <1>2, <2>2, EmptySeq
    <3> QED
      BY <1>2, <2>2, <3>1, TailKeeps
  <2>4. /\ s \in Segs /\ TcpLen(s) \in Nat \ {0} /\ Minus(s.seq, i) \in Nat
        /\ EndOf(s, i) \in Nat /\ EndOf(s, i) <= top /\ EndOf(s, i) < Half
    <3> HIDE DEF s
    <3> QED
      BY <2>1, <2>3, HeldSegment
  <2>5. t \in Segs /\ ~t.syn
    <3> HIDE DEF s
    <3>1. s.data \in Seq(Nat)
      BY <2>4 DEF Segs
    <3>2. s.data # <<>> => SubSeq(s.data, 1, 1) \in Seq(Nat)
      <4>1. s.data # <<>> => 1 \in 1 .. Len(s.data) + 1 /\ 1 \in 1 - 1 .. Len(s.data)
        BY <3>1, EmptySeq
      <4> QED
        BY <3>1, <4>1, PartOf
    <3>3. probe \in Segs
      BY <2>4, <3>1, <3>2 DEF Segs
    <3> HIDE DEF probe
    <3> QED
      BY <3>3 DEF Segs
  <2>6. x \in WireSegs
    <3> HIDE DEF t
    <3> QED
      BY <2>1, <2>5, OnWireTyped DEF Typed
  <2>7. num \in SeqNos /\ Minus(num, i) = Minus(s.seq, i) + 1
        /\ Minus(num, i) <= EndOf(s, i)
    <3> HIDE DEF s
    <3>1. s.seq \in SeqNos /\ Minus(s.seq, i) + 1 <= EndOf(s, i)
      BY <2>4 DEF Segs, EndOf
    <3>2. Minus(s.seq, i) + 1 < SeqSpace
      BY <2>4, <3>1, Space
    <3>3. num \in SeqNos /\ Minus(num, i) = Minus(s.seq, i) + 1
      BY <3>1, <3>2, OffsetPlus
    <3> QED
      BY <3>1, <3>3
  <2>8. /\ nxt \in SeqNos /\ nxt \in {w.p.snd_nxt, num}
        /\ Minus(w.p.snd_nxt, i) <= Minus(nxt, i)
        /\ Minus(nxt, i) \in Nat /\ Minus(nxt, i) <= top
    <3>1. w.p.snd_nxt \in SeqNos
      BY <2>1 DEF Typed, TypedPcb
    <3>2. Minus(w.p.snd_nxt, i) \in Nat /\ Minus(w.p.snd_nxt, i) < Half
          /\ Minus(w.p.snd_nxt, i) <= top /\ top \in Nat
      BY <2>1, Places DEF Numbered
    <3>3. Minus(num, i) \in Nat /\ Minus(num, i) < Half /\ Minus(num, i) <= top
      <4> HIDE DEF num, s, top
      <4>1. Half \in Nat
        BY Space
      <4> QED
        BY <2>4, <2>7, <3>2, <4>1
    <3> HIDE DEF num, top
    <3>4. nxt \in {w.p.snd_nxt, num} /\ Minus(w.p.snd_nxt, i) <= Minus(nxt, i)
      BY <2>7, <3>1, <3>2, <3>3, LaterOf
    <3> HIDE DEF nxt
    <3> QED
      BY <2>7, <3>1, <3>2, <3>3, <3>4
  <2>9. edge \in SeqNos
    <3>1. w.p.rcv_nxt \in Int /\ w.p.rcv_ann_wnd \in Int
      BY <2>1 DEF Typed, TypedPcb, SeqNos
    <3> QED
      BY <3>1, Numbers
  <2>10. ZeroWindowProbe(w) = Sends(v, x)
    BY <1>2 DEF ZeroWindowProbe
  <2>11. v = [w EXCEPT !.p = q]
    BY <2>1 DEF Typed
  <2> HIDE DEF v, q, nxt, edge, x, num, s, t, probe
  <2>12. v.p = q /\ v.a = w.a /\ v.listen = w.listen /\ v.out = w.out
         /\ v.data = w.data /\ DOMAIN v = DOMAIN w
    BY <2>1, <2>11 DEF Typed
  <2>13. /\ q.unsent = w.p.unsent /\ q.unacked = w.p.unacked
         /\ q.rtime = w.p.rtime /\ q.persist = w.p.persist
         /\ q.state = w.p.state /\ q.snd_lbb = w.p.snd_lbb
         /\ q.lastack = w.p.lastack /\ q.snd_nxt = nxt
         /\ q.rxclosed = w.p.rxclosed /\ q.closepend = w.p.closepend
    BY <2>1, Fields DEF q, Typed, TypedPcb
  <2>14. Typed(v)
    <3>1. TypedPcb(q)
      <4>1. TypedPcb(w.p)
        BY <2>1 DEF Typed
      <4> QED
        BY <2>8, <2>9, <4>1, Fields DEF TypedPcb, q
    <3> QED
      BY <2>1, <2>12, <3>1 DEF Typed
  <2>15. Kept(w, v)
    BY <2>12, <2>13 DEF Kept
  <2>16. Minus(w.p.lastack, i) \in Nat /\ Minus(w.p.snd_nxt, i) \in Nat
         /\ Minus(w.p.lastack, i) <= Minus(w.p.snd_nxt, i)
    BY <2>1, Places DEF Numbered
  <2>17. Minus(w.p.lastack, i) <= Minus(nxt, i)
    BY <2>8, <2>16
  <2>18. Opening(v.p, i)
    <3>1. Minus(w.p.lastack, i) < Minus(w.p.snd_nxt, i)
            => Minus(w.p.lastack, i) < Minus(nxt, i)
      BY <2>8, <2>16
    <3> QED
      BY <2>12, <2>13, <3>1 DEF Sound, Opening
  <2>19. Has(w.p.unsent, Reaching(i, Minus(nxt, i)))
         \/ Has(w.p.unacked, Reaching(i, Minus(nxt, i)))
    <3>1. CASE nxt = w.p.snd_nxt
      BY <1>2, <2>1, <3>1 DEF Numbered, HoldsNothing
    <3>2. CASE nxt = num
      <4>1. w.p.unsent[1] \in Reaching(i, Minus(nxt, i))
        BY <2>3, <2>4, <2>7, <3>2 DEF Reaching
      <4> QED
        BY <2>3, <4>1 DEF Has
    <3> QED
      BY <2>8, <3>1, <3>2
  <2>20. v.p.unacked # <<>> => v.p.rtime /\ ~v.p.persist
    BY <2>1, <2>12, <2>13 DEF Sound, Timed, Live
  <2>21. Sound(v, e, i)
    <3> HIDE DEF W, top
    <3> QED
      BY <2>1, <2>2, <2>8, <2>12, <2>13, <2>14, <2>15, <2>17, <2>18, <2>19, <2>20,
         RequeuedSound DEF W, top
  <2>22. Sound(Sends(v, x), e, i) /\ Sends(v, x).p = v.p /\ Sends(v, x).a = v.a
    BY ZenonT(30), <2>6, <2>14, <2>21, SendsTyped, SameSound DEF Sends, Typed
  <2> QED
    BY <2>10, <2>12, <2>13, <2>22 DEF Moved, HoldsNothing
<1> QED
  BY <1>1, <1>2

\* The head of unsent is cut in two for a window that has room for n bytes.
LEMMA SplitSound ==
  ASSUME NEW e, NEW i \in SeqNos, NEW w, Sound(w, e, i), w.p.unsent # <<>>,
         NEW n \in Nat \ {0}
  PROVE  Moved(w, [w EXCEPT !.p.unsent = Split(@, n)], e, i)
<1> DEFINE s == Head(w.p.unsent)
           top == Top(w.p, w.a, i)
           R == Reaching(i, Minus(w.p.snd_nxt, i))
           W == Within(i, top)
           unsent == Split(w.p.unsent, n)
           q == [w.p EXCEPT !.unsent = unsent]
           v == [w EXCEPT !.p.unsent = unsent]
<1>1. Typed(w) /\ Live(w.p) /\ Numbered(w.p, w.a, i)
  BY HoldersLive DEF Sound, Live, HoldsNothing
<1>2. w.p.unsent \in Seq(W) /\ w.p.unacked \in Seq(W)
      /\ (Has(w.p.unsent, R) \/ Has(w.p.unacked, R))
  BY <1>1 DEF Numbered, HoldsNothing
<1>3. s \in W /\ Tail(w.p.unsent) \in Seq(W) /\ w.p.unsent \in Seq(W)
      /\ (Has(w.p.unsent, R) => s \in R \/ Has(Tail(w.p.unsent), R))
  <2> HIDE DEF W, R
  <2> QED
    BY <1>2, TailKeeps
<1>4. v = [w EXCEPT !.p = q]
  BY <1>1 DEF Typed
<1>5. /\ v.p = q /\ v.a = w.a /\ v.listen = w.listen /\ v.out = w.out
      /\ v.data = w.data /\ DOMAIN v = DOMAIN w
  <2> HIDE DEF q, v
  <2> QED
    BY <1>1, <1>4 DEF Typed
<1>6. /\ q.unsent = unsent /\ q.unacked = w.p.unacked
      /\ q.rtime = w.p.rtime /\ q.persist = w.p.persist
      /\ q.state = w.p.state /\ q.snd_lbb = w.p.snd_lbb
      /\ q.lastack = w.p.lastack /\ q.snd_nxt = w.p.snd_nxt
      /\ q.rxclosed = w.p.rxclosed /\ q.closepend = w.p.closepend
  <2> HIDE DEF unsent
  <2> QED
    BY <1>1, Fields DEF Typed, TypedPcb
<1>7. Typed(v)
  <2>1. TypedPcb(q)
    <3>1. TypedPcb(w.p)
      BY <1>1 DEF Typed
    <3> HIDE DEF unsent
    <3> QED
      BY <3>1, Fields DEF TypedPcb
  <2> HIDE DEF q, v
  <2> QED
    BY <1>1, <1>5, <2>1 DEF Typed
<1> HIDE DEF q, v
<1>8. CASE Len(s.data) <= n
  <2>1. unsent = w.p.unsent
    BY <1>8 DEF Split
  <2> HIDE DEF unsent
  <2>2. Same(w, v)
    BY <1>5, <1>6, <2>1 DEF Same
  <2> QED
    BY <1>5, <1>6, <1>7, <2>1, <2>2, SameSound DEF Moved, HoldsNothing, v, unsent
<1>9. CASE ~(Len(s.data) <= n)
  <2> DEFINE d1 == SubSeq(s.data, 1, n)
             d2 == SubSeq(s.data, n + 1, Len(s.data))
             a == [s EXCEPT !.data = d1, !.fin = FALSE]
             b == QueuedSeg(Plus(s.seq, n), d2, FALSE, s.fin)
  <2>1. unsent = <<a, b>> \o Tail(w.p.unsent)
    BY <1>9 DEF Split
  <2>2. /\ s \in Segs /\ (s.syn => s.data = <<>> /\ ~s.fin)
        /\ Len(s.data) <= TCP_MSS /\ TCP_MSS \in Nat
        /\ TcpLen(s) \in Nat \ {0} /\ Minus(s.seq, i) \in Nat
        /\ EndOf(s, i) \in Nat /\ EndOf(s, i) <= top /\ EndOf(s, i) < Half
    <3> HIDE DEF s
    <3>1. TCP_MSS \in Nat
      BY TcpAssumption
    <3> QED
      BY <1>1, <1>3, <3>1, HeldSegment
  <2> HIDE DEF s, unsent
  <2>3. /\ s.seq \in SeqNos /\ s.data \in Seq(Nat)
        /\ s.syn \in BOOLEAN /\ s.fin \in BOOLEAN /\ Len(s.data) \in Nat
    BY <2>2, LenProperties DEF Segs
  <2>4. n < Len(s.data) /\ s.data # <<>> /\ ~s.syn
    <3>1. n < Len(s.data)
      BY <1>9, <2>3
    <3>2. s.data # <<>>
      BY <2>3, <3>1, EmptySeq
    <3> QED
      BY <2>2, <2>3, <3>1, <3>2
  <2>5. d1 \in Seq(Nat) /\ Len(d1) = n
    <3>1. 1 \in 1 .. Len(s.data) + 1 /\ n \in 1 - 1 .. Len(s.data)
      BY <2>3, <2>4
    <3>2. d1 \in Seq(Nat) /\ Len(d1) = n - 1 + 1
      BY <2>3, <3>1, PartOf
    <3> QED
      BY <3>2
  <2>6. d2 \in Seq(Nat) /\ Len(d2) = Len(s.data) - n
    <3>1. n + 1 \in 1 .. Len(s.data) + 1 /\ Len(s.data) \in (n + 1) - 1 .. Len(s.data)
      BY <2>3, <2>4
    <3>2. d2 \in Seq(Nat) /\ Len(d2) = Len(s.data) - (n + 1) + 1
      BY SMTT(30), <2>3, <3>1, PartOf
    <3> QED
      BY <2>3, <3>2
  <2>7. s.fin => TcpLen(s) = Len(s.data) + 1
    BY <2>3, Length
  <2>8. ~s.fin => TcpLen(s) = Len(s.data)
    BY <2>3, <2>4, Length
  <2> HIDE DEF d1, d2
  <2>9. a \in W /\ EndOf(a, i) = Minus(s.seq, i) + n
    <3>1. a \in Segs /\ ~a.syn /\ ~a.fin /\ a.data = d1 /\ a.seq = s.seq
      BY <2>2, <2>4, <2>5 DEF Segs
    <3> HIDE DEF a
    <3>2. TcpLen(a) = n
      <4>1. /\ a.seq \in SeqNos /\ a.data \in Seq(Nat)
            /\ a.syn \in BOOLEAN /\ a.fin \in BOOLEAN
        BY <3>1 DEF Segs
      <4> QED
        BY <2>5, <3>1, <4>1, Length
    <3>3. EndOf(a, i) = Minus(s.seq, i) + n
      BY <3>1, <3>2 DEF EndOf
    <3>4. EndOf(s, i) = Minus(s.seq, i) + TcpLen(s)
      BY DEF EndOf
    <3>5. top \in Nat
      BY <1>1, Places
    <3>6. EndOf(a, i) <= top
      <4> HIDE DEF top
      <4> QED
        BY SMTT(30), <2>2, <2>3, <2>4, <2>7, <2>8, <3>3, <3>4, <3>5
    <3>7. Len(a.data) <= TCP_MSS
      BY <2>2, <2>3, <2>4, <2>5, <3>1
    <3> QED
      BY <3>1, <3>2, <3>3, <3>6, <3>7 DEF Within
  <2>10. b \in W /\ EndOf(b, i) = EndOf(s, i)
    <3> DEFINE num == Plus(s.seq, n)
    <3>1. EndOf(s, i) = Minus(s.seq, i) + TcpLen(s)
      BY DEF EndOf
    <3>2. Minus(s.seq, i) + n < SeqSpace
      BY SMTT(30), <2>2, <2>3, <2>4, <2>7, <2>8, <3>1, Space
    <3>3. num \in SeqNos /\ Minus(num, i) = Minus(s.seq, i) + n
      BY <2>3, <3>2, OffsetPlus
    <3> HIDE DEF num
    <3>4. b \in Segs /\ ~b.syn /\ b.fin = s.fin /\ b.data = d2 /\ b.seq = num
      BY <2>3, <2>6, <3>3 DEF Segs, QueuedSeg, num
    <3> HIDE DEF b
    <3>5. /\ b.seq \in SeqNos /\ b.data \in Seq(Nat)
          /\ b.syn \in BOOLEAN /\ b.fin \in BOOLEAN
      BY <3>4 DEF Segs
    <3>6. s.fin => TcpLen(b) = (Len(s.data) - n) + 1
      BY <2>6, <3>4, <3>5, Length
    <3>7. ~s.fin => TcpLen(b) = Len(s.data) - n
      BY <2>6, <3>4, <3>5, Length
    <3>8. TcpLen(b) = TcpLen(s) - n /\ TcpLen(b) > 0
      <4>1. CASE s.fin
        BY <2>3, <2>4, <2>7, <3>6, <4>1
      <4>2. CASE ~s.fin
        BY <2>3, <2>4, <2>8, <3>7, <4>2
      <4> QED
        BY <4>1, <4>2
    <3>9. EndOf(b, i) = (Minus(s.seq, i) + n) + (TcpLen(s) - n)
      BY <3>3, <3>4, <3>8 DEF EndOf
    <3>10. EndOf(b, i) = EndOf(s, i)
      BY <2>2, <3>1, <3>9
    <3>11. Len(b.data) <= TCP_MSS
      BY <2>2, <2>3, <2>6, <3>4
    <3> QED
      BY <2>2, <3>4, <3>8, <3>10, <3>11 DEF Within
  <2>11. s \in R => b \in R
    BY <2>10 DEF Reaching, Within
  <2> HIDE DEF a, b, W, R
  <2>12. /\ <<a, b>> \in Seq(W) /\ Len(<<a, b>>) = 2
         /\ s \in R => Has(<<a, b>>, R)
    <3>1. <<a, b>> \in Seq(W) /\ Len(<<a, b>>) = 2 /\ <<a, b>>[2] = b
      BY <2>9, <2>10
    <3> QED
      BY <2>11, <3>1 DEF Has
  <2>13. unsent \in Seq(W) /\ Len(unsent) = 2 + Len(Tail(w.p.unsent))
         /\ (Has(w.p.unsent, R) => Has(unsent, R))
    <3> DEFINE h == <<a, b>>
               t == Tail(w.p.unsent)
    <3>1. /\ h \in Seq(W) /\ Len(h) = 2 /\ (s \in R => Has(h, R))
          /\ t \in Seq(W) /\ (Has(w.p.unsent, R) => s \in R \/ Has(t, R))
          /\ unsent = h \o t
      BY <1>3, <2>1, <2>12
    <3> HIDE DEF h, t
    <3>2. unsent \in Seq(W) /\ Len(unsent) = Len(h) + Len(t)
      BY <3>1, JoinKeeps
    <3>3. Has(h, R) \/ Has(t, R) => Has(unsent, R)
      BY <3>1, JoinKeeps
    <3> QED
      BY <3>1, <3>2, <3>3 DEF t
  <2>14. unsent # <<>>
    <3>1. Len(Tail(w.p.unsent)) \in Nat
      BY <1>3, LenProperties
    <3> QED
      BY <2>13, <3>1, EmptySeq
  <2>15. w.p.state # "SYN_SENT"
    <3>1. ASSUME w.p.state = "SYN_SENT" PROVE FALSE
      <4>1. w.p.unsent \in Seq(NoData)
        BY <3>1 DEF Sound, Opening
      <4>2. s \in NoData
        BY <4>1, TailKeeps DEF s
      <4> QED
        BY <2>4, <4>2 DEF NoData
    <3> QED
      BY <3>1
  <2>16. Opening(v.p, i) /\ Kept(w, v)
    BY <1>5, <1>6, <2>15 DEF Opening, Kept
  <2>17. Minus(w.p.lastack, i) <= Minus(w.p.snd_nxt, i) /\ Minus(w.p.snd_nxt, i) <= top
    BY <1>1 DEF Numbered
  <2>18. v.p.unacked # <<>> => v.p.rtime /\ ~v.p.persist
    BY <1>1, <1>5, <1>6 DEF Sound, Timed, Live
  <2> HIDE DEF top
  <2>19. Sound(v, e, i)
    BY <1>1, <1>2, <1>5, <1>6, <1>7, <2>13, <2>16, <2>17, <2>18, RequeuedSound
       DEF W, R, top
  <2> QED
    BY <1>5, <1>6, <2>14, <2>19 DEF Moved, HoldsNothing, v, unsent
<1> QED
  BY <1>8, <1>9

-----------------------------------------------------------------------------
(* New data and the FIN.                                                   *)

\* The stream grows, and what lay in it still does.
LEMMA WithinGrows ==
  ASSUME NEW i, NEW m \in Nat, NEW n \in Nat, m <= n,
         NEW q \in Seq(Within(i, m)), i \in SeqNos
  PROVE  q \in Seq(Within(i, n))
<1>1. ASSUME NEW s \in Within(i, m) PROVE s \in Within(i, n)
  <2>1. s \in Segs /\ EndOf(s, i) <= m
    BY DEF Within
  <2>2. EndOf(s, i) \in Nat
    BY <2>1, SegmentEnd
  <2>3. EndOf(s, i) <= n
    BY <2>1, <2>2
  <2> QED
    BY <2>3 DEF Within
<1> QED
  BY <1>1, SeqMonotonic

\* The last segment of a queue is replaced.
LEMMA LastReplaced ==
  ASSUME NEW S, NEW q \in Seq(S), q # <<>>, NEW r \in S
  PROVE  LET v == [q EXCEPT ![Len(q)] = r]
         IN  /\ v \in Seq(S) /\ v # <<>>
             /\ \A W : Has(q, W) /\ (Last(q) \in W => r \in W) => Has(v, W)
<1> DEFINE n == Len(q)
           v == [q EXCEPT ![n] = r]
<1>1. n \in Nat \ {0} /\ n \in 1 .. n
  BY EmptySeq
<1>2. /\ v \in Seq(S) /\ Len(v) = n
      /\ \A j \in 1 .. n : v[j] = IF j = n THEN r ELSE q[j]
  <2>1. n \in 1 .. Len(q)
    BY <1>1
  <2> QED
    BY <2>1, ExceptSeq
<1> HIDE DEF v
<1>3. v # <<>>
  BY <1>1, <1>2, EmptySeq
<1>4. ASSUME NEW W, Has(q, W), Last(q) \in W => r \in W PROVE Has(v, W)
  <2>1. PICK k \in 1 .. n : q[k] \in W
    BY <1>4 DEF Has
  <2>2. v[k] \in W
    BY <1>2, <1>4, <2>1 DEF Last
  <2> QED
    BY <1>2, <2>2 DEF Has
<1> QED
  BY <1>2, <1>3, <1>4 DEF v

\* The k-th piece of L bytes that are cut at every M-th begins before L.
LEMMA Pieces ==
  ASSUME NEW L \in Nat, NEW M \in Nat \ {0}, NEW k \in 1 .. (L + M - 1) \div M
  PROVE  /\ (k - 1) * M \in Nat /\ (k - 1) * M < L
         /\ k * M = (k - 1) * M + M
<1> DEFINE x == L + M - 1
           d == x \div M
<1>1. x \in Nat /\ d \in Int /\ M * d <= x
  BY SMT
<1> HIDE DEF d
<1>2. k \in Int /\ 1 <= k /\ k <= d
  BY <1>1 DEF d
<1>3. M * k <= M * d
  BY <1>1, <1>2, SMT
<1>4. k * M = M * k /\ k * M = (k - 1) * M + M
  BY <1>2, SMT
<1>5. (k - 1) * M \in Nat
  BY <1>2, SMT
<1>6. k * M <= L + M - 1
  <2>1. M * k \in Int /\ M * d \in Int
    BY <1>1, <1>2
  <2> QED
    BY <1>1, <1>3, <1>4, <2>1
<1>7. (k - 1) * M < L
  <2> DEFINE a == (k - 1) * M
  <2>1. a + M <= L + M - 1 /\ a \in Nat
    BY <1>4, <1>5, <1>6
  <2> HIDE DEF a
  <2>2. a < L
    BY <2>1
  <2> QED
    BY <2>2 DEF a
<1> QED
  BY <1>4, <1>5, <1>7

\* The segments new data is cut into lie in the stream behind what was there.
LEMMA CutUpKeeps ==
  ASSUME NEW i \in SeqNos, NEW seq \in SeqNos, NEW data \in Seq(Nat),
         NEW top \in Nat, top = Minus(seq, i), top + Len(data) < SeqSpace
  PROVE  /\ CutUp(data, seq) \in Seq(Within(i, top + Len(data)))
         /\ data # <<>> => CutUp(data, seq) # <<>> /\ Has(CutUp(data, seq), Reaching(i, top))
<1> DEFINE L == Len(data)
           M == TCP_MSS
           n == (L + M - 1) \div M
           q == CutUp(data, seq)
           part(k) == SubSeq(data, (k - 1) * M + 1, Lesser(L, k * M))
           s(k) == QueuedSeg(Plus(seq, (k - 1) * M), part(k), FALSE, FALSE)
<1>1. L \in Nat /\ M \in Nat \ {0}
  BY TcpAssumption, LenProperties
<1>2. n \in Nat /\ (L # 0 => n >= 1)
  <2> HIDE DEF L
  <2> QED
    BY <1>1, SMT
<1>3. q = [k \in 1 .. n |-> s(k)]
  BY DEF CutUp
<1>4. ASSUME NEW k \in 1 .. n
      PROVE  s(k) \in Within(i, top + L) /\ EndOf(s(k), i) >= top
  <2> DEFINE a == (k - 1) * M
             b == Lesser(L, k * M)
             d == SubSeq(data, a + 1, b)
             num == Plus(seq, a)
             t == QueuedSeg(num, d, FALSE, FALSE)
  <2>1. a \in Nat /\ a < L /\ k * M = a + M
    <3> HIDE DEF L
    <3> QED
      BY <1>1, Pieces
  <2> HIDE DEF a
  <2>2. b \in Nat /\ a < b /\ b <= L /\ b <= a + M
    <3> HIDE DEF L
    <3> QED
      BY <1>1, <2>1 DEF Lesser
  <2>10. s(k) = t
    BY DEF a
  <2> HIDE DEF b
  <2>3. d \in Seq(Nat) /\ Len(d) = b - a
    <3>1. a + 1 \in 1 .. Len(data) + 1 /\ b \in (a + 1) - 1 .. Len(data)
      BY <1>1, <2>1, <2>2
    <3>2. d \in Seq(Nat) /\ Len(d) = b - (a + 1) + 1
      BY <3>1, PartOf
    <3> QED
      BY <2>1, <2>2, <3>2
  <2>4. num \in SeqNos /\ Minus(num, i) = top + a
    <3>1. Minus(seq, i) + a < SeqSpace
      BY <1>1, <2>1, Space
    <3>2. num \in SeqNos /\ Minus(num, i) = Minus(seq, i) + a
      BY <2>1, <3>1, OffsetPlus
    <3> QED
      BY <3>2
  <2> HIDE DEF num, d
  <2>5. t \in Segs /\ ~t.syn /\ ~t.fin /\ t.data = d /\ t.seq = num
    BY <2>3, <2>4 DEF Segs, QueuedSeg
  <2> HIDE DEF t
  <2>6. TcpLen(t) = b - a
    <3>1. /\ t.seq \in SeqNos /\ t.data \in Seq(Nat)
          /\ t.syn \in BOOLEAN /\ t.fin \in BOOLEAN
      BY <2>5 DEF Segs
    <3> QED
      BY <2>3, <2>5, <3>1, Length
  <2>7. EndOf(t, i) = top + b
    <3>1. EndOf(t, i) = (top + a) + (b - a)
      BY <2>4, <2>5, <2>6 DEF EndOf
    <3> QED
      BY <2>1, <2>2, <3>1
  <2> HIDE DEF L
  <2>8. TcpLen(t) > 0 /\ Len(t.data) <= TCP_MSS /\ EndOf(t, i) <= top + L
        /\ EndOf(t, i) >= top
    BY SMTT(30), <1>1, <2>1, <2>2, <2>3, <2>5, <2>6, <2>7
  <2> QED
    BY <2>5, <2>8, <2>10 DEF Within
<1> HIDE DEF s, n, L
<1>5. q \in Seq(Within(i, top + L)) /\ Len(q) = n
  <2> DEFINE W == Within(i, top + L)
  <2>1. q \in [1 .. n -> W]
    BY <1>3, <1>4
  <2> HIDE DEF W, q
  <2>2. q \in Seq(W) /\ Len(q) = n
    BY <1>2, <2>1
  <2> QED
    BY <2>2 DEF W
<1>6. ASSUME data # <<>> PROVE q # <<>> /\ Has(q, Reaching(i, top))
  <2>1. n >= 1
    BY <1>2, <1>6, EmptySeq DEF L
  <2>2. 1 \in 1 .. n
    BY <1>2, <2>1
  <2>3. q[1] \in Reaching(i, top)
    <3>1. q[1] = s(1) /\ s(1) \in Segs /\ EndOf(s(1), i) >= top
      BY <1>3, <1>4, <2>2 DEF Within
    <3> QED
      BY <3>1 DEF Reaching
  <2> HIDE DEF q
  <2>4. q # <<>>
    BY <1>5, <2>1, EmptySeq
  <2> QED
    BY <1>5, <2>2, <2>3, <2>4 DEF Has
<1> QED
  BY <1>5, <1>6 DEF L

\* tcp_write's new unsent.
LEMMA EnqueuedKeeps ==
  ASSUME NEW i \in SeqNos, NEW p, NEW top \in Nat, p.snd_lbb \in SeqNos,
         top = Minus(p.snd_lbb, i), p.unsent \in Seq(Within(i, top)),
         NEW data \in Seq(Nat), data # <<>>, top + Len(data) < Half
  PROVE  /\ Enqueued(p, data) \in Seq(Within(i, top + Len(data)))
         /\ Enqueued(p, data) # <<>>
         /\ \A m \in 0 .. top :
              p.unsent = <<>> \/ Has(p.unsent, Reaching(i, m)) =>
                Has(Enqueued(p, data), Reaching(i, m))
<1> DEFINE q == p.unsent
           l == q[Len(q)]
           n == Lesser(Room(q), Len(data))
           d == SubSeq(data, 1, n)
           r == [l EXCEPT !.data = @ \o d]
           filled == IF n = 0 THEN q ELSE [q EXCEPT ![Len(q)].data = @ \o d]
           rest == SubSeq(data, n + 1, Len(data))
           new == CutUp(rest, Plus(p.snd_lbb, n))
           end == top + Len(data)
           W == Within(i, end)
<1>1. Len(data) \in Nat \ {0} /\ TCP_MSS \in Nat \ {0}
  BY TcpAssumption, EmptySeq
<1>2. ASSUME q # <<>>
      PROVE  /\ l \in Segs /\ TcpLen(l) \in Nat \ {0} /\ Len(l.data) \in Nat
             /\ (l.syn => l.data = <<>> /\ ~l.fin) /\ Len(l.data) <= TCP_MSS
             /\ EndOf(l, i) \in Nat /\ EndOf(l, i) <= top
             /\ Len(q) \in 1 .. Len(q)
  <2>1. Len(q) \in 1 .. Len(q)
    <3>1. Len(q) \in Nat \ {0}
      BY <1>2, EmptySeq
    <3> QED
      BY <3>1
  <2>2. l \in Within(i, top)
    BY <2>1, ElementOfSeq
  <2> HIDE DEF l
  <2>3. /\ l \in Segs /\ TcpLen(l) > 0 /\ (l.syn => l.data = <<>> /\ ~l.fin)
        /\ Len(l.data) <= TCP_MSS /\ EndOf(l, i) <= top
    BY <2>2 DEF Within
  <2>4. TcpLen(l) \in Nat /\ EndOf(l, i) \in Nat
    BY <2>3, SegmentEnd
  <2>5. Len(l.data) \in Nat
    BY <2>3, LenProperties DEF Segs
  <2> QED
    BY <2>1, <2>3, <2>4, <2>5
<1>3. /\ n \in Nat /\ n <= Len(data)
      /\ n # 0 => q # <<>> /\ l.data # <<>> /\ Len(l.data) + n <= TCP_MSS
  <2>1. CASE q = <<>> \/ l.data = <<>>
    <3>1. Room(q) = 0
      BY <2>1 DEF Room, Last
    <3> QED
      BY <1>1, <3>1 DEF Lesser
  <2>2. CASE q # <<>> /\ l.data # <<>>
    <3>1. Room(q) = TCP_MSS - Len(l.data)
      BY <2>2 DEF Room, Last
    <3> DEFINE room == Room(q)
               len == Len(data)
               old == Len(l.data)
    <3>2. old \in Nat /\ old <= TCP_MSS /\ room = TCP_MSS - old
      BY <1>2, <2>2, <3>1
    <3>3. n = IF room < len THEN room ELSE len
      BY DEF Lesser
    <3>4. len \in Nat
      BY <1>1
    <3> HIDE DEF room, len, old, n
    <3>5. n \in Nat /\ n <= len /\ old + n <= TCP_MSS
      BY <1>1, <3>2, <3>3, <3>4
    <3> QED
      BY <2>2, <3>5 DEF len, old
  <2> QED
    BY <2>1, <2>2
<1>4. q \in Seq(W)
  <2>1. end \in Nat /\ top <= end
    BY <1>1
  <2> HIDE DEF end
  <2> QED
    BY <2>1, WithinGrows
<1>5. rest \in Seq(Nat) /\ Len(rest) = Len(data) - n /\ (n < Len(data) => rest # <<>>)
  <2>1. n + 1 \in 1 .. Len(data) + 1 /\ Len(data) \in (n + 1) - 1 .. Len(data)
    BY <1>1, <1>3
  <2>2. rest \in Seq(Nat) /\ Len(rest) = Len(data) - (n + 1) + 1
    BY <2>1, PartOf
  <2> HIDE DEF rest, n
  <2>3. Len(rest) = Len(data) - n
    BY <1>1, <1>3, <2>2
  <2> QED
    BY <1>1, <1>3, <2>2, <2>3, EmptySeq
<1>6. /\ Plus(p.snd_lbb, n) \in SeqNos /\ Minus(Plus(p.snd_lbb, n), i) = top + n
      /\ top + n \in Nat
  <2> HIDE DEF n
  <2>1. top + n < SeqSpace
    BY <1>1, <1>3, Space
  <2> QED
    BY <1>3, <2>1, OffsetPlus
<1>7. /\ new \in Seq(W)
      /\ n < Len(data) => new # <<>> /\ Has(new, Reaching(i, top + n))
  <2> DEFINE seq == Plus(p.snd_lbb, n)
             start == top + n
  <2>1. seq \in SeqNos /\ start \in Nat /\ start = Minus(seq, i)
    BY <1>6
  <2>2. start + Len(rest) = end
    <3> HIDE DEF n, rest
    <3> QED
      BY <1>1, <1>3, <1>5
  <2>3. end < SeqSpace
    BY <1>1, Space
  <2> HIDE DEF seq, start, rest, end, n
  <2>4. /\ CutUp(rest, seq) \in Seq(Within(i, start + Len(rest)))
        /\ rest # <<>> => /\ CutUp(rest, seq) # <<>>
                          /\ Has(CutUp(rest, seq), Reaching(i, start))
    BY <1>5, <2>1, <2>2, <2>3, CutUpKeeps
  <2> QED
    BY <1>5, <2>2, <2>4 DEF seq, start
<1>8. /\ filled \in Seq(W) /\ (q # <<>> => filled # <<>>)
      /\ \A m : Has(q, Reaching(i, m)) /\ m \in Nat => Has(filled, Reaching(i, m))
  <2>1. CASE n = 0
    BY <1>4, <2>1
  <2>2. CASE n # 0
    <3>1. q # <<>> /\ l.data # <<>> /\ Len(l.data) + n <= TCP_MSS
      BY <1>3, <2>2
    <3>2. /\ l \in Segs /\ TcpLen(l) \in Nat \ {0} /\ Len(l.data) \in Nat
          /\ ~l.syn /\ EndOf(l, i) \in Nat /\ EndOf(l, i) <= top
          /\ Len(q) \in 1 .. Len(q)
      <4>1. l.syn => l.data = <<>>
        BY <1>2, <3>1
      <4> QED
        BY <1>2, <3>1, <4>1
    <3>3. d \in Seq(Nat) /\ Len(d) = n
      <4>1. 1 \in 1 .. Len(data) + 1 /\ n \in 1 - 1 .. Len(data)
        BY <1>1, <1>3
      <4>2. d \in Seq(Nat) /\ Len(d) = n - 1 + 1
        BY <4>1, PartOf
      <4> HIDE DEF n
      <4> QED
        BY <1>3, <4>2
    <3>4. filled = [q EXCEPT ![Len(q)] = r]
      <4>1. Len(q) \in DOMAIN q
        BY <3>2, <1>4
      <4> HIDE DEF n, d
      <4> QED
        BY <2>2, <4>1
    <3> HIDE DEF filled, n, d
    <3>5. /\ l.seq \in SeqNos /\ l.data \in Seq(Nat)
          /\ l.syn \in BOOLEAN /\ l.fin \in BOOLEAN
      BY <3>2 DEF Segs
    <3> DEFINE e == l.data \o d
    <3>6. e \in Seq(Nat) /\ Len(e) = Len(l.data) + n
      <4> HIDE DEF l
      <4> QED
        BY <3>3, <3>5, ConcatProperties
    <3>7. r = [l EXCEPT !.data = e]
      BY <3>2
    <3> HIDE DEF l, e, r
    <3>8. r \in Segs /\ r.seq = l.seq /\ r.data = e /\ r.fin = l.fin /\ ~r.syn
      BY <3>2, <3>6, <3>7 DEF Segs
    <3>9. TcpLen(r) = TcpLen(l) + n
      <4>1. /\ r.seq \in SeqNos /\ r.data \in Seq(Nat)
            /\ r.syn \in BOOLEAN /\ r.fin \in BOOLEAN
        BY <3>8 DEF Segs
      <4>2. CASE l.fin
        <5>1. TcpLen(r) = Len(e) + 1 /\ TcpLen(l) = Len(l.data) + 1
          BY <3>5, <3>8, <4>1, <4>2, Length
        <5> QED
          BY <1>3, <3>2, <3>6, <5>1
      <4>3. CASE ~l.fin
        <5>1. TcpLen(r) = Len(e) /\ TcpLen(l) = Len(l.data)
          BY <3>2, <3>5, <3>8, <4>1, <4>3, Length
        <5> QED
          BY <3>6, <5>1
      <4> QED
        BY <4>2, <4>3
    <3>10. EndOf(r, i) = EndOf(l, i) + n
      <4>1. Minus(l.seq, i) \in Nat
        BY <3>2, SegmentEnd
      <4>2. EndOf(r, i) = Minus(l.seq, i) + (TcpLen(l) + n)
            /\ EndOf(l, i) = Minus(l.seq, i) + TcpLen(l)
        BY <3>8, <3>9 DEF EndOf
      <4> QED
        BY <1>3, <3>2, <4>1, <4>2
    <3>11. EndOf(r, i) <= end /\ TcpLen(r) > 0 /\ Len(r.data) <= TCP_MSS
      <4>1. EndOf(r, i) <= end
        <5>1. EndOf(l, i) + n <= top + Len(data)
          BY <1>1, <1>3, <3>2
        <5> QED
          BY <3>10, <5>1
      <4>2. TcpLen(r) > 0
        BY <1>3, <3>2, <3>9
      <4>3. Len(r.data) <= TCP_MSS
        BY <3>1, <3>6, <3>8
      <4> QED
        BY <4>1, <4>2, <4>3
    <3>12. r \in W
      <4> HIDE DEF end
      <4> QED
        BY <3>8, <3>11 DEF Within
    <3>13. ASSUME NEW m \in Nat PROVE l \in Reaching(i, m) => r \in Reaching(i, m)
      BY <1>3, <3>2, <3>8, <3>10 DEF Reaching
    <3> HIDE DEF W, q
    <3>14. /\ filled \in Seq(W) /\ filled # <<>>
           /\ \A V : Has(q, V) /\ (Last(q) \in V => r \in V) => Has(filled, V)
      BY <1>4, <3>1, <3>4, <3>12, LastReplaced
    <3>15. Last(q) = l
      BY DEF Last, l
    <3> QED
      BY <3>13, <3>14, <3>15
  <2> QED
    BY <2>1, <2>2
<1>9. Enqueued(p, data) = filled \o new
  BY DEF Enqueued
<1>10. n < Len(data) \/ q # <<>>
  BY <1>1, <1>3
<1>11. ASSUME NEW m \in 0 .. top
       PROVE  n < Len(data) => Has(new, Reaching(i, m))
  <2>1. SUFFICES ASSUME n < Len(data) PROVE Has(new, Reaching(i, m))
    OBVIOUS
  <2>2. PICK k \in 1 .. Len(new) : new[k] \in Reaching(i, top + n)
    BY <1>7, <2>1 DEF Has
  <2> HIDE DEF new, n
  <2>3. new[k] \in Segs /\ EndOf(new[k], i) >= top + n
    BY <2>2 DEF Reaching
  <2>4. EndOf(new[k], i) \in Nat
    BY <2>3, SegmentEnd
  <2>5. EndOf(new[k], i) >= m
    BY <1>3, <2>3, <2>4
  <2> QED
    BY <2>2, <2>3, <2>5 DEF Has, Reaching
<1> HIDE DEF filled, new, W, n
<1>12. filled \o new \in Seq(W) /\ Len(filled \o new) = Len(filled) + Len(new)
       /\ Len(filled) \in Nat /\ Len(new) \in Nat
  BY <1>7, <1>8, JoinKeeps, LenProperties
<1>13. filled \o new # <<>>
  <2>1. Len(filled) # 0 \/ Len(new) # 0
    BY <1>7, <1>8, <1>10, EmptySeq
  <2> QED
    BY <1>12, <2>1, EmptySeq
<1>14. ASSUME NEW m \in 0 .. top, q = <<>> \/ Has(q, Reaching(i, m))
       PROVE  Has(filled \o new, Reaching(i, m))
  <2> DEFINE V == Reaching(i, m)
  <2>1. Has(filled, V) \/ Has(new, V)
    BY <1>8, <1>10, <1>11, <1>14
  <2> HIDE DEF V
  <2> QED
    BY <1>7, <1>8, <2>1, JoinKeeps DEF V
<1> QED
  BY <1>9, <1>12, <1>13, <1>14 DEF W

\* w after its program has written n bytes.
Written(w, n) ==
  [w EXCEPT !.a.wrote = @ + n, !.a.writes = @ + 1,
            !.p.unsent = Enqueued(w.p, Bytes(w.a.wrote, n)),
            !.p.snd_lbb = Plus(@, n)]

LEMMA WriteSound ==
  ASSUME NEW e, NEW i \in SeqNos, NEW w, Sound(w, e, i),
         w.p.state \in {"ESTABLISHED", "CLOSE_WAIT"},
         NEW n \in Nat \ {0}, w.a.wrote + n <= MaxStream
  PROVE  Sound(Written(w, n), e, i) /\ Written(w, n).p.state = w.p.state
<1> DEFINE data == Bytes(w.a.wrote, n)
           unsent == Enqueued(w.p, data)
           lbb == Plus(w.p.snd_lbb, n)
           top == Top(w.p, w.a, i)
           end == top + n
           m == Minus(w.p.snd_nxt, i)
           q == [w.p EXCEPT !.unsent = unsent, !.snd_lbb = lbb]
           b == [w.a EXCEPT !.wrote = @ + n, !.writes = @ + 1]
           v == [w EXCEPT !.a.wrote = @ + n, !.a.writes = @ + 1,
                          !.p.unsent = unsent, !.p.snd_lbb = lbb]
<1>1. /\ Typed(w) /\ Numbered(w.p, w.a, i) /\ w.p.state \in Open
      /\ Timed(w.p)
  BY DEF Sound, Open
<1>2. data \in Seq(Nat) /\ Len(data) = n /\ data # <<>>
  <2>1. w.a.wrote \in Nat
    BY <1>1, Space DEF Typed
  <2>2. data = [k \in 1 .. n |-> w.a.wrote + k]
    BY DEF Bytes
  <2>3. data \in [1 .. n -> Nat]
    BY <2>1, <2>2
  <2> HIDE DEF data
  <2>4. data \in Seq(Nat) /\ Len(data) = n
    BY <2>3
  <2> QED
    BY <2>4, EmptySeq
<1>3. /\ top \in Nat /\ m \in Nat /\ top = Minus(w.p.snd_lbb, i) /\ w.p.snd_lbb \in SeqNos
      /\ top <= w.a.wrote + 1 /\ w.a.wrote \in Nat
  <2>1. top \in Nat /\ m \in Nat
    BY <1>1, Places
  <2>2. w.p.snd_lbb \in SeqNos /\ w.a.wrote \in 0 .. MaxStream
    BY <1>1 DEF Typed, TypedPcb
  <2> QED
    BY <1>1, <2>1, <2>2, Space DEF Numbered, Top
<1>4. end \in Nat /\ end < Half /\ end <= (w.a.wrote + n) + 1
  <2> HIDE DEF top
  <2> QED
    BY <1>3, Space
<1>5. /\ unsent \in Seq(Within(i, end)) /\ unsent # <<>>
      /\ \A k \in 0 .. top :
           w.p.unsent = <<>> \/ Has(w.p.unsent, Reaching(i, k)) =>
             Has(unsent, Reaching(i, k))
  <2>1. w.p.unsent \in Seq(Within(i, top))
    BY <1>1 DEF Numbered
  <2> DEFINE p == w.p
  <2>2. p.snd_lbb \in SeqNos /\ top = Minus(p.snd_lbb, i) /\ p.unsent \in Seq(Within(i, top))
        /\ top + Len(data) < Half
    BY <1>2, <1>3, <1>4, <2>1
  <2> HIDE DEF top, data, p
  <2>3. /\ Enqueued(p, data) \in Seq(Within(i, top + Len(data)))
        /\ Enqueued(p, data) # <<>>
        /\ \A k \in 0 .. top :
             p.unsent = <<>> \/ Has(p.unsent, Reaching(i, k)) =>
               Has(Enqueued(p, data), Reaching(i, k))
    BY <1>2, <1>3, <2>2, EnqueuedKeeps
  <2> QED
    BY <1>2, <2>3 DEF p
<1>6. lbb \in SeqNos /\ Minus(lbb, i) = end
  <2> HIDE DEF top
  <2>1. Minus(w.p.snd_lbb, i) + n < SeqSpace
    BY <1>3, <1>4, Space
  <2>2. lbb \in SeqNos /\ Minus(lbb, i) = Minus(w.p.snd_lbb, i) + n
    BY <1>3, <2>1, OffsetPlus
  <2> QED
    BY <1>3, <2>2
<1>7. w.p.unacked \in Seq(Within(i, end))
  <2>1. w.p.unacked \in Seq(Within(i, top)) /\ top <= end
    <3>1. w.p.unacked \in Seq(Within(i, top))
      BY <1>1 DEF Numbered
    <3> HIDE DEF top
    <3> QED
      BY <1>3, <3>1
  <2> HIDE DEF top, end
  <2> QED
    BY <1>3, <1>4, <2>1, WithinGrows
<1>8. m \in 0 .. top /\ Minus(w.p.lastack, i) <= m
  BY <1>1, <1>3 DEF Numbered
<1>9. v = Written(w, n)
  BY DEF Written
<1>10. v = [w EXCEPT !.a = b, !.p = q]
  <2> HIDE DEF unsent, lbb
  <2> QED
    BY <1>1 DEF Typed
<1> HIDE DEF v, unsent, lbb, data
<1>11. v.p = q /\ v.a = b /\ v.listen = w.listen /\ v.out = w.out
       /\ v.data = w.data /\ DOMAIN v = DOMAIN w
  <2> HIDE DEF q, b
  <2> QED
    BY <1>1, <1>10 DEF Typed
<1>12. /\ q.unsent = unsent /\ q.unacked = w.p.unacked
       /\ q.rtime = w.p.rtime /\ q.persist = w.p.persist
       /\ q.state = w.p.state /\ q.snd_lbb = lbb
       /\ q.lastack = w.p.lastack /\ q.snd_nxt = w.p.snd_nxt
       /\ q.rxclosed = w.p.rxclosed /\ q.closepend = w.p.closepend
  BY <1>1, Fields DEF Typed, TypedPcb
<1>13. b.wrote = w.a.wrote + n /\ b.closed = w.a.closed
  BY <1>1, Fields DEF Typed
<1>14. Typed(v)
  <2>1. TypedPcb(q)
    <3>1. TypedPcb(w.p)
      BY <1>1 DEF Typed
    <3> QED
      BY <1>6, <3>1, Fields DEF TypedPcb
  <2>2. /\ DOMAIN b = DOMAIN NoApp /\ b.wrote \in 0 .. MaxStream
        /\ b.writes \in Nat /\ b.closed \in BOOLEAN
    <3>1. w.a.wrote + n \in 0 .. MaxStream
      BY <1>3, Space
    <3> QED
      BY <1>1, <3>1, Fields DEF Typed
  <2> HIDE DEF q, b
  <2> QED
    BY <1>1, <1>11, <2>1, <2>2 DEF Typed
<1> HIDE DEF q, b
<1>15. Top(v.p, v.a, i) = end
  BY <1>1, <1>6, <1>11, <1>12 DEF Top
<1>16. \/ Has(unsent, Reaching(i, m))
       \/ Has(w.p.unacked, Reaching(i, m))
  <2>1. w.p.unsent = <<>> \/ Has(w.p.unsent, Reaching(i, m))
        \/ Has(w.p.unacked, Reaching(i, m))
    BY <1>1 DEF Numbered, HoldsNothing
  <2> HIDE DEF m
  <2> QED
    BY <1>5, <1>8, <2>1
<1>17. Numbered(v.p, v.a, i)
  <2>1. m <= end
    <3> HIDE DEF m, top
    <3> QED
      BY <1>3, <1>8
  <2> HIDE DEF end
  <2> QED
    BY <1>1, <1>4, <1>5, <1>7, <1>8, <1>11, <1>12, <1>13, <1>15, <1>16, <2>1
       DEF Numbered
<1>18. Timed(v.p) /\ Opening(v.p, i)
  BY <1>1, <1>11, <1>12 DEF Timed, Opening
<1>19. Closing(v.p, v.a, v.listen)
  BY <1>11, <1>12, <1>13 DEF Sound, Closing
<1> QED
  BY <1>11, <1>12, <1>14, <1>17, <1>18, <1>19, <1>9 DEF Sound

\* tcp_send_fin and the state that follows it.
LEMMA SendFinSound ==
  ASSUME NEW e, NEW i \in SeqNos, NEW w, Typed(w), Numbered(w.p, w.a, i),
         Timed(w.p), w.p.state \in Open, Live(w.p), ~w.listen,
         w.a.closed => w.p.rxclosed,
         NEW next \in {"LAST_ACK", "FIN_WAIT_1"}
  PROVE  LET v == [SendFin(w) EXCEPT !.p.state = next]
         IN  Sound(v, e, i) /\ Waits(v.p) /\ v.a.closed = w.a.closed
<1> DEFINE top == Top(w.p, w.a, i)
           end == w.a.wrote + 2
           W == Within(i, end)
           m == Minus(w.p.snd_nxt, i)
           R == Reaching(i, m)
           l == w.p.unsent[Len(w.p.unsent)]
           r == [l EXCEPT !.fin = TRUE]
           f == QueuedSeg(w.p.snd_lbb, <<>>, FALSE, TRUE)
           unsent == IF PiggyBacks(w.p)
                       THEN [w.p.unsent EXCEPT ![Len(w.p.unsent)] = r]
                       ELSE Append(w.p.unsent, f)
           lbb == IF PiggyBacks(w.p) THEN w.p.snd_lbb ELSE Plus(w.p.snd_lbb, 1)
           q == IF PiggyBacks(w.p)
                  THEN [w.p EXCEPT !.unsent = unsent, !.state = next]
                  ELSE [w.p EXCEPT !.unsent = unsent, !.snd_lbb = lbb, !.state = next]
           v == [SendFin(w) EXCEPT !.p.state = next]
<1>1. /\ top \in Nat /\ m \in Nat /\ top = Minus(w.p.snd_lbb, i) /\ w.p.snd_lbb \in SeqNos
      /\ top <= w.a.wrote + 1 /\ w.a.wrote \in Nat /\ top < Half
      /\ w.a.wrote + 3 <= Half
  <2>1. top \in Nat /\ m \in Nat /\ top < Half
    BY Places
  <2>2. w.p.snd_lbb \in SeqNos /\ w.a.wrote \in 0 .. MaxStream
    BY DEF Typed, TypedPcb
  <2>3. top = Minus(w.p.snd_lbb, i) /\ top <= w.a.wrote + 1
    BY Zenon DEF Numbered, Top
  <2>4. w.a.wrote \in Nat /\ w.a.wrote + 3 <= Half
    BY <2>2, Space
  <2> QED
    BY <2>1, <2>2, <2>3, <2>4
<1>2. end \in Nat /\ top + 1 <= end /\ end < Half
  <2> HIDE DEF top
  <2> QED
    BY <1>1, Space
<1>3. w.p.unsent \in Seq(W) /\ w.p.unacked \in Seq(W)
  <2>1. w.p.unsent \in Seq(Within(i, top)) /\ w.p.unacked \in Seq(Within(i, top))
    BY DEF Numbered
  <2>2. top <= end
    <3> HIDE DEF top
    <3> QED
      BY <1>1
  <2> HIDE DEF top, end
  <2> QED
    BY <1>1, <1>2, <2>1, <2>2, WithinGrows
<1>4. m <= top /\ Minus(w.p.lastack, i) <= m
  BY DEF Numbered
<1>5. HoldsNothing(w.p) \/ Has(w.p.unsent, R) \/ Has(w.p.unacked, R)
  BY DEF Numbered
<1>6. /\ unsent \in Seq(W) /\ unsent # <<>> /\ lbb \in SeqNos
      /\ Has(unsent, R) \/ Has(w.p.unacked, R)
  <2>1. CASE PiggyBacks(w.p)
    <3>1. w.p.unsent # <<>> /\ ~l.syn /\ ~l.fin
      BY <2>1 DEF PiggyBacks, Last
    <3>2. Len(w.p.unsent) \in 1 .. Len(w.p.unsent)
      <4>1. Len(w.p.unsent) \in Nat \ {0}
        BY <1>3, <3>1, EmptySeq
      <4> QED
        BY <4>1
    <3>3. l \in Within(i, top)
      <4>1. w.p.unsent \in Seq(Within(i, top))
        BY DEF Numbered
      <4> QED
        BY <3>2, <4>1, ElementOfSeq
    <3> HIDE DEF l
    <3>4. /\ l \in Segs /\ Len(l.data) <= TCP_MSS
          /\ TcpLen(l) \in Nat \ {0} /\ EndOf(l, i) \in Nat /\ EndOf(l, i) <= top
          /\ Minus(l.seq, i) \in Nat
      BY <3>3, HeldSegment
    <3>5. r \in Segs /\ r.data = l.data /\ ~r.syn /\ r.fin /\ r.seq = l.seq
      BY <3>1, <3>4 DEF Segs
    <3> HIDE DEF r
    <3>6. TcpLen(r) = TcpLen(l) + 1
      <4>1. /\ r.seq \in SeqNos /\ r.data \in Seq(Nat)
            /\ r.syn \in BOOLEAN /\ r.fin \in BOOLEAN
        BY <3>5 DEF Segs
      <4>2. TcpLen(r) = Len(l.data) + 1
        BY <3>5, <4>1, Length
      <4>3. /\ l.seq \in SeqNos /\ l.data \in Seq(Nat)
            /\ l.syn \in BOOLEAN /\ l.fin \in BOOLEAN
        BY <3>4 DEF Segs
      <4>4. TcpLen(l) = Len(l.data)
        BY <3>1, <4>3, Length
      <4> QED
        BY <4>2, <4>4
    <3>7. EndOf(r, i) = EndOf(l, i) + 1
      <4>1. EndOf(r, i) = Minus(l.seq, i) + (TcpLen(l) + 1)
            /\ EndOf(l, i) = Minus(l.seq, i) + TcpLen(l)
        BY <3>5, <3>6 DEF EndOf
      <4> QED
        BY <3>4, <4>1
    <3>8. EndOf(r, i) <= end /\ TcpLen(r) > 0
      <4> HIDE DEF top, end
      <4> QED
        BY SMTT(30), <1>1, <1>2, <3>4, <3>6, <3>7
    <3>9. r \in W
      BY <3>4, <3>5, <3>8 DEF Within
    <3>10. l \in R => r \in R
      <4> HIDE DEF m
      <4> QED
        BY <1>1, <3>4, <3>5, <3>7 DEF Reaching
    <3>11. unsent = [w.p.unsent EXCEPT ![Len(w.p.unsent)] = r] /\ lbb = w.p.snd_lbb
      BY <2>1
    <3> HIDE DEF W, R, unsent
    <3>12. /\ unsent \in Seq(W) /\ unsent # <<>>
           /\ \A V : Has(w.p.unsent, V) /\ (Last(w.p.unsent) \in V => r \in V)
                       => Has(unsent, V)
      BY <1>3, <3>1, <3>9, <3>11, LastReplaced
    <3>13. Last(w.p.unsent) = l
      BY DEF Last, l
    <3> QED
      BY <1>1, <1>5, <3>1, <3>10, <3>11, <3>12, <3>13 DEF HoldsNothing
  <2>2. CASE ~PiggyBacks(w.p)
    <3>1. unsent = Append(w.p.unsent, f) /\ lbb = Plus(w.p.snd_lbb, 1)
      BY <2>2
    <3>2. lbb \in SeqNos
      <4>1. w.p.snd_lbb \in Int
        BY <1>1 DEF SeqNos
      <4> QED
        BY <3>1, <4>1, Numbers
    <3>3. /\ f \in Segs /\ ~f.syn /\ f.fin /\ f.data = <<>> /\ f.seq = w.p.snd_lbb
      BY <1>1 DEF Segs, QueuedSeg
    <3> HIDE DEF f
    <3>4. TcpLen(f) = 1 /\ Len(f.data) = 0
      <4>1. /\ f.seq \in SeqNos /\ f.data \in Seq(Nat)
            /\ f.syn \in BOOLEAN /\ f.fin \in BOOLEAN
        BY <3>3 DEF Segs
      <4>2. Len(f.data) = 0
        BY <3>3, EmptySeq
      <4>3. TcpLen(f) = Len(f.data) + 1
        BY <3>3, <4>1, Length
      <4> QED
        BY <4>2, <4>3
    <3>5. EndOf(f, i) = top + 1
      BY <1>1, <3>3, <3>4 DEF EndOf
    <3>6. f \in W /\ f \in R
      <4>1. 0 <= TCP_MSS
        BY TcpAssumption
      <4>2. EndOf(f, i) <= end /\ EndOf(f, i) >= m
        <5> HIDE DEF top, end, m
        <5> QED
          BY <1>1, <1>2, <1>4, <3>5
      <4> QED
        BY <3>3, <3>4, <4>1, <4>2 DEF Within, Reaching
    <3> HIDE DEF W, R, unsent
    <3>7. /\ unsent \in Seq(W) /\ Len(unsent) = Len(w.p.unsent) + 1
          /\ unsent[Len(w.p.unsent) + 1] = f /\ Len(w.p.unsent) \in Nat
      BY <1>3, <3>1, <3>6, AppendProperties
    <3>8. Len(w.p.unsent) + 1 \in 1 .. Len(unsent)
      BY <3>7
    <3>9. Has(unsent, R)
      BY <3>6, <3>7, <3>8 DEF Has
    <3>10. unsent # <<>>
      BY <3>7, EmptySeq
    <3> QED
      BY <3>2, <3>7, <3>9, <3>10
  <2> QED
    BY <2>1, <2>2
<1>7. v = [w EXCEPT !.p = q]
  <2>1. CASE PiggyBacks(w.p)
    <3>1. SendFin(w) = [w EXCEPT !.p.unsent[Len(w.p.unsent)].fin = TRUE]
      BY <2>1 DEF SendFin
    <3>2. Len(w.p.unsent) \in DOMAIN w.p.unsent
      <4>1. Len(w.p.unsent) \in Nat \ {0}
        BY <1>3, <2>1, EmptySeq DEF PiggyBacks
      <4> QED
        BY <1>3, <4>1
    <3>3. SendFin(w) = [w EXCEPT !.p.unsent = unsent]
      <4> HIDE DEF W
      <4> QED
        BY <2>1, <3>1, <3>2, Fields DEF Typed, TypedPcb
    <3> HIDE DEF unsent, lbb
    <3> QED
      BY <2>1, <3>3, Fields DEF Typed, TypedPcb
  <2>2. CASE ~PiggyBacks(w.p)
    <3>1. SendFin(w) = [w EXCEPT !.p.unsent = unsent, !.p.snd_lbb = lbb]
      BY <2>2 DEF SendFin
    <3> HIDE DEF unsent, lbb
    <3> QED
      BY <2>2, <3>1, Fields DEF Typed, TypedPcb
  <2> QED
    BY <2>1, <2>2
<1>8. PiggyBacks(w.p) => lbb = w.p.snd_lbb
  OBVIOUS
<1> HIDE DEF v, unsent, lbb
<1>10. v.p = q /\ v.a = w.a /\ v.listen = w.listen /\ v.out = w.out
       /\ v.data = w.data /\ DOMAIN v = DOMAIN w
  <2> HIDE DEF q
  <2> QED
    BY <1>7 DEF Typed
<1>11. /\ q.unsent = unsent /\ q.unacked = w.p.unacked
       /\ q.rtime = w.p.rtime /\ q.persist = w.p.persist
       /\ q.state = next /\ q.snd_lbb = lbb
       /\ q.lastack = w.p.lastack /\ q.snd_nxt = w.p.snd_nxt
       /\ q.rxclosed = w.p.rxclosed /\ q.closepend = w.p.closepend
  BY <1>8, Fields DEF Typed, TypedPcb
<1>12. next \in FinStates /\ next \notin Open /\ next \in Synchronized
  BY DEF FinStates, Open, Synchronized
<1>13. Typed(v)
  <2>1. TypedPcb(q)
    <3>1. TypedPcb(w.p)
      BY DEF Typed
    <3> QED
      BY <1>6, <1>12, <3>1, Fields DEF TypedPcb
  <2> HIDE DEF q
  <2> QED
    BY <1>10, <2>1 DEF Typed
<1> HIDE DEF q
<1>14. Top(v.p, v.a, i) = end
  BY <1>10, <1>11, <1>12 DEF Top
<1>16. Numbered(v.p, v.a, i)
  <2>1. m <= end /\ end <= w.a.wrote + IF next \in Open THEN 1 ELSE 2
    <3>1. m <= end
      <4> HIDE DEF m, top, end
      <4> QED
        BY <1>1, <1>2, <1>4
    <3> QED
      BY <1>1, <1>12, <3>1
  <2> HIDE DEF end
  <2> QED
    BY <1>3, <1>4, <1>6, <1>10, <1>11, <1>14, <2>1 DEF Numbered
<1>17. Timed(v.p) /\ Opening(v.p, i) /\ Waits(v.p)
  BY <1>6, <1>10, <1>11, <1>12 DEF Timed, Opening, Live, Waits, HoldsNothing, FinStates
<1>18. Closing(v.p, v.a, v.listen)
  BY <1>10, <1>11, <1>12 DEF Closing, FinStates
<1> QED
  BY <1>10, <1>13, <1>16, <1>17, <1>18 DEF Sound, v

-----------------------------------------------------------------------------
(* tcp_receive.                                                            *)

\* What segment s does to the queues: nothing is dropped that the peer has
\* not acknowledged all of.
Received(w, v, s, e, i) ==
  /\ Sound(v, e, i)
  /\ v.p.state = w.p.state /\ v.a.closed = w.a.closed /\ v.flag = w.flag
  /\ ~HoldsNothing(w.p) => ~HoldsNothing(v.p) \/ AcksAll(v, s)

LEMMA NewAckSound ==
  ASSUME NEW e, NEW i \in SeqNos, NEW w, Sound(w, e, i), Live(w.p),
         w.p.state # "SYN_SENT", NEW s \in WireSegs, s.ack,
         ~SeqLEQ(s.ackno, w.p.lastack),
         Between(s.ackno, Plus(w.p.lastack, 1), w.p.snd_nxt)
  PROVE  Received(w, NewAck(w, s.ackno), s, e, i)
<1> DEFINE a == s.ackno
           top == Top(w.p, w.a, i)
           m == Minus(w.p.snd_nxt, i)
           W == Within(i, top)
           R == Reaching(i, m)
           unsent == Unacked(w.p.unsent, a)
           unacked == Unacked(w.p.unacked, a)
           rtime == unacked # <<>>
           q == [w.p EXCEPT !.infr = FALSE, !.nrtx = 0, !.lastack = a,
                            !.unacked = unacked, !.unsent = unsent, !.rtime = rtime]
           v == NewAck(w, a)
<1>1. /\ Typed(w) /\ Numbered(w.p, w.a, i) /\ a \in SeqNos
      /\ w.p.lastack \in SeqNos /\ w.p.snd_nxt \in SeqNos
  BY WireTyped DEF Sound, Live, Typed, TypedPcb
<1>2. /\ m \in Nat /\ top \in Nat /\ m < Half /\ m <= top /\ top < Half
      /\ Minus(w.p.lastack, i) <= m
  BY <1>1, Places DEF Numbered
<1>3. Minus(w.p.lastack, i) < Minus(a, i) /\ Minus(a, i) <= m
  <2> DEFINE l == w.p.lastack
             n == w.p.snd_nxt
  <2>1. ~SeqLEQ(a, l) /\ Between(a, Plus(l, 1), n)
    OBVIOUS
  <2>2. /\ l \in SeqNos /\ n \in SeqNos /\ a \in SeqNos
        /\ Minus(l, i) <= Minus(n, i) /\ Minus(n, i) < Half
    BY <1>1, <1>2
  <2> HIDE DEF a, l, n
  <2>3. Minus(l, i) < Minus(a, i) /\ Minus(a, i) <= Minus(n, i)
    BY <2>1, <2>2, AckInRange
  <2> QED
    BY <2>3 DEF l, n
<1>4. Minus(a, i) \in Nat /\ Minus(a, i) < Half
  <2>1. a \in Int /\ i \in Int
    BY <1>1 DEF SeqNos
  <2>2. Minus(a, i) \in SeqNos
    BY <2>1, Numbers
  <2>3. Minus(a, i) \in Nat
    BY <2>2 DEF SeqNos
  <2> HIDE DEF a, m
  <2> QED
    BY <1>2, <1>3, <2>3, Space
<1>5. ASSUME NEW t \in W
      PROVE  /\ EndOf(t, i) \in Nat /\ t \in Segs
             /\ SeqLEQ(SegEnd(t), a) <=> EndOf(t, i) <= Minus(a, i)
  <2>1. /\ SegEnd(t) \in SeqNos /\ Minus(SegEnd(t), i) = EndOf(t, i)
        /\ EndOf(t, i) \in Nat /\ EndOf(t, i) < Half /\ t \in Segs
    BY <1>1, HeldSegment
  <2> HIDE DEF a
  <2> QED
    BY <1>1, <1>4, <2>1, Compared
<1>6. w.p.unsent \in Seq(W) /\ w.p.unacked \in Seq(W)
      /\ (HoldsNothing(w.p) \/ Has(w.p.unsent, R) \/ Has(w.p.unacked, R))
  BY <1>1 DEF Numbered
<1>7. ASSUME NEW q0 \in Seq(W)
      PROVE  /\ Unacked(q0, a) \in Seq(W)
             /\ Unacked(q0, a) # <<>> /\ Minus(a, i) = m => Has(Unacked(q0, a), R)
             /\ Has(q0, R) => Has(Unacked(q0, a), R) \/ Minus(a, i) = m
  <2> DEFINE u == Unacked(q0, a)
  <2>1. /\ u \in Seq(W)
        /\ u # <<>> => \E t \in W : ~SeqLEQ(SegEnd(t), a) /\ \A V : t \in V => Has(u, V)
        /\ \A V : Has(q0, V) => Has(u, V) \/ \E t \in W \cap V : SeqLEQ(SegEnd(t), a)
    <3> HIDE DEF W, a
    <3> QED
      BY UnackedKeeps
  <2> HIDE DEF u
  <2>2. ASSUME u # <<>>, Minus(a, i) = m PROVE Has(u, R)
    <3>1. PICK t \in W : ~SeqLEQ(SegEnd(t), a) /\ \A V : t \in V => Has(u, V)
      BY <2>1, <2>2
    <3>2. EndOf(t, i) \in Nat /\ t \in Segs /\ ~(EndOf(t, i) <= m)
      BY <1>5, <2>2, <3>1
    <3>3. t \in R
      <4> HIDE DEF m
      <4> QED
        BY <1>2, <3>2 DEF Reaching
    <3> QED
      BY <3>1, <3>3
  <2>3. ASSUME Has(q0, R) PROVE Has(u, R) \/ Minus(a, i) = m
    <3>1. SUFFICES ASSUME NEW t \in W \cap R, SeqLEQ(SegEnd(t), a)
                   PROVE  Minus(a, i) = m
      BY <2>1, <2>3
    <3>2. EndOf(t, i) \in Nat /\ EndOf(t, i) <= Minus(a, i) /\ EndOf(t, i) >= m
      <4>1. t \in W /\ t \in R
        BY <3>1
      <4>2. EndOf(t, i) \in Nat /\ EndOf(t, i) <= Minus(a, i)
        BY <1>5, <3>1, <4>1
      <4> QED
        BY <4>1, <4>2 DEF Reaching
    <3> HIDE DEF m, a
    <3> QED
      BY <1>2, <1>3, <1>4, <3>2
  <2> QED
    BY <2>1, <2>2, <2>3 DEF u
<1>8. /\ unsent \in Seq(W) /\ unacked \in Seq(W)
      /\ \/ Has(unsent, R) \/ Has(unacked, R)
         \/ unsent = <<>> /\ unacked = <<>> /\ (HoldsNothing(w.p) \/ Minus(a, i) = m)
  <2>1. unsent \in Seq(W) /\ unacked \in Seq(W)
    BY <1>6, <1>7
  <2>2. CASE Minus(a, i) = m
    BY <1>6, <1>7, <2>1, <2>2
  <2>3. CASE Minus(a, i) # m /\ ~HoldsNothing(w.p)
    BY <1>6, <1>7, <2>1, <2>3
  <2>4. CASE HoldsNothing(w.p)
    <3>1. Unacked(<<>>, a) = <<>>
      <4>1. Acked(<<>>, a) = 0
        <5> DEFINE S == {}
        <5>1. <<>> \in Seq(S) /\ Len(<<>>) = 0
          BY EmptySeq
        <5>2. Acked(<<>>, a) \in 0 .. Len(<<>>)
          BY <5>1, AckedCounts
        <5> QED
          BY <5>1, <5>2
      <4>2. Unacked(<<>>, a) = SubSeq(<<>>, 0 + 1, 0)
        BY <4>1, EmptySeq DEF Unacked
      <4> QED
        BY <4>2, SubSeqEmpty
    <3> QED
      BY <2>1, <2>4, <3>1 DEF HoldsNothing
  <2> QED
    BY <2>2, <2>3, <2>4
<1>9. Minus(a, i) = m => a = w.p.snd_nxt
  <2>1. SeqLEQ(a, w.p.snd_nxt) <=> Minus(a, i) <= Minus(w.p.snd_nxt, i)
    BY <1>1, <1>2, <1>4, Compared
  <2>2. SeqLT(a, w.p.snd_nxt) <=> Minus(a, i) < Minus(w.p.snd_nxt, i)
    BY <1>1, <1>2, <1>4, Compared
  <2> HIDE DEF a
  <2> QED
    BY <1>2, <2>1, <2>2 DEF SeqLEQ
<1>10. v = [w EXCEPT !.p = q]
  <2>1. v = [w EXCEPT !.p.infr = FALSE, !.p.nrtx = 0, !.p.lastack = a,
                      !.p.unacked = unacked, !.p.unsent = unsent, !.p.rtime = rtime]
    BY DEF NewAck
  <2> HIDE DEF unsent, unacked, rtime, a, v
  <2> QED
    BY <1>1, <2>1 DEF Typed
<1> HIDE DEF v, unsent, unacked, rtime, a
<1>11. v.p = q /\ v.a = w.a /\ v.listen = w.listen /\ v.out = w.out
       /\ v.data = w.data /\ v.flag = w.flag /\ DOMAIN v = DOMAIN w
  <2> HIDE DEF q
  <2> QED
    BY <1>1, <1>10 DEF Typed
<1>12. /\ q.unsent = unsent /\ q.unacked = unacked
       /\ q.rtime = rtime /\ q.persist = w.p.persist
       /\ q.state = w.p.state /\ q.snd_lbb = w.p.snd_lbb
       /\ q.lastack = a /\ q.snd_nxt = w.p.snd_nxt
       /\ q.rxclosed = w.p.rxclosed /\ q.closepend = w.p.closepend
  BY <1>1, Fields DEF Typed, TypedPcb
<1>13. Typed(v)
  <2>1. TypedPcb(q)
    <3>1. TypedPcb(w.p)
      BY <1>1 DEF Typed
    <3>2. rtime \in BOOLEAN
      BY DEF rtime
    <3> QED
      BY <1>1, <3>1, <3>2, Fields DEF TypedPcb
  <2> HIDE DEF q
  <2> QED
    BY <1>1, <1>11, <2>1 DEF Typed
<1> HIDE DEF q
<1>14. Kept(w, v) /\ Opening(v.p, i)
  BY <1>11, <1>12 DEF Kept, Opening
<1>15. HoldsNothing(v.p) \/ Has(unsent, R) \/ Has(unacked, R)
  BY <1>8, <1>11, <1>12 DEF HoldsNothing
<1>16. v.p.unacked # <<>> => v.p.rtime /\ ~v.p.persist
  <2>1. w.p.unacked = <<>> => unacked = <<>>
    <3>1. ASSUME w.p.unacked = <<>> PROVE unacked = <<>>
      <4>1. Acked(w.p.unacked, a) \in 0 .. 0
        BY <1>6, <3>1, AckedCounts, EmptySeq
      <4>2. unacked = SubSeq(w.p.unacked, 0 + 1, 0)
        BY <3>1, <4>1, EmptySeq DEF Unacked, unacked
      <4> QED
        BY <4>2, SubSeqEmpty
    <3> QED
      BY <3>1
  <2> QED
    BY <1>11, <1>12, <2>1 DEF Sound, Timed, Live, rtime
<1>17. Sound(v, e, i)
  <2>1. Minus(w.p.snd_nxt, i) <= top /\ Minus(a, i) <= Minus(w.p.snd_nxt, i)
    BY <1>2, <1>3
  <2> HIDE DEF top
  <2> QED
    BY <1>8, <1>11, <1>12, <1>13, <1>14, <1>15, <1>16, <2>1, RequeuedSound DEF top
<1>18. ~HoldsNothing(w.p) => ~HoldsNothing(v.p) \/ AcksAll(v, s)
  <2>1. ASSUME ~HoldsNothing(w.p), HoldsNothing(v.p) PROVE AcksAll(v, s)
    <3>1. unsent = <<>> /\ unacked = <<>>
      BY <1>11, <1>12, <2>1 DEF HoldsNothing
    <3>2. ~Has(<<>>, R)
      <4>1. Len(<<>>) = 0
        BY EmptySeq
      <4> QED
        BY <4>1 DEF Has
    <3>3. Minus(a, i) = m
      BY <1>8, <2>1, <3>1, <3>2
    <3> QED
      BY <1>9, <1>11, <1>12, <3>1, <3>3 DEF AcksAll, a
  <2> QED
    BY <2>1
<1> QED
  BY <1>11, <1>12, <1>17, <1>18 DEF Received, v, a

\* The acknowledgment a segment carries.
LEMMA ReceiveAckSound ==
  ASSUME NEW e, NEW i \in SeqNos, NEW w, Sound(w, e, i), Live(w.p),
         w.p.state # "SYN_SENT", NEW s \in WireSegs, s.ack,
         NEW v \in ReceiveAck(w, s)
  PROVE  Received(w, v, s, e, i)
<1> DEFINE p == w.p
           x == [w EXCEPT !.p.snd_wnd = s.wnd, !.p.snd_wl1 = s.seq, !.p.snd_wl2 = s.ackno]
           u == IF ~UpdatesWindow(p, s) THEN w ELSE x
           duplicate == /\ TcpLen(s) = 0 /\ p.rtime /\ s.ackno = p.lastack
                        /\ Plus(u.p.snd_wl2, u.p.snd_wnd) = Plus(p.snd_wl2, p.snd_wnd)
<1>1. Typed(w) /\ s.seq \in SeqNos /\ s.ackno \in SeqNos /\ s.wnd \in Nat
  BY WireTyped DEF Sound
<1>2. Typed(x) /\ Same(w, x) /\ x.flag = w.flag
  <2>1. Typed(x)
    BY <1>1, Fields DEF Typed, TypedPcb
  <2>2. Same(w, x) /\ x.flag = w.flag
    BY <1>1, Fields DEF Typed, TypedPcb, Same
  <2> QED
    BY <2>1, <2>2
<1>3. Typed(u) /\ Same(w, u) /\ u.flag = w.flag
  <2>1. Same(w, w)
    BY DEF Same
  <2> HIDE DEF x
  <2> QED
    BY <1>1, <1>2, <2>1
<1>4. \/ v = u
      \/ v = RexmitFast(u)
      \/ v = SendEmptyAck(u)
      \/ /\ v = NewAck(u, s.ackno) /\ ~SeqLEQ(s.ackno, p.lastack)
         /\ Between(s.ackno, Plus(p.lastack, 1), p.snd_nxt)
  <2>1. CASE SeqLEQ(s.ackno, p.lastack)
    <3>1. v \in {u} \cup (IF duplicate THEN {RexmitFast(u)} ELSE {})
      BY <2>1, Zenon DEF ReceiveAck
    <3> HIDE DEF u, duplicate
    <3> QED
      BY <3>1
  <2>2. CASE ~SeqLEQ(s.ackno, p.lastack) /\ Between(s.ackno, Plus(p.lastack, 1), p.snd_nxt)
    <3>1. v \in {NewAck(u, s.ackno)}
      BY <2>2, Zenon DEF ReceiveAck
    <3> HIDE DEF u, duplicate
    <3> QED
      BY <2>2, <3>1
  <2>3. CASE ~SeqLEQ(s.ackno, p.lastack) /\ ~Between(s.ackno, Plus(p.lastack, 1), p.snd_nxt)
    <3>1. v \in {SendEmptyAck(u)}
      BY <2>3, Zenon DEF ReceiveAck
    <3> HIDE DEF u, duplicate
    <3> QED
      BY <3>1
  <2> QED
    BY <2>1, <2>2, <2>3
<1> HIDE DEF u, duplicate
<1>5. Sound(u, e, i)
  BY <1>3, SameSound
<1>6. ASSUME NEW t, Received(u, t, s, e, i) PROVE Received(w, t, s, e, i)
  BY <1>3, <1>6 DEF Received, Same, HoldsNothing
<1>7. Received(u, u, s, e, i)
  BY <1>5 DEF Received
<1>8. Received(u, RexmitFast(u), s, e, i)
  <2>1. u.p.state # "SYN_SENT"
    BY <1>3 DEF Same
  <2> QED
    BY <1>5, <2>1, RexmitFastSound DEF Received, Moved
<1>9. Received(u, SendEmptyAck(u), s, e, i)
  <2>1. Typed(SendEmptyAck(u)) /\ Same(u, SendEmptyAck(u)) /\ SendEmptyAck(u).flag = u.flag
    BY <1>3, SendEmptyAckTyped
  <2>2. Sound(SendEmptyAck(u), e, i)
    BY <1>5, <2>1, SameSound
  <2> QED
    BY <2>1, <2>2 DEF Received, Same, HoldsNothing
<1>10. ASSUME ~SeqLEQ(s.ackno, p.lastack), Between(s.ackno, Plus(p.lastack, 1), p.snd_nxt)
       PROVE  Received(u, NewAck(u, s.ackno), s, e, i)
  <2>1. /\ ~SeqLEQ(s.ackno, u.p.lastack)
        /\ Between(s.ackno, Plus(u.p.lastack, 1), u.p.snd_nxt)
        /\ Live(u.p) /\ u.p.state # "SYN_SENT"
    BY <1>3, <1>10 DEF Same, Live
  <2> QED
    BY <1>5, <2>1, NewAckSound
<1> QED
  BY <1>4, <1>6, <1>7, <1>8, <1>9, <1>10

LEMMA ReceiveSound ==
  ASSUME NEW e, NEW i \in SeqNos, NEW w, Sound(w, e, i), Live(w.p),
         w.p.state # "SYN_SENT", NEW s \in WireSegs, NEW v \in Receive(w, s)
  PROVE  Received(w, v, s, e, i)
<1>1. PICK u \in IF s.ack THEN ReceiveAck(w, s) ELSE {w} : v = ReceiveData(u, s)
  BY Zenon DEF Receive
<1>2. Received(w, u, s, e, i)
  <2>1. CASE s.ack
    BY <1>1, <2>1, ReceiveAckSound
  <2>2. CASE ~s.ack
    BY <1>1, <2>2 DEF Received
  <2> QED
    BY <2>1, <2>2
<1>3. Typed(u) /\ Light(u, v)
  BY <1>1, <1>2, ReceiveDataTyped DEF Received, Sound
<1>4. Sound(v, e, i)
  BY <1>2, <1>3, SameSound DEF Received, Light
<1> QED
  BY <1>2, <1>3, <1>4 DEF Received, Light, Same, HoldsNothing, AcksAll

-----------------------------------------------------------------------------
(* tcp_process.                                                            *)

\* What tcp_process leaves for the rest of tcp_input.
Processed(w, e, i) ==
  Sound(w, e, i) /\ Waits(w.p) /\ (w.flag = "GONE" => Probes(w.p))

LEMMA SameProcessed ==
  ASSUME NEW w, NEW v, NEW e, NEW i, Processed(w, e, i), Light(w, v)
  PROVE  Processed(v, e, i)
BY SameSound DEF Processed, Light

LEMMA ResetForSound ==
  ASSUME NEW w, NEW e, NEW i, Sound(w, e, i), NEW s \in WireSegs
  PROVE  LET v == Sends(w, ResetFor(s))
         IN  Light(w, v) /\ v.p = w.p
<1>1. ResetFor(s) \in WireSegs
  BY WireTyped, ResetTyped DEF ResetFor
<1> QED
  BY <1>1, SendsTyped DEF Light, Sound

LEMMA ProcessResetSound ==
  ASSUME NEW e, NEW i, NEW w, Processed(w, e, i), NEW s
  PROVE  Processed(ProcessReset(w, s), e, i)
<1>1. Processed(Freed(w), e, i)
  BY FreedSound DEF Processed
<1>2. Processed(AckNow(w), e, i)
  <2>1. Light(w, AckNow(w))
    BY AckNowTyped DEF Light, Processed, Sound, AckNow, Typed
  <2> QED
    BY <2>1, SameProcessed
<1> QED
  BY <1>1, <1>2 DEF ProcessReset

\* One segment in two queues.
LEMMA OneHeld ==
  ASSUME NEW S, NEW q \in Seq(S), NEW r \in Seq(S), Len(q) + Len(r) = 1
  PROVE  /\ r = <<>> => Tail(q) = <<>>
         /\ r # <<>> => q = <<>> /\ Tail(r) = <<>>
<1>1. Len(q) \in Nat /\ Len(r) \in Nat
  BY LenProperties
<1>2. ASSUME NEW t \in Seq(S), Len(t) = 1 PROVE Tail(t) = <<>>
  <2>1. t # <<>>
    BY <1>2, EmptySeq
  <2>2. Tail(t) \in Seq(S) /\ Len(Tail(t)) = Len(t) - 1
    BY <2>1, HeadTailProperties
  <2>3. Len(Tail(t)) = 0
    BY <1>2, <2>2
  <2> QED
    BY <2>2, <2>3, EmptySeq
<1>3. ASSUME r = <<>> PROVE Tail(q) = <<>>
  <2>1. Len(r) = 0
    BY <1>3, EmptySeq
  <2>2. Len(q) = 1
    BY <1>1, <2>1
  <2> QED
    BY <1>2, <2>2
<1>4. ASSUME r # <<>> PROVE q = <<>> /\ Tail(r) = <<>>
  <2>1. Len(r) # 0
    BY <1>4, EmptySeq
  <2>2. Len(q) = 0 /\ Len(r) = 1
    <3>1. PICK x \in Nat, y \in Nat : x = Len(q) /\ y = Len(r)
      BY <1>1
    <3>2. x + y = 1 /\ y # 0
      BY <2>1, <3>1
    <3>3. x = 0 /\ y = 1
      BY <3>2
    <3> QED
      BY <3>1, <3>3
  <2> QED
    BY <1>2, <2>2, EmptySeq
<1> QED
  BY <1>3, <1>4

\* The answer to the SYN.
LEMMA ProcessSynSentSound ==
  ASSUME NEW e, NEW i \in SeqNos, NEW w, Processed(w, e, i), w.flag # "GONE",
         w.p.state = "SYN_SENT", NEW s \in WireSegs
  PROVE  Processed(ProcessSynSent(w, s), e, i)
<1> DEFINE v == ProcessSynSent(w, s)
           left == IF w.p.unacked = <<>> THEN [w EXCEPT !.p.unsent = Tail(@)]
                                         ELSE [w EXCEPT !.p.unacked = Tail(@)]
           a == s.ackno
           rcv == Plus(s.seq, 1)
           wl1 == Plus(s.seq, SeqSpace - 1)
           nrtx == IF left.p.unacked = <<>> THEN left.p.nrtx ELSE 0
           est == [left EXCEPT
               !.p.state = "ESTABLISHED", !.p.rcv_nxt = rcv,
               !.p.rcv_ann_right_edge = rcv, !.p.lastack = a,
               !.p.snd_wnd = s.wnd, !.p.snd_wl1 = wl1,
               !.p.rtime = left.p.unacked # <<>>, !.p.nrtx = nrtx]
<1>1. /\ Typed(w) /\ Numbered(w.p, w.a, i) /\ Opening(w.p, i) /\ Sound(w, e, i)
      /\ Closing(w.p, w.a, w.listen)
      /\ a \in SeqNos /\ s.seq \in SeqNos /\ s.wnd \in Nat
      /\ w.p.lastack \in SeqNos /\ w.p.snd_nxt \in SeqNos
  BY WireTyped DEF Processed, Sound, Typed, TypedPcb
<1>2. ASSUME s.ack, s.syn, a = Plus(w.p.lastack, 1) PROVE Processed(AckNow(est), e, i)
  <2> DEFINE m == Minus(w.p.snd_nxt, i)
             top == Top(w.p, w.a, i)
  <2>1. /\ Minus(w.p.lastack, i) < m /\ Len(w.p.unsent) + Len(w.p.unacked) = 1
        /\ m \in Nat /\ m < Half /\ Minus(w.p.lastack, i) \in Nat
    BY <1>1, Places DEF Opening
  <2>2. Minus(a, i) <= m
    <3>1. Minus(w.p.lastack, i) + 1 < SeqSpace
      <4> HIDE DEF m
      <4> QED
        BY <2>1, Space
    <3>2. Minus(a, i) = Minus(w.p.lastack, i) + 1
      BY <1>1, <1>2, <3>1, OffsetPlus
    <3> HIDE DEF m, a
    <3> QED
      BY <2>1, <3>2
  <2>3. left.p.unsent = <<>> /\ left.p.unacked = <<>>
    <3>1. w.p.unsent \in Seq(NoData) /\ w.p.unacked \in Seq(NoData)
      BY <1>1 DEF Opening
    <3>2. /\ w.p.unacked = <<>> => Tail(w.p.unsent) = <<>>
          /\ w.p.unacked # <<>> => w.p.unsent = <<>> /\ Tail(w.p.unacked) = <<>>
      <4> DEFINE x == w.p.unsent
                 y == w.p.unacked
      <4>1. x \in Seq(NoData) /\ y \in Seq(NoData) /\ Len(x) + Len(y) = 1
        BY <2>1, <3>1
      <4> HIDE DEF x, y
      <4>2. /\ y = <<>> => Tail(x) = <<>>
            /\ y # <<>> => x = <<>> /\ Tail(y) = <<>>
        BY <4>1, OneHeld
      <4> QED
        BY <4>2 DEF x, y
    <3>4. CASE w.p.unacked = <<>>
      <4>5. Tail(w.p.unsent) = <<>>
        BY <3>2, <3>4
      <4> DEFINE t == Tail(w.p.unsent)
      <4> HIDE DEF t
      <4>6. left = [w EXCEPT !.p.unsent = t]
        BY <3>4 DEF t
      <4> HIDE DEF left
      <4> QED
        BY <1>1, <3>4, <4>5, <4>6, Fields DEF Typed, TypedPcb, t
    <3>5. CASE w.p.unacked # <<>>
      <4>3. w.p.unsent = <<>>
        BY <3>2, <3>5
      <4>5. Tail(w.p.unacked) = <<>>
        BY <3>2, <3>5
      <4> DEFINE t == Tail(w.p.unacked)
      <4> HIDE DEF t
      <4>6. left = [w EXCEPT !.p.unacked = t]
        BY <3>5 DEF t
      <4> HIDE DEF left
      <4> QED
        BY <1>1, <4>3, <4>5, <4>6, Fields DEF Typed, TypedPcb, t
    <3> QED
      BY <3>4, <3>5
  <2>4. /\ Typed(left) /\ left.p.snd_nxt = w.p.snd_nxt
        /\ left.p.snd_lbb = w.p.snd_lbb /\ left.p.persist = w.p.persist
        /\ left.p.rxclosed = w.p.rxclosed /\ left.p.closepend = w.p.closepend
        /\ left.a = w.a /\ left.listen = w.listen /\ left.flag = w.flag
    BY <1>1, Fields DEF Typed, TypedPcb
  <2>5. rcv \in SeqNos
    <3>1. s.seq \in Int
      BY <1>1 DEF SeqNos
    <3> QED
      BY <3>1, Numbers
  <2> DEFINE rt == left.p.unacked # <<>>
  <2>6. ~rt /\ rt \in BOOLEAN
    BY <2>3
  <2>7. est = [left EXCEPT
               !.p.state = "ESTABLISHED", !.p.rcv_nxt = rcv,
               !.p.rcv_ann_right_edge = rcv, !.p.lastack = a,
               !.p.snd_wnd = s.wnd, !.p.snd_wl1 = wl1,
               !.p.rtime = rt, !.p.nrtx = nrtx]
    OBVIOUS
  <2> DEFINE q == [left.p EXCEPT
               !.state = "ESTABLISHED", !.rcv_nxt = rcv,
               !.rcv_ann_right_edge = rcv, !.lastack = a,
               !.snd_wnd = s.wnd, !.snd_wl1 = wl1,
               !.rtime = rt, !.nrtx = nrtx]
  <2> HIDE DEF est, rcv, wl1, nrtx, left, rt, a
  <2>8. est = [left EXCEPT !.p = q]
    BY <2>4, <2>7 DEF Typed
  <2>9. est.p = q /\ est.a = left.a /\ est.listen = left.listen /\ est.out = left.out
        /\ est.data = left.data /\ est.flag = left.flag /\ DOMAIN est = DOMAIN left
    <3> HIDE DEF q
    <3> QED
      BY <2>4, <2>8 DEF Typed
  <2>10. /\ q.unsent = <<>> /\ q.unacked = <<>>
         /\ q.rtime = rt /\ q.persist = w.p.persist
         /\ q.state = "ESTABLISHED" /\ q.snd_lbb = w.p.snd_lbb
         /\ q.lastack = a /\ q.snd_nxt = w.p.snd_nxt
         /\ q.rxclosed = w.p.rxclosed /\ q.closepend = w.p.closepend
    BY <2>3, <2>4, Fields DEF Typed, TypedPcb
  <2>11. Typed(est)
    <3>1. TypedPcb(q)
      <4>1. TypedPcb(left.p)
        BY <2>4 DEF Typed
      <4> QED
        BY <1>1, <2>5, <2>6, <4>1, Fields DEF TypedPcb, Open
    <3> HIDE DEF q
    <3> QED
      BY <2>4, <2>9, <3>1 DEF Typed
  <2> HIDE DEF q
  <2>12. Numbered(est.p, est.a, i)
    <3>1. "SYN_SENT" \in Open /\ "ESTABLISHED" \in Open
      BY DEF Open
    <3>2. Top(est.p, est.a, i) = top
      BY <2>4, <2>9, <2>10, <3>1 DEF Top
    <3>3. m <= top /\ top <= w.a.wrote + 1
      BY <1>1, <3>1 DEF Numbered
    <3>4. HoldsNothing(est.p) /\ <<>> \in Seq(Within(i, top))
      BY <2>9, <2>10, EmptySeq DEF HoldsNothing
    <3> HIDE DEF top
    <3> QED
      BY <2>2, <2>4, <2>9, <2>10, <3>1, <3>2, <3>3, <3>4 DEF Numbered
  <2>13. Timed(est.p) /\ Opening(est.p, i) /\ Waits(est.p)
    BY <2>9, <2>10 DEF Timed, Opening, Waits
  <2>14. Closing(est.p, est.a, est.listen)
    BY <1>1, <2>4, <2>9, <2>10 DEF Closing
  <2>15. Processed(est, e, i)
    <3>1. Sound(est, e, i)
      BY <1>1, <2>4, <2>9, <2>11, <2>12, <2>13, <2>14 DEF Sound
    <3> QED
      BY <2>4, <2>9, <2>13, <3>1 DEF Processed
  <2>16. Light(est, AckNow(est))
    BY <2>11, AckNowTyped DEF Light, AckNow, Typed
  <2> QED
    BY <2>15, <2>16, SameProcessed
<1>3. ASSUME NEW r, r = Sends(w, ResetFor(s)) 
      PROVE  /\ Processed(r, e, i)
             /\ w.p.unacked # <<>> => Processed(RexmitRto(r), e, i)
  <2>1. Light(w, r) /\ r.p = w.p
    BY <1>1, <1>3, ResetForSound
  <2>2. Processed(r, e, i)
    BY <2>1, SameProcessed
  <2>3. ASSUME w.p.unacked # <<>> PROVE Processed(RexmitRto(r), e, i)
    <3>1. ~HoldsNothing(r.p)
      BY <2>1, <2>3 DEF HoldsNothing
    <3>2. Moved(r, RexmitRto(r), e, i) /\ RexmitRto(r).flag = r.flag
      BY <2>2, <3>1, RexmitRtoSound DEF Processed
    <3>3. Waits(RexmitRto(r).p)
      BY <2>2, <3>2, MovedWaits DEF Processed
    <3>4. r.flag # "GONE"
      BY <2>1 DEF Light
    <3> QED
      BY <3>2, <3>3, <3>4 DEF Processed, Moved
  <2> QED
    BY <2>2, <2>3
<1>4. \/ v = AckNow(est) /\ s.ack /\ s.syn /\ a = Plus(w.p.lastack, 1)
      \/ v = Sends(w, ResetFor(s))
      \/ v = RexmitRto(Sends(w, ResetFor(s))) /\ w.p.unacked # <<>>
      \/ v = w
  <2>1. CASE s.ack /\ s.syn /\ a = Plus(w.p.lastack, 1)
    <3>1. nrtx = IF left.p.unacked = <<>> THEN left.p.nrtx ELSE 0
      OBVIOUS
    <3>2. v = AckNow(est)
      BY <2>1 DEF ProcessSynSent
    <3> QED
      BY <2>1, <3>2
  <2>2. CASE ~(s.ack /\ s.syn /\ a = Plus(w.p.lastack, 1))
    BY <2>2, Zenon DEF ProcessSynSent
  <2> QED
    BY <2>1, <2>2
<1> HIDE DEF v, est
<1> QED
  BY <1>2, <1>3, <1>4 DEF v

\* The acknowledgment of the listener's SYN.
LEMMA ProcessSynRcvdSound ==
  ASSUME NEW e, NEW i \in SeqNos, NEW w, Processed(w, e, i), w.flag # "GONE",
         w.p.state = "SYN_RCVD", NEW s \in WireSegs, NEW v \in ProcessSynRcvd(w, s)
  PROVE  Processed(v, e, i)
<1> DEFINE x == [w EXCEPT !.p.state = "ESTABLISHED", !.listen = FALSE]
           accepted == s.ack /\ Between(s.ackno, Plus(w.p.lastack, 1), w.p.snd_nxt)
           close(u) == [u EXCEPT !.p.state = "CLOSE_WAIT"]
<1>1. Sound(w, e, i) /\ Typed(w) /\ Numbered(w.p, w.a, i) /\ Timed(w.p)
      /\ Closing(w.p, w.a, w.listen)
  BY DEF Processed, Sound
<1>2. Sound(x, e, i) /\ x.p.state = "ESTABLISHED" /\ x.flag = w.flag
  <2>1. /\ x.p.state = "ESTABLISHED" /\ x.p.unsent = w.p.unsent
        /\ x.p.unacked = w.p.unacked
        /\ x.p.lastack = w.p.lastack /\ x.p.snd_nxt = w.p.snd_nxt
        /\ x.p.snd_lbb = w.p.snd_lbb /\ x.p.rtime = w.p.rtime
        /\ x.p.persist = w.p.persist /\ x.p.rxclosed = w.p.rxclosed
        /\ x.p.closepend = w.p.closepend /\ x.a = w.a /\ ~x.listen /\ x.flag = w.flag
    BY <1>1, Fields DEF Typed, TypedPcb
  <2>2. Typed(x)
    BY <1>1, Fields DEF Typed, TypedPcb, Open
  <2> HIDE DEF x
  <2>3. Numbered(x.p, x.a, i)
    <3>1. "SYN_RCVD" \in Open /\ "ESTABLISHED" \in Open
      BY DEF Open
    <3> QED
      BY <1>1, <2>1, <3>1 DEF Numbered, Top, HoldsNothing
  <2>4. Timed(x.p) /\ Opening(x.p, i)
    BY <1>1, <2>1 DEF Timed, Opening
  <2>5. Closing(x.p, x.a, x.listen)
    BY <1>1, <2>1 DEF Closing
  <2> QED
    BY <2>1, <2>2, <2>3, <2>4, <2>5 DEF Sound
<1>3. ASSUME NEW u \in Receive(x, s)
      PROVE  Processed(IF u.fin THEN AckNow(close(u)) ELSE u, e, i)
  <2>1. Received(x, u, s, e, i)
    <3> HIDE DEF x
    <3> QED
      BY <1>2, <1>3, ReceiveSound DEF Live
  <2>2. Sound(u, e, i) /\ u.p.state = "ESTABLISHED" /\ u.flag # "GONE"
    BY <1>2, <2>1 DEF Received
  <2>3. Processed(u, e, i)
    BY <2>2 DEF Processed, Waits
  <2>4. Processed(AckNow(close(u)), e, i)
    <3>1. Sound(close(u), e, i) /\ close(u).p.state = "CLOSE_WAIT"
      BY <2>2, GotoSound
    <3>2. close(u).flag = u.flag
      BY <2>2 DEF Sound, Typed
    <3> HIDE DEF close
    <3>3. Processed(close(u), e, i)
      BY <2>2, <3>1, <3>2 DEF Processed, Waits
    <3>4. Light(close(u), AckNow(close(u)))
      BY <3>1, AckNowTyped DEF Light, AckNow, Sound, Typed
    <3> QED
      BY <3>3, <3>4, SameProcessed
  <2> QED
    BY <2>3, <2>4
<1>4. Processed(Sends(w, ResetFor(s)), e, i)
  BY <1>1, ResetForSound, SameProcessed
<1>5. Processed(Rexmit(w), e, i)
  <2>1. Moved(w, Rexmit(w), e, i) /\ Rexmit(w).flag = w.flag
    BY <1>1, RexmitSound
  <2> QED
    BY <2>1, MovedWaits DEF Processed, Moved
<1>6. \/ \E u \in Receive(x, s) : v = IF u.fin THEN AckNow(close(u)) ELSE u
      \/ v \in {Sends(w, ResetFor(s)), Rexmit(w), w}
  <2>1. CASE accepted
    <3>1. v \in {IF u.fin THEN AckNow(close(u)) ELSE u : u \in Receive(x, s)}
      BY <2>1, Zenon DEF ProcessSynRcvd
    <3> HIDE DEF x, close
    <3> QED
      BY <3>1
  <2>2. CASE ~accepted /\ s.ack
    <3>1. v \in {Sends(w, ResetFor(s))}
      BY <2>2, Zenon DEF ProcessSynRcvd
    <3> QED
      BY <3>1
  <2>3. CASE ~s.ack
    <3>1. v \in {Rexmit(w)} \/ v \in {w}
      BY <2>3, Zenon DEF ProcessSynRcvd
    <3> QED
      BY <3>1
  <2> QED
    BY <2>1, <2>2, <2>3
<1> HIDE DEF x, close
<1> QED
  BY <1>3, <1>4, <1>5, <1>6

\* The state that follows what tcp_receive has made of the PCB.
LEMMA AfterReceiveSound ==
  ASSUME NEW e, NEW i \in SeqNos, NEW w, Sound(w, e, i), Waits(w.p), w.flag # "GONE",
         Live(w.p), w.p.state \notin {"SYN_SENT", "SYN_RCVD"},
         NEW s \in WireSegs, NEW v, Received(w, v, s, e, i)
  PROVE  Processed(AfterReceive(v, s), e, i)
<1> DEFINE goto(state) == [v EXCEPT !.p.state = state]
           u == AfterReceive(v, s)
<1>1. /\ Sound(v, e, i) /\ v.p.state = w.p.state /\ v.flag # "GONE" /\ Typed(v)
      /\ v.p.state \in {"ESTABLISHED", "CLOSE_WAIT", "FIN_WAIT_1", "FIN_WAIT_2",
                        "CLOSING", "LAST_ACK"}
  BY DEF Received, Sound, Typed, TypedPcb, Live, Open, Synchronized, FinStates
<1>2. v.p.state \in {"FIN_WAIT_1", "CLOSING", "LAST_ACK"} =>
        ~HoldsNothing(v.p) \/ AcksAll(v, s)
  BY DEF Received, Waits
<1>3. ASSUME NEW t, Processed(t, e, i) PROVE Processed(AckNow(t), e, i)
  <2>1. Light(t, AckNow(t))
    BY <1>3, AckNowTyped DEF Light, AckNow, Sound, Typed, Processed
  <2> QED
    BY <1>3, <2>1, SameProcessed
<1>4. ASSUME NEW state, state \in {"FIN_WAIT_1", "CLOSING", "LAST_ACK"} => ~HoldsNothing(v.p),
             \/ v.p.state \in FinStates /\ state \in FinStates
             \/ v.p.state \in {"ESTABLISHED", "CLOSE_WAIT"} /\ state = "CLOSE_WAIT"
      PROVE  Processed(goto(state), e, i)
  <2> DEFINE t == goto(state)
  <2>1. /\ Sound(t, e, i) /\ t.p.state = state
        /\ t.p.unsent = v.p.unsent /\ t.p.unacked = v.p.unacked
    BY <1>1, <1>4, GotoSound
  <2>2. t.flag = v.flag
    BY <1>1 DEF Typed
  <2> HIDE DEF t
  <2>3. Waits(t.p)
    BY <1>4, <2>1 DEF Waits, HoldsNothing
  <2>4. Processed(t, e, i)
    BY <1>1, <2>1, <2>2, <2>3 DEF Processed
  <2> QED
    BY <2>4 DEF t
<1>5. ASSUME v.p.state \in FinStates PROVE Processed(ToTimeWait(v), e, i)
  BY <1>1, <1>5, ToTimeWaitSound DEF Processed
<1>6. Waits(v.p) => Processed(v, e, i)
  BY <1>1 DEF Processed
<1> HIDE DEF goto
<1>7. CASE v.p.state \in {"ESTABLISHED", "CLOSE_WAIT"}
  <2>1. u = IF v.fin THEN AckNow(goto("CLOSE_WAIT")) ELSE v
    BY <1>7 DEF AfterReceive, goto
  <2>2. Processed(goto("CLOSE_WAIT"), e, i) /\ Waits(v.p)
    BY <1>4, <1>7 DEF Waits
  <2> QED
    BY <1>3, <1>6, <2>1, <2>2
<1>8. CASE v.p.state = "FIN_WAIT_1"
  <2>1. u = IF v.fin THEN AckNow(IF AcksAll(v, s) THEN ToTimeWait(v) ELSE goto("CLOSING"))
            ELSE IF AcksAll(v, s) THEN goto("FIN_WAIT_2") ELSE v
    BY <1>8 DEF AfterReceive, goto
  <2>2. v.p.state \in FinStates /\ "CLOSING" \in FinStates /\ "FIN_WAIT_2" \in FinStates
    BY <1>8 DEF FinStates
  <2>3. CASE AcksAll(v, s)
    <3>1. Processed(AckNow(ToTimeWait(v)), e, i) /\ Processed(goto("FIN_WAIT_2"), e, i)
      BY <1>3, <1>4, <1>5, <2>2
    <3> QED
      BY <2>1, <2>3, <3>1
  <2>4. CASE ~AcksAll(v, s)
    <3>1. ~HoldsNothing(v.p)
      BY <1>2, <1>8, <2>4
    <3>2. Processed(AckNow(goto("CLOSING")), e, i) /\ Processed(v, e, i)
      BY <1>3, <1>4, <1>6, <2>2, <3>1 DEF Waits
    <3> QED
      BY <2>1, <2>4, <3>2
  <2> QED
    BY <2>3, <2>4
<1>9. CASE v.p.state = "FIN_WAIT_2"
  <2>1. u = IF v.fin THEN AckNow(ToTimeWait(v)) ELSE v
    BY <1>9 DEF AfterReceive
  <2>2. v.p.state \in FinStates /\ Waits(v.p)
    BY <1>9 DEF FinStates, Waits
  <2> QED
    BY <1>3, <1>5, <1>6, <2>1, <2>2
<1>10. CASE v.p.state = "CLOSING"
  <2>1. u = IF AcksAll(v, s) THEN ToTimeWait(v) ELSE v
    BY <1>10 DEF AfterReceive
  <2>2. v.p.state \in FinStates /\ (~AcksAll(v, s) => Waits(v.p))
    BY <1>2, <1>10 DEF FinStates, Waits
  <2> QED
    BY <1>5, <1>6, <2>1, <2>2
<1>11. CASE v.p.state = "LAST_ACK"
  <2>1. u = IF AcksAll(v, s) THEN Freed(v) ELSE v
    BY <1>11 DEF AfterReceive
  <2>2. ~AcksAll(v, s) => Waits(v.p)
    BY <1>2, <1>11 DEF Waits
  <2>3. Processed(Freed(v), e, i)
    BY <1>1, FreedSound DEF Processed
  <2> QED
    BY <1>6, <2>1, <2>2, <2>3
<1> QED
  BY <1>1, <1>7, <1>8, <1>9, <1>10, <1>11

LEMMA ProcessSound ==
  ASSUME NEW e, NEW i \in SeqNos, NEW w, Processed(w, e, i), w.flag # "GONE",
         Live(w.p), NEW s \in WireSegs, NEW v \in Process(w, s)
  PROVE  Processed(v, e, i)
<1> DEFINE x == [w EXCEPT !.p.probes = 0]
<1>1. Sound(w, e, i) /\ Typed(w)
  BY DEF Processed, Sound
<1>2. Light(w, x)
  <2>1. Typed(x)
    BY <1>1, Fields DEF Typed, TypedPcb
  <2>2. Same(w, x) /\ x.flag = w.flag
    BY <1>1, Fields DEF Typed, TypedPcb, Same
  <2> QED
    BY <2>1, <2>2 DEF Light
<1>3. \/ v = ProcessReset(w, s)
      \/ v = AckNow(w)
      \/ v = ProcessSynSent(x, s) /\ w.p.state = "SYN_SENT"
      \/ v \in ProcessSynRcvd(x, s) /\ w.p.state = "SYN_RCVD"
      \/ /\ w.p.state \notin {"SYN_SENT", "SYN_RCVD"}
         /\ \E u \in Receive(x, s) : v = AfterReceive(u, s)
  <2>1. CASE s.rst
    <3>1. v \in {ProcessReset(w, s)}
      BY <2>1, Zenon DEF Process
    <3> QED
      BY <3>1
  <2>2. CASE ~s.rst /\ s.syn /\ w.p.state \notin {"SYN_SENT", "SYN_RCVD"}
    <3>1. v \in {AckNow(w)}
      BY <2>2, Zenon DEF Process
    <3> QED
      BY <3>1
  <2>3. CASE /\ ~s.rst /\ ~(s.syn /\ w.p.state \notin {"SYN_SENT", "SYN_RCVD"})
             /\ w.p.state = "SYN_SENT"
    <3>1. v \in {ProcessSynSent(x, s)}
      BY <2>3, Zenon DEF Process
    <3> HIDE DEF x
    <3> QED
      BY <2>3, <3>1
  <2>4. CASE /\ ~s.rst /\ ~(s.syn /\ w.p.state \notin {"SYN_SENT", "SYN_RCVD"})
             /\ w.p.state # "SYN_SENT" /\ w.p.state = "SYN_RCVD"
    <3>1. v \in ProcessSynRcvd(x, s)
      BY <2>4, Zenon DEF Process
    <3> QED
      BY <2>4, <3>1
  <2>5. CASE /\ ~s.rst /\ ~(s.syn /\ w.p.state \notin {"SYN_SENT", "SYN_RCVD"})
             /\ w.p.state # "SYN_SENT" /\ w.p.state # "SYN_RCVD"
    <3>1. v \in {AfterReceive(u, s) : u \in Receive(x, s)}
      BY <2>5, Zenon DEF Process
    <3> HIDE DEF x
    <3> QED
      BY <2>5, <3>1
  <2> QED
    BY <2>1, <2>2, <2>3, <2>4, <2>5
<1> HIDE DEF x
<1>4. /\ Processed(x, e, i) /\ x.flag # "GONE" /\ x.p.state = w.p.state /\ Live(x.p)
      /\ Sound(x, e, i) /\ Waits(x.p)
  BY <1>2, SameProcessed DEF Light, Same, Live, Processed
<1>5. Processed(ProcessReset(w, s), e, i)
  BY ProcessResetSound
<1>6. Processed(AckNow(w), e, i)
  <2>1. Light(w, AckNow(w))
    BY <1>1, AckNowTyped DEF Light, AckNow, Typed
  <2> QED
    BY <2>1, SameProcessed
<1>7. ASSUME w.p.state = "SYN_SENT" PROVE Processed(ProcessSynSent(x, s), e, i)
  BY <1>4, <1>7, ProcessSynSentSound
<1>8. ASSUME w.p.state = "SYN_RCVD", v \in ProcessSynRcvd(x, s) PROVE Processed(v, e, i)
  BY <1>4, <1>8, ProcessSynRcvdSound
<1>9. ASSUME w.p.state \notin {"SYN_SENT", "SYN_RCVD"}, NEW u \in Receive(x, s)
      PROVE  Processed(AfterReceive(u, s), e, i)
  <2>1. Received(x, u, s, e, i)
    BY <1>4, <1>9, ReceiveSound
  <2> QED
    BY <1>4, <1>9, <2>1, AfterReceiveSound
<1> QED
  BY <1>3, <1>5, <1>6, <1>7, <1>8, <1>9

-----------------------------------------------------------------------------
(* tcp_input.                                                              *)

LEMMA SameOutputSound ==
  ASSUME NEW e, NEW i \in SeqNos, NEW w, Sound(w, e, i), Waits(w.p),
         NEW u, Typed(u), Same(w, u), NEW v \in Output(u)
  PROVE  Fine(v, e, i)
<1>1. Sound(u, e, i) /\ Waits(u.p)
  BY SameSound
<1> QED
  BY <1>1, OutputSound DEF FineAs

LEMMA CallbacksSound ==
  ASSUME NEW e, NEW i \in SeqNos, NEW w, Processed(w, e, i),
         NEW take, NEW v \in Callbacks(w, take)
  PROVE  Fine(v, e, i)
<1> DEFINE u == IF w.data # <<>> THEN Offer(w, w.data, w.fin, take)
                ELSE IF w.fin THEN EndOfStream(w) ELSE w
<1>1. Sound(w, e, i) /\ Waits(w.p) /\ (w.flag = "GONE" => Probes(w.p)) /\ Typed(w)
  BY DEF Processed, Sound
<1>2. CASE w.flag = "GONE"
  <2>1. v \in {w}
    BY <1>2, Zenon DEF Callbacks
  <2> QED
    BY <1>1, <1>2, <2>1 DEF Fine
<1>3. CASE w.flag # "GONE" /\ w.data # <<>> /\ w.p.rxclosed
  <2>1. v \in {Abort(w)}
    BY <1>3, Zenon DEF Callbacks
  <2> QED
    BY <1>1, <2>1, AbortSound DEF Fine
<1>4. CASE w.flag # "GONE" /\ ~(w.data # <<>> /\ w.p.rxclosed)
  <2>1. v \in Output(u)
    BY <1>4, Zenon DEF Callbacks
  <2>2. Typed(u) /\ Same(w, u)
    <3>1. Same(w, w) /\ w.data \in Seq(Nat)
      BY <1>1 DEF Same, Typed
    <3> QED
      BY <1>1, <3>1, OfferTyped, EndOfStreamTyped
  <2> HIDE DEF u
  <2> QED
    BY <1>1, <2>1, <2>2, SameOutputSound
<1> QED
  BY <1>2, <1>3, <1>4

LEMMA ActiveInputSound ==
  ASSUME NEW e, NEW i \in SeqNos, NEW w, Fine(w, e, i), w.flag # "GONE", Live(w.p),
         NEW s \in WireSegs, NEW take, NEW v \in ActiveInput(w, s, take)
  PROVE  Fine(v, e, i)
<1> DEFINE x == OfferAgain(w, take)
<1>1. Sound(w, e, i) /\ Waits(w.p) /\ Probes(w.p) /\ Typed(w)
  BY DEF Fine, Sound
<1>2. Typed(x) /\ Same(w, x)
  BY <1>1, OfferAgainTyped
<1>3. x.flag = w.flag
  BY <1>1 DEF OfferAgain, Offer, EndOfStream, Typed
<1>4. \/ v = SendEmptyAck(x)
      \/ v = x
      \/ \E u \in Process(x, s) : v \in Callbacks(u, take)
  BY Zenon DEF ActiveInput
<1> HIDE DEF x
<1>5. Fine(x, e, i) /\ Live(x.p)
  <2>1. Fine(x, e, i)
    BY <1>1, <1>2, SameFine DEF FineAs
  <2> QED
    BY <1>2, <2>1 DEF Live, Same
<1>6. Fine(SendEmptyAck(x), e, i)
  BY <1>2, <1>5, SendEmptyAckTyped, SameFine DEF FineAs, Fine
<1>7. ASSUME NEW u \in Process(x, s), v \in Callbacks(u, take) PROVE Fine(v, e, i)
  <2>1. Processed(x, e, i)
    BY <1>5 DEF Fine, Processed
  <2>2. Processed(u, e, i)
    BY <1>3, <1>5, <1>7, <2>1, ProcessSound
  <2> QED
    BY <1>7, <2>2, CallbacksSound
<1> QED
  BY <1>4, <1>5, <1>6, <1>7

LEMMA TimewaitInputSound ==
  ASSUME NEW e, NEW i \in SeqNos, NEW w, Fine(w, e, i),
         NEW s \in WireSegs, NEW v \in TimewaitInput(w, s)
  PROVE  Fine(v, e, i)
<1> DEFINE x == Sends(w, ResetFor(s))
<1>1. Sound(w, e, i) /\ Waits(w.p) /\ Probes(w.p) /\ Typed(w)
  BY DEF Fine, Sound
<1>2. v \in {w} \/ v \in {x} \/ v \in Output(AckNow(w))
  BY Zenon DEF TimewaitInput
<1>3. Fine(x, e, i)
  <2>1. Typed(x) /\ Same(w, x)
    BY <1>1, ResetForSound DEF Light
  <2> HIDE DEF x
  <2> QED
    BY <1>1, <2>1, SameFine DEF FineAs
<1>4. ASSUME v \in Output(AckNow(w)) PROVE Fine(v, e, i)
  BY <1>1, <1>4, AckNowTyped, SameOutputSound
<1> HIDE DEF x
<1> QED
  BY <1>2, <1>3, <1>4

\* A PCB that opens a connection holds its SYN.
LEMMA OpeningSound ==
  ASSUME NEW e, NEW i \in SeqNos, NEW j, NEW w, Sound(w, e, j), ~w.a.closed,
         NEW p, TypedPcb(p), p.state \in {"SYN_SENT", "SYN_RCVD"},
         p.unsent = <<QueuedSeg(i, <<>>, TRUE, FALSE)>>, p.unacked = <<>>,
         p.lastack = i, p.snd_lbb = Plus(i, 1),
         p.snd_nxt = IF p.state = "SYN_SENT" THEN Plus(i, 1) ELSE i,
         ~p.persist, ~p.closepend, w.listen => p.state = "SYN_RCVD"
  PROVE  LET v == [w EXCEPT !.p = p]
         IN  Sound(v, e, i) /\ Waits(v.p) /\ v.p = p /\ v.a = w.a
<1> DEFINE v == [w EXCEPT !.p = p]
           s == QueuedSeg(i, <<>>, TRUE, FALSE)
<1>1. Typed(v) /\ v.p = p /\ v.a = w.a /\ v.listen = w.listen
  BY DEF Sound, Typed
<1>2. Minus(i, i) = 0 /\ Minus(Plus(i, 1), i) = 1
  <2>1. Minus(i, i) = 0
    <3>1. i \in Int
      BY DEF SeqNos
    <3> QED
      BY <3>1, Turns
  <2>2. Minus(i, i) + 1 < SeqSpace
    BY <2>1, Space
  <2> QED
    BY <2>1, <2>2, OffsetPlus
<1>3. Top(p, w.a, i) = 1
  BY <1>2 DEF Top, Open
<1>4. /\ s \in Segs /\ s.data = <<>> /\ s.syn /\ ~s.fin /\ s.seq = i
      /\ TcpLen(s) = 1 /\ Len(s.data) = 0
  <2>1. /\ s.data = <<>> /\ s.syn /\ ~s.fin /\ s.seq = i /\ s.data \in Seq(Nat)
        /\ Len(s.data) = 0 /\ s.syn \in BOOLEAN /\ s.fin \in BOOLEAN
    BY DEF QueuedSeg
  <2>2. s \in Segs
    BY DEF QueuedSeg, Segs
  <2> HIDE DEF s
  <2>3. TcpLen(s) = Len(s.data) + 1
    BY <2>1, Length
  <2>4. TcpLen(s) = 1
    BY <2>1, <2>3
  <2> QED
    BY <2>1, <2>2, <2>4
<1> HIDE DEF v, s
<1>5. EndOf(s, i) = 1
  BY <1>2, <1>4 DEF EndOf
<1>6. s \in Within(i, 1) /\ s \in Reaching(i, 1) /\ s \in Reaching(i, 0) /\ s \in NoData
  BY <1>4, <1>5, TcpAssumption DEF Within, Reaching, NoData
<1>7. p.unsent = <<s>>
  BY DEF s
<1>8. /\ \A W : s \in W => p.unsent \in Seq(W) /\ Has(p.unsent, W)
      /\ Len(p.unsent) = 1
  <2>1. Len(<<s>>) = 1 /\ <<s>>[1] = s
    OBVIOUS
  <2>2. ASSUME NEW W, s \in W PROVE <<s>> \in Seq(W)
    BY <2>2
  <2>3. ASSUME NEW W, s \in W PROVE Has(<<s>>, W)
    BY <2>1, <2>3 DEF Has
  <2> QED
    BY <1>7, <2>1, <2>2, <2>3
<1>9. p.unacked \in Seq(Within(i, 1)) /\ p.unacked \in Seq(NoData) /\ Len(p.unacked) = 0
  OBVIOUS
<1>10. w.a.wrote \in Nat
  BY DEF Sound, Typed
<1>11. Minus(p.snd_nxt, i) = IF p.state = "SYN_SENT" THEN 1 ELSE 0
  BY <1>2
<1>12. Numbered(p, w.a, i)
  <2>1. p.unsent \in Seq(Within(i, 1)) /\ Has(p.unsent, Reaching(i, Minus(p.snd_nxt, i)))
    BY <1>6, <1>8, <1>11
  <2>2. p.state \in Open
    BY DEF Open
  <2>3. /\ 1 <= w.a.wrote + 1 /\ Minus(p.lastack, i) <= Minus(p.snd_nxt, i)
        /\ Minus(p.snd_nxt, i) <= 1
    BY <1>2, <1>10, <1>11
  <2> QED
    BY <1>3, <1>9, <2>1, <2>2, <2>3 DEF Numbered
<1>13. Opening(p, i)
  <2>1. ASSUME p.state = "SYN_SENT" PROVE Minus(p.lastack, i) < Minus(p.snd_nxt, i)
    BY <1>2, <1>11, <2>1
  <2>2. Len(p.unsent) + Len(p.unacked) = 1
    BY <1>8, <1>9
  <2>3. p.unsent \in Seq(NoData)
    BY <1>6, <1>8
  <2> QED
    BY <1>9, <2>1, <2>2, <2>3 DEF Opening
<1>14. Timed(p) /\ Waits(p)
  BY DEF Timed, Waits
<1>15. Closing(p, w.a, w.listen)
  BY DEF Closing
<1> QED
  BY <1>1, <1>12, <1>13, <1>14, <1>15 DEF Sound, v

LEMMA SynRcvdSound ==
  ASSUME NEW e, NEW i \in SeqNos, NEW j, NEW w, Sound(w, e, j), ~w.a.closed,
         NEW s \in WireSegs
  PROVE  LET v == [w EXCEPT !.p = SynRcvdPcb(s, i)]
         IN  Sound(v, e, i) /\ Waits(v.p)
<1> DEFINE p == SynRcvdPcb(s, i)
<1>1. s.seq \in SeqNos /\ s.wnd \in Nat
  BY WireTyped
<1>2. /\ Plus(s.seq, 1) \in SeqNos /\ Plus(s.seq, SeqSpace - 1) \in SeqNos
      /\ Plus(i, 1) \in SeqNos
  <2>1. s.seq \in Int /\ i \in Int /\ SeqSpace - 1 \in Int
    BY <1>1, Space DEF SeqNos
  <2> QED
    BY <2>1, Numbers
<1>3. 0 \in SeqNos /\ TCP_WND \in Nat
  BY Space, TcpAssumption DEF SeqNos
<1>4. TypedPcb(p)
  <2> DEFINE x == Plus(s.seq, 1)
             y == Plus(s.seq, SeqSpace - 1)
             z == Plus(i, 1)
             q == <<QueuedSeg(i, <<>>, TRUE, FALSE)>>
  <2>1. x \in SeqNos /\ y \in SeqNos /\ z \in SeqNos
    BY <1>2
  <2>2. p = [NoPcb EXCEPT !.state = "SYN_RCVD", !.rcv_nxt = x, !.rcv_ann_right_edge = x,
               !.lastack = i, !.snd_nxt = i, !.snd_wl2 = i, !.snd_wl1 = y,
               !.snd_wnd = s.wnd, !.snd_lbb = z, !.unsent = q]
    BY DEF SynRcvdPcb
  <2> HIDE DEF p, x, y, z, q
  <2>3. /\ DOMAIN p = DOMAIN NoPcb /\ p.state = "SYN_RCVD"
        /\ p.rcv_nxt = x /\ p.rcv_ann_right_edge = x /\ p.lastack = i
        /\ p.snd_nxt = i /\ p.snd_wnd = s.wnd /\ p.snd_lbb = z
        /\ p.rcv_wnd = TCP_WND /\ p.rcv_ann_wnd = TCP_WND
        /\ p.rtime = FALSE /\ p.persist = FALSE
        /\ p.rxclosed = FALSE /\ p.closepend = FALSE /\ p.refused = <<>>
    BY <2>2 DEF NoPcb
  <2>4. <<>> \in Seq(Nat) /\ "SYN_RCVD" \in Open
    BY DEF Open
  <2> QED
    BY <1>1, <1>3, <2>1, <2>3, <2>4 DEF TypedPcb
<1>5. /\ p.state = "SYN_RCVD" /\ p.unsent = <<QueuedSeg(i, <<>>, TRUE, FALSE)>>
      /\ p.unacked = <<>> /\ p.lastack = i /\ p.snd_lbb = Plus(i, 1)
      /\ p.snd_nxt = i /\ ~p.persist /\ ~p.closepend
  BY DEF SynRcvdPcb, NoPcb
<1> HIDE DEF p
<1> QED
  BY ZenonT(30), <1>4, <1>5, OpeningSound DEF p

LEMMA SynSentSound ==
  ASSUME NEW e, NEW i \in SeqNos, NEW j, NEW w, Sound(w, e, j), ~w.a.closed, ~w.listen
  PROVE  LET v == [w EXCEPT !.p = SynSentPcb(i)]
         IN  Sound(v, e, i) /\ Waits(v.p)
<1> DEFINE p == SynSentPcb(i)
<1>1. Plus(i, 1) \in SeqNos
  <2>1. i \in Int
    BY DEF SeqNos
  <2> QED
    BY <2>1, Numbers
<1>2. 0 \in SeqNos /\ TCP_WND \in Nat
  BY Space, TcpAssumption DEF SeqNos
<1>3. TypedPcb(p)
  <2> DEFINE z == Plus(i, 1)
             q == <<QueuedSeg(i, <<>>, TRUE, FALSE)>>
  <2>1. z \in SeqNos
    BY <1>1
  <2>2. p = [NoPcb EXCEPT !.state = "SYN_SENT", !.snd_nxt = z, !.lastack = i,
               !.snd_wl2 = i, !.snd_wnd = TCP_WND, !.snd_lbb = z, !.unsent = q]
    BY DEF SynSentPcb
  <2> HIDE DEF p, z, q
  <2>3. /\ DOMAIN p = DOMAIN NoPcb /\ p.state = "SYN_SENT"
        /\ p.rcv_nxt = 0 /\ p.rcv_ann_right_edge = 0 /\ p.lastack = i
        /\ p.snd_nxt = z /\ p.snd_wnd = TCP_WND /\ p.snd_lbb = z
        /\ p.rcv_wnd = TCP_WND /\ p.rcv_ann_wnd = TCP_WND
        /\ p.rtime = FALSE /\ p.persist = FALSE
        /\ p.rxclosed = FALSE /\ p.closepend = FALSE /\ p.refused = <<>>
    BY <2>2 DEF NoPcb
  <2>4. <<>> \in Seq(Nat) /\ "SYN_SENT" \in Open
    BY DEF Open
  <2> QED
    BY <1>2, <2>1, <2>3, <2>4 DEF TypedPcb
<1>4. /\ p.state = "SYN_SENT" /\ p.unsent = <<QueuedSeg(i, <<>>, TRUE, FALSE)>>
      /\ p.unacked = <<>> /\ p.lastack = i /\ p.snd_lbb = Plus(i, 1)
      /\ p.snd_nxt = Plus(i, 1) /\ ~p.persist /\ ~p.closepend
  BY DEF SynSentPcb, NoPcb
<1> HIDE DEF p
<1> QED
  BY ZenonT(30), <1>3, <1>4, OpeningSound DEF p

\* The number the stream of the next connection starts at, or of this one.
Start(e, w) ==
  IF pcb[e].state = "NONE" /\ w.p.state # "NONE" THEN Iss(e) ELSE FirstSeq(e)

LEMMA StartsTyped ==
  ASSUME IInv, NEW e \in Ends
  PROVE  Iss(e) \in SeqNos /\ FirstSeq(e) \in SeqNos
<1>1. ISS[e] \in SeqNos /\ SeqSpace \in Nat
  BY TcpAssumption DEF SeqNos
<1>2. ISS[e] \in Int /\ conns[e] \in Int /\ conns[e] - 1 \in Int
  BY <1>1 DEF SeqNos, IInv, EndSound
<1> QED
  BY <1>2, Numbers DEF Iss, FirstSeq

\* What an end without a connection holds is sound for any start of the next.
LEMMA AnyStart ==
  ASSUME NEW w, NEW e, NEW i, NEW j, Fine(w, e, i), w.p.state = "NONE"
  PROVE  Fine(w, e, j)
BY DEF Fine, Sound, Opening

-----------------------------------------------------------------------------
(* The program's calls.                                                    *)

\* v holds and has sent what w has, open or closed as it may be.
SendsAlike(w, v) ==
  /\ v.p.state = w.p.state
  /\ v.p.unsent = w.p.unsent /\ v.p.unacked = w.p.unacked
  /\ v.p.lastack = w.p.lastack /\ v.p.snd_nxt = w.p.snd_nxt
  /\ v.p.snd_lbb = w.p.snd_lbb
  /\ v.p.rtime = w.p.rtime /\ v.p.persist = w.p.persist
  /\ v.a.wrote = w.a.wrote /\ v.listen = w.listen

\* A FIN that goes out, or waits for memory; w is u that is being closed.
LEMMA CloseWithFinSound ==
  ASSUME NEW e, NEW i \in SeqNos, NEW u, Fine(u, e, i),
         u.p.state \notin {"NONE", "SYN_RCVD"},
         NEW w, Typed(w), SendsAlike(u, w),
         w.a.closed => w.p.rxclosed /\ u.p.state # "SYN_SENT",
         NEW memory, NEW v \in CloseWithFin(w, memory)
  PROVE  Fine(v, e, i)
<1> DEFINE next == IF w.p.state = "CLOSE_WAIT" THEN "LAST_ACK" ELSE "FIN_WAIT_1"
           fin == [SendFin(w) EXCEPT !.p.state = next]
           later == [w EXCEPT !.p.closepend = TRUE]
<1>1. Sound(u, e, i) /\ Waits(u.p) /\ Probes(u.p)
  BY DEF Fine
<1>2. /\ Numbered(w.p, w.a, i) /\ Timed(w.p) /\ Opening(w.p, i)
      /\ Waits(w.p) /\ Probes(w.p) /\ ~w.listen /\ w.p.state = u.p.state
  <2>1. Numbered(w.p, w.a, i)
    BY <1>1 DEF Sound, SendsAlike, Numbered, Top, HoldsNothing
  <2>2. Timed(w.p) /\ Opening(w.p, i)
    BY <1>1 DEF Sound, SendsAlike, Timed, Opening, HoldsNothing
  <2>3. Waits(w.p) /\ Probes(w.p)
    BY <1>1 DEF SendsAlike, Waits, Probes, HeldByPeer, Distance, HoldsNothing
  <2>4. ~w.listen /\ w.p.state = u.p.state
    BY <1>1 DEF Sound, SendsAlike, Closing
  <2> QED
    BY <2>1, <2>2, <2>3, <2>4
<1>3. \/ v = w /\ w.p.state \notin {"SYN_RCVD", "ESTABLISHED", "CLOSE_WAIT"}
      \/ v = later /\ w.p.state \in {"SYN_RCVD", "ESTABLISHED", "CLOSE_WAIT"}
      \/ v \in Output(fin) /\ w.p.state \in {"SYN_RCVD", "ESTABLISHED", "CLOSE_WAIT"}
  <2>1. CASE w.p.state \notin {"SYN_RCVD", "ESTABLISHED", "CLOSE_WAIT"}
    <3>1. v \in {w}
      BY <2>1, Zenon DEF CloseWithFin
    <3> QED
      BY <2>1, <3>1
  <2>2. CASE /\ ~(w.p.state \notin {"SYN_RCVD", "ESTABLISHED", "CLOSE_WAIT"})
             /\ ~memory /\ ~PiggyBacks(w.p)
    <3>1. v \in {later}
      BY <2>2, Zenon DEF CloseWithFin
    <3> HIDE DEF later
    <3> QED
      BY <2>2, <3>1
  <2>3. CASE /\ ~(w.p.state \notin {"SYN_RCVD", "ESTABLISHED", "CLOSE_WAIT"})
             /\ ~(~memory /\ ~PiggyBacks(w.p))
    <3>1. v \in Output(fin)
      BY <2>3, Zenon DEF CloseWithFin
    <3> HIDE DEF fin
    <3> QED
      BY <2>3, <3>1
  <2> QED
    BY <2>1, <2>2, <2>3
<1>4. ASSUME w.p.state \notin {"SYN_RCVD", "ESTABLISHED", "CLOSE_WAIT"}
      PROVE  Fine(w, e, i)
  <2>1. w.p.state \in FinStates \cup {"TIME_WAIT", "SYN_SENT"}
    BY <1>2, <1>4 DEF Typed, TypedPcb, Open, Synchronized
  <2>2. Closing(w.p, w.a, w.listen)
    BY <1>2, <1>4, <2>1 DEF Closing
  <2> QED
    BY <1>2, <2>2 DEF Fine, Sound
<1>5. ASSUME w.p.state \in {"SYN_RCVD", "ESTABLISHED", "CLOSE_WAIT"}
      PROVE  Fine(later, e, i)
  <2>1. Typed(later)
    BY Fields DEF Typed, TypedPcb
  <2>2. SendsAlike(w, later) /\ later.p.rxclosed = w.p.rxclosed /\ later.p.closepend
        /\ later.a = w.a
    BY Fields DEF Typed, TypedPcb, SendsAlike
  <2> HIDE DEF later
  <2>3. Numbered(later.p, later.a, i)
    BY <1>2, <2>2 DEF SendsAlike, Numbered, Top, HoldsNothing
  <2>4. Timed(later.p) /\ Opening(later.p, i)
    BY ZenonT(30), <1>2, <2>2 DEF SendsAlike, Timed, Opening, HoldsNothing
  <2>5. Waits(later.p) /\ Probes(later.p)
    BY <1>2, <2>2 DEF SendsAlike, Waits, Probes, HeldByPeer, Distance, HoldsNothing
  <2>6. Closing(later.p, later.a, later.listen)
    BY <1>2, <1>5, <2>2 DEF SendsAlike, Closing
  <2>7. ~later.listen
    BY <1>2, <2>2 DEF SendsAlike
  <2> QED
    BY <2>1, <2>3, <2>4, <2>5, <2>6, <2>7 DEF Fine, Sound
<1>6. ASSUME w.p.state \in {"SYN_RCVD", "ESTABLISHED", "CLOSE_WAIT"}, v \in Output(fin)
      PROVE  Fine(v, e, i)
  <2>1. w.p.state \in Open /\ Live(w.p) /\ next \in {"LAST_ACK", "FIN_WAIT_1"}
    BY <1>6 DEF Open, Live
  <2> HIDE DEF next
  <2>2. Sound(fin, e, i) /\ Waits(fin.p)
    BY <1>2, <2>1, SendFinSound
  <2> HIDE DEF fin
  <2> QED
    BY <1>6, <2>2, OutputSound DEF FineAs
<1> HIDE DEF later, fin
<1> QED
  BY <1>3, <1>4, <1>5, <1>6

LEMMA ShutdownSound ==
  ASSUME NEW e, NEW i \in SeqNos, NEW u, Fine(u, e, i),
         u.p.state \in {"ESTABLISHED", "CLOSE_WAIT"},
         NEW memory, NEW v \in CloseWithFin([u EXCEPT !.a.ended = TRUE], memory)
  PROVE  Fine(v, e, i)
<1> DEFINE w == [u EXCEPT !.a.ended = TRUE]
<1>1. Typed(u) /\ (u.a.closed => u.p.rxclosed)
  BY DEF Fine, Sound, Closing
<1>2. Typed(w) /\ SendsAlike(u, w) /\ w.p = u.p /\ w.a.closed = u.a.closed
  BY <1>1, Fields DEF Typed, SendsAlike
<1> HIDE DEF w
<1>3. v \in CloseWithFin(w, memory)
  BY DEF w
<1> QED
  BY <1>1, <1>2, <1>3, CloseWithFinSound

LEMMA CloseSound ==
  ASSUME NEW e, NEW i \in SeqNos, NEW u, Fine(u, e, i),
         u.p.state \notin {"NONE", "SYN_RCVD"},
         NEW memory,
         NEW v \in CloseAll([u EXCEPT !.a.ended = TRUE, !.a.closed = TRUE,
                                      !.p.rxclosed = TRUE], memory)
  PROVE  Fine(v, e, i)
<1> DEFINE w == [u EXCEPT !.a.ended = TRUE, !.a.closed = TRUE, !.p.rxclosed = TRUE]
           r == Reset(w.p.snd_nxt, w.p.rcv_nxt)
           x == Sends(w, r)
<1>1. Typed(u) /\ ~u.listen
  BY DEF Fine, Sound, Closing
<1>2. Typed(w)
  BY <1>1, Fields DEF Typed, TypedPcb
<1>3. SendsAlike(u, w) /\ w.p.rxclosed /\ w.listen = u.listen
  BY <1>1, Fields DEF Typed, TypedPcb, SendsAlike
<1> HIDE DEF w
<1>4. v \in CloseAll(w, memory)
  BY DEF w
<1>5. \/ v = Freed(x)
      \/ v = Freed(w)
      \/ v \in CloseWithFin(w, memory) /\ w.p.state # "SYN_SENT"
  <2>1. CASE UnreadData(w.p)
    <3>1. v \in {Freed(x)}
      BY <1>4, <2>1, Zenon DEF CloseAll
    <3> QED
      BY <3>1
  <2>2. CASE ~UnreadData(w.p) /\ w.p.state = "SYN_SENT"
    <3>1. v \in {Freed(w)}
      BY <1>4, <2>2, Zenon DEF CloseAll
    <3> QED
      BY <3>1
  <2>3. CASE ~UnreadData(w.p) /\ w.p.state # "SYN_SENT"
    BY <1>4, <2>3, Zenon DEF CloseAll
  <2> QED
    BY <2>1, <2>2, <2>3
<1>6. Fine(Freed(w), e, i)
  BY <1>1, <1>2, <1>3, FreedTyped DEF Fine
<1>7. Fine(Freed(x), e, i)
  <2>1. r \in WireSegs
    BY <1>2, ResetTyped DEF Typed, TypedPcb
  <2> HIDE DEF r
  <2>2. Typed(x) /\ x.listen = w.listen
    BY <1>2, <2>1, SendsTyped DEF Same
  <2> HIDE DEF x
  <2> QED
    BY <1>1, <1>3, <2>2, FreedTyped DEF Fine
<1>8. ASSUME v \in CloseWithFin(w, memory), w.p.state # "SYN_SENT" PROVE Fine(v, e, i)
  BY <1>2, <1>3, <1>8, CloseWithFinSound DEF SendsAlike
<1> HIDE DEF x
<1> QED
  BY <1>5, <1>6, <1>7, <1>8

\* The program reads.
LEMMA RecvedSound ==
  ASSUME NEW e, NEW i \in SeqNos, NEW u, Fine(u, e, i), Unread(u.p) > 0,
         NEW v,
         LET w == [u EXCEPT !.p.rcv_wnd = @ + Unread(u.p)]
         IN  v = WithAnnWnd(w) \/ v \in Output(AckNow(WithAnnWnd(w)))
  PROVE  Fine(v, e, i)
<1> DEFINE n == u.p.rcv_wnd + Unread(u.p)
           w == [u EXCEPT !.p.rcv_wnd = n]
           x == WithAnnWnd(w)
<1>1. Sound(u, e, i) /\ Waits(u.p) /\ Probes(u.p) /\ Typed(u)
  BY DEF Fine, Sound
<1>2. n \in Nat
  <2> DEFINE k == IF u.p.refused_fin THEN 1 ELSE 0
  <2>1. k \in Nat
    BY Zenon
  <2>2. u.p.rcv_wnd \in Nat /\ Len(u.p.refused) \in Nat /\ TCP_WND \in Nat
    BY <1>1, LenProperties, TcpAssumption DEF Typed, TypedPcb
  <2>3. Unread(u.p) = TCP_WND - u.p.rcv_wnd - Len(u.p.refused) - k
    BY DEF Unread
  <2> HIDE DEF k
  <2>4. Unread(u.p) \in Int
    BY SMTT(30), <2>1, <2>2, <2>3
  <2> QED
    BY <2>2, <2>4
<1>3. v = x \/ v \in Output(AckNow(x))
  OBVIOUS
<1> HIDE DEF n
<1>4. Typed(w)
  BY <1>1, <1>2, Fields DEF Typed, TypedPcb
<1>5. Same(u, w)
  BY <1>1, Fields DEF Typed, TypedPcb, Same
<1> HIDE DEF w
<1>6. Typed(x) /\ Same(w, x)
  BY <1>4, WithAnnWndTyped
<1> HIDE DEF x
<1>7. Same(u, x)
  BY <1>5, <1>6 DEF Same
<1>8. Fine(x, e, i)
  BY <1>1, <1>6, <1>7, SameFine DEF FineAs
<1>9. ASSUME v \in Output(AckNow(x)) PROVE Fine(v, e, i)
  BY <1>6, <1>8, <1>9, AckNowTyped, SameOutputSound DEF Fine
<1> QED
  BY <1>3, <1>8, <1>9

-----------------------------------------------------------------------------
(* The timers.                                                             *)

LEMMA ExpiredSound ==
  ASSUME NEW e, NEW i \in SeqNos, NEW w, Fine(w, e, i), NEW expires,
         NEW v \in Expired(w, expires)
  PROVE  Fine(v, e, i)
<1> DEFINE cut == [w EXCEPT !.p.unsent = Split(@, w.p.snd_wnd)]
           u == RexmitRto(w)
           z == ZeroWindowProbe(w)
<1>1. Sound(w, e, i) /\ Waits(w.p) /\ Typed(w)
  BY DEF Fine, Sound
<1>2. \/ v \in {w}
      \/ v \in {z}
      \/ v \in Output(cut) /\ w.p.unsent # <<>> /\ w.p.snd_wnd # 0
      \/ v \in Output(u) /\ (w.p.unacked # <<>> \/ w.p.unsent # <<>>)
  BY Zenon DEF Expired
<1>3. Fine(z, e, i)
  <2>1. /\ Moved(w, z, e, i) /\ z.p.persist = w.p.persist
        /\ z.p.unsent = w.p.unsent /\ z.p.unacked = w.p.unacked
        /\ z.p.lastack = w.p.lastack
    BY <1>1, ZeroWindowProbeSound
  <2> HIDE DEF z
  <2> QED
    BY <1>1, <2>1, MovedWaits DEF Moved, Fine, Probes, HeldByPeer, Distance
<1>4. ASSUME v \in Output(cut), w.p.unsent # <<>>, w.p.snd_wnd # 0
      PROVE  Fine(v, e, i)
  <2>1. w.p.snd_wnd \in Nat \ {0}
    BY <1>1, <1>4 DEF Typed, TypedPcb
  <2>2. Moved(w, cut, e, i)
    BY <1>1, <1>4, <2>1, SplitSound
  <2> HIDE DEF cut
  <2> QED
    BY <1>1, <1>4, <2>2, MovedWaits, OutputSound DEF Moved, FineAs
<1>5. ASSUME v \in Output(u), w.p.unacked # <<>> \/ w.p.unsent # <<>>
      PROVE  Fine(v, e, i)
  <2>1. ~HoldsNothing(w.p)
    BY <1>5 DEF HoldsNothing
  <2>2. Moved(w, u, e, i)
    BY <1>1, <2>1, RexmitRtoSound
  <2> HIDE DEF u
  <2> QED
    BY <1>1, <1>5, <2>2, MovedWaits, OutputSound DEF Moved, FineAs
<1> HIDE DEF cut, u, z
<1> QED
  BY <1>1, <1>2, <1>3, <1>4, <1>5

LEMMA SlowTmrSound ==
  ASSUME NEW e, NEW i \in SeqNos, NEW w, Fine(w, e, i), NEW expires, NEW overdue,
         NEW v \in SlowTmrWork(w, expires, overdue)
  PROVE  Fine(v, e, i)
<1>1. Sound(w, e, i)
  BY DEF Fine
<1>2. \/ v = w
      \/ v = Freed(w)
      \/ \E u \in Expired(w, expires) : v \in {Freed(u), u} \/ v \in Output(u)
  <2>1. CASE w.p.state = "TIME_WAIT"
    <3>1. v \in {IF overdue THEN Freed(w) ELSE w}
      BY <2>1, Zenon DEF SlowTmrWork
    <3> QED
      BY <3>1, Zenon
  <2>2. CASE w.p.state # "TIME_WAIT" /\ Exhausted(w.p)
    <3>1. v \in {Freed(w)}
      BY <2>2, Zenon DEF SlowTmrWork
    <3> QED
      BY <3>1
  <2>3. CASE w.p.state # "TIME_WAIT" /\ ~Exhausted(w.p)
    <3>1. PICK u \in Expired(w, expires) :
            v \in IF overdue /\ TimesOut(u.p) THEN {Freed(u)} ELSE {u} \cup Output(u)
      BY <2>3, Zenon DEF SlowTmrWork
    <3> QED
      BY <3>1, Zenon
  <2> QED
    BY <2>1, <2>2, <2>3
<1>3. Fine(Freed(w), e, i)
  BY <1>1, FreedSound DEF Fine
<1>4. ASSUME NEW u \in Expired(w, expires), v \in {Freed(u), u} \/ v \in Output(u)
      PROVE  Fine(v, e, i)
  <2>1. Fine(u, e, i) /\ Sound(u, e, i) /\ Waits(u.p)
    BY ExpiredSound DEF Fine
  <2>2. Fine(Freed(u), e, i)
    BY <2>1, FreedSound DEF Fine
  <2>3. ASSUME v \in Output(u) PROVE Fine(v, e, i)
    BY <2>1, <2>3, OutputSound DEF FineAs
  <2> QED
    BY <1>4, <2>1, <2>2, <2>3
<1> QED
  BY <1>2, <1>3, <1>4

LEMMA DelayedAckSound ==
  ASSUME NEW e, NEW i \in SeqNos, NEW w, Fine(w, e, i), NEW v \in DelayedAck(w)
  PROVE  FineAs(w, v, e, i)
<1>1. Sound(w, e, i) /\ Waits(w.p) /\ Probes(w.p) /\ Typed(w)
  BY DEF Fine, Sound
<1>2. \/ v \in {w}
      \/ \E u \in Output(AckNow(w)) :
           v = [u EXCEPT !.p.ack_delay = FALSE, !.p.ack_now = FALSE]
  BY Zenon DEF DelayedAck
<1>3. ASSUME NEW u \in Output(AckNow(w)),
             v = [u EXCEPT !.p.ack_delay = FALSE, !.p.ack_now = FALSE]
      PROVE  FineAs(w, v, e, i)
  <2>1. Typed(AckNow(w)) /\ Same(w, AckNow(w))
    BY <1>1, AckNowTyped
  <2>2. Sound(AckNow(w), e, i) /\ Waits(AckNow(w).p)
    BY <1>1, <2>1, SameSound
  <2>3. FineAs(w, u, e, i)
    BY <1>3, <2>1, <2>2, OutputSound DEF FineAs, Same
  <2>4. Typed(u)
    BY <2>3 DEF FineAs, Fine, Sound
  <2>5. Typed(v)
    BY <1>3, <2>4, Fields DEF Typed, TypedPcb
  <2>6. Same(u, v)
    BY <1>3, <2>4, Fields DEF Typed, TypedPcb, Same
  <2>7. FineAs(u, v, e, i)
    BY <2>3, <2>5, <2>6, SameFine DEF FineAs, Fine
  <2> QED
    BY <2>3, <2>7 DEF FineAs
<1>4. FineAs(w, w, e, i)
  BY DEF FineAs
<1> QED
  BY <1>2, <1>3, <1>4

LEMMA FastTmrSound ==
  ASSUME NEW e, NEW i \in SeqNos, NEW w, Fine(w, e, i), w.p.state # "NONE",
         NEW memory, NEW take, NEW v \in FastTmrWork(w, memory, take)
  PROVE  Fine(v, e, i)
<1>1. PICK u \in DelayedAck(w) :
        \E x \in PendingFin(u, memory) : v = OfferAgain(x, take)
  <2>1. PICK x \in UNION {PendingFin(u, memory) : u \in DelayedAck(w)} :
          v = OfferAgain(x, take)
    BY Zenon DEF FastTmrWork
  <2> QED
    BY <2>1, Zenon
<1>2. Fine(u, e, i) /\ u.p.state # "NONE"
  BY <1>1, DelayedAckSound DEF FineAs
<1>3. PICK x \in PendingFin(u, memory) : v = OfferAgain(x, take)
  BY <1>1
<1>4. Fine(x, e, i)
  <2> DEFINE y == [u EXCEPT !.p.closepend = FALSE]
  <2>1. \/ x \in CloseWithFin(y, memory) /\ u.p.closepend
        \/ x \in {u}
    BY <1>3, Zenon DEF PendingFin
  <2>2. Typed(u)
    BY <1>2 DEF Fine, Sound
  <2>3. Typed(y) /\ SendsAlike(u, y)
    BY <2>2, Fields DEF Typed, TypedPcb, SendsAlike
  <2>4. y.a.closed = u.a.closed /\ y.p.rxclosed = u.p.rxclosed
    BY <2>2, Fields DEF Typed, TypedPcb
  <2> HIDE DEF y
  <2>5. ASSUME x \in CloseWithFin(y, memory), u.p.closepend PROVE Fine(x, e, i)
    <3>1. u.p.state \notin {"NONE", "SYN_RCVD"}
      BY <1>2, <2>5 DEF Fine, Sound, Closing
    <3>2. y.a.closed => y.p.rxclosed /\ u.p.state # "SYN_SENT"
      BY <1>2, <2>4 DEF Fine, Sound, Closing
    <3> QED
      BY <1>2, <2>3, <2>5, <3>1, <3>2, CloseWithFinSound
  <2> QED
    BY <1>2, <2>1, <2>5
<1>5. Typed(x)
  BY <1>4 DEF Fine, Sound
<1>6. Typed(v) /\ Same(x, v)
  BY <1>5, <1>3, OfferAgainTyped
<1> QED
  BY <1>4, <1>6, SameFine DEF FineAs, Fine

-----------------------------------------------------------------------------
(* The invariant and the steps.                                            *)

\* What a call at e may leave behind.
Landed(w, e) ==
  /\ Fine(w, e, Start(e, w))
  /\ w.a.closed => app[e].closed \/ pcb[e].state # "NONE"

LEMMA WorkFine ==
  ASSUME IInv, NEW e \in Ends
  PROVE  /\ Fine(Work(e), e, FirstSeq(e)) /\ Work(e).flag # "GONE"
         /\ Work(e).p = pcb[e] /\ Work(e).a = app[e] /\ Work(e).listen = listening[e]
<1>1. Work(e).p = pcb[e] /\ Work(e).a = app[e] /\ Work(e).listen = listening[e]
      /\ Work(e).flag # "GONE"
  BY DEF Work
<1>2. EndSound(e)
  BY DEF IInv
<1> HIDE DEF Work
<1> QED
  BY <1>1, <1>2 DEF EndSound, Fine

\* With a connection there is nothing more to show.
LEMMA LandedLive ==
  ASSUME NEW e, NEW w, pcb[e].state # "NONE", Fine(w, e, FirstSeq(e))
  PROVE  Landed(w, e)
BY DEF Landed, Start

LEMMA TcpInputLands ==
  ASSUME IInv, NEW e \in Ends, NEW s \in WireSegs, NEW take, NEW v \in TcpInput(e, s, take)
  PROVE  Landed(v, e)
<1> DEFINE w == Work(e)
           x == Sends(w, ResetFor(s))
           i == Iss(e)
           y == [w EXCEPT !.p = SynRcvdPcb(s, i)]
<1>1. /\ Fine(w, e, FirstSeq(e)) /\ w.flag # "GONE"
      /\ w.p = pcb[e] /\ w.a = app[e] /\ w.listen = listening[e]
      /\ i \in SeqNos /\ FirstSeq(e) \in SeqNos
  BY WorkFine, StartsTyped
<1>2. CASE pcb[e].state = "NONE"
  <2>1. /\ listening[e] => v \in ListenInput(e, s)
        /\ ~listening[e] => v \in NoPcbInput(Work(e), s)
    BY <1>2, Zenon DEF TcpInput
  <2>2. v = w \/ v = x \/ (v \in Output(y) /\ listening[e])
    <3>1. ASSUME listening[e] PROVE v \in {w} \/ v \in {x} \/ v \in Output(y)
      BY <2>1, <3>1, Zenon DEF ListenInput
    <3>2. ASSUME ~listening[e] PROVE v \in {w} \/ v \in {x}
      BY <2>1, <3>2, Zenon DEF NoPcbInput
    <3> HIDE DEF w, x, y
    <3> QED
      BY <3>1, <3>2
  <2> HIDE DEF w, i
  <2>3. Typed(x) /\ Same(w, x) /\ x.p = w.p
    BY <1>1, ResetForSound DEF Fine, Light
  <2> HIDE DEF x
  <2>4. Fine(x, e, FirstSeq(e)) /\ x.a.closed = w.a.closed
    BY <1>1, <2>3, SameFine DEF FineAs, Fine
  <2>5. Landed(w, e) /\ Landed(x, e)
    BY <1>1, <1>2, <2>3, <2>4 DEF Landed, Start
  <2>6. ASSUME v \in Output(y), listening[e] PROVE Landed(v, e)
    <3>1. Sound(w, e, FirstSeq(e)) /\ ~w.a.closed
      BY <1>1, <2>6 DEF Fine, Sound, Closing
    <3>2. Sound(y, e, i) /\ Waits(y.p)
      BY <1>1, <3>1, SynRcvdSound
    <3>3. y.p.state = "SYN_RCVD" /\ y.a = w.a
      BY <3>1 DEF Sound, Typed, SynRcvdPcb, NoPcb
    <3> HIDE DEF y
    <3>4. Fine(v, e, i) /\ v.p.state = "SYN_RCVD" /\ ~v.a.closed
      BY SMTT(30), <1>1, <2>6, <3>1, <3>2, <3>3, OutputSound DEF FineAs
    <3> QED
      BY <1>2, <3>4 DEF Landed, Start, i
  <2> HIDE DEF y
  <2> QED
    BY <2>2, <2>5, <2>6
<1>3. CASE pcb[e].state = "TIME_WAIT"
  <2>1. v \in TimewaitInput(w, s)
    BY <1>3, Zenon DEF TcpInput
  <2> HIDE DEF w
  <2> QED
    BY <1>1, <1>3, <2>1, TimewaitInputSound, LandedLive
<1>4. CASE pcb[e].state # "NONE" /\ pcb[e].state # "TIME_WAIT"
  <2>1. v \in ActiveInput(w, s, take)
    BY <1>4, Zenon DEF TcpInput
  <2> HIDE DEF w
  <2>2. Live(w.p)
    BY <1>1, <1>4 DEF Live
  <2> QED
    BY <1>1, <1>4, <2>1, <2>2, ActiveInputSound, LandedLive
<1> QED
  BY <1>2, <1>3, <1>4

\* What a step leaves at e is what is left between calls.
LEMMA StepEnd ==
  ASSUME IInv, NEW e \in Ends, NEW w, Landed(w, e),
         pcb' = [pcb EXCEPT ![e] = w.p], app' = [app EXCEPT ![e] = w.a],
         listening' = [listening EXCEPT ![e] = w.listen],
         conns' = [conns EXCEPT ![e] =
                     IF pcb[e].state = "NONE" /\ w.p.state # "NONE" THEN @ + 1 ELSE @]
  PROVE  EndSound(e)'
<1> DEFINE n == IF pcb[e].state = "NONE" /\ w.p.state # "NONE" THEN conns[e] + 1
                ELSE conns[e]
           i == Plus(ISS[e], n - 1)
           r == [p |-> w.p, a |-> w.a, listen |-> w.listen, out |-> <<>>,
                 data |-> <<>>, fin |-> FALSE, flag |-> "OK"]
<1>1. pcb'[e] = w.p /\ app'[e] = w.a /\ listening'[e] = w.listen /\ conns'[e] = n
  BY DEF IInv
<1>2. EndSound(e)
  BY DEF IInv
<1>3. conns[e] \in Nat /\ n \in Nat /\ n >= conns[e]
      /\ (pcb[e].state = "NONE" /\ w.p.state # "NONE" => n > 0)
  <2>1. conns[e] \in Nat
    BY <1>2 DEF EndSound
  <2> QED
    BY <2>1
<1>4. i = Start(e, w)
  <2>1. ASSUME pcb[e].state = "NONE", w.p.state # "NONE" PROVE i = Iss(e)
    <3>1. n - 1 = conns[e]
      BY <1>3, <2>1
    <3> HIDE DEF n
    <3> QED
      BY <3>1 DEF Iss
  <2>2. ASSUME ~(pcb[e].state = "NONE" /\ w.p.state # "NONE") PROVE i = FirstSeq(e)
    BY <2>2 DEF FirstSeq
  <2> HIDE DEF i, n
  <2> QED
    BY <2>1, <2>2 DEF Start
<1> HIDE DEF n
<1>5. Fine(w, e, i)
  BY <1>4 DEF Landed
<1>6. Fine(r, e, i)
  <2>1. Typed(w)
    BY <1>5 DEF Fine, Sound
  <2>2. Typed(r) /\ Same(w, r)
    <3>1. <<>> \in Seq(WireSegs) /\ <<>> \in Seq(Nat)
      BY EmptySeq
    <3> QED
      BY <2>1, <3>1 DEF Typed, Same
  <2> HIDE DEF r
  <2> QED
    BY <1>5, <2>2, SameFine DEF Fine, FineAs
<1>7. Work(e)' = r /\ FirstSeq(e)' = i
  BY <1>1 DEF Work, FirstSeq
<1>8. r.p = w.p
  OBVIOUS
<1> HIDE DEF r, i
<1>9. Sound(Work(e), e, FirstSeq(e))'
  BY <1>6, <1>7 DEF Fine
<1>10. Waits(pcb[e])' /\ Probes(pcb[e])'
  BY <1>1, <1>6, <1>8 DEF Fine, Waits, Probes, HeldByPeer, Distance, HoldsNothing
<1>11. (conns[e] \in Nat)'
  BY <1>1, <1>3
<1>12. (e = Client /\ (app[e].closed \/ pcb[e].state # "NONE") => conns[e] > 0)'
  <2>1. ASSUME e = Client, w.a.closed \/ w.p.state # "NONE" PROVE n > 0
    <3>1. CASE app[e].closed \/ pcb[e].state # "NONE"
      <4>1. conns[e] > 0
        BY <1>2, <2>1, <3>1 DEF EndSound
      <4> QED
        BY <1>3, <4>1
    <3>2. CASE ~(app[e].closed \/ pcb[e].state # "NONE")
      BY <1>3, <2>1, <3>2 DEF Landed
    <3> QED
      BY <3>1, <3>2
  <2> QED
    BY <1>1, <2>1
<1> QED
  BY <1>9, <1>10, <1>11, <1>12 DEF EndSound

\* An end no call is made at stays as it is.
LEMMA OtherEnd ==
  ASSUME NEW d \in Ends, EndSound(d),
         pcb'[d] = pcb[d], app'[d] = app[d],
         listening'[d] = listening[d], conns'[d] = conns[d]
  PROVE  EndSound(d)'
<1>1. Work(d)' = Work(d) /\ FirstSeq(d)' = FirstSeq(d)
  BY DEF Work, FirstSeq
<1>2. Sound(Work(d), d, FirstSeq(d))'
  BY <1>1 DEF EndSound
<1>3. Waits(pcb[d])' /\ Probes(pcb[d])'
  BY DEF EndSound, Waits, Probes, HeldByPeer, Distance, HoldsNothing
<1> QED
  BY <1>2, <1>3 DEF EndSound

LEMMA StepSound ==
  ASSUME IInv, NEW e \in Ends, NEW rest \in [Ends -> Seq(WireSegs)], NEW results,
         Step(e, rest, results), \A w \in results : Landed(w, e)
  PROVE  IInv'
<1>1. PICK w \in results :
        /\ pcb' = [pcb EXCEPT ![e] = w.p]
        /\ app' = [app EXCEPT ![e] = w.a]
        /\ listening' = [listening EXCEPT ![e] = w.listen]
        /\ net' = [rest EXCEPT ![Peer(e)] =
                     SubSeq(rest[Peer(e)] \o w.out, 1,
                            Lesser(Len(rest[Peer(e)] \o w.out), NetSize[Peer(e)]))]
        /\ conns' = [conns EXCEPT ![e] =
                       IF pcb[e].state = "NONE" /\ w.p.state # "NONE" THEN @ + 1 ELSE @]
  BY DEF Step
<1>2. Landed(w, e)
  BY <1>1
<1>3. EndSound(e)'
  BY <1>1, <1>2, StepEnd
<1>4. ASSUME NEW d \in Ends, d # e PROVE EndSound(d)'
  <2>1. EndSound(d)
    BY DEF IInv
  <2>2. pcb'[d] = pcb[d] /\ app'[d] = app[d]
        /\ listening'[d] = listening[d] /\ conns'[d] = conns[d]
    BY <1>1, <1>4 DEF IInv
  <2> QED
    BY <2>1, <2>2, OtherEnd
<1>5. (DOMAIN pcb = Ends /\ DOMAIN app = Ends
       /\ DOMAIN listening = Ends /\ DOMAIN conns = Ends)'
  BY <1>1 DEF IInv
<1>6. net' \in [Ends -> Seq(WireSegs)]
  <2> DEFINE sent == rest[Peer(e)] \o w.out
             k == Lesser(Len(sent), NetSize[Peer(e)])
             q == SubSeq(sent, 1, k)
  <2>1. Peer(e) \in Ends
    BY DEF Peer, Ends
  <2>2. w.out \in Seq(WireSegs)
    BY <1>2 DEF Landed, Fine, Sound, Typed
  <2>3. rest[Peer(e)] \in Seq(WireSegs)
    BY <2>1
  <2>4. sent \in Seq(WireSegs)
    BY <2>2, <2>3, ConcatProperties
  <2>5. NetSize[Peer(e)] \in Nat
    BY <2>1, TcpAssumption
  <2>6. net' = [rest EXCEPT ![Peer(e)] = q]
    BY <1>1
  <2> HIDE DEF sent
  <2>7. q \in Seq(WireSegs)
    <3>1. Len(sent) \in Nat
      BY <2>4, LenProperties
    <3>2. 1 \in 1 .. Len(sent) + 1 /\ k \in 1 - 1 .. Len(sent)
      BY <2>5, <3>1 DEF Lesser
    <3> HIDE DEF k
    <3> QED
      BY <2>4, <3>2, PartOf
  <2> HIDE DEF q
  <2> QED
    BY <2>1, <2>6, <2>7
<1> QED
  BY <1>3, <1>4, <1>5, <1>6 DEF IInv

LEMMA NetTyped ==
  ASSUME IInv
  PROVE  net \in [Ends -> Seq(WireSegs)]
BY DEF IInv

\* What is left of what is under way when one segment is taken from it.
LEMMA TakenOut ==
  ASSUME NEW q \in Seq(WireSegs), NEW k \in 1 .. Len(q)
  PROVE  q[k] \in WireSegs /\ RemoveAt(q, k) \in Seq(WireSegs)
<1>1. Len(q) \in Nat
  BY LenProperties
<1>2. SubSeq(q, 1, k - 1) \in Seq(WireSegs)
  <2>1. 1 \in 1 .. Len(q) + 1 /\ k - 1 \in 1 - 1 .. Len(q)
    BY <1>1
  <2> QED
    BY <2>1, PartOf
<1>3. SubSeq(q, k + 1, Len(q)) \in Seq(WireSegs)
  <2>1. k + 1 \in 1 .. Len(q) + 1 /\ Len(q) \in (k + 1) - 1 .. Len(q)
    BY <1>1
  <2> QED
    BY <2>1, PartOf
<1>4. RemoveAt(q, k) \in Seq(WireSegs)
  BY <1>2, <1>3, ConcatProperties DEF RemoveAt
<1>5. q[k] \in WireSegs
  BY ElementOfSeq
<1> QED
  BY <1>4, <1>5

LEMMA ConnectKeeps ==
  ASSUME IInv, Connect
  PROVE  IInv'
<1> DEFINE w == Work(Client)
           i == Iss(Client)
           x == [w EXCEPT !.p = SynSentPcb(i)]
<1>1. Client \in Ends
  BY DEF Ends
<1>2. /\ Fine(w, Client, FirstSeq(Client)) /\ w.p = pcb[Client] /\ w.a = app[Client]
      /\ i \in SeqNos
  BY <1>1, WorkFine, StartsTyped
<1>3. pcb[Client].state = "NONE" /\ ~app[Client].closed
  <2>1. EndSound(Client) /\ conns[Client] = 0
    BY <1>1 DEF IInv, Connect
  <2> QED
    BY <2>1 DEF EndSound
<1>4. Step(Client, net, Output(x))
  BY DEF Connect
<1> HIDE DEF w, i
<1>5. Sound(x, Client, i) /\ Waits(x.p)
  BY <1>2, <1>3, SynSentSound DEF Fine, Sound
<1>6. x.p.state = "SYN_SENT" /\ x.a = w.a
  BY <1>2 DEF Fine, Sound, Typed, SynSentPcb, NoPcb
<1> HIDE DEF x
<1>7. ASSUME NEW v \in Output(x) PROVE Landed(v, Client)
  <2>1. Fine(v, Client, i) /\ v.p.state = "SYN_SENT" /\ ~v.a.closed
    BY <1>2, <1>3, <1>5, <1>6, OutputSound DEF FineAs
  <2> QED
    BY <1>3, <2>1 DEF Landed, Start, i
<1> QED
  BY <1>1, <1>4, <1>7, NetTyped, StepSound

LEMMA WriteKeeps ==
  ASSUME IInv, NEW e \in Ends, Write(e)
  PROVE  IInv'
<1> DEFINE w == Work(e)
           i == FirstSeq(e)
           n == Writes[e][app[e].writes + 1]
           x == [w EXCEPT !.a.wrote = @ + n, !.a.writes = @ + 1,
                          !.p.unsent = Enqueued(w.p, Bytes(app[e].wrote, n)),
                          !.p.snd_lbb = Plus(@, n)]
<1>1. Fine(w, e, i) /\ w.p = pcb[e] /\ w.a = app[e] /\ i \in SeqNos
  BY WorkFine, StartsTyped
<1>2. /\ pcb[e].state \in {"ESTABLISHED", "CLOSE_WAIT"}
      /\ app[e].writes < Len(Writes[e]) /\ app[e].wrote + n <= MaxStream
      /\ Step(e, net, Output(x))
  BY DEF Write
<1> HIDE DEF w
<1>3. n \in Nat \ {0}
  <2>1. app[e].writes \in Nat
    BY <1>1 DEF Fine, Sound, Typed
  <2>2. Writes[e] \in Seq(Nat \ {0})
    BY TcpAssumption
  <2>3. Len(Writes[e]) \in Nat
    BY <2>2, LenProperties
  <2>4. app[e].writes + 1 \in 1 .. Len(Writes[e])
    BY <1>2, <2>1, <2>3
  <2> QED
    BY <2>2, <2>4, ElementOfSeq
<1> HIDE DEF i, n
<1>4. x = Written(w, n)
  BY <1>1 DEF Written
<1> HIDE DEF x
<1>5. Sound(x, e, i) /\ x.p.state = w.p.state
  <2>1. Sound(w, e, i) /\ w.p.state \in {"ESTABLISHED", "CLOSE_WAIT"}
        /\ w.a.wrote + n <= MaxStream
    BY <1>1, <1>2 DEF Fine
  <2> QED
    BY <1>1, <1>3, <1>4, <2>1, WriteSound
<1>6. Waits(x.p)
  BY <1>1, <1>2, <1>5 DEF Waits
<1>7. ASSUME NEW v \in Output(x) PROVE Landed(v, e)
  <2>1. Fine(v, e, i)
    BY <1>1, <1>5, <1>6, OutputSound DEF FineAs
  <2> QED
    BY <1>2, <2>1, LandedLive DEF i
<1> QED
  BY <1>2, <1>7, NetTyped, StepSound

LEMMA ShutdownKeeps ==
  ASSUME IInv, NEW e \in Ends, NEW memory, Shutdown(e, memory)
  PROVE  IInv'
<1> DEFINE w == Work(e)
           x == [w EXCEPT !.a.ended = TRUE]
<1>1. Fine(w, e, FirstSeq(e)) /\ w.p = pcb[e] /\ FirstSeq(e) \in SeqNos
  BY WorkFine, StartsTyped
<1>2. /\ pcb[e].state \in {"ESTABLISHED", "CLOSE_WAIT"}
      /\ Step(e, net, CloseWithFin(x, memory))
  BY DEF Shutdown
<1> HIDE DEF w
<1>3. ASSUME NEW v \in CloseWithFin(x, memory) PROVE Landed(v, e)
  <2>1. Fine(v, e, FirstSeq(e))
    BY <1>1, <1>2, <1>3, ShutdownSound
  <2> QED
    BY <1>2, <2>1, LandedLive
<1> HIDE DEF x
<1> QED
  BY <1>2, <1>3, NetTyped, StepSound

LEMMA CloseKeeps ==
  ASSUME IInv, NEW e \in Ends, NEW memory, Close(e, memory)
  PROVE  IInv'
<1> DEFINE w == Work(e)
           x == [w EXCEPT !.a.ended = TRUE, !.a.closed = TRUE, !.p.rxclosed = TRUE]
<1>1. Fine(w, e, FirstSeq(e)) /\ w.p = pcb[e] /\ FirstSeq(e) \in SeqNos
  BY WorkFine, StartsTyped
<1>2. /\ pcb[e].state \notin {"NONE", "SYN_RCVD"}
      /\ Step(e, net, CloseAll(x, memory))
  BY DEF Close
<1> HIDE DEF w
<1>3. ASSUME NEW v \in CloseAll(x, memory) PROVE Landed(v, e)
  <2>1. Fine(v, e, FirstSeq(e))
    BY <1>1, <1>2, <1>3, CloseSound
  <2> QED
    BY <1>2, <2>1, LandedLive
<1> HIDE DEF x
<1> QED
  BY <1>2, <1>3, NetTyped, StepSound

LEMMA RecvedKeeps ==
  ASSUME IInv, NEW e \in Ends, Recved(e)
  PROVE  IInv'
<1> DEFINE u == Work(e)
           w == [u EXCEPT !.p.rcv_wnd = @ + Unread(u.p)]
           x == WithAnnWnd(w)
           results == IF Inflation(w.p) >= Lesser(TCP_WND \div 4, 4 * TCP_MSS)
                        THEN Output(AckNow(x)) ELSE {x}
<1>1. Fine(u, e, FirstSeq(e)) /\ u.p = pcb[e] /\ FirstSeq(e) \in SeqNos
  BY WorkFine, StartsTyped
<1>2. w = [u EXCEPT !.p.rcv_wnd = @ + Unread(pcb[e])]
  BY <1>1
<1>3. Step(e, net, results)
  BY <1>2 DEF Recved
<1>4. pcb[e].state # "NONE" /\ Unread(u.p) > 0
  BY <1>1 DEF Recved, Active
<1>5. \A v \in results : v = x \/ v \in Output(AckNow(x))
  BY Zenon
<1> HIDE DEF u, results
<1>6. ASSUME NEW v \in results PROVE Landed(v, e)
  <2>1. Fine(v, e, FirstSeq(e))
    BY <1>1, <1>4, <1>5, <1>6, RecvedSound
  <2> QED
    BY <1>4, <2>1, LandedLive
<1> QED
  BY <1>3, <1>6, NetTyped, StepSound

LEMMA InputKeeps ==
  ASSUME IInv, NEW e \in Ends, NEW i \in 1 .. NetSize[e], NEW again, Input(e, i, again)
  PROVE  IInv'
<1> DEFINE s == net[e][i]
           left == IF again THEN Append(RemoveAt(net[e], i), s) ELSE RemoveAt(net[e], i)
           rest == [net EXCEPT ![e] = left]
<1>1. PICK take : Step(e, rest, TcpInput(e, s, take))
  BY DEF Input
<1>2. net[e] \in Seq(WireSegs) /\ i \in 1 .. Len(net[e])
  <2>1. net[e] \in Seq(WireSegs) /\ NetSize[e] \in Nat
    BY NetTyped, TcpAssumption
  <2>2. Len(net[e]) \in Nat /\ i <= Len(net[e])
    BY <2>1, LenProperties DEF Input
  <2> QED
    BY <2>1, <2>2
<1>3. s \in WireSegs /\ RemoveAt(net[e], i) \in Seq(WireSegs)
  BY <1>2, TakenOut
<1> HIDE DEF s
<1>4. left \in Seq(WireSegs)
  BY <1>3, AppendProperties
<1> HIDE DEF left
<1>5. rest \in [Ends -> Seq(WireSegs)]
  BY <1>4, NetTyped
<1> HIDE DEF rest
<1>6. \A v \in TcpInput(e, s, take) : Landed(v, e)
  BY <1>3, TcpInputLands
<1> QED
  BY <1>1, <1>5, <1>6, StepSound

LEMMA LoseKeeps ==
  ASSUME IInv, NEW e \in Ends, NEW i \in 1 .. NetSize[e], Lose(e, i)
  PROVE  IInv'
<1>1. net[e] \in Seq(WireSegs) /\ i \in 1 .. Len(net[e])
  <2>1. net[e] \in Seq(WireSegs) /\ NetSize[e] \in Nat
    BY NetTyped, TcpAssumption
  <2>2. Len(net[e]) \in Nat /\ i <= Len(net[e])
    BY <2>1, LenProperties DEF Lose
  <2> QED
    BY <2>1, <2>2
<1>2. RemoveAt(net[e], i) \in Seq(WireSegs)
  BY <1>1, TakenOut
<1>3. net' \in [Ends -> Seq(WireSegs)]
  <2> DEFINE left == RemoveAt(net[e], i)
  <2>1. net' = [net EXCEPT ![e] = left]
    BY DEF Lose
  <2>2. left \in Seq(WireSegs)
    BY <1>2
  <2> HIDE DEF left
  <2> QED
    BY <2>1, <2>2, NetTyped
<1>4. UNCHANGED <<pcb, listening, app, conns>>
  BY DEF Lose
<1>5. ASSUME NEW d \in Ends PROVE EndSound(d)'
  <2>1. EndSound(d)
    BY DEF IInv
  <2> QED
    BY <1>4, <2>1, OtherEnd
<1> QED
  BY <1>3, <1>4, <1>5 DEF IInv

LEMMA SlowTmrKeeps ==
  ASSUME IInv, NEW e \in Ends, NEW expires, NEW overdue, SlowTmr(e, expires, overdue)
  PROVE  IInv'
<1> DEFINE w == Work(e)
<1>1. Fine(w, e, FirstSeq(e)) /\ FirstSeq(e) \in SeqNos
  BY WorkFine, StartsTyped
<1>2. pcb[e].state # "NONE" /\ Step(e, net, SlowTmrWork(w, expires, overdue))
  BY DEF SlowTmr
<1> HIDE DEF w
<1>3. ASSUME NEW v \in SlowTmrWork(w, expires, overdue) PROVE Landed(v, e)
  BY <1>1, <1>2, <1>3, SlowTmrSound, LandedLive
<1> QED
  BY <1>2, <1>3, NetTyped, StepSound

LEMMA FastTmrKeeps ==
  ASSUME IInv, NEW e \in Ends, NEW memory, NEW take, FastTmr(e, memory, take)
  PROVE  IInv'
<1> DEFINE w == Work(e)
<1>1. Fine(w, e, FirstSeq(e)) /\ FirstSeq(e) \in SeqNos /\ w.p = pcb[e]
  BY WorkFine, StartsTyped
<1>2. pcb[e].state # "NONE" /\ Step(e, net, FastTmrWork(w, memory, take))
  BY DEF FastTmr, Active
<1> HIDE DEF w
<1>3. ASSUME NEW v \in FastTmrWork(w, memory, take) PROVE Landed(v, e)
  BY <1>1, <1>2, <1>3, FastTmrSound, LandedLive
<1> QED
  BY <1>2, <1>3, NetTyped, StepSound

-----------------------------------------------------------------------------
(* The theorems.                                                           *)

LEMMA InitInvariant == Init => IInv
<1> SUFFICES ASSUME Init PROVE IInv
  OBVIOUS
<1>1. /\ pcb = [e \in Ends |-> NoPcb] /\ app = [e \in Ends |-> NoApp]
      /\ listening = [e \in Ends |-> e = Server]
      /\ conns = [e \in Ends |-> 0] /\ net = [e \in Ends |-> <<>>]
  BY DEF Init
<1>2. net \in [Ends -> Seq(WireSegs)]
  <2>1. <<>> \in Seq(WireSegs)
    BY EmptySeq
  <2> QED
    BY <1>1, <2>1
<1>3. ASSUME NEW e \in Ends PROVE EndSound(e)
  <2> DEFINE w == Work(e)
             i == FirstSeq(e)
  <2>1. /\ w.p = NoPcb /\ w.a = NoApp /\ w.listen = (e = Server)
        /\ w.out = <<>> /\ w.data = <<>>
        /\ DOMAIN w = {"p", "a", "listen", "out", "data", "fin", "flag"}
    BY <1>1 DEF Work
  <2> HIDE DEF w, i
  <2>2. NoApp.wrote = 0 /\ NoApp.writes = 0 /\ ~NoApp.closed /\ NoApp.closed \in BOOLEAN
    BY DEF NoApp
  <2>3. Typed(w)
    <3>1. <<>> \in Seq(WireSegs) /\ <<>> \in Seq(Nat) /\ 0 \in 0 .. MaxStream
      BY EmptySeq, Space
    <3> QED
      BY <2>1, <2>2, <3>1, NoPcbTyped DEF Typed
  <2>4. /\ Opening(NoPcb, i) /\ Timed(NoPcb) /\ Waits(NoPcb) /\ Probes(NoPcb)
    BY NoPcbTyped DEF Opening, Timed, Waits, Probes, HeldByPeer, Distance, HoldsNothing
  <2>5. Closing(w.p, w.a, w.listen)
    <3>1. ~NoPcb.closepend
      BY DEF NoPcb
    <3> QED
      BY <2>1, <2>2, <3>1, NoPcbTyped DEF Closing
  <2>6. e = Client => ~w.listen
    BY <2>1, TcpAssumption
  <2>7. Sound(w, e, i)
    BY <2>1, <2>3, <2>4, <2>5, <2>6, NoPcbTyped DEF Sound
  <2>8. pcb[e] = NoPcb /\ app[e] = NoApp /\ conns[e] = 0
    BY <1>1
  <2> QED
    BY <2>2, <2>4, <2>7, <2>8, NoPcbTyped DEF EndSound, w, i
<1> QED
  BY <1>1, <1>2, <1>3 DEF IInv

LEMMA NextInvariant == IInv /\ [Next]_vars => IInv'
<1> SUFFICES ASSUME IInv, [Next]_vars PROVE IInv'
  OBVIOUS
<1>1. CASE Connect
  BY <1>1, ConnectKeeps
<1>2. ASSUME NEW e \in Ends, Write(e) PROVE IInv'
  BY <1>2, WriteKeeps
<1>3. ASSUME NEW e \in Ends, NEW memory \in BOOLEAN,
             Shutdown(e, memory) \/ Close(e, memory)
      PROVE  IInv'
  BY <1>3, ShutdownKeeps, CloseKeeps
<1>4. ASSUME NEW e \in Ends, Recved(e) PROVE IInv'
  BY <1>4, RecvedKeeps
<1>5. ASSUME NEW e \in Ends, NEW i \in 1 .. NetSize[e],
             (\E again \in BOOLEAN : Input(e, i, again)) \/ Lose(e, i)
      PROVE  IInv'
  BY <1>5, InputKeeps, LoseKeeps
<1>6. ASSUME NEW e \in Ends, NEW expires \in BOOLEAN, NEW overdue \in BOOLEAN,
             SlowTmr(e, expires, overdue)
      PROVE  IInv'
  BY <1>6, SlowTmrKeeps
<1>7. ASSUME NEW e \in Ends, NEW memory \in BOOLEAN, NEW take \in BOOLEAN,
             FastTmr(e, memory, take)
      PROVE  IInv'
  BY <1>7, FastTmrKeeps
<1>8. CASE UNCHANGED vars
  <2>1. /\ pcb' = pcb /\ app' = app /\ listening' = listening
        /\ conns' = conns /\ net' = net
    BY <1>8 DEF vars
  <2>2. ASSUME NEW d \in Ends PROVE EndSound(d)'
    BY <2>1, OtherEnd DEF IInv
  <2> QED
    BY <2>1, <2>2 DEF IInv
<1> QED
  BY <1>1, <1>2, <1>3, <1>4, <1>5, <1>6, <1>7, <1>8 DEF Next

\* At every point of every call what is in the queues of an end lies within
\* its stream, numbered from its SYN, with the segment that ends where the
\* last sent one did still in them if anything is; no call leaves a queue
\* without the timer that is to empty it.
THEOREM Inductive == Spec => []IInv
<1> QED
  BY InitInvariant, NextInvariant, PTL DEF Spec

\* Whatever tcp_output, tcp_receive and tcp_close_shutdown leave behind, what
\* is unacknowledged has the retransmission timer running, what the peer's
\* window holds back the persist timer, an end that waits for its FIN to be
\* acknowledged still holds it, and what the program has closed is in a
\* state a timer ends.
THEOREM NeverStalled == Spec => []NeverStalls
<1>1. IInv => NeverStalls
  <2> SUFFICES ASSUME IInv, NEW e \in Ends
      PROVE  /\ pcb[e].unacked # <<>> => pcb[e].rtime
             /\ HeldByPeer(pcb[e]) => pcb[e].persist
             /\ pcb[e].state # "TIME_WAIT" /\ pcb[e].persist => pcb[e].unacked = <<>>
             /\ pcb[e].state \in {"FIN_WAIT_1", "CLOSING", "LAST_ACK"} =>
                  pcb[e].unacked # <<>> \/ pcb[e].unsent # <<>>
             /\ app[e].closed /\ pcb[e].state # "NONE" =>
                  /\ pcb[e].rxclosed
                  /\ pcb[e].closepend \/ pcb[e].state \in FinStates \cup {"TIME_WAIT"}
    BY Zenon DEF NeverStalls
  <2>1. /\ Sound(Work(e), e, FirstSeq(e)) /\ Waits(pcb[e]) /\ Probes(pcb[e])
        /\ Work(e).p = pcb[e] /\ Work(e).a = app[e]
    BY WorkFine DEF IInv, EndSound
  <2> QED
    BY <2>1 DEF Sound, Timed, Closing, Waits, Probes, HoldsNothing
<1> QED
  BY <1>1, Inductive, PTL
=============================================================================
