---------------------------- MODULE EthTxProofs -----------------------------
(***************************************************************************)
(* Proofs about EthTx, for every ring size, frame length and payload.      *)
(***************************************************************************)
EXTENDS EthTxRefinement, OrderedListsProofs

-----------------------------------------------------------------------------
(* The inductive invariant.                                                *)

\* The descriptor k steps after d.
Adv(d, k) == IF d + k < ETH_TXBUFNB THEN d + k ELSE d + k - ETH_TXBUFNB

\* The next descriptor to be handed over, also in the middle of a frame.
Producer == IF pc = "give" THEN DmaTxDesc ELSE DMATxDescToSet

\* The engine owns c descriptors from dmaDesc up to Producer, and behind it
\* the one whose status is pending.
Window(c) ==
  /\ Producer = Adv(dmaDesc, c)
  /\ \A d \in Slots : own[d] <=> (Dist(dmaDesc, d) < c \/ d = unclosed)
  /\ unclosed # NoDesc =>
       unclosed # dmaDesc /\ Dist(dmaDesc, unclosed) >= c

\* The window ends with a whole frame, but while one is being handed over.
EndsWhole(c) ==
  c >= 1 => ls[Adv(dmaDesc, c - 1)] \/ (pc = "give" /\ i > 0)

\* How much a suspension that nobody has noticed can leave in the window.
Stranded(c) ==
  /\ dma = "busy" => c >= 1
  /\ dma = "idling" =>
       /\ pc \in {"copy", "prepare"} => c = 0
       /\ pc = "give" => c <= i
       /\ c <= MaxSegs
  /\ dma = "suspended" /\ ~TUS =>
       /\ TBUS
       /\ pc \in {"give", "tbus"} \/ c <= MaxSegs

\* The descriptors the CPU has copied to stay its own until it hands them
\* over, and the result tells how far it came.
Progress ==
  /\ pc = "copy" =>
       /\ i < frame.segs
       /\ Dist(DMATxDescToSet, DmaTxDesc) = i
       /\ \A d \in Slots : Dist(DMATxDescToSet, d) < i => ~own[d]
       /\ errval = "ERR_OK"
  /\ pc = "prepare" =>
       /\ i = 0
       /\ \A d \in Slots : Dist(DMATxDescToSet, d) < frame.segs => ~own[d]
       /\ errval = "ERR_OK"
  /\ pc = "give" =>
       /\ i < frame.segs
       /\ Dist(DMATxDescToSet, DmaTxDesc) = i
       /\ \A d \in Slots :
            i <= Dist(DMATxDescToSet, d) /\ Dist(DMATxDescToSet, d) < frame.segs
              => ~own[d]
  /\ pc = "tbus" => i = frame.segs
  /\ pc = "error" /\ errval = "ERR_OK" => i = frame.segs

\* The buffers the CPU has filled hold the frame, in order, until they are
\* handed over.
Copied ==
  \A d \in Slots :
    LET n == Dist(DMATxDescToSet, d) IN
      \/ pc = "copy" /\ n < i
      \/ pc = "prepare" /\ n < frame.segs
      \/ pc = "give" /\ i <= n /\ n < frame.segs
      => buf[d] = Segment(frame, n + 1)

\* The MAC has a frame as long as its last descriptor waits for a status.
Sending == mac = <<>> <=> unclosed = NoDesc

\* The engine has fetched the first n segments of frame f.
Fetched(f, n) ==
  /\ Len(fifo) = n
  /\ \A k \in 1 .. n : fifo[k] = Segment(f, k)

\* The window holds whole frames one after the other, each segment after the
\* one before it.  The engine may have begun the first and the CPU may be
\* handing over the last; when it has fetched all there is, that is one frame.
Contents(c) ==
  /\ \A d \in Slots : Dist(dmaDesc, d) < c =>
       /\ fs[d] = (buf[d].seg = 1)
       /\ ls[d] = (buf[d].seg = buf[d].segs)
       /\ Dist(dmaDesc, d) + 1 < c =>
            IF ls[d] THEN buf[NextDesc(d)].seg = 1
            ELSE buf[NextDesc(d)] = Segment(buf[d], buf[d].seg + 1)
  /\ c >= 1 => Fetched(buf[dmaDesc], buf[dmaDesc].seg - 1)
  /\ c = 0 => Fetched(frame, IF pc = "give" THEN i ELSE 0)
  /\ c >= 1 /\ pc = "give" /\ i > 0 =>
       buf[Adv(dmaDesc, c - 1)] = Segment(frame, i)

\* The state of the ring, of which c descriptors wait for the engine.
Ring(c) == Window(c) /\ EndsWhole(c) /\ Stranded(c)

IInv ==
  /\ TypeOK
  /\ Progress
  /\ Copied
  /\ Sending
  /\ \E c \in 0 .. ETH_TXBUFNB : Ring(c) /\ Contents(c)

-----------------------------------------------------------------------------
(* Walking around the ring.                                                *)

\* Distances along the ring of descriptors.
LEMMA RingFacts ==
  /\ \A d \in Slots : NextDesc(d) \in Slots
  /\ \A d, e \in Slots : Dist(d, e) \in 0 .. ETH_TXBUFNB - 1
  /\ \A d \in Slots : \A e \in Slots : Dist(d, e) = 0 <=> d = e
  /\ \A d, e, f \in Slots : Dist(d, e) = Dist(d, f) => e = f
  /\ \A d, e \in Slots : d # e => Dist(NextDesc(d), e) = Dist(d, e) - 1
BY RingAssumption, SMT DEF Slots, NextDesc, Dist

\* One descriptor further is one more.
LEMMA NextDist ==
  ASSUME NEW d \in Slots, NEW e \in Slots, Dist(d, e) + 1 < ETH_TXBUFNB
  PROVE  Dist(d, NextDesc(e)) = Dist(d, e) + 1
BY RingAssumption, SMT DEF Slots, NextDesc, Dist

\* The descriptor a distance away.
LEMMA AdvFacts ==
  ASSUME NEW d \in Slots, NEW c \in 0 .. ETH_TXBUFNB
  PROVE  /\ Adv(d, c) \in Slots
         /\ Adv(d, 0) = d
         /\ c < ETH_TXBUFNB => /\ Dist(d, Adv(d, c)) = c
                               /\ NextDesc(Adv(d, c)) = Adv(d, c + 1)
         /\ c >= 1 => /\ Adv(NextDesc(d), c - 1) = Adv(d, c)
                      /\ c >= 2 => Adv(NextDesc(d), c - 2) = Adv(d, c - 1)
         /\ \A e \in Slots : Dist(d, e) = c => e = Adv(d, c)
BY RingAssumption, SMT DEF Slots, NextDesc, Dist, Adv

-----------------------------------------------------------------------------
(* The invariant is inductive.                                             *)

\* Every step keeps the type invariant.
LEMMA TypeStep == TypeOK /\ Progress /\ Next => TypeOK'
<1> SUFFICES ASSUME TypeOK, Progress, Next PROVE TypeOK'
  OBVIOUS
<1> USE RingAssumption DEF TypeOK, Slots, CpuStates, DmaStates, Results, NoDesc
<1>1. ASSUME NEW f \in Frames, Output(f) PROVE TypeOK'
  BY <1>1 DEF Output, ring, hw
<1>2. CASE CopySegment
  <2>1. i < frame.segs /\ frame.segs \in 1 .. MaxSegs
    BY <1>2 DEF CopySegment, Free, Progress, Frames
  <2>2. Segment(frame, i + 1) \in Segments
    BY <2>1 DEF Segment, Segments, Frames
  <2>3. NextDesc(DmaTxDesc) \in Slots
    BY RingFacts
  <2> QED
    BY <1>2, <2>1, <2>2, <2>3 DEF CopySegment, Free, hw
<1>3. CASE CopyUnavailable
  BY <1>3 DEF CopyUnavailable, Free, ring, hw
<1>4. CASE Prepare
  BY <1>4 DEF Prepare, ring, hw
<1>5. CASE GiveSegment
  <2>1. i < frame.segs /\ frame.segs \in 1 .. MaxSegs
    BY <1>5 DEF GiveSegment, BufCount, AfterFrame, Progress, Frames
  <2>2. NextDesc(DmaTxDesc) \in Slots
    BY RingFacts
  <2>3. (i = 0) \in BOOLEAN /\ (i + 1 = frame.segs) \in BOOLEAN
    OBVIOUS
  <2> QED
    BY <1>5, <2>1, <2>2, <2>3 DEF GiveSegment, BufCount, AfterFrame, hw
<1>6. CASE CheckTBUS
  BY <1>6 DEF CheckTBUS, PollDemand, ring
<1>7. CASE CheckTUS
  BY <1>7 DEF CheckTUS, PollDemand, ring
<1>8. CASE DmaFetch
  BY <1>8 DEF DmaFetch, ring, cpu
<1>9. CASE DmaNextSegment
  <2>1. NextDesc(dmaDesc) \in Slots
    BY RingFacts
  <2> QED
    BY <1>9, <2>1 DEF DmaNextSegment, cpu
<1>10. CASE DmaLastSegment
  <2>1. NextDesc(dmaDesc) \in Slots
    BY RingFacts
  <2> QED
    BY <1>10, <2>1 DEF DmaLastSegment, ring, cpu
<1>11. CASE MacDone
  BY <1>11 DEF MacDone, cpu
<1>12. CASE MacUnderflow
  BY <1>12 DEF MacUnderflow, cpu
<1>13. CASE DmaSuspend
  BY <1>13 DEF DmaSuspend, ring, cpu
<1> QED
  BY <1>1, <1>2, <1>3, <1>4, <1>5, <1>6, <1>7, <1>8, <1>9, <1>10, <1>11,
     <1>12, <1>13 DEF Next, CpuStep, DmaStep

\* The engine never sets an OWN bit, so its steps leave Progress alone.
LEMMA ProgressStep == TypeOK /\ Progress /\ Next => Progress'
<1> SUFFICES ASSUME TypeOK, Progress, Next PROVE Progress'
  OBVIOUS
<1> USE DEF TypeOK, Progress
<1>1. ASSUME NEW f \in Frames, Output(f) PROVE Progress'
  <2>1. f.segs \in 1 .. MaxSegs
    BY DEF Frames
  <2>2. ASSUME NEW d \in Slots PROVE ~(Dist(DMATxDescToSet, d) < 0)
    BY RingAssumption DEF Slots, Dist
  <2>3. Dist(DMATxDescToSet, DMATxDescToSet) = 0
    BY RingFacts
  <2>4. /\ pc' = "copy" /\ i' = 0 /\ frame' = f /\ errval' = "ERR_OK"
        /\ DmaTxDesc' = DMATxDescToSet /\ DMATxDescToSet' = DMATxDescToSet
    BY <1>1 DEF Output
  <2>5. 0 < f.segs
    BY <2>1
  <2> QED
    BY <2>2, <2>3, <2>4, <2>5
<1>2. CASE CopySegment
  <2>1. i < frame.segs /\ frame.segs \in 1 .. MaxSegs
    BY <1>2 DEF CopySegment, Free, Frames
  <2>2. \A d \in Slots : Dist(DMATxDescToSet, d) < i + 1 => ~own[d]
    <3> SUFFICES ASSUME NEW d \in Slots, Dist(DMATxDescToSet, d) < i + 1
                 PROVE  ~own[d]
      OBVIOUS
    <3>1. CASE Dist(DMATxDescToSet, d) < i
      BY <1>2, <3>1 DEF CopySegment, Free
    <3>2. CASE Dist(DMATxDescToSet, d) = i
      <4>1. d = DmaTxDesc
        BY <1>2, <3>2, RingFacts DEF CopySegment, Free
      <4> QED
        BY <1>2, <4>1 DEF CopySegment, Free
    <3>3. Dist(DMATxDescToSet, d) \in Nat /\ i \in Nat
      BY RingFacts, RingAssumption
    <3> QED
      BY <3>1, <3>2, <3>3
  <2>3. i + 1 < frame.segs =>
          Dist(DMATxDescToSet, NextDesc(DmaTxDesc)) = i + 1
    <3>1. Dist(DMATxDescToSet, DmaTxDesc) = i
      BY <1>2 DEF CopySegment, Free
    <3>2. i + 1 < frame.segs => i + 1 < ETH_TXBUFNB
      BY <2>1, RingAssumption
    <3> QED
      BY <3>1, <3>2, NextDist
  <2>4. CASE i + 1 < frame.segs
    BY <1>2, <2>2, <2>3, <2>4 DEF CopySegment, Free
  <2>5. CASE ~(i + 1 < frame.segs)
    <3>1. i + 1 = frame.segs
      BY <2>1, <2>5, RingAssumption
    <3> QED
      BY <1>2, <2>2, <2>5, <3>1 DEF CopySegment, Free
  <2> QED
    BY <2>4, <2>5
<1>3. CASE CopyUnavailable
  BY <1>3 DEF CopyUnavailable, Free, ring
<1>4. CASE Prepare
  <2>1. frame.segs \in 1 .. MaxSegs
    BY DEF Frames
  <2>2. Dist(DMATxDescToSet, DMATxDescToSet) = 0
    BY RingFacts
  <2>3. ~own[DMATxDescToSet]
    BY <1>4, <2>1, <2>2, RingAssumption DEF Prepare
  <2> QED
    BY <1>4, <2>1, <2>2, <2>3, RingAssumption DEF Prepare, ring
<1>5. CASE GiveSegment
  <2>1. i < frame.segs /\ frame.segs \in 1 .. MaxSegs
    BY <1>5 DEF GiveSegment, BufCount, AfterFrame, Frames
  <2>2. CASE i + 1 < frame.segs
    <3>1. Dist(DMATxDescToSet, NextDesc(DmaTxDesc)) = i + 1
      <4>1. Dist(DMATxDescToSet, DmaTxDesc) = i
        BY <1>5 DEF GiveSegment, BufCount, AfterFrame
      <4>2. i + 1 < ETH_TXBUFNB
        BY <2>1, <2>2, RingAssumption
      <4> QED
        BY <4>1, <4>2, NextDist
    <3>2. ASSUME NEW d \in Slots, i + 1 <= Dist(DMATxDescToSet, d),
                 Dist(DMATxDescToSet, d) < frame.segs
          PROVE  ~own'[d]
      <4>1. Dist(DMATxDescToSet, d) \in Nat
        BY RingFacts, RingAssumption
      <4>2. ~own[d]
        BY <1>5, <3>2, <4>1 DEF GiveSegment, BufCount, AfterFrame
      <4>3. d # DmaTxDesc
        BY <1>5, <3>2, <4>1 DEF GiveSegment, BufCount, AfterFrame
      <4> QED
        BY <1>5, <4>2, <4>3 DEF GiveSegment, BufCount, AfterFrame
    <3> QED
      BY <1>5, <2>2, <3>1, <3>2 DEF GiveSegment, BufCount, AfterFrame
  <2>3. CASE ~(i + 1 < frame.segs)
    <3>1. i + 1 = frame.segs
      BY <2>1, <2>3, RingAssumption
    <3> QED
      BY <1>5, <2>3, <3>1 DEF GiveSegment, BufCount, AfterFrame
  <2> QED
    BY <2>2, <2>3
<1>6. CASE CheckTBUS
  BY <1>6 DEF CheckTBUS, ring
<1>7. CASE CheckTUS
  BY <1>7 DEF CheckTUS, ring
<1>8. CASE DmaFetch
  BY <1>8 DEF DmaFetch, ring, cpu
<1>9. CASE DmaNextSegment
  BY <1>9 DEF DmaNextSegment, cpu
<1>10. CASE DmaLastSegment
  BY <1>10 DEF DmaLastSegment, ring, cpu
<1>11. CASE MacDone
  BY <1>11 DEF MacDone, cpu
<1>12. CASE MacUnderflow
  BY <1>12 DEF MacUnderflow, cpu
<1>13. CASE DmaSuspend
  BY <1>13 DEF DmaSuspend, ring, cpu
<1> QED
  BY <1>1, <1>2, <1>3, <1>4, <1>5, <1>6, <1>7, <1>8, <1>9, <1>10, <1>11,
     <1>12, <1>13 DEF Next, CpuStep, DmaStep

\* What is known in every case of the proof that a step preserves Ring.
LEMMA RingOwn ==
  ASSUME TypeOK, NEW c \in 0 .. ETH_TXBUFNB, Window(c)
  PROVE  /\ own[dmaDesc] <=> c >= 1
         /\ unclosed # NoDesc => unclosed \in Slots /\ own[unclosed]
         /\ c < ETH_TXBUFNB => Dist(dmaDesc, Producer) = c
         /\ Producer \in Slots
         /\ c = ETH_TXBUFNB => Producer = dmaDesc
<1>1. dmaDesc \in Slots /\ unclosed \in Slots \cup {NoDesc}
  BY DEF TypeOK
<1>2. dmaDesc # NoDesc
  BY <1>1, RingAssumption DEF Slots, NoDesc
<1>3. Dist(dmaDesc, dmaDesc) = 0
  BY <1>1, RingFacts
<1>4. own[dmaDesc] <=> c >= 1
  BY <1>1, <1>2, <1>3 DEF Window
<1>5. unclosed # NoDesc => unclosed \in Slots /\ own[unclosed]
  BY <1>1 DEF Window
<1>6. c < ETH_TXBUFNB => Dist(dmaDesc, Producer) = c
  BY <1>1, AdvFacts DEF Window
<1>7. Producer \in Slots
  BY <1>1, AdvFacts DEF Window
<1>8. c = ETH_TXBUFNB => Producer = dmaDesc
  BY <1>1, RingAssumption DEF Window, Adv, Slots
<1> QED
  BY <1>4, <1>5, <1>6, <1>7, <1>8

\* A descriptor given to the DMA keeps the shape of the ring.
LEMMA GiveRing ==
  ASSUME TypeOK, Progress, NEW c \in 0 .. ETH_TXBUFNB, Ring(c), GiveSegment
  PROVE  c + 1 \in 0 .. ETH_TXBUFNB /\ Ring(c + 1)'
<1> USE DEF Ring
<1>1. /\ pc = "give"
      /\ i \in Nat /\ frame.segs \in 1 .. MaxSegs /\ i < frame.segs
      /\ dmaDesc \in Slots /\ DmaTxDesc \in Slots
      /\ Producer = DmaTxDesc
      /\ ~own[DmaTxDesc]
  BY RingAssumption DEF GiveSegment, BufCount, AfterFrame, TypeOK, Frames, Progress, Producer
<1>2. c < ETH_TXBUFNB /\ Dist(dmaDesc, DmaTxDesc) = c
  <2>1. c = ETH_TXBUFNB => own[DmaTxDesc]
    BY <1>1, RingOwn, RingAssumption
  <2> QED
    BY <1>1, <2>1, RingOwn, RingAssumption
<1>3. c + 1 \in 0 .. ETH_TXBUFNB
  BY <1>2, RingAssumption
<1>4. /\ dmaDesc' = dmaDesc /\ unclosed' = unclosed /\ dma' = dma
      /\ TBUS' = TBUS /\ TUS' = TUS
      /\ own' = [own EXCEPT ![DmaTxDesc] = TRUE]
  BY DEF GiveSegment, BufCount, AfterFrame, hw
<1>5. Window(c + 1)'
  <2>1. Producer' = Adv(dmaDesc, c + 1)
    <3>1. Producer' = NextDesc(DmaTxDesc)
      BY <1>1 DEF GiveSegment, BufCount, AfterFrame, Producer
    <3>2. DmaTxDesc = Adv(dmaDesc, c)
      BY <1>1 DEF Window
    <3> QED
      BY <1>1, <1>2, <3>1, <3>2, AdvFacts
  <2>2. ASSUME NEW d \in Slots
        PROVE  own'[d] <=> (Dist(dmaDesc, d) < c + 1 \/ d = unclosed)
    <3>1. Dist(dmaDesc, d) \in Nat
      BY <1>1, RingFacts, RingAssumption
    <3>2. Dist(dmaDesc, d) = c <=> d = DmaTxDesc
      BY <1>1, <1>2, RingFacts
    <3>3. own'[d] <=> (own[d] \/ d = DmaTxDesc)
      BY <1>1, <1>4 DEF TypeOK
    <3>4. own[d] <=> (Dist(dmaDesc, d) < c \/ d = unclosed)
      BY DEF Window
    <3> QED
      BY <3>1, <3>2, <3>3, <3>4, RingAssumption
  <2>3. unclosed # NoDesc => unclosed # dmaDesc /\ Dist(dmaDesc, unclosed) >= c + 1
    <3> SUFFICES ASSUME unclosed # NoDesc
                 PROVE  unclosed # dmaDesc /\ Dist(dmaDesc, unclosed) >= c + 1
      OBVIOUS
    <3>1. unclosed \in Slots /\ own[unclosed]
      BY RingOwn
    <3>2. unclosed # DmaTxDesc
      BY <1>1, <3>1
    <3>3. Dist(dmaDesc, unclosed) # c /\ Dist(dmaDesc, unclosed) \in Nat
      BY <1>1, <1>2, <3>1, <3>2, RingFacts, RingAssumption
    <3> QED
      BY <3>3, RingAssumption DEF Window
  <2> QED
    BY <1>4, <2>1, <2>2, <2>3 DEF Window
<1>6. EndsWhole(c + 1)'
  <2>1. Adv(dmaDesc', c + 1 - 1) = DmaTxDesc
    <3>1. c + 1 - 1 = c
      BY RingAssumption
    <3> QED
      BY <1>1, <1>4, <3>1 DEF Window
  <2>2. i + 1 = frame.segs => ls'[DmaTxDesc]
    BY <1>1 DEF GiveSegment, BufCount, AfterFrame, TypeOK
  <2>3. i + 1 = frame.segs \/ pc' = "give"
    BY <1>1, RingAssumption DEF GiveSegment, BufCount, AfterFrame
  <2>4. i' > 0
    BY <1>1, RingAssumption DEF GiveSegment, BufCount, AfterFrame
  <2> QED
    BY <2>1, <2>2, <2>3, <2>4 DEF EndsWhole
<1>7. Stranded(c + 1)'
  BY <1>1, <1>4, RingAssumption DEF Stranded, GiveSegment, BufCount, AfterFrame
<1> QED
  BY <1>3, <1>5, <1>6, <1>7

\* A descriptor given back by the DMA keeps the shape of the ring.
LEMMA FetchedRing ==
  ASSUME TypeOK, Progress, NEW c \in 0 .. ETH_TXBUFNB, Ring(c),
         DmaNextSegment \/ DmaLastSegment
  PROVE  c - 1 \in 0 .. ETH_TXBUFNB /\ Ring(c - 1)'
<1> USE DEF Ring
<1>1. /\ dma = "busy" /\ dma' = "running"
      /\ c >= 1
      /\ dmaDesc \in Slots /\ dmaDesc' = NextDesc(dmaDesc)
      /\ Producer' = Producer
      /\ pc' = pc /\ i' = i /\ ls' = ls
  BY DEF DmaNextSegment, DmaLastSegment, Stranded, TypeOK, Producer, cpu, ring
<1>2. c - 1 \in 0 .. ETH_TXBUFNB
  BY <1>1, RingAssumption
<1>3. \A d \in Slots : d # dmaDesc => Dist(dmaDesc', d) = Dist(dmaDesc, d) - 1
  BY <1>1, RingFacts
<1>4. /\ Dist(dmaDesc', dmaDesc) = ETH_TXBUFNB - 1
      /\ Dist(dmaDesc, dmaDesc) = 0
      /\ dmaDesc' # dmaDesc /\ dmaDesc # NoDesc
  BY <1>1, RingAssumption, SMT DEF Slots, Dist, NextDesc, NoDesc
<1>5. \A d \in Slots : Dist(dmaDesc, d) \in 0 .. ETH_TXBUFNB - 1
  BY <1>1, RingFacts
<1>6. Producer' = Adv(dmaDesc', c - 1)
  BY <1>1, AdvFacts DEF Window
<1>7. Window(c - 1)'
  <2>1. CASE DmaNextSegment
    <3>1. own' = [own EXCEPT ![dmaDesc] = FALSE] /\ unclosed' = unclosed
      BY <2>1 DEF DmaNextSegment
    <3>2. dmaDesc # unclosed
      BY <1>4 DEF Window
    <3>3. ASSUME NEW d \in Slots
          PROVE  own'[d] <=> (Dist(dmaDesc', d) < c - 1 \/ d = unclosed)
      <4>1. CASE d = dmaDesc
        BY <1>2, <1>4, <3>1, <3>2, <4>1, RingAssumption DEF TypeOK
      <4>2. CASE d # dmaDesc
        <5>1. own'[d] = own[d]
          BY <3>1, <4>2 DEF TypeOK
        <5>2. Dist(dmaDesc', d) < c - 1 <=> Dist(dmaDesc, d) < c
          BY <1>3, <1>5, <4>2, RingAssumption
        <5> QED
          BY <5>1, <5>2 DEF Window
      <4> QED
        BY <4>1, <4>2
    <3>4. ASSUME unclosed # NoDesc
          PROVE  unclosed # dmaDesc' /\ Dist(dmaDesc', unclosed) >= c - 1
      <4>1. unclosed \in Slots /\ own[unclosed]
        BY <3>4, RingOwn
      <4>2. Dist(dmaDesc', unclosed) = Dist(dmaDesc, unclosed) - 1
        BY <1>3, <3>2, <4>1
      <4>3. Dist(dmaDesc', unclosed) >= c - 1
        BY <1>5, <3>4, <4>1, <4>2, RingAssumption DEF Window
      <4>4. unclosed # dmaDesc'
        <5>1. CASE c >= 2
          <6>1. Dist(dmaDesc', unclosed) >= 1 /\ dmaDesc' \in Slots
            BY <1>1, <1>5, <3>4, <4>1, <4>2, <5>1, RingFacts, RingAssumption DEF Window
          <6> QED
            BY <4>1, <6>1, RingFacts
        <5>2. CASE c = 1
          <6>1. ~ls[dmaDesc] /\ Adv(dmaDesc, c - 1) = dmaDesc
            BY <1>1, <2>1, <5>2, AdvFacts, RingAssumption DEF DmaNextSegment
          <6>2. pc = "give"
            BY <5>2, <6>1 DEF EndsWhole
          <6>3. Producer = dmaDesc'
            <7>1. c - 1 = 0 /\ dmaDesc' \in Slots
              BY <1>1, <5>2, RingFacts
            <7> QED
              BY <1>1, <1>6, <7>1, RingAssumption, SMT DEF Adv, Slots
          <6>4. ~own[DmaTxDesc]
            BY <6>2, RingAssumption DEF Progress, TypeOK, Frames
          <6> QED
            BY <4>1, <6>2, <6>3, <6>4 DEF Producer
        <5> QED
          BY <1>1, <5>1, <5>2, RingAssumption
      <4> QED
        BY <4>3, <4>4
    <3> QED
      BY <1>6, <3>1, <3>3, <3>4 DEF Window
  <2>2. CASE DmaLastSegment
    <3>1. own' = own /\ unclosed = NoDesc /\ unclosed' = dmaDesc
      BY <2>2 DEF DmaLastSegment, ring
    <3>2. ASSUME NEW d \in Slots
          PROVE  own[d] <=> (Dist(dmaDesc', d) < c - 1 \/ d = dmaDesc)
      <4>1. own[d] <=> Dist(dmaDesc, d) < c
        BY <3>1, RingAssumption DEF Window, Slots, NoDesc
      <4>2. CASE d = dmaDesc
        BY <1>1, <1>4, <4>1, <4>2
      <4>3. CASE d # dmaDesc
        <5>1. Dist(dmaDesc', d) < c - 1 <=> Dist(dmaDesc, d) < c
          BY <1>3, <1>5, <4>3, RingAssumption
        <5> QED
          BY <4>1, <4>3, <5>1
      <4> QED
        BY <4>2, <4>3
    <3>3. dmaDesc # dmaDesc' /\ Dist(dmaDesc', dmaDesc) >= c - 1
      BY <1>4, RingAssumption
    <3> QED
      BY <1>6, <3>1, <3>2, <3>3 DEF Window
  <2> QED
    BY <2>1, <2>2
<1>8. EndsWhole(c - 1)'
  <2>1. c - 1 >= 1 => Adv(dmaDesc', c - 1 - 1) = Adv(dmaDesc, c - 1)
    <3>1. c - 1 - 1 = c - 2
      BY RingAssumption
    <3> QED
      BY <1>1, <3>1, AdvFacts, RingAssumption
  <2> QED
    BY <1>1, <2>1 DEF EndsWhole
<1>9. Stranded(c - 1)'
  BY <1>1 DEF Stranded
<1> QED
  BY <1>2, <1>7, <1>8, <1>9

\* The steps that leave the window as it is.
Other ==
  \/ \E f \in Frames : Output(f)
  \/ CopySegment \/ CopyUnavailable \/ Prepare
  \/ CheckTBUS \/ CheckTUS
  \/ DmaFetch \/ MacDone \/ MacUnderflow \/ DmaSuspend

\* The other steps leave the shape of the ring alone.
LEMMA RingStep ==
  ASSUME TypeOK, Progress, NEW c \in 0 .. ETH_TXBUFNB, Ring(c), Other
  PROVE  Ring(c)'
<1>1. ASSUME NEW f \in Frames, Output(f) PROVE Ring(c)'
  <2>1. Window(c)'
    BY <1>1 DEF Ring, Window, Producer, Output, ring, hw
  <2>2. EndsWhole(c)'
    BY <1>1 DEF Ring, EndsWhole, Output, ring, hw
  <2>3. Stranded(c)'
    BY <1>1 DEF Ring, Stranded, Output, ring, hw
  <2> QED
    BY <2>1, <2>2, <2>3 DEF Ring
<1>2. CASE CopySegment \/ CopyUnavailable \/ Prepare
  <2>1. Window(c)'
    BY <1>2 DEF Ring, Window, Producer, CopySegment, Free, CopyUnavailable, Prepare,
                ring, hw
  <2>2. EndsWhole(c)'
    BY <1>2 DEF Ring, EndsWhole, CopySegment, Free, CopyUnavailable, Prepare, ring, hw
  <2>3. Stranded(c)'
    BY <1>2, RingAssumption
       DEF Ring, Stranded, CopySegment, Free, CopyUnavailable, Prepare, TypeOK, hw
  <2> QED
    BY <2>1, <2>2, <2>3 DEF Ring
<1>4. CASE CheckTBUS \/ CheckTUS
  <2>1. Window(c)'
    BY <1>4 DEF Ring, Window, Producer, CheckTBUS, CheckTUS, ring
  <2>2. EndsWhole(c)'
    BY <1>4 DEF Ring, EndsWhole, CheckTBUS, CheckTUS, ring
  <2>3. Stranded(c)'
    BY <1>4 DEF Ring, Stranded, CheckTBUS, CheckTUS, PollDemand
  <2> QED
    BY <2>1, <2>2, <2>3 DEF Ring
<1>5. CASE DmaFetch
  <2>1. Window(c)'
    BY <1>5 DEF Ring, Window, Producer, DmaFetch, ring, cpu
  <2>2. EndsWhole(c)'
    BY <1>5 DEF Ring, EndsWhole, DmaFetch, ring, cpu
  <2>3. own[dmaDesc] <=> c >= 1
    BY RingOwn DEF Ring
  <2>4. Stranded(c)'
    BY <1>5, <2>3, RingAssumption DEF Ring, Stranded, DmaFetch, TypeOK, cpu
  <2> QED
    BY <2>1, <2>2, <2>4 DEF Ring
<1>7. CASE MacDone \/ MacUnderflow
  <2>1. /\ own' = [own EXCEPT ![unclosed] = FALSE]
        /\ unclosed # NoDesc /\ unclosed' = NoDesc
        /\ dmaDesc' = dmaDesc /\ Producer' = Producer
        /\ pc' = pc /\ i' = i /\ ls' = ls
    BY <1>7 DEF MacDone, MacUnderflow, Producer, cpu
  <2>2. \A d \in Slots : own'[d] <=> (Dist(dmaDesc, d) < c \/ d = NoDesc)
    <3> SUFFICES ASSUME NEW d \in Slots
                 PROVE  own'[d] <=> Dist(dmaDesc, d) < c
      BY RingAssumption DEF Slots, NoDesc
    <3>1. CASE d = unclosed
      <4>1. Dist(dmaDesc, d) \in Nat /\ Dist(dmaDesc, d) >= c
        BY <2>1, <3>1, RingFacts, RingAssumption DEF Ring, Window, TypeOK
      <4> QED
        BY <2>1, <3>1, <4>1, RingAssumption DEF TypeOK
    <3>2. CASE d # unclosed
      BY <2>1, <3>2 DEF Ring, Window, TypeOK
    <3> QED
      BY <3>1, <3>2
  <2>3. Window(c)'
    BY <2>1, <2>2 DEF Ring, Window
  <2>4. EndsWhole(c)'
    BY <2>1 DEF Ring, EndsWhole
  <2>5. Stranded(c)'
    BY <1>7 DEF Ring, Stranded, MacDone, MacUnderflow, cpu
  <2> QED
    BY <2>3, <2>4, <2>5 DEF Ring
<1>8. CASE DmaSuspend
  <2>1. Window(c)'
    BY <1>8 DEF Ring, Window, Producer, DmaSuspend, ring, cpu
  <2>2. EndsWhole(c)'
    BY <1>8 DEF Ring, EndsWhole, DmaSuspend, ring, cpu
  <2>3. Stranded(c)'
    BY <1>8 DEF Ring, Stranded, DmaSuspend, cpu
  <2> QED
    BY <2>1, <2>2, <2>3 DEF Ring
<1> QED
  BY <1>1, <1>2, <1>4, <1>5, <1>7, <1>8 DEF Other

\* What the CPU has filled is not touched until it is handed over.
LEMMA CopiedStep == TypeOK /\ Progress /\ Copied /\ Next => Copied'
<1> SUFFICES ASSUME TypeOK, Progress, Copied, Next PROVE Copied'
  OBVIOUS
<1> USE RingAssumption
<1>0. /\ DMATxDescToSet \in Slots /\ DmaTxDesc \in Slots /\ i \in Nat
      /\ \A d \in Slots : Dist(DMATxDescToSet, d) \in Nat
  BY RingFacts DEF TypeOK
<1>1. ASSUME NEW f \in Frames, Output(f) PROVE Copied'
  BY <1>0, <1>1 DEF Output, Copied, ring
<1>2. CASE CopySegment
  <2>1. /\ i < frame.segs /\ frame.segs \in 1 .. MaxSegs
        /\ Dist(DMATxDescToSet, DmaTxDesc) = i
        /\ frame' = frame /\ DMATxDescToSet' = DMATxDescToSet
        /\ buf' = [buf EXCEPT ![DmaTxDesc] = Segment(frame, i + 1)]
    BY <1>2 DEF CopySegment, Free, Progress, TypeOK, Frames
  <2>2. ASSUME NEW d \in Slots, Dist(DMATxDescToSet, d) < i + 1
        PROVE  buf'[d] = Segment(frame, Dist(DMATxDescToSet, d) + 1)
    <3>1. CASE d = DmaTxDesc
      BY <2>1, <3>1 DEF TypeOK
    <3>2. CASE d # DmaTxDesc
      <4>1. Dist(DMATxDescToSet, d) < i
        BY <1>0, <2>1, <2>2, <3>2, RingFacts
      <4> QED
        BY <1>2, <2>1, <3>2, <4>1 DEF Copied, CopySegment, TypeOK
    <3> QED
      BY <3>1, <3>2
  <2>3. \/ pc' = "copy" /\ i' = i + 1
        \/ pc' = "prepare" /\ frame.segs = i + 1
    BY <1>2, <2>1 DEF CopySegment, Free, TypeOK
  <2> QED
    BY <2>1, <2>2, <2>3 DEF Copied
<1>3. CASE CopyUnavailable
  BY <1>3 DEF CopyUnavailable, Copied
<1>4. CASE Prepare
  BY <1>4 DEF Prepare, Copied, Progress, ring
<1>5. CASE GiveSegment
  <2>1. \/ pc' = "tbus"
        \/ pc' = "give" /\ DMATxDescToSet' = DMATxDescToSet /\ i' = i + 1
    BY <1>5 DEF GiveSegment
  <2>2. buf' = buf /\ frame' = frame /\ pc = "give"
    BY <1>5 DEF GiveSegment
  <2> QED
    BY <1>0, <2>1, <2>2 DEF Copied
<1>6. CASE CheckTBUS \/ CheckTUS
  BY <1>6 DEF CheckTBUS, CheckTUS, Copied
<1>7. CASE DmaStep
  <2>1. buf' = buf /\ UNCHANGED cpu
    BY <1>7 DEF DmaStep, DmaFetch, DmaNextSegment, DmaLastSegment, MacDone,
                MacUnderflow, DmaSuspend, ring
  <2> QED
    BY <2>1 DEF Copied, cpu
<1> QED
  BY <1>1, <1>2, <1>3, <1>4, <1>5, <1>6, <1>7 DEF Next, CpuStep

\* The MAC holds a part of a frame exactly while the DMA is between its segments.
LEMMA SendingStep == TypeOK /\ Sending /\ Next => Sending'
<1> SUFFICES ASSUME TypeOK, Sending, Next PROVE Sending'
  OBVIOUS
<1>1. CASE DmaLastSegment
  <2>1. mac' = Append(fifo, buf[dmaDesc]) /\ fifo \in Seq(Segments)
    BY <1>1 DEF DmaLastSegment, TypeOK
  <2>2. mac' # <<>>
    BY <2>1, AppendProperties DEF TypeOK
  <2>3. unclosed' \in Slots
    BY <1>1 DEF DmaLastSegment, TypeOK
  <2> QED
    BY <2>2, <2>3, RingAssumption DEF Sending, Slots, NoDesc
<1>2. CASE MacDone \/ MacUnderflow
  BY <1>2 DEF MacDone, MacUnderflow, Sending
<1>3. CASE ~ (DmaLastSegment \/ MacDone \/ MacUnderflow)
  BY <1>3 DEF Next, Output, CpuStep, CopySegment, CopyUnavailable, Prepare,
     GiveSegment, CheckTBUS, CheckTUS, DmaStep, DmaFetch, DmaNextSegment,
     DmaSuspend, hw, Sending
<1> QED
  BY <1>1, <1>2, <1>3

\* Steps that leave the window and its buffers as they are.
LEMMA ContentsKept ==
  ASSUME TypeOK, Progress, NEW c \in 0 .. ETH_TXBUFNB, Ring(c), Contents(c),
         Other
  PROVE  Contents(c)'
<1> USE RingAssumption
<1>1. /\ dmaDesc' = dmaDesc /\ fifo' = fifo /\ fs' = fs /\ ls' = ls
      /\ dmaDesc \in Slots
  BY DEF Other, Output, CopySegment, CopyUnavailable, Prepare, CheckTBUS,
         CheckTUS, DmaFetch, MacDone, MacUnderflow, DmaSuspend, ring, hw, TypeOK
<1>2. ASSUME NEW d \in Slots, own[d] PROVE buf'[d] = buf[d]
  <2>1. CASE CopySegment
    <3>1. d # DmaTxDesc /\ buf' = [buf EXCEPT ![DmaTxDesc] = Segment(frame, i + 1)]
      BY <1>2, <2>1 DEF CopySegment, Free
    <3> QED
      BY <3>1 DEF TypeOK
  <2>2. CASE ~CopySegment
    BY <2>2 DEF Other, Output, CopyUnavailable, Prepare, CheckTBUS,
         CheckTUS, DmaFetch, MacDone, MacUnderflow, DmaSuspend, ring, hw
  <2> QED
    BY <2>1, <2>2
<1>3. ASSUME NEW d \in Slots, Dist(dmaDesc, d) < c PROVE buf'[d] = buf[d]
  BY <1>2, <1>3 DEF Ring, Window
<1>4. ASSUME NEW d \in Slots, Dist(dmaDesc, d) + 1 < c
      PROVE  NextDesc(d) \in Slots /\ Dist(dmaDesc, NextDesc(d)) < c
  BY <1>1, <1>4, NextDist, RingFacts
<1>5. \/ pc' # "give" /\ pc # "give"
      \/ pc' = pc /\ i' = i /\ frame' = frame
      \/ Prepare
  BY DEF Other, Output, CopySegment, CopyUnavailable, CheckTBUS,
         CheckTUS, DmaFetch, MacDone, MacUnderflow, DmaSuspend, cpu
<1>6. Prepare => pc # "give" /\ i' = 0 /\ frame' = frame
  BY DEF Prepare, Progress
<1>7. \A d \in Slots : Dist(dmaDesc, d) < c =>
        /\ fs'[d] = (buf'[d].seg = 1)
        /\ ls'[d] = (buf'[d].seg = buf'[d].segs)
        /\ Dist(dmaDesc, d) + 1 < c =>
             IF ls'[d] THEN buf'[NextDesc(d)].seg = 1
             ELSE buf'[NextDesc(d)] = Segment(buf'[d], buf'[d].seg + 1)
  BY <1>1, <1>3, <1>4 DEF Contents
<1>8. c >= 1 => buf'[dmaDesc] = buf[dmaDesc]
  BY <1>1, <1>2, RingOwn DEF Ring
<1>9. c >= 1 => buf'[Adv(dmaDesc, c - 1)] = buf[Adv(dmaDesc, c - 1)]
  <2> SUFFICES ASSUME c >= 1
               PROVE  buf'[Adv(dmaDesc, c - 1)] = buf[Adv(dmaDesc, c - 1)]
    OBVIOUS
  <2>1. /\ Adv(dmaDesc, c - 1) \in Slots
        /\ Dist(dmaDesc, Adv(dmaDesc, c - 1)) = c - 1
    <3>1. c - 1 \in 0 .. ETH_TXBUFNB /\ c - 1 < ETH_TXBUFNB
      OBVIOUS
    <3> QED
      BY <1>1, <3>1, AdvFacts
  <2> QED
    BY <1>3, <2>1
<1>10. c >= 1 => Fetched(buf[dmaDesc], buf[dmaDesc].seg - 1)'
  BY <1>1, <1>8 DEF Contents, Fetched
<1>11. c = 0 => Fetched(frame, IF pc = "give" THEN i ELSE 0)'
  <2>1. CASE pc' = pc /\ i' = i /\ frame' = frame
    BY <1>1, <2>1 DEF Contents, Fetched
  <2>2. CASE (pc' # "give" /\ pc # "give") \/ Prepare
    <3>1. c = 0 => Len(fifo') = 0
      BY <1>1, <1>6, <2>2 DEF Contents, Fetched
    <3>2. (IF pc' = "give" THEN i' ELSE 0) = 0
      BY <1>6, <2>2
    <3> QED
      BY <3>1, <3>2 DEF Fetched
  <2> QED
    BY <1>5, <2>1, <2>2
<1>12. c >= 1 /\ pc' = "give" /\ i' > 0 =>
         buf'[Adv(dmaDesc, c - 1)] = Segment(frame', i')
  BY <1>5, <1>6, <1>9 DEF Contents
<1> QED
  BY <1>1, <1>7, <1>8, <1>10, <1>11, <1>12 DEF Contents

\* A descriptor given to the DMA holds what its frame needs.
LEMMA ContentsGiven ==
  ASSUME TypeOK, Progress, Copied, NEW c \in 0 .. ETH_TXBUFNB, Ring(c),
         Contents(c), GiveSegment
  PROVE  Contents(c + 1)'
<1> USE RingAssumption
<1>1. /\ pc = "give"
      /\ i \in Nat /\ frame.segs \in 1 .. MaxSegs /\ i < frame.segs
      /\ dmaDesc \in Slots /\ DmaTxDesc \in Slots
      /\ Producer = DmaTxDesc
      /\ ~own[DmaTxDesc]
      /\ Dist(DMATxDescToSet, DmaTxDesc) = i
  BY DEF GiveSegment, TypeOK, Frames, Progress, Producer
<1>2. c < ETH_TXBUFNB /\ Dist(dmaDesc, DmaTxDesc) = c
  <2>1. c = ETH_TXBUFNB => own[DmaTxDesc]
    BY <1>1, RingOwn DEF Ring
  <2> QED
    BY <1>1, <2>1, RingOwn DEF Ring
<1>3. /\ dmaDesc' = dmaDesc /\ fifo' = fifo /\ buf' = buf /\ frame' = frame
      /\ fs' = [fs EXCEPT ![DmaTxDesc] = (i = 0)]
      /\ ls' = [ls EXCEPT ![DmaTxDesc] = (i + 1 = frame.segs)]
      /\ pc' = "give" => i' = i + 1
  BY DEF GiveSegment, BufCount, hw
<1>4. buf[DmaTxDesc] = Segment(frame, i + 1)
  BY <1>1 DEF Copied
<1>5. /\ buf[DmaTxDesc].seg = i + 1 /\ buf[DmaTxDesc].segs = frame.segs
      /\ buf[DmaTxDesc].payload = frame.payload
  BY <1>4 DEF Segment
<1>6. \A d \in Slots : Dist(dmaDesc, d) \in Nat
  BY <1>1, RingFacts
<1>7. \A d \in Slots : Dist(dmaDesc, d) = c <=> d = DmaTxDesc
  BY <1>1, <1>2, RingFacts
<1>8. ASSUME NEW d \in Slots, Dist(dmaDesc, d) < c
      PROVE  /\ fs'[d] = (buf'[d].seg = 1)
             /\ ls'[d] = (buf'[d].seg = buf'[d].segs)
             /\ IF ls'[d] THEN buf'[NextDesc(d)].seg = 1
                ELSE buf'[NextDesc(d)] = Segment(buf'[d], buf'[d].seg + 1)
  <2>1. d # DmaTxDesc /\ fs'[d] = fs[d] /\ ls'[d] = ls[d]
    BY <1>2, <1>3, <1>6, <1>8 DEF TypeOK
  <2>2. CASE Dist(dmaDesc, d) + 1 < c
    BY <1>3, <1>8, <2>1, <2>2 DEF Contents
  <2>3. CASE ~(Dist(dmaDesc, d) + 1 < c)
    <3>1. Dist(dmaDesc, d) = c - 1 /\ c >= 1 /\ c - 1 \in 0 .. ETH_TXBUFNB
      BY <1>6, <1>8, <2>3
    <3>2. d = Adv(dmaDesc, c - 1)
      BY <1>1, <3>1, AdvFacts
    <3>3. NextDesc(d) = DmaTxDesc
      <4>1. Dist(dmaDesc, NextDesc(d)) = c
        BY <1>1, <1>2, <3>1, NextDist
      <4> QED
        BY <1>7, <4>1, RingFacts
    <3>4. CASE i = 0
      BY <1>3, <1>5, <1>8, <2>1, <3>1, <3>2, <3>3, <3>4 DEF Contents, Ring, EndsWhole
    <3>5. CASE i > 0
      <4>1. buf[d] = Segment(frame, i)
        BY <1>1, <3>1, <3>2, <3>5 DEF Contents
      <4>2. buf[d].seg = i /\ buf[d].segs = frame.segs /\ ~ls[d]
        <5>1. buf[d].seg = i /\ buf[d].segs = frame.segs
          BY <4>1 DEF Segment
        <5>2. ls[d] = (buf[d].seg = buf[d].segs)
          BY <1>8 DEF Contents
        <5>3. i # frame.segs
          BY <1>1
        <5> QED
          BY <5>1, <5>2, <5>3, Zenon
      <4> QED
        BY <1>3, <1>4, <1>8, <2>1, <3>3, <4>1, <4>2 DEF Contents, Segment
    <3> QED
      BY <1>1, <3>4, <3>5
  <2> QED
    BY <2>2, <2>3
<1>9. /\ fs'[DmaTxDesc] = (buf'[DmaTxDesc].seg = 1)
      /\ ls'[DmaTxDesc] = (buf'[DmaTxDesc].seg = buf'[DmaTxDesc].segs)
  BY <1>1, <1>3, <1>5 DEF TypeOK
<1>10. \A d \in Slots : Dist(dmaDesc, d) < c + 1 =>
         /\ fs'[d] = (buf'[d].seg = 1)
         /\ ls'[d] = (buf'[d].seg = buf'[d].segs)
         /\ Dist(dmaDesc, d) + 1 < c + 1 =>
              IF ls'[d] THEN buf'[NextDesc(d)].seg = 1
              ELSE buf'[NextDesc(d)] = Segment(buf'[d], buf'[d].seg + 1)
  BY <1>6, <1>7, <1>8, <1>9
<1>11. Fetched(buf[dmaDesc], buf[dmaDesc].seg - 1)'
  <2>1. CASE c >= 1
    BY <1>3, <2>1 DEF Contents, Fetched
  <2>2. CASE c = 0
    <3>1. dmaDesc = DmaTxDesc
      BY <1>1, <1>2, <2>2, RingFacts
    <3>2. buf[dmaDesc].seg - 1 = i
      BY <1>1, <1>5, <3>1
    <3>3. Fetched(frame, i)
      BY <1>1, <2>2 DEF Contents
    <3>4. \A k \in 1 .. i : Segment(buf[dmaDesc], k) = Segment(frame, k)
      BY <1>5, <3>1 DEF Segment
    <3> QED
      BY <1>3, <3>2, <3>3, <3>4 DEF Fetched
  <2> QED
    BY <2>1, <2>2
<1>12. pc' = "give" => buf'[Adv(dmaDesc, c + 1 - 1)] = Segment(frame', i')
  <2>1. Adv(dmaDesc, c + 1 - 1) = DmaTxDesc
    <3>1. c + 1 - 1 = c
      OBVIOUS
    <3> QED
      BY <1>1, <1>2, <3>1, AdvFacts
  <2> QED
    BY <1>3, <1>4, <2>1
<1> QED
  BY <1>3, <1>10, <1>11, <1>12 DEF Contents

\* The engine moves on by one descriptor, within a frame or past its end.
LEMMA ContentsFetched ==
  ASSUME TypeOK, Progress, NEW c \in 0 .. ETH_TXBUFNB, Ring(c), Contents(c),
         DmaNextSegment \/ DmaLastSegment
  PROVE  Contents(c - 1)'
<1> USE RingAssumption
<1> DEFINE b == buf[dmaDesc]
           m == c - 1
<1>1. /\ c >= 1 /\ m \in 0 .. ETH_TXBUFNB /\ m < ETH_TXBUFNB
      /\ dmaDesc \in Slots /\ dmaDesc' = NextDesc(dmaDesc) /\ dmaDesc' \in Slots
      /\ pc' = pc /\ i' = i /\ frame' = frame /\ buf' = buf /\ fs' = fs
      /\ ls' = ls
  BY RingFacts DEF DmaNextSegment, DmaLastSegment, Ring, Stranded, TypeOK, cpu, ring
<1>2. /\ b \in Segments /\ b.seg \in 1 .. MaxSegs /\ b.seg - 1 \in Nat
      /\ b = Segment(b, b.seg)
  <2>1. b \in Segments
    BY <1>1 DEF TypeOK
  <2> HIDE DEF b
  <2>2. b.seg \in 1 .. MaxSegs /\ b = Segment(b, b.seg)
    BY <2>1 DEF Segments, Segment
  <2>3. b.seg - 1 \in Nat
    BY <2>2
  <2> QED
    BY <2>1, <2>2, <2>3
<1>3. Fetched(b, b.seg - 1) /\ fifo \in Seq(Segments)
  BY <1>1 DEF Contents, TypeOK
<1>4. \A d \in Slots :
        /\ Dist(dmaDesc, d) \in Nat /\ Dist(dmaDesc', d) \in Nat
        /\ d # dmaDesc => Dist(dmaDesc', d) = Dist(dmaDesc, d) - 1
        /\ d = dmaDesc => Dist(dmaDesc', d) = ETH_TXBUFNB - 1
        /\ d = dmaDesc <=> Dist(dmaDesc, d) = 0
  <2>1. Dist(dmaDesc', dmaDesc) = ETH_TXBUFNB - 1
    BY <1>1, SMT DEF Slots, Dist, NextDesc
  <2> QED
    BY <1>1, <2>1, RingFacts
<1>5. ASSUME NEW d \in Slots, Dist(dmaDesc', d) < m
      PROVE  Dist(dmaDesc, d) = Dist(dmaDesc', d) + 1
  BY <1>1, <1>4, <1>5
<1>6. \A d \in Slots : Dist(dmaDesc', d) < m =>
        /\ fs'[d] = (buf'[d].seg = 1)
        /\ ls'[d] = (buf'[d].seg = buf'[d].segs)
        /\ Dist(dmaDesc', d) + 1 < m =>
             IF ls'[d] THEN buf'[NextDesc(d)].seg = 1
             ELSE buf'[NextDesc(d)] = Segment(buf'[d], buf'[d].seg + 1)
  <2> SUFFICES ASSUME NEW d \in Slots, Dist(dmaDesc', d) < m
               PROVE  /\ fs'[d] = (buf'[d].seg = 1)
                      /\ ls'[d] = (buf'[d].seg = buf'[d].segs)
                      /\ Dist(dmaDesc', d) + 1 < m =>
                           IF ls'[d] THEN buf'[NextDesc(d)].seg = 1
                           ELSE buf'[NextDesc(d)]
                                  = Segment(buf'[d], buf'[d].seg + 1)
    OBVIOUS
  <2>1. Dist(dmaDesc, d) < c /\ (Dist(dmaDesc', d) + 1 < m => Dist(dmaDesc, d) + 1 < c)
    BY <1>1, <1>4, <1>5
  <2> QED
    BY <1>1, <2>1 DEF Contents
<1>7. m >= 1 => /\ ls[dmaDesc] => buf[dmaDesc'].seg = 1
                /\ ~ls[dmaDesc] => buf[dmaDesc'] = Segment(b, b.seg + 1)
  BY <1>1, <1>4 DEF Contents
<1>8. m = 0 /\ pc = "give" /\ i > 0 => b = Segment(frame, i) /\ i < frame.segs
  BY <1>1, AdvFacts DEF Contents, Progress
<1>9. ls[dmaDesc] = (b.seg = b.segs)
  BY <1>1, <1>4 DEF Contents
<1>10. /\ m >= 1 => Fetched(buf[dmaDesc], buf[dmaDesc].seg - 1)'
       /\ m = 0 => Fetched(frame, IF pc = "give" THEN i ELSE 0)'
  <2>1. CASE DmaNextSegment
    <3>1. ~ls[dmaDesc] /\ fifo' = Append(fifo, b)
      BY <2>1 DEF DmaNextSegment
    <3>2. ASSUME NEW f, \A k \in 1 .. b.seg : Segment(f, k) = Segment(b, k)
          PROVE  Len(fifo') = b.seg /\ \A k \in 1 .. b.seg : fifo'[k] = Segment(f, k)
      <4>1. /\ Len(fifo') = Len(fifo) + 1 /\ fifo'[Len(fifo) + 1] = b
            /\ \A k \in 1 .. Len(fifo) : fifo'[k] = fifo[k]
        BY <1>2, <1>3, <3>1, AppendProperties
      <4>2. Len(fifo) = b.seg - 1 /\ \A k \in 1 .. b.seg - 1 : fifo[k] = Segment(b, k)
        BY <1>3 DEF Fetched
      <4> HIDE DEF b
      <4>3. ASSUME NEW k \in 1 .. b.seg PROVE fifo'[k] = Segment(b, k)
        <5>1. CASE k = b.seg
          <6>1. fifo'[b.seg] = b
            <7>1. Len(fifo) + 1 = b.seg
              BY <1>2, <4>2
            <7> QED
              BY <4>1, <7>1
          <6> QED
            BY <1>2, <5>1, <6>1
        <5>2. CASE k # b.seg
          <6>1. k \in 1 .. b.seg - 1 /\ k \in 1 .. Len(fifo)
            BY <1>2, <4>2, <5>2
          <6> QED
            BY <4>1, <4>2, <6>1
        <5> QED
          BY <5>1, <5>2
      <4> QED
        BY <1>2, <3>2, <4>1, <4>2, <4>3
    <3>3. CASE m >= 1
      <4>1. buf'[dmaDesc'] = Segment(b, b.seg + 1)
        BY <1>1, <1>7, <3>1, <3>3
      <4>2. /\ buf'[dmaDesc'].seg - 1 = b.seg
            /\ \A k : Segment(buf'[dmaDesc'], k) = Segment(b, k)
        BY <1>2, <4>1 DEF Segment
      <4>3. m # 0
        BY <3>3
      <4> HIDE DEF b
      <4> QED
        BY <3>2, <4>2, <4>3 DEF Fetched
    <3>4. CASE m = 0
      <4>1. pc = "give" /\ i > 0 /\ i \in Nat
        BY <1>1, <3>1, <3>4, AdvFacts DEF Ring, EndsWhole, TypeOK
      <4>2. b = Segment(frame, i)
        BY <1>8, <3>4, <4>1
      <4>3. b.seg = i /\ \A k : Segment(frame, k) = Segment(b, k)
        BY <4>2 DEF Segment
      <4> HIDE DEF b
      <4> QED
        BY <1>1, <3>2, <3>4, <4>1, <4>3 DEF Fetched
    <3> QED
      BY <1>1, <3>3, <3>4
  <2>2. CASE DmaLastSegment
    <3>1. ls[dmaDesc] /\ fifo' = <<>> /\ Len(fifo') = 0
      BY <2>2 DEF DmaLastSegment
    <3>2. m >= 1 => buf'[dmaDesc'].seg - 1 = 0
      BY <1>1, <1>7, <3>1
    <3>3. m = 0 => ~(pc = "give" /\ i > 0)
      <4> SUFFICES ASSUME m = 0, pc = "give", i > 0 PROVE FALSE
        OBVIOUS
      <4>1. b = Segment(frame, i) /\ i < frame.segs /\ i \in Nat
        BY <1>8 DEF TypeOK
      <4>2. b.seg = i /\ b.segs = frame.segs
        BY <4>1 DEF Segment
      <4> QED
        BY <1>9, <3>1, <4>1, <4>2 DEF TypeOK, Frames
    <3>4. m = 0 => (IF pc' = "give" THEN i' ELSE 0) = 0
      BY <1>1, <3>3 DEF TypeOK
    <3> QED
      BY <3>1, <3>2, <3>4 DEF Fetched
  <2> QED
    BY <2>1, <2>2
<1>11. m >= 1 /\ pc = "give" /\ i > 0 =>
         buf'[Adv(dmaDesc', m - 1)] = Segment(frame, i)
  <2> SUFFICES ASSUME m >= 1, pc = "give", i > 0
               PROVE  buf'[Adv(dmaDesc', m - 1)] = Segment(frame, i)
    OBVIOUS
  <2>1. m - 1 = c - 2 /\ c >= 2
    OBVIOUS
  <2>2. Adv(dmaDesc', m - 1) = Adv(dmaDesc, c - 1)
    BY <1>1, <2>1, AdvFacts
  <2> QED
    BY <1>1, <2>2 DEF Contents
<1> QED
  BY <1>1, <1>6, <1>10, <1>11 DEF Contents

\* The invariant holds initially.
LEMMA InitInvariant == Init => IInv
<1> SUFFICES ASSUME Init PROVE IInv
  OBVIOUS
<1>1. 0 \in Slots
  BY RingAssumption DEF Slots
<1>2. TypeOK
  <2>1. PICK p \in Payloads :
          /\ frame = [payload |-> p, segs |-> 1]
          /\ buf = [d \in Slots |-> Segment(frame, 1)]
    BY DEF Init
  <2>2. 1 \in 1 .. MaxSegs
    BY RingAssumption
  <2>3. frame \in Frames
    BY <2>1, <2>2 DEF Frames
  <2>4. buf \in [Slots -> Segments]
    BY <2>1, <2>2, <2>3 DEF Segment, Segments, Frames
  <2> QED
    BY <1>1, <2>3, <2>4, RingAssumption
       DEF Init, TypeOK, CpuStates, DmaStates, Results
<1>3. Progress
  BY DEF Init, Progress
<1>4. Ring(0)
  <2>1. Adv(0, 0) = 0
    BY <1>1, AdvFacts, RingAssumption
  <2>2. \A d \in Slots : ~(Dist(0, d) < 0) /\ d # NoDesc
    BY <1>1, RingFacts, RingAssumption DEF Slots, NoDesc
  <2> QED
    BY <2>1, <2>2
       DEF Init, Ring, Window, EndsWhole, Stranded, Producer
<1>5. Copied /\ Sending
  BY DEF Init, Copied, Sending
<1>6. Contents(0)
  <2>1. \A d \in Slots : ~(Dist(0, d) < 0)
    BY <1>1, RingFacts, RingAssumption
  <2>2. Fetched(frame, 0)
    BY DEF Init, Fetched
  <2>3. 0 \in Nat /\ ~(0 >= 1)
    OBVIOUS
  <2>4. dmaDesc = 0 /\ pc = "idle"
    BY DEF Init
  <2> QED
    BY <2>1, <2>2, <2>3, <2>4 DEF Contents
<1> QED
  BY <1>2, <1>3, <1>4, <1>5, <1>6, RingAssumption DEF IInv

\* One step of the window, whichever it is.
LEMMA WindowStep ==
  ASSUME TypeOK, Progress, Copied, NEW c \in 0 .. ETH_TXBUFNB, Ring(c),
         Contents(c), Next
  PROVE  \E k \in 0 .. ETH_TXBUFNB : Ring(k)' /\ Contents(k)'
<1>1. CASE GiveSegment
  BY <1>1, GiveRing, ContentsGiven
<1>2. CASE DmaNextSegment \/ DmaLastSegment
  BY <1>2, FetchedRing, ContentsFetched
<1>3. CASE Other
  BY <1>3, RingStep, ContentsKept
<1> QED
  BY <1>1, <1>2, <1>3 DEF Next, CpuStep, DmaStep, Other

\* Every step keeps it.
LEMMA NextInvariant == IInv /\ [Next]_vars => IInv'
<1> SUFFICES ASSUME IInv, [Next]_vars PROVE IInv'
  OBVIOUS
<1>1. CASE Next
  <2>1. PICK c \in 0 .. ETH_TXBUFNB : Ring(c) /\ Contents(c)
    BY DEF IInv
  <2>2. TypeOK' /\ Progress' /\ Copied' /\ Sending'
    BY <1>1, TypeStep, ProgressStep, CopiedStep, SendingStep DEF IInv
  <2>3. \E k \in 0 .. ETH_TXBUFNB : Ring(k)' /\ Contents(k)'
    BY <1>1, <2>1, WindowStep DEF IInv
  <2> QED
    BY <2>2, <2>3 DEF IInv
<1>2. CASE UNCHANGED vars
  <2>1. TypeOK' /\ Progress' /\ Copied' /\ Sending'
    BY <1>2 DEF vars, IInv, TypeOK, Progress, Copied, Sending
  <2>2. ASSUME NEW c, Ring(c), Contents(c) PROVE Ring(c)' /\ Contents(c)'
    BY <1>2, <2>2 DEF vars, Ring, Window, EndsWhole, Stranded, Producer,
       Contents, Fetched
  <2> QED
    BY <2>1, <2>2 DEF IInv
<1> QED
  BY <1>1, <1>2

\* In every state the program reaches, the CPU, the ring and the engine agree
\* on which descriptors are whose, what they hold and who has to wake whom.
THEOREM Inductive == Spec => []IInv
<1>1. Init => IInv
  BY InitInvariant
<1>2. IInv /\ [Next]_vars => IInv'
  BY NextInvariant
<1> QED
  BY <1>1, <1>2, PTL DEF Spec

-----------------------------------------------------------------------------
(* What follows from it.                                                   *)

\* Every variable keeps its type: no index leaves the ring.
THEOREM TypeCorrect == Spec => []TypeOK
<1>1. IInv => TypeOK
  BY DEF IInv
<1> QED
  BY <1>1, Inductive, PTL

\* low_level_output may ignore the result of
\* ETH_Prepare_Transmit_Descriptors: what it reports as sent was handed over.
THEOREM OkIsQueued == Spec => []ErrOkMeansQueued
<1>1. IInv => ErrOkMeansQueued
  BY DEF IInv, Progress, ErrOkMeansQueued
<1> QED
  BY <1>1, Inductive, PTL

\* A wake-up the CPU missed strands one frame at the most.
THEOREM NoJam == Spec => []NeverJammed
<1>1. IInv => NeverJammed
  <2> SUFFICES ASSUME IInv, dma = "suspended", ~TUS, pc = "idle"
               PROVE  /\ TBUS
                      /\ \A d \in Slots :
                           own[d] /\ d # unclosed => Dist(dmaDesc, d) < MaxSegs
    BY DEF NeverJammed
  <2>1. PICK c \in 0 .. ETH_TXBUFNB : Ring(c)
    BY DEF IInv
  <2>2. TBUS /\ c <= MaxSegs
    BY <2>1 DEF Ring, Stranded
  <2>3. ASSUME NEW d \in Slots, own[d], d # unclosed
        PROVE  Dist(dmaDesc, d) < MaxSegs
    <3>1. Dist(dmaDesc, d) \in Nat
      BY RingFacts, RingAssumption DEF IInv, TypeOK
    <3>2. Dist(dmaDesc, d) < c
      BY <2>1, <2>3 DEF Ring, Window
    <3> QED
      BY <2>2, <3>1, <3>2, RingAssumption
  <2> QED
    BY <2>2, <2>3
<1> QED
  BY <1>1, Inductive, PTL

\* The engine never reads a hole, a refilled buffer or the segments of two
\* frames mixed up.
THEOREM ReadsWholeFrames == Spec => []DmaReadsWholeFrames
<1>1. IInv => DmaReadsWholeFrames
  <2> SUFFICES ASSUME IInv, dma = "busy"
               PROVE  LET b == buf[dmaDesc]
                      IN  /\ b.seg = Len(fifo) + 1
                          /\ fs[dmaDesc] = (b.seg = 1)
                          /\ ls[dmaDesc] = (b.seg = b.segs)
                          /\ \A k \in 1 .. Len(fifo) :
                                fifo[k].payload = b.payload
                                  /\ fifo[k].segs = b.segs
    BY DEF DmaReadsWholeFrames
  <2>1. PICK c \in 0 .. ETH_TXBUFNB : Ring(c) /\ Contents(c)
    BY DEF IInv
  <2>2. c >= 1 /\ dmaDesc \in Slots /\ Dist(dmaDesc, dmaDesc) = 0
    BY <2>1, RingFacts DEF Ring, Stranded, IInv, TypeOK
  <2>3. buf[dmaDesc].seg \in Nat
    BY <2>2, RingAssumption DEF IInv, TypeOK, Segments
  <2>4. /\ fs[dmaDesc] = (buf[dmaDesc].seg = 1)
        /\ ls[dmaDesc] = (buf[dmaDesc].seg = buf[dmaDesc].segs)
        /\ Fetched(buf[dmaDesc], buf[dmaDesc].seg - 1)
    BY <2>1, <2>2, RingAssumption DEF Contents
  <2> DEFINE b == buf[dmaDesc]
  <2>5. Len(fifo) = b.seg - 1 /\ \A k \in 1 .. Len(fifo) : fifo[k] = Segment(b, k)
    BY <2>4 DEF Fetched
  <2>6. \A k : Segment(b, k).payload = b.payload /\ Segment(b, k).segs = b.segs
    BY DEF Segment
  <2>7. b.seg = Len(fifo) + 1
    BY <2>3, <2>5
  <2> QED
    BY <2>4, <2>5, <2>6, <2>7
<1> QED
  BY <1>1, Inductive, PTL

-----------------------------------------------------------------------------
(* The ring implements FrameQueue.                                         *)

Contained == [d \in Waiting |-> FrameOf(d)]

\* The waiting descriptors can be put in order, and hold frames.
LEMMA WaitingRanked ==
  TypeOK => Ranked(Waiting, Visits) /\ Values(Contained, Waiting, Frames)
<1> SUFFICES ASSUME TypeOK
             PROVE  Ranked(Waiting, Visits) /\ Values(Contained, Waiting, Frames)
  OBVIOUS
<1> USE RingAssumption
<1>1. IsFiniteSet(Waiting)
  <2>1. IsFiniteSet(0 .. ETH_TXBUFNB - 1)
    BY FS_Interval
  <2>2. Waiting \in SUBSET (0 .. ETH_TXBUFNB - 1)
    BY DEF Waiting, Slots
  <2> QED
    BY <2>1, <2>2, FS_Subset
<1>2. \A d \in Waiting : /\ Visits[d] = Dist(dmaDesc, d)
                         /\ Visits[d] \in 0 .. ETH_TXBUFNB - 1
  BY RingFacts DEF TypeOK, Waiting, Visits
<1>3. \A d, e \in Slots : Dist(dmaDesc, d) = Dist(dmaDesc, e) => d = e
  <2>1. dmaDesc \in Slots
    BY DEF TypeOK
  <2> QED
    BY <2>1, RingFacts
<1>4. Keyed(Waiting, Visits)
  <2>1. \A d \in Waiting : d \in Slots
    BY DEF Waiting
  <2>2. \A d \in Waiting : Visits[d] \in Nat
    BY <1>2
  <2>3. \A d, e \in Waiting : Visits[d] = Visits[e] => d = e
    BY <1>2, <1>3, <2>1
  <2> QED
    BY <2>2, <2>3 DEF Keyed
<1>5. Ranked(Waiting, Visits)
  <2>1. ETH_TXBUFNB - 1 \in Nat /\ \A d \in Waiting : Visits[d] <= ETH_TXBUFNB - 1
    BY <1>2
  <2> QED
    BY <1>1, <1>4, <2>1 DEF Ranked
<1>6. Values(Contained, Waiting, Frames)
  <2>1. \A d \in Waiting : FrameOf(d) \in Frames
    BY DEF FrameOf, Waiting, TypeOK, Segments, Frames
  <2> QED
    BY <2>1 DEF Values, Contained
<1> QED
  BY <1>5, <1>6

\* The same in the next state.
LEMMA WaitingRankedNext ==
  TypeOK' => Ranked(Waiting', Visits') /\ Values(Contained', Waiting', Frames)
<1>1. (TypeOK => Ranked(Waiting, Visits) /\ Values(Contained, Waiting, Frames))'
  BY WaitingRanked, PTL
<1>2. Frames' = Frames
  BY DEF Frames
<1> QED
  BY <1>1, <1>2

\* Steps that queue nothing and take nothing away, the engine standing still
\* or moving past a descriptor that ends no queued frame.
LEMMA QueueKept ==
  ASSUME TypeOK, TypeOK', Waiting' = Waiting,
         \A d \in Waiting : FrameOf(d)' = FrameOf(d),
         \/ dmaDesc' = dmaDesc
         \/ dmaDesc' = NextDesc(dmaDesc) /\ dmaDesc \notin Waiting
  PROVE  QueuedFrames' = QueuedFrames
<1>1. SameOrder(Visits, Visits', Waiting)
  <2>1. CASE dmaDesc' = dmaDesc
    BY <2>1 DEF SameOrder, Visits
  <2>2. CASE dmaDesc' = NextDesc(dmaDesc) /\ dmaDesc \notin Waiting
    <3>1. \A d \in Waiting : /\ Dist(dmaDesc', d) = Dist(dmaDesc, d) - 1
                             /\ Dist(dmaDesc, d) \in Nat
      BY <2>2, RingFacts, RingAssumption DEF TypeOK, Waiting
    <3>2. \A d \in Waiting : /\ Visits'[d] = Visits[d] - 1
                             /\ Visits[d] \in Nat
      BY <3>1 DEF Visits
    <3> QED
      BY <3>2 DEF SameOrder
  <2> QED
    BY <2>1, <2>2
<1>2. SameValues(Contained, Contained', Waiting)
  BY DEF SameValues, Contained
<1>3. /\ Ranked(Waiting, Visits) /\ Ranked(Waiting, Visits')
      /\ Values(Contained, Waiting, Frames)
      /\ Values(Contained', Waiting, Frames)
  BY WaitingRanked, WaitingRankedNext
<1>4. InKeyOrder(Waiting, Visits', Contained') = InKeyOrder(Waiting, Visits, Contained)
  BY <1>1, <1>2, <1>3, OrderKept
<1> QED
  BY <1>4 DEF QueuedFrames, Contained

\* The last segment that is handed over queues the frame, in a ring that has
\* room for it, behind all others.
LEMMA QueueAccept ==
  ASSUME IInv, TypeOK', GiveSegment, i + 1 = frame.segs
  PROVE  /\ Len(QueuedFrames) < ETH_TXBUFNB
         /\ QueuedFrames' = Append(QueuedFrames, frame)
<1> USE RingAssumption
<1>0. PICK d : d = DmaTxDesc
  OBVIOUS
<1>1. PICK c \in 0 .. ETH_TXBUFNB : Ring(c) /\ Contents(c)
  BY DEF IInv
<1>2. /\ pc = "give" /\ d \in Slots /\ dmaDesc \in Slots /\ Producer = d
      /\ ~own[d] /\ Dist(DMATxDescToSet, d) = i
      /\ i \in Nat /\ i < frame.segs /\ frame \in Frames
  BY <1>0 DEF GiveSegment, IInv, TypeOK, Frames, Progress, Producer
<1>3. c < ETH_TXBUFNB /\ Dist(dmaDesc, d) = c
  <2>1. c = ETH_TXBUFNB => own[d]
    BY <1>1, <1>2, RingOwn DEF Ring, IInv
  <2> QED
    BY <1>1, <1>2, <2>1, RingOwn DEF Ring, IInv
<1>4. /\ dmaDesc' = dmaDesc /\ unclosed' = unclosed /\ buf' = buf
      /\ own' = [own EXCEPT ![d] = TRUE] /\ ls' = [ls EXCEPT ![d] = TRUE]
  BY <1>0 DEF GiveSegment, BufCount, hw
<1>5. unclosed # d
  BY <1>1, <1>2 DEF Ring, Window
<1>6. Waiting' = Waiting \cup {d} /\ d \notin Waiting
  BY <1>2, <1>4, <1>5 DEF Waiting, IInv, TypeOK
<1>7. \A e \in Waiting : Dist(dmaDesc, e) < c
  BY <1>1 DEF Waiting, Ring, Window
<1>8. SameOrder(Visits, Visits', Waiting)
  BY <1>4, <1>6 DEF SameOrder, Visits
<1>9. \A e \in Waiting : Visits'[e] < Visits'[d]
  <2>1. \A e \in Waiting : Visits'[e] = Dist(dmaDesc, e)
    BY <1>4, <1>6 DEF Visits
  <2>2. Visits'[d] = c
    BY <1>3, <1>4, <1>6 DEF Visits
  <2> QED
    BY <1>7, <2>1, <2>2
<1>10. Contained'[d] = frame
  <2>1. buf[d] = Segment(frame, i + 1)
    BY <1>2 DEF IInv, Copied
  <2>2. buf[d].payload = frame.payload /\ buf[d].segs = frame.segs
    BY <2>1 DEF Segment
  <2>3. frame = [payload |-> frame.payload, segs |-> frame.segs]
    BY <1>2 DEF Frames
  <2> QED
    BY <1>4, <1>6, <2>2, <2>3 DEF FrameOf, Contained
<1>11. SameValues(Contained, Contained', Waiting)
  BY <1>4, <1>6 DEF SameValues, Contained, FrameOf
<1>12. /\ Ranked(Waiting, Visits) /\ Ranked(Waiting', Visits')
       /\ Values(Contained, Waiting, Frames)
       /\ Values(Contained', Waiting', Frames)
  BY WaitingRanked, WaitingRankedNext DEF IInv
<1>13. IsLonger(InKeyOrder(Waiting', Visits', Contained'),
                InKeyOrder(Waiting, Visits, Contained), Contained'[d])
  BY <1>6, <1>8, <1>9, <1>11, <1>12, OrderAppended
<1>14. QueuedFrames' = Append(QueuedFrames, frame)
  BY <1>10, <1>13 DEF QueuedFrames, Contained, IsLonger
<1>15. Len(QueuedFrames) < ETH_TXBUFNB
  <2>1. IsFiniteSet(Slots) /\ Cardinality(Slots) = ETH_TXBUFNB
    <3>1. 0 \in Int /\ ETH_TXBUFNB - 1 \in Int /\ ~(0 > ETH_TXBUFNB - 1)
      OBVIOUS
    <3> QED
      BY <3>1, FS_Interval DEF Slots
  <2>2. /\ IsFiniteSet(Slots \ {d})
        /\ Cardinality(Slots \ {d}) = ETH_TXBUFNB - 1
    BY <1>2, <2>1, FS_RemoveElement
  <2>3. Waiting \in SUBSET (Slots \ {d})
    BY <1>6 DEF Waiting
  <2>4. Cardinality(Waiting) <= ETH_TXBUFNB - 1
    BY <2>2, <2>3, FS_Subset
  <2>5. Len(QueuedFrames) = Cardinality(Waiting)
    BY <1>12, OrderLength DEF QueuedFrames, Contained
  <2>6. Cardinality(Waiting) \in Nat
    BY <1>12, FS_CardinalityType DEF Ranked
  <2> QED
    BY <2>4, <2>5, <2>6
<1> QED
  BY <1>14, <1>15

\* When the engine has moved a frame's last buffer out, what it passes to the
\* MAC is the whole of the frame that was queued first.
LEMMA QueueSend ==
  ASSUME IInv, TypeOK', DmaLastSegment
  PROVE  /\ QueuedFrames # <<>>
         /\ mac = <<>>
         /\ mac' = Queue!Whole(Head(QueuedFrames))
         /\ QueuedFrames' = Tail(QueuedFrames)
<1> USE RingAssumption
<1>1. PICK c \in 0 .. ETH_TXBUFNB : Ring(c) /\ Contents(c)
  BY DEF IInv
<1>2. /\ dma = "busy" /\ ls[dmaDesc] /\ dmaDesc \in Slots /\ unclosed = NoDesc
      /\ own' = own /\ ls' = ls /\ buf' = buf
      /\ dmaDesc' = NextDesc(dmaDesc) /\ unclosed' = dmaDesc
      /\ mac' = Append(fifo, buf[dmaDesc])
  BY DEF DmaLastSegment, IInv, TypeOK, ring
<1>3. c >= 1 /\ Dist(dmaDesc, dmaDesc) = 0
  BY <1>1, <1>2, RingFacts DEF Ring, Stranded
<1>4. dmaDesc \in Waiting /\ Waiting' = Waiting \ {dmaDesc}
  <2>1. own[dmaDesc]
    BY <1>1, <1>2, <1>3 DEF Ring, Window
  <2>2. dmaDesc # NoDesc
    BY <1>2 DEF Slots, NoDesc
  <2>3. \A e \in Slots : e # NoDesc
    BY DEF Slots, NoDesc
  <2> QED
    BY <1>2, <2>1, <2>2, <2>3 DEF Waiting
<1>5. \A e \in Waiting \ {dmaDesc} :
        /\ Dist(dmaDesc', e) = Dist(dmaDesc, e) - 1
        /\ Dist(dmaDesc, e) \in Nat /\ Dist(dmaDesc, e) # 0
  BY <1>2, RingFacts DEF Waiting
<1>6. SameOrder(Visits, Visits', Waiting')
  <2>1. \A e \in Waiting' : /\ Visits'[e] = Visits[e] - 1
                            /\ Visits[e] \in Nat
    BY <1>4, <1>5 DEF Visits
  <2> QED
    BY <2>1 DEF SameOrder
<1>7. \A e \in Waiting \ {dmaDesc} : Visits[dmaDesc] < Visits[e]
  BY <1>3, <1>4, <1>5 DEF Visits
<1>8. SameValues(Contained, Contained', Waiting')
  BY <1>2, <1>4 DEF SameValues, Contained, FrameOf
<1>9. /\ Ranked(Waiting, Visits) /\ Ranked(Waiting', Visits')
      /\ Values(Contained, Waiting, Frames)
      /\ Values(Contained', Waiting', Frames)
  BY WaitingRanked, WaitingRankedNext DEF IInv
<1>10. /\ InKeyOrder(Waiting, Visits, Contained) # <<>>
       /\ Head(InKeyOrder(Waiting, Visits, Contained)) = Contained[dmaDesc]
       /\ IsShorter(InKeyOrder(Waiting', Visits', Contained'),
                    InKeyOrder(Waiting, Visits, Contained))
  BY <1>4, <1>6, <1>7, <1>8, <1>9, OrderTail
<1>11. /\ QueuedFrames' = Tail(QueuedFrames) /\ QueuedFrames # <<>>
       /\ Head(QueuedFrames) = FrameOf(dmaDesc)
  BY <1>4, <1>10 DEF QueuedFrames, Contained, IsShorter
<1>12. mac' = Queue!Whole(FrameOf(dmaDesc))
  <2> DEFINE b == buf[dmaDesc]
             w == Queue!Whole(FrameOf(dmaDesc))
  <2>1. /\ b \in Segments /\ b.seg \in Nat /\ b.segs \in Nat /\ b.segs >= 1
        /\ b = Segment(b, b.seg) /\ fifo \in Seq(Segments)
    <3>1. b \in Segments /\ fifo \in Seq(Segments)
      BY <1>2 DEF IInv, TypeOK
    <3> HIDE DEF b
    <3>2. /\ b.seg \in 1 .. MaxSegs /\ b.segs \in 1 .. MaxSegs
          /\ b = Segment(b, b.seg)
      BY <3>1 DEF Segments, Segment
    <3>3. b.seg \in Nat /\ b.segs \in Nat /\ b.segs >= 1
      BY <3>2
    <3> QED
      BY <3>1, <3>2, <3>3
  <2>2. ls[dmaDesc] = (b.seg = b.segs) /\ Fetched(b, b.seg - 1)
    <3>1. Dist(dmaDesc, dmaDesc) < c
      BY <1>3
    <3> HIDE DEF b
    <3> QED
      BY <1>1, <1>2, <1>3, <3>1 DEF Contents, b
  <2>3. /\ b.seg = b.segs /\ Len(fifo) = b.segs - 1
        /\ \A k \in 1 .. b.segs - 1 : fifo[k] = Segment(b, k)
    BY <1>2, <2>2 DEF Fetched
  <2>4. /\ FrameOf(dmaDesc).payload = b.payload
        /\ FrameOf(dmaDesc).segs = b.segs
    BY DEF FrameOf
  <2>5. w = [k \in 1 .. b.segs |-> Segment(b, k)]
    BY <2>4 DEF Queue!Whole, Segment
  <2>6. \A k \in 1 .. b.segs : Segment(b, k) \in Segments
    <3> HIDE DEF b
    <3>1. b.segs \in 1 .. MaxSegs /\ b.payload \in Payloads
      BY <2>1 DEF Segments
    <3>2. b.segs <= MaxSegs /\ MaxSegs \in Nat
      BY <3>1
    <3> QED
      BY <3>1, <3>2, <2>1 DEF Segments, Segment
  <2> HIDE DEF b
  <2>7. w \in Seq(Segments) /\ Len(w) = b.segs
    BY <2>1, <2>5, <2>6
  <2>8. \A k \in 1 .. Len(fifo) : w[k] = fifo[k]
    BY <2>1, <2>3, <2>5
  <2>9. Len(w) = Len(fifo) + 1 /\ w[Len(fifo) + 1] = b
    BY <2>1, <2>3, <2>5, <2>7
  <2> HIDE DEF w
  <2>10. w = Append(fifo, b)
    BY <2>1, <2>7, <2>8, <2>9, IsAppend
  <2> QED
    BY <1>2, <2>10 DEF b, w
<1>13. mac = <<>>
  BY <1>2 DEF IInv, Sending
<1> QED
  BY <1>11, <1>12, <1>13

\* Every other step leaves the waiting descriptors and their buffers alone.
LEMMA QueueStands ==
  ASSUME IInv, Next, ~DmaLastSegment, ~(GiveSegment /\ i + 1 = frame.segs)
  PROVE  /\ Waiting' = Waiting
         /\ \A d \in Waiting : FrameOf(d)' = FrameOf(d)
         /\ \/ dmaDesc' = dmaDesc
            \/ dmaDesc' = NextDesc(dmaDesc) /\ dmaDesc \notin Waiting
         /\ mac' = mac \/ (mac # <<>> /\ mac' = <<>>)
<1> SUFFICES /\ Waiting' = Waiting
             /\ \A d \in Waiting : buf'[d] = buf[d]
             /\ \/ dmaDesc' = dmaDesc
                \/ dmaDesc' = NextDesc(dmaDesc) /\ dmaDesc \notin Waiting
             /\ mac' = mac \/ (mac # <<>> /\ mac' = <<>>)
  BY DEF FrameOf
<1>1. /\ TypeOK /\ dmaDesc \in Slots /\ DmaTxDesc \in Slots
      /\ own \in [Slots -> BOOLEAN] /\ ls \in [Slots -> BOOLEAN]
      /\ buf \in [Slots -> Segments]
  BY DEF IInv, TypeOK
<1>2. ASSUME NEW f \in Frames, Output(f) PROVE UNCHANGED <<ring, hw>>
  BY <1>2 DEF Output
<1>3. CopyUnavailable \/ Prepare => UNCHANGED <<ring, hw>>
  BY DEF CopyUnavailable, Prepare
<1>4. CASE UNCHANGED <<own, ls, buf, dmaDesc, unclosed, mac>>
  BY <1>4 DEF Waiting
<1>5. UNCHANGED <<ring, hw>> => UNCHANGED <<own, ls, buf, dmaDesc, unclosed, mac>>
  BY DEF ring, hw
<1>6. CheckTBUS \/ CheckTUS \/ DmaFetch \/ DmaSuspend
        => UNCHANGED <<own, ls, buf, dmaDesc, unclosed, mac>>
  BY DEF CheckTBUS, CheckTUS, DmaFetch, DmaSuspend, ring
<1>7. CASE CopySegment
  <2>1. /\ ~own[DmaTxDesc] /\ UNCHANGED <<own, ls, dmaDesc, unclosed, mac>>
        /\ \A d \in Slots : d # DmaTxDesc => buf'[d] = buf[d]
    BY <1>1, <1>7 DEF CopySegment, Free, hw
  <2>2. Waiting' = Waiting
    BY <2>1 DEF Waiting
  <2>3. \A d \in Waiting : d \in Slots /\ d # DmaTxDesc
    BY <2>1 DEF Waiting
  <2> QED
    BY <2>1, <2>2, <2>3
<1>8. CASE GiveSegment
  <2>1. /\ pc = "give" /\ i < frame.segs /\ ~own[DmaTxDesc]
        /\ i \in Nat /\ frame.segs \in Nat
    <3>1. i \in Nat /\ frame.segs \in Nat
      BY RingAssumption DEF IInv, TypeOK, Frames
    <3>2. /\ pc = "give" /\ i < frame.segs
          /\ Dist(DMATxDescToSet, DmaTxDesc) = i
      BY <1>8 DEF GiveSegment, IInv, Progress
    <3>3. ~own[DmaTxDesc]
      BY <1>1, <3>1, <3>2 DEF IInv, Progress
    <3> QED
      BY <3>1, <3>2, <3>3
  <2>2. /\ own' = [own EXCEPT ![DmaTxDesc] = TRUE]
        /\ ls' = [ls EXCEPT ![DmaTxDesc] = FALSE]
        /\ UNCHANGED <<buf, dmaDesc, unclosed, mac>>
    BY <1>8 DEF GiveSegment, BufCount, hw
  <2>3. DmaTxDesc \notin Waiting /\ DmaTxDesc \notin Waiting'
    BY <1>1, <2>1, <2>2 DEF Waiting
  <2>4. \A d \in Slots \ {DmaTxDesc} : own'[d] = own[d] /\ ls'[d] = ls[d]
    BY <1>1, <2>2
  <2>5. Waiting' = Waiting
    BY <2>2, <2>3, <2>4 DEF Waiting
  <2> QED
    BY <2>2, <2>5
<1>9. CASE DmaNextSegment
  <2>1. /\ ~ls[dmaDesc] /\ dmaDesc' = NextDesc(dmaDesc)
        /\ own' = [own EXCEPT ![dmaDesc] = FALSE]
        /\ UNCHANGED <<ls, buf, unclosed, mac>>
    BY <1>9 DEF DmaNextSegment
  <2>2. \A d \in Slots \ {dmaDesc} : own'[d] = own[d]
    BY <1>1, <2>1
  <2>3. Waiting' = Waiting /\ dmaDesc \notin Waiting
    BY <1>1, <2>1, <2>2 DEF Waiting
  <2> QED
    BY <2>1, <2>3
<1>10. CASE MacDone \/ MacUnderflow
  <2>1. /\ own' = [own EXCEPT ![unclosed] = FALSE]
        /\ unclosed # NoDesc /\ unclosed' = NoDesc /\ mac' = <<>>
        /\ UNCHANGED <<ls, buf, dmaDesc>>
    BY <1>10 DEF MacDone, MacUnderflow
  <2>2. unclosed \in Slots
    BY <2>1 DEF IInv, TypeOK
  <2>3. NoDesc \notin Slots
    BY RingAssumption DEF NoDesc, Slots
  <2>4. \A d \in Slots : own'[d] = (own[d] /\ d # unclosed)
    BY <1>1, <2>1, <2>2
  <2>5. Waiting' = Waiting
    BY <2>1, <2>3, <2>4 DEF Waiting
  <2>6. mac # <<>>
    BY <2>1 DEF IInv, Sending
  <2> QED
    BY <2>1, <2>5, <2>6
<1> QED
  BY <1>2, <1>3, <1>4, <1>5, <1>6, <1>7, <1>8, <1>9, <1>10
     DEF Next, CpuStep, DmaStep

\* An empty ring is an empty queue.
LEMMA RefineInit == Init => Queue!Init
<1> SUFFICES ASSUME Init PROVE QueuedFrames = <<>>
  BY DEF Init, Queue!Init
<1>1. TypeOK
  BY InitInvariant DEF IInv
<1>2. Waiting = {}
  BY DEF Init, Waiting
<1>3. Cardinality(Waiting) = 0
  BY <1>2, FS_EmptySet
<1>4. /\ Len(QueuedFrames) = Cardinality(Waiting)
      /\ QueuedFrames \in Seq(Frames)
  BY <1>1, WaitingRanked, OrderLength DEF QueuedFrames, Contained
<1> QED
  BY <1>3, <1>4, EmptySeq

\* A step of the driver or of the DMA is a step of the queue or a stutter.
LEMMA RefineStep ==
  IInv /\ [Next]_vars => [Queue!Next]_<<QueuedFrames, mac>>
<1> SUFFICES ASSUME IInv, [Next]_vars
             PROVE  [Queue!Next]_<<QueuedFrames, mac>>
  OBVIOUS
<1>1. TypeOK /\ TypeOK'
  BY NextInvariant DEF IInv
<1>2. CASE GiveSegment /\ i + 1 = frame.segs
  <2>1. /\ Len(QueuedFrames) < ETH_TXBUFNB
        /\ QueuedFrames' = Append(QueuedFrames, frame)
    BY <1>1, <1>2, QueueAccept
  <2>2. mac' = mac /\ frame \in Frames
    BY <1>1, <1>2 DEF GiveSegment, hw, TypeOK
  <2>3. Queue!Accept(frame)
    BY <2>1, <2>2 DEF Queue!Accept
  <2> QED
    BY <2>2, <2>3 DEF Queue!Next
<1>3. CASE DmaLastSegment
  <2>1. /\ QueuedFrames # <<>>
        /\ mac = <<>>
        /\ mac' = Queue!Whole(Head(QueuedFrames))
        /\ QueuedFrames' = Tail(QueuedFrames)
    BY <1>1, <1>3, QueueSend
  <2>2. Queue!Send
    BY <2>1 DEF Queue!Send
  <2> QED
    BY <2>2 DEF Queue!Next
<1>4. CASE /\ Next /\ ~DmaLastSegment
           /\ ~(GiveSegment /\ i + 1 = frame.segs)
  <2>1. /\ Waiting' = Waiting
        /\ \A d \in Waiting : FrameOf(d)' = FrameOf(d)
        /\ \/ dmaDesc' = dmaDesc
           \/ dmaDesc' = NextDesc(dmaDesc) /\ dmaDesc \notin Waiting
        /\ mac' = mac \/ (mac # <<>> /\ mac' = <<>>)
    BY <1>4, QueueStands
  <2>2. QueuedFrames' = QueuedFrames
    BY <1>1, <2>1, QueueKept
  <2>3. mac' = mac \/ Queue!Finish
    BY <2>1, <2>2 DEF Queue!Finish
  <2> QED
    BY <2>2, <2>3 DEF Queue!Next
<1>5. CASE UNCHANGED vars
  <2>1. /\ Waiting' = Waiting /\ \A d \in Waiting : FrameOf(d)' = FrameOf(d)
        /\ dmaDesc' = dmaDesc /\ mac' = mac
    BY <1>5 DEF vars, Waiting, FrameOf
  <2>2. QueuedFrames' = QueuedFrames
    BY <1>1, <2>1, QueueKept
  <2> QED
    BY <2>1, <2>2
<1> QED
  BY <1>2, <1>3, <1>4, <1>5

\* What low_level_output has accepted goes out whole, once and in the order
\* it was accepted: every step of the ring, of the CPU and of the engine is a
\* step of the queue or leaves it alone.
THEOREM Refines == Spec => ImplementsFrameQueue
<1>1. Spec => []IInv
  BY Inductive
<1> QED
  BY <1>1, RefineInit, RefineStep, PTL DEF Spec, ImplementsFrameQueue, Queue!Spec
=============================================================================
