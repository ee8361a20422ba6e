---------------------------- MODULE EthRxProofs -----------------------------
(***************************************************************************)
(* Proofs about EthRx, for every ring size, frame length and payload.      *)
(***************************************************************************)
EXTENDS EthRxRefinement, OrderedListsProofs

-----------------------------------------------------------------------------
(* The inductive invariant.                                                *)

\* The descriptors given back of the frame the CPU works on, and the oldest
\* one it has not given back.
Back == IF pc = "release" THEN i ELSE 0
Oldest == IF pc = "release" THEN DMARxDesc
          ELSE IF Seg_Count > 0 THEN FS_Rx_Desc ELSE DMARxDescToGet

\* Those it has looked at and not given back, Seg_Count of them when the
\* frame is first complete.
Looked == Seg_Count - Back

\* The CPU owns h descriptors, from the oldest one up to the engine's.
Window(h) ==
  /\ dmaDesc = Adv(Oldest, h)
  /\ \A d \in Slots : ~own[d] <=> Dist(Oldest, d) < h
  /\ dma = "holding" => h < ETH_RXBUFNB

\* They hold frames one after the other, or as much of each as fitted; the
\* engine may be in the middle of the last one.
Contents(h) ==
  /\ \A d \in Slots : Dist(Oldest, d) < h =>
       /\ fl[d] >= 1
       /\ fs[d] = (fl[d] = 1)
       /\ Dist(Oldest, d) + 1 < h =>
            fl[NextDesc(d)] = IF ls[d] THEN 1 ELSE fl[d] + 1
       /\ Dist(Oldest, d) + 1 = h => moved = IF ls[d] THEN 0 ELSE fl[d]
  /\ h >= 1 => fl[Oldest] = Back + 1
  /\ h = 0 => moved = 0

\* How far the CPU has come with the oldest frame: the one at the end of
\* which it finds LS, at first.
Counted(h) ==
  /\ Looked \in 0 .. h
  /\ Looked = 0 <=> pc \in {"rbus", "input"} \/ (pc = "poll" /\ Seg_Count = 0)
  /\ \A d \in Slots : Dist(Oldest, d) < Looked =>
       /\ fl[d] = Dist(Oldest, d) + Back + 1
       /\ ls[d] = (pc # "poll" /\ Dist(Oldest, d) + 1 = Looked)
  /\ DMARxDescToGet = Adv(Oldest, IF pc = "get" THEN Looked - 1 ELSE Looked)
  /\ pc \in {"rbus", "input"} => Seg_Count = 0
  /\ pc = "copy" => /\ len <= Seg_Count
                    /\ i < len
                    /\ DMARxDesc = Adv(Oldest, i)
                    /\ \A d \in Slots :
                         Dist(Oldest, d) + 1 = Looked => len = DataSegs(d)

\* The frame that comes in.
Incoming ==
  /\ arriving = NoFrame => moved = 0
  /\ arriving # NoFrame => moved < arriving.segs
  /\ moved > 0 => dma = "holding"

IInv ==
  /\ TypeOK
  /\ Incoming
  /\ \E h \in 0 .. ETH_RXBUFNB : Window(h) /\ Contents(h) /\ Counted(h)

-----------------------------------------------------------------------------
(* Walking around the ring.                                                *)

\* Distances along the ring of descriptors.
LEMMA RingFacts ==
  /\ \A d \in Slots : NextDesc(d) \in Slots
  /\ \A d, e \in Slots : Dist(d, e) \in 0 .. ETH_RXBUFNB - 1
  /\ \A d \in Slots : \A e \in Slots : Dist(d, e) = 0 <=> d = e
  /\ \A d, e \in Slots : d # e => Dist(NextDesc(d), e) = Dist(d, e) - 1
BY RingAssumption, SMT DEF Slots, NextDesc, Dist

\* One descriptor further is one more.
LEMMA NextDist ==
  ASSUME NEW d \in Slots, NEW e \in Slots, Dist(d, e) + 1 < ETH_RXBUFNB
  PROVE  Dist(d, NextDesc(e)) = Dist(d, e) + 1
BY RingAssumption, SMT DEF Slots, NextDesc, Dist

\* The descriptor a distance away.
LEMMA AdvFacts ==
  ASSUME NEW d \in Slots, NEW c \in 0 .. ETH_RXBUFNB
  PROVE  /\ Adv(d, c) \in Slots
         /\ Adv(d, 0) = d
         /\ c < ETH_RXBUFNB => /\ Dist(d, Adv(d, c)) = c
                               /\ NextDesc(Adv(d, c)) = Adv(d, c + 1)
         /\ c >= 1 => Adv(NextDesc(d), c - 1) = Adv(d, c)
         /\ \A e \in Slots : Dist(d, e) = c => e = Adv(d, c)
BY RingAssumption, SMT DEF Slots, NextDesc, Dist, Adv

\* It is a round less one from the next descriptor back.
LEMMA NextDistBack ==
  ASSUME NEW d \in Slots
  PROVE  Dist(NextDesc(d), d) = ETH_RXBUFNB - 1
BY RingAssumption, SMT DEF Slots, NextDesc, Dist

-----------------------------------------------------------------------------
(* The invariant is inductive.                                             *)

Ring(h) == Window(h) /\ Contents(h) /\ Counted(h)

\* What the type invariant says of the numbers.
LEMMA TypeFacts ==
  ASSUME TypeOK
  PROVE  /\ Oldest \in Slots /\ dmaDesc \in Slots /\ DMARxDescToGet \in Slots
         /\ Seg_Count \in Nat /\ i \in Nat /\ Back \in Nat /\ len \in Nat
         /\ moved \in Nat /\ Looked \in Int
         /\ \A d \in Slots : fl[d] \in Nat /\ fs[d] \in BOOLEAN
                             /\ ls[d] \in BOOLEAN /\ own[d] \in BOOLEAN
<1>1. /\ Seg_Count \in Nat /\ i \in Nat /\ len \in Nat /\ moved \in Nat
      /\ \A d \in Slots : fl[d] \in Nat
  BY RingAssumption DEF TypeOK
<1> QED
  BY <1>1 DEF TypeOK, Oldest, Back, Looked

\* Without the CRC a frame is a segment shorter at most, and not empty.
LEMMA DataFacts ==
  ASSUME TypeOK, NEW d \in Slots
  PROVE  /\ DataSegs(d) \in 0 .. MaxSegs /\ DataSegs(d) <= fl[d]
         /\ fl[d] >= 1 => DataSegs(d) >= 1
<1>1. /\ fl[d] \in 0 .. MaxSegs /\ MaxSegs \in Nat
      /\ bare[d] => fl[d] > 1
  BY RingAssumption DEF TypeOK
<1> QED
  BY <1>1 DEF DataSegs

\* The descriptor the CPU looks at next is the one after those it has looked
\* at, and goes on with the frame: the engine has not come round to it.
LEMMA LookAt ==
  ASSUME TypeOK, Incoming, NEW h \in 0 .. ETH_RXBUFNB, Ring(h),
         pc = "poll", ~own[DMARxDescToGet]
  PROVE  /\ Looked = Seg_Count /\ Back = 0
         /\ Looked < h /\ Dist(Oldest, DMARxDescToGet) = Looked
         /\ fl[DMARxDescToGet] = Looked + 1
         /\ fs[DMARxDescToGet] = (Looked = 0)
<1> USE RingAssumption
<1>1. Looked = Seg_Count /\ Back = 0
  BY TypeFacts DEF Looked, Back
<1>2. /\ Oldest \in Slots /\ DMARxDescToGet \in Slots /\ Looked \in 0 .. h
      /\ DMARxDescToGet = Adv(Oldest, Looked)
  BY TypeFacts DEF Ring, Counted
<1>3. Looked < ETH_RXBUFNB
  <2> SUFFICES ASSUME Looked = ETH_RXBUFNB PROVE FALSE
    BY <1>2
  <2>1. h = ETH_RXBUFNB /\ dma # "holding"
    BY <1>2 DEF Ring, Window
  <2> DEFINE d == Adv(Oldest, ETH_RXBUFNB - 1)
  <2>2. d \in Slots /\ Dist(Oldest, d) = ETH_RXBUFNB - 1
    BY <1>2, AdvFacts
  <2> HIDE DEF d
  <2>3. ~ls[d] /\ fl[d] >= 1
    <3>1. Dist(Oldest, d) < Looked /\ Dist(Oldest, d) < h
      BY <2>1, <2>2
    <3>2. ls[d] = (pc # "poll" /\ Dist(Oldest, d) + 1 = Looked)
      BY <2>2, <3>1 DEF Ring, Counted
    <3> QED
      BY <2>2, <3>1, <3>2 DEF Ring, Contents
  <2>4. moved = fl[d]
    BY <2>1, <2>2, <2>3 DEF Ring, Contents
  <2>5. moved > 0
    BY <2>2, <2>3, <2>4, TypeFacts
  <2> QED
    BY <2>1, <2>5 DEF Incoming
<1>4. Dist(Oldest, DMARxDescToGet) = Looked
  BY <1>2, <1>3, AdvFacts
<1>5. Looked < h
  BY <1>2, <1>4 DEF Ring, Window
<1>6. fl[DMARxDescToGet] = Looked + 1
  <2>1. CASE Looked = 0
    <3>1. DMARxDescToGet = Oldest
      BY <1>2, <2>1, AdvFacts
    <3> QED
      BY <1>1, <1>2, <1>5, <2>1, <3>1 DEF Ring, Contents
  <2>2. CASE Looked # 0
    <3> DEFINE d == Adv(Oldest, Looked - 1)
    <3>1. /\ d \in Slots /\ Dist(Oldest, d) = Looked - 1
          /\ NextDesc(d) = DMARxDescToGet
      BY <1>2, <1>3, <2>2, AdvFacts
    <3> HIDE DEF d
    <3>2. fl[d] = Looked /\ ~ls[d]
      <4>1. Dist(Oldest, d) < Looked
        BY <1>2, <3>1
      <4>2. /\ fl[d] = Dist(Oldest, d) + Back + 1
            /\ ls[d] = (pc # "poll" /\ Dist(Oldest, d) + 1 = Looked)
        BY <3>1, <4>1 DEF Ring, Counted
      <4>3. Looked \in Nat /\ Dist(Oldest, d) = Looked - 1 /\ Back = 0
        BY <1>1, <1>2, <3>1
      <4>4. fl[d] = Looked
        BY <4>2, <4>3
      <4>5. ~ls[d]
        BY <4>2
      <4> QED
        BY <4>4, <4>5
    <3>3. fl[NextDesc(d)] = fl[d] + 1
      BY <1>2, <1>5, <3>1, <3>2 DEF Ring, Contents
    <3> QED
      BY <3>1, <3>2, <3>3
  <2> QED
    BY <2>1, <2>2
<1>7. fs[DMARxDescToGet] = (fl[DMARxDescToGet] = 1)
  BY <1>2, <1>4, <1>5 DEF Ring, Contents
<1> QED
  BY <1>1, <1>2, <1>4, <1>5, <1>6, <1>7

\* Every step keeps the type invariant.
LEMMA TypeStep == IInv /\ Next => TypeOK'
<1> SUFFICES ASSUME IInv, Next PROVE TypeOK'
  OBVIOUS
<1>0. PICK h \in 0 .. ETH_RXBUFNB : Ring(h)
  BY DEF IInv, Ring
<1>a. TypeOK /\ Incoming
  BY DEF IInv
<1>b. h \in Nat /\ h <= ETH_RXBUFNB /\ \A d \in Slots : NextDesc(d) \in Slots
  BY RingFacts, RingAssumption
<1> USE RingAssumption
<1>1. CASE CheckLast \/ CheckFirst \/ CheckMiddle
  <2>1. pc = "poll" /\ ~own[DMARxDescToGet]
    BY <1>1 DEF CheckLast, CheckFirst, CheckMiddle
  <2>2. Seg_Count < h
    BY <1>0, <1>a, <2>1, LookAt
  <2>3. Seg_Count + 1 \in 0 .. ETH_RXBUFNB /\ 1 \in 0 .. ETH_RXBUFNB
    BY <1>a, <1>b, <2>2 DEF TypeOK
  <2> QED
    BY <1>1, <1>a, <1>b, <2>3
       DEF CheckLast, CheckFirst, CheckMiddle, TypeOK, CpuStates, ring, hw
<1>2. ASSUME NEW a \in BOOLEAN, GetFrame(a) PROVE TypeOK'
  <2>1. DataSegs(DMARxDescToGet) \in 0 .. MaxSegs
    BY <1>a, DataFacts DEF TypeOK
  <2> QED
    BY <1>2, <1>a, <1>b, <2>1 DEF GetFrame, FrameStart, AfterAlloc, TypeOK, CpuStates,
       ring, hw
<1>3. CASE CopySegment
  <2>1. i < Seg_Count
    BY <1>0, <1>3, <1>a, TypeFacts DEF CopySegment, Ring, Counted
  <2>2. i + 1 \in 0 .. ETH_RXBUFNB
    BY <1>a, <2>1 DEF TypeOK
  <2>3. p' \in Seq(Segments)
    BY <1>3, <1>a DEF CopySegment, TypeOK
  <2> QED
    BY <1>3, <1>a, <1>b, <2>2, <2>3 DEF CopySegment, TypeOK, CpuStates, ring, hw
<1>4. CASE ReleaseDesc
  <2>1. i < Seg_Count
    <3>1. pc = "release" /\ Looked # 0 /\ Looked \in 0 .. h /\ Looked = Seg_Count - i
      BY <1>0, <1>4 DEF ReleaseDesc, Ring, Counted, Looked, Back
    <3> QED
      BY <1>a, <3>1, TypeFacts
  <2>2. i + 1 \in 0 .. ETH_RXBUFNB
    BY <1>a, <2>1 DEF TypeOK
  <2>3. \A d \in Slots : bare'[d] => fl'[d] > 1
    <3>1. /\ bare' = [bare EXCEPT ![DMARxDesc] = FALSE]
          /\ fl' = [fl EXCEPT ![DMARxDesc] = 0]
      BY <1>4 DEF ReleaseDesc
    <3> QED
      BY <1>a, <3>1 DEF TypeOK
  <2> QED
    BY <1>4, <1>a, <1>b, <2>2, <2>3
       DEF ReleaseDesc, CountAfterRelease, TypeOK, CpuStates, hw
<1>5. CASE CheckRBUS
  BY <1>5, <1>a DEF CheckRBUS, TypeOK, CpuStates, DmaStates, ring
<1>6. CASE Input
  BY <1>6, <1>a DEF Input, TypeOK, CpuStates, ring, hw
<1>7. ASSUME NEW f \in Frames, Arrive(f) PROVE TypeOK'
  BY <1>7, <1>a DEF Arrive, TypeOK, DmaStates, ring, cpu
<1>8. CASE DmaFetch
  BY <1>8, <1>a DEF DmaFetch, TypeOK, DmaStates, ring, cpu
<1>9. CASE DmaSuspend
  BY <1>9, <1>a DEF DmaSuspend, TypeOK, DmaStates, ring, cpu
<1>10. CASE DmaMove
  <2>1. arriving \in Frames /\ moved < arriving.segs /\ moved \in Nat
    BY <1>10, <1>a DEF DmaMove, TypeOK, Incoming
  <2>2. /\ arriving.segs \in 1 .. MaxSegs /\ arriving.payload \in Payloads
        /\ MaxSegs \in Nat
    BY <2>1, FramesAssumption
  <2>3. moved + 1 \in 1 .. MaxSegs /\ moved + 1 \in 0 .. MaxSegs
    BY <2>1, <2>2
  <2>4. Segment(arriving, moved + 1) \in Segments
    BY <2>2, <2>3 DEF Segment, Segments
  <2>5. dmaDesc' \in Slots /\ dma' \in DmaStates
    BY <1>10, <1>a, <1>b DEF DmaMove, TypeOK, DmaStates
  <2>6. arriving' \in Frames \cup {NoFrame} /\ moved' \in 0 .. MaxSegs
    BY <1>10, <2>1, <2>3, <2>2 DEF DmaMove
  <2>7. /\ own' \in [Slots -> BOOLEAN] /\ fs' \in [Slots -> BOOLEAN]
        /\ fl' \in [Slots -> 0 .. MaxSegs] /\ buf' \in [Slots -> Segments]
    BY <1>10, <1>a, <2>3, <2>4 DEF DmaMove, TypeOK
  <2>8. ls' \in [Slots -> BOOLEAN]
    BY <1>10, <1>a DEF DmaMove, TypeOK
  <2>9. /\ bare' \in [Slots -> BOOLEAN]
        /\ \A d \in Slots : bare'[d] => fl'[d] > 1
    <3> DEFINE alone == moved + 1 = arriving.segs /\ arriving.bare
    <3>1. /\ bare' = [bare EXCEPT ![dmaDesc] = alone]
          /\ fl' = [fl EXCEPT ![dmaDesc] = moved + 1]
      BY <1>10 DEF DmaMove
    <3>2. alone \in BOOLEAN /\ (alone => moved + 1 > 1)
      BY <2>1, FramesAssumption
    <3> HIDE DEF alone
    <3> QED
      BY <1>a, <3>1, <3>2 DEF TypeOK
  <2> QED
    BY <1>10, <1>a, <2>5, <2>6, <2>7, <2>8, <2>9 DEF DmaMove, TypeOK, cpu
<1> QED
  BY <1>1, <1>2, <1>3, <1>4, <1>5, <1>6, <1>7, <1>8, <1>9, <1>10
     DEF Next, CpuStep, DmaStep

\* Every step keeps the DMA's side of the invariant.
LEMMA IncomingStep == TypeOK /\ Incoming /\ Next => Incoming'
<1> SUFFICES ASSUME TypeOK, Incoming, Next PROVE Incoming'
  OBVIOUS
<1> USE RingAssumption DEF Incoming
<1>1. ASSUME UNCHANGED <<arriving, moved, dma>> PROVE Incoming'
  BY <1>1
<1>2. CheckLast \/ CheckFirst \/ CheckMiddle \/ CopySegment \/ ReleaseDesc
        \/ Input \/ (\E a \in BOOLEAN : GetFrame(a))
        => UNCHANGED <<arriving, moved, dma>>
  BY DEF CheckLast, CheckFirst, CheckMiddle, CopySegment, ReleaseDesc, Input,
     GetFrame, hw
<1>3. CASE CheckRBUS
  BY <1>3 DEF CheckRBUS
<1>4. ASSUME NEW f \in Frames, Arrive(f) PROVE Incoming'
  BY <1>4, FramesAssumption DEF Arrive
<1>5. CASE DmaFetch
  BY <1>5 DEF DmaFetch, TypeOK
<1>6. CASE DmaSuspend
  BY <1>6 DEF DmaSuspend
<1>7. CASE DmaMove
  <2>1. arriving \in Frames /\ moved < arriving.segs /\ moved \in Nat
        /\ arriving.segs \in Nat
    BY <1>7, FramesAssumption DEF DmaMove, TypeOK
  <2> DEFINE whole == moved + 1 = arriving.segs
             ends  == whole \/ ~own[NextDesc(dmaDesc)]
  <2>2. /\ arriving' = IF ends THEN NoFrame ELSE arriving
        /\ moved' = IF ends THEN 0 ELSE moved + 1
        /\ ~ends => dma' = "holding"
    BY <1>7 DEF DmaMove
  <2>3. ~ends => moved + 1 < arriving.segs
    BY <2>1
  <2>4. NoFrame \notin Frames
    BY FramesAssumption DEF NoFrame
  <2> HIDE DEF ends
  <2> QED
    BY <2>1, <2>2, <2>3, <2>4
<1> QED
  BY <1>1, <1>2, <1>3, <1>4, <1>5, <1>6, <1>7 DEF Next, CpuStep, DmaStep

\* Steps that hand over no descriptor, in either direction.
LEMMA WindowStands ==
  ASSUME TypeOK, NEW h \in 0 .. ETH_RXBUFNB, Ring(h),
         UNCHANGED <<own, fs, ls, fl, dmaDesc, moved>>,
         Oldest' = Oldest, Back' = Back,
         dma' = "holding" => dma = "holding" \/ own[dmaDesc]
  PROVE  Window(h)' /\ Contents(h)'
<1>1. own[dmaDesc] => h < ETH_RXBUFNB
  <2> SUFFICES ASSUME h = ETH_RXBUFNB PROVE ~own[dmaDesc]
    BY RingAssumption
  <2>1. Oldest \in Slots /\ dmaDesc = Adv(Oldest, h)
    BY TypeFacts DEF Ring, Window
  <2>2. dmaDesc = Oldest
    BY <2>1, RingAssumption DEF Adv, Slots
  <2>3. Dist(Oldest, dmaDesc) = 0 /\ 0 < h
    BY <2>1, <2>2, RingFacts, RingAssumption
  <2> QED
    BY <2>1, <2>2, <2>3 DEF Ring, Window
<1>2. Window(h)'
  BY <1>1 DEF Ring, Window
<1>3. Contents(h)'
  BY DEF Ring, Contents
<1> QED
  BY <1>2, <1>3

\* ETH_CheckFrameReceived finds a segment.
LEMMA CheckRing ==
  ASSUME TypeOK, Incoming, NEW h \in 0 .. ETH_RXBUFNB, Ring(h),
         CheckLast \/ CheckFirst \/ CheckMiddle
  PROVE  Ring(h)'
<1> USE RingAssumption
<1>1. /\ pc = "poll" /\ ~own[DMARxDescToGet]
      /\ UNCHANGED <<own, fs, ls, fl, dmaDesc, dma, moved>>
  BY DEF CheckLast, CheckFirst, CheckMiddle, ring, hw
<1>2. /\ Looked = Seg_Count /\ Back = 0
      /\ Looked < h /\ Dist(Oldest, DMARxDescToGet) = Looked
      /\ fl[DMARxDescToGet] = Looked + 1
      /\ fs[DMARxDescToGet] = (Looked = 0)
  BY <1>1, LookAt
<1>3. /\ Oldest \in Slots /\ DMARxDescToGet \in Slots /\ Looked \in Nat
      /\ Seg_Count \in Nat /\ h \in Nat /\ h <= ETH_RXBUFNB
  BY <1>2, TypeFacts
<1>4. /\ Seg_Count' = Looked + 1
      /\ ls[DMARxDescToGet] = (pc' # "poll")
      /\ pc' \in {"poll", "get"}
  <2>1. CheckFirst => Seg_Count = 0
    BY <1>2 DEF CheckFirst
  <2> QED
    BY <1>1, <1>2, <2>1 DEF CheckLast, CheckFirst, CheckMiddle, TypeOK
<1>5. Back' = 0 /\ Looked' = Looked + 1
  BY <1>3, <1>4 DEF Back, Looked
<1>6. Oldest' = Oldest
  <2>1. Seg_Count' > 0
    BY <1>3, <1>4
  <2>2. Oldest' = FS_Rx_Desc'
    BY <1>4, <2>1 DEF Oldest
  <2>3. CASE Seg_Count = 0
    <3>1. Oldest = DMARxDescToGet
      BY <1>1, <2>3 DEF Oldest
    <3>2. FS_Rx_Desc' = DMARxDescToGet
      <4>1. CheckMiddle => FALSE
        BY <1>2, <2>3 DEF CheckMiddle
      <4> QED
        BY <2>3, <4>1 DEF CheckLast, CheckFirst
    <3> QED
      BY <2>2, <3>1, <3>2
  <2>4. CASE Seg_Count # 0
    <3>1. Oldest = FS_Rx_Desc
      BY <1>1, <1>3, <2>4 DEF Oldest
    <3>2. FS_Rx_Desc' = FS_Rx_Desc
      <4>1. CheckFirst => FALSE
        BY <1>2, <2>4 DEF CheckFirst
      <4> QED
        BY <2>4, <4>1 DEF CheckLast, CheckMiddle
    <3> QED
      BY <2>2, <3>1, <3>2
  <2> QED
    BY <2>3, <2>4
<1>7. Window(h)' /\ Contents(h)'
  BY <1>1, <1>2, <1>5, <1>6, WindowStands
<1>8. Counted(h)'
  <2>1. Looked' \in 0 .. h /\ Looked' # 0
    BY <1>2, <1>3, <1>5
  <2>2. ~(pc' \in {"rbus", "input"} \/ (pc' = "poll" /\ Seg_Count' = 0))
    BY <1>3, <1>4
  <2>3. ASSUME NEW d \in Slots, Dist(Oldest, d) < Looked + 1
        PROVE  /\ fl[d] = Dist(Oldest, d) + 1
               /\ ls[d] = (pc' # "poll" /\ Dist(Oldest, d) + 1 = Looked + 1)
    <3>1. Dist(Oldest, d) \in Nat
      BY <1>3, RingFacts
    <3>2. CASE Dist(Oldest, d) < Looked
      <4>1. /\ fl[d] = Dist(Oldest, d) + Back + 1
            /\ ls[d] = (pc # "poll" /\ Dist(Oldest, d) + 1 = Looked)
        BY <3>2 DEF Ring, Counted
      <4>2. fl[d] = Dist(Oldest, d) + 1
        BY <1>2, <3>1, <4>1
      <4>3. ls[d] = FALSE
        BY <1>1, <4>1
      <4>4. Dist(Oldest, d) + 1 # Looked + 1
        BY <1>3, <3>1, <3>2
      <4> QED
        BY <4>2, <4>3, <4>4
    <3>3. CASE Dist(Oldest, d) = Looked
      <4>1. d = DMARxDescToGet
        <5>1. Looked \in 0 .. ETH_RXBUFNB
          BY <1>2, <1>3
        <5>2. \A e \in Slots : Dist(Oldest, e) = Looked => e = Adv(Oldest, Looked)
          BY <1>3, <5>1, AdvFacts
        <5> QED
          BY <1>2, <1>3, <3>3, <5>2
      <4>2. fl[d] = Looked + 1 /\ ls[d] = (pc' # "poll")
        BY <1>2, <1>4, <4>1
      <4> QED
        BY <3>3, <4>2
    <3> QED
      BY <1>3, <2>3, <3>1, <3>2, <3>3
  <2>4. \A d \in Slots : Dist(Oldest', d) < Looked' =>
          /\ fl'[d] = Dist(Oldest', d) + Back' + 1
          /\ ls'[d] = (pc' # "poll" /\ Dist(Oldest', d) + 1 = Looked')
    <3>1. \A d \in Slots : Dist(Oldest, d) \in Nat
      BY <1>3, RingFacts
    <3> QED
      BY <1>1, <1>5, <1>6, <2>3, <3>1
  <2>5. DMARxDescToGet' = Adv(Oldest', IF pc' = "get" THEN Looked' - 1 ELSE Looked')
    <3>1. DMARxDescToGet = Adv(Oldest, Looked)
      BY <1>1 DEF Ring, Counted
    <3>2. CASE CheckLast
      <4>1. pc' = "get" /\ DMARxDescToGet' = DMARxDescToGet
        BY <3>2 DEF CheckLast
      <4> QED
        BY <1>3, <1>5, <1>6, <3>1, <4>1
    <3>3. CASE CheckFirst \/ CheckMiddle
      <4>1. pc' = "poll" /\ DMARxDescToGet' = NextDesc(DMARxDescToGet)
        BY <1>1, <3>3 DEF CheckFirst, CheckMiddle
      <4>2. NextDesc(DMARxDescToGet) = Adv(Oldest, Looked + 1)
        BY <1>2, <1>3, <3>1, AdvFacts
      <4> QED
        BY <1>5, <1>6, <4>1, <4>2
    <3> QED
      BY <3>2, <3>3
  <2>6. pc' \notin {"rbus", "input"} /\ pc' # "copy"
    BY <1>4
  <2> QED
    BY <2>1, <2>2, <2>4, <2>5, <2>6 DEF Counted
<1> QED
  BY <1>7, <1>8 DEF Ring

\* The frame is taken, with a pbuf or without.
LEMMA GetRing ==
  ASSUME TypeOK, NEW h \in 0 .. ETH_RXBUFNB, Ring(h),
         NEW a \in BOOLEAN, GetFrame(a)
  PROVE  Ring(h)'
<1> USE RingAssumption
<1>1. /\ pc = "get" /\ pc' \in {"copy", "release"} /\ i' = 0
      /\ UNCHANGED <<own, fs, ls, fl, bare, dmaDesc, dma, moved>>
      /\ Seg_Count' = Seg_Count /\ FS_Rx_Desc' = FS_Rx_Desc
      /\ DMARxDesc' = FS_Rx_Desc
      /\ len' = DataSegs(DMARxDescToGet)
      /\ DMARxDescToGet' = NextDesc(DMARxDescToGet)
  BY DEF GetFrame, FrameStart, AfterAlloc, ring, hw
<1>2. /\ Back = 0 /\ Back' = 0
      /\ Looked = Seg_Count /\ Looked' = Seg_Count
      /\ Seg_Count \in Nat
  <2>1. Seg_Count \in Nat
    BY TypeFacts
  <2> QED
    BY <1>1, <2>1 DEF Back, Looked
<1>3. Looked \in 0 .. h /\ Looked # 0 /\ Oldest \in Slots
  BY <1>1, TypeFacts DEF Ring, Counted
<1>4. Oldest = FS_Rx_Desc /\ Oldest' = Oldest
  <2>1. Seg_Count > 0
    BY <1>2, <1>3
  <2> QED
    BY <1>1, <2>1 DEF Oldest
<1>5. Window(h)' /\ Contents(h)'
  BY <1>1, <1>2, <1>4, WindowStands
<1>6. DMARxDescToGet = Adv(Oldest, Looked - 1)
  BY <1>1 DEF Ring, Counted
<1>7. DMARxDescToGet' = Adv(Oldest, Looked)
  BY <1>1, <1>2, <1>3, <1>6, AdvFacts
<1>8. /\ len' <= Seg_Count /\ 0 < len'
      /\ \A d \in Slots :
           Dist(Oldest, d) + 1 = Looked => len' = DataSegs(d)'
  <2>1. /\ Dist(Oldest, DMARxDescToGet) = Looked - 1
        /\ DMARxDescToGet \in Slots
    BY <1>2, <1>3, <1>6, AdvFacts
  <2>2. fl[DMARxDescToGet] = Looked - 1 + Back + 1
    BY <1>2, <1>3, <2>1 DEF Ring, Counted
  <2>3. fl[DMARxDescToGet] = Seg_Count /\ Seg_Count >= 1
    BY <1>2, <1>3, <2>2
  <2>4. len' <= Seg_Count /\ 0 < len'
    BY <1>1, <1>2, <2>1, <2>3, DataFacts, TypeFacts
  <2>5. ASSUME NEW d \in Slots, Dist(Oldest, d) + 1 = Looked
        PROVE  len' = DataSegs(d)'
    <3>1. Dist(Oldest, d) = Looked - 1
      BY <1>3, <2>5, RingFacts, RingAssumption
    <3>2. d = DMARxDescToGet
      BY <1>3, <1>6, <3>1, AdvFacts
    <3> QED
      BY <1>1, <3>2 DEF DataSegs
  <2> QED
    BY <2>4, <2>5
<1>9. DMARxDesc' = Adv(Oldest, 0)
  BY <1>1, <1>3, <1>4, AdvFacts
<1>10. Counted(h)'
  <2>1. /\ Looked' \in 0 .. h /\ Looked' # 0
        /\ pc' \notin {"rbus", "input", "poll", "get"}
    BY <1>1, <1>2, <1>3
  <2>2. \A d \in Slots : Dist(Oldest', d) < Looked' =>
          /\ fl'[d] = Dist(Oldest', d) + Back' + 1
          /\ ls'[d] = (pc' # "poll" /\ Dist(Oldest', d) + 1 = Looked')
    <3>1. \A d \in Slots : Dist(Oldest, d) < Looked =>
            /\ fl[d] = Dist(Oldest, d) + Back + 1
            /\ ls[d] = (pc # "poll" /\ Dist(Oldest, d) + 1 = Looked)
      BY DEF Ring, Counted
    <3>2. Looked' = Looked /\ Back' = Back
      BY <1>2
    <3> QED
      BY <1>1, <1>4, <2>1, <3>1, <3>2
  <2> QED
    BY <1>1, <1>2, <1>4, <1>7, <1>8, <1>9, <2>1, <2>2 DEF Counted
<1> QED
  BY <1>5, <1>10 DEF Ring

\* The copy loop keeps the shape of the ring.
LEMMA CopyRing ==
  ASSUME TypeOK, NEW h \in 0 .. ETH_RXBUFNB, Ring(h), CopySegment
  PROVE  Ring(h)'
<1> USE RingAssumption
<1>1. /\ pc = "copy" /\ pc' \in {"copy", "release"}
      /\ UNCHANGED <<own, fs, ls, fl, bare, dmaDesc, dma, moved>>
      /\ UNCHANGED <<Seg_Count, FS_Rx_Desc, DMARxDescToGet, len>>
      /\ pc' = "copy" => i + 1 < len /\ i' = i + 1
                         /\ DMARxDesc' = NextDesc(DMARxDesc)
      /\ pc' = "release" => i' = 0 /\ DMARxDesc' = FS_Rx_Desc
  BY DEF CopySegment, ring, hw
<1>2. /\ Seg_Count \in Nat /\ i \in Nat /\ Oldest \in Slots
      /\ len <= Seg_Count /\ len \in Nat /\ i < len /\ i < Seg_Count
      /\ DMARxDesc = Adv(Oldest, i)
      /\ Looked \in 0 .. h
  BY <1>1, TypeFacts DEF Ring, Counted
<1>3. Back = 0 /\ Back' = 0 /\ Looked = Seg_Count /\ Looked' = Seg_Count
  BY <1>1, <1>2 DEF Back, Looked
<1>4. Oldest = FS_Rx_Desc /\ Oldest' = Oldest
  <2>1. Seg_Count > 0
    BY <1>2
  <2> QED
    BY <1>1, <2>1 DEF Oldest
<1>5. Window(h)' /\ Contents(h)'
  BY <1>1, <1>3, <1>4, WindowStands
<1>6. Counted(h)'
  <2>1. Looked' = Looked /\ Looked # 0 /\ Back' = Back
    BY <1>2, <1>3
  <2>2. \A d \in Slots : Dist(Oldest', d) < Looked' =>
          /\ fl'[d] = Dist(Oldest', d) + Back' + 1
          /\ ls'[d] = (pc' # "poll" /\ Dist(Oldest', d) + 1 = Looked')
    <3>1. \A d \in Slots : Dist(Oldest, d) < Looked =>
            /\ fl[d] = Dist(Oldest, d) + Back + 1
            /\ ls[d] = (pc # "poll" /\ Dist(Oldest, d) + 1 = Looked)
      BY DEF Ring, Counted
    <3>2. pc # "poll" /\ pc' # "poll"
      BY <1>1
    <3> QED
      BY <1>1, <1>4, <2>1, <3>1, <3>2
  <2>3. DMARxDescToGet' = Adv(Oldest', Looked') /\ pc' # "get"
    BY <1>1, <1>4, <2>1 DEF Ring, Counted
  <2>4. pc' = "copy" => /\ len' <= Seg_Count'
                        /\ i' < len'
                        /\ DMARxDesc' = Adv(Oldest', i')
                        /\ \A d \in Slots : Dist(Oldest', d) + 1 = Looked' =>
                                              len' = DataSegs(d)'
    <3> SUFFICES ASSUME pc' = "copy"
                 PROVE  /\ len' <= Seg_Count'
                        /\ i' < len'
                        /\ DMARxDesc' = Adv(Oldest', i')
                        /\ \A d \in Slots : Dist(Oldest', d) + 1 = Looked' =>
                                              len' = DataSegs(d)'
      OBVIOUS
    <3>1. /\ i' = i + 1 /\ i + 1 < len /\ i + 1 < Seg_Count
          /\ DMARxDesc' = NextDesc(DMARxDesc)
      BY <1>1, <1>2
    <3>4. \A d \in Slots : Dist(Oldest', d) + 1 = Looked' => len' = DataSegs(d)'
      BY <1>1, <1>4, <2>1 DEF Ring, Counted, DataSegs
    <3>2. Seg_Count <= ETH_RXBUFNB
      BY <1>2, <1>3
    <3>3. NextDesc(Adv(Oldest, i)) = Adv(Oldest, i + 1)
      BY <1>2, <3>1, <3>2, AdvFacts
    <3> QED
      BY <1>1, <1>2, <1>4, <3>1, <3>3, <3>4
  <2>5. Looked' \in 0 .. h /\ pc' \notin {"rbus", "input", "poll"}
    BY <1>1, <1>2, <2>1
  <2> QED
    BY <2>1, <2>2, <2>3, <2>4, <2>5 DEF Counted
<1> QED
  BY <1>5, <1>6 DEF Ring

\* The oldest descriptor goes back to the engine.
LEMMA ReleaseRing ==
  ASSUME TypeOK, NEW h \in 0 .. ETH_RXBUFNB, Ring(h), ReleaseDesc
  PROVE  h - 1 \in 0 .. ETH_RXBUFNB /\ Ring(h - 1)'
<1> USE RingAssumption
<1>1. /\ pc = "release" /\ Oldest = DMARxDesc /\ Back = i
      /\ Looked = Seg_Count - i
      /\ UNCHANGED <<dmaDesc, dma, moved, DMARxDescToGet>>
      /\ own' = [own EXCEPT ![Oldest] = TRUE]
      /\ fs' = [fs EXCEPT ![Oldest] = FALSE]
      /\ ls' = [ls EXCEPT ![Oldest] = FALSE]
      /\ fl' = [fl EXCEPT ![Oldest] = 0]
      /\ DMARxDesc' = NextDesc(Oldest) /\ i' = i + 1
  BY DEF ReleaseDesc, hw, Oldest, Back, Looked
<1>2. /\ Oldest \in Slots /\ Seg_Count \in Nat /\ i \in Nat
      /\ Looked \in 1 .. h /\ h \in Nat /\ h >= 1 /\ Looked \in Nat
      /\ NextDesc(Oldest) \in Slots
  <2>1. Looked \in 0 .. h /\ Looked # 0
    BY <1>1 DEF Ring, Counted
  <2>2. Oldest \in Slots /\ Seg_Count \in Nat /\ i \in Nat
    BY TypeFacts
  <2> QED
    BY <2>1, <2>2, RingFacts
<1>3. /\ DMARxDescToGet = Adv(Oldest, Looked)
      /\ dmaDesc = Adv(Oldest, h)
      /\ \A d \in Slots : ~own[d] <=> Dist(Oldest, d) < h
  BY <1>1 DEF Ring, Counted, Window
<1>4. /\ Adv(Oldest, Looked) = Adv(NextDesc(Oldest), Looked - 1)
      /\ Adv(Oldest, h) = Adv(NextDesc(Oldest), h - 1)
      /\ Adv(NextDesc(Oldest), 0) = NextDesc(Oldest)
  <2>1. Looked \in 0 .. ETH_RXBUFNB
    BY <1>2
  <2> QED
    BY <1>2, <2>1, AdvFacts
<1>6. /\ Oldest' = NextDesc(Oldest)
      /\ Looked' = Looked - 1
      /\ Back' = IF Looked = 1 THEN 0 ELSE i + 1
      /\ pc' = IF Looked = 1 THEN "rbus" ELSE "release"
      /\ Looked = 1 => Seg_Count' = 0
  <2>1. CASE i + 1 >= Seg_Count
    <3>1. Looked = 1
      BY <1>1, <1>2, <2>1
    <3>2. pc' = "rbus" /\ Seg_Count' = 0
      BY <2>1 DEF ReleaseDesc, Released, CountAfterRelease
    <3>3. DMARxDescToGet' = NextDesc(Oldest)
      BY <1>1, <1>3, <1>4, <3>1
    <3>4. Back' = 0 /\ Looked' = 0 /\ Oldest' = NextDesc(Oldest)
      BY <3>2, <3>3 DEF Back, Looked, Oldest
    <3> QED
      BY <3>1, <3>2, <3>4
  <2>2. CASE i + 1 < Seg_Count
    <3>1. Looked # 1
      BY <1>1, <1>2, <2>2
    <3>2. pc' = "release" /\ Seg_Count' = Seg_Count
      BY <1>2, <2>2 DEF ReleaseDesc, Released
    <3>3. Back' = i + 1 /\ Oldest' = NextDesc(Oldest)
      BY <1>1, <3>2 DEF Back, Oldest
    <3>4. Looked' = Looked - 1
      BY <1>1, <1>2, <3>2, <3>3 DEF Looked
    <3> QED
      BY <3>1, <3>2, <3>3, <3>4
  <2> QED
    BY <1>2, <2>1, <2>2
<1>7. \A d \in Slots : /\ Dist(Oldest, d) \in Nat
                       /\ Dist(Oldest, d) < ETH_RXBUFNB
                       /\ d # Oldest => Dist(Oldest', d) = Dist(Oldest, d) - 1
                       /\ d = Oldest => Dist(Oldest', d) = ETH_RXBUFNB - 1
                                        /\ Dist(Oldest, d) = 0
  BY <1>2, <1>6, RingFacts, NextDistBack
<1>8. /\ own'[Oldest] = TRUE
      /\ \A d \in Slots : d # Oldest => /\ own'[d] = own[d] /\ fs'[d] = fs[d]
                                        /\ ls'[d] = ls[d] /\ fl'[d] = fl[d]
  BY <1>1, <1>2 DEF TypeOK
<1>9. Window(h - 1)'
  <2>1. \A d \in Slots : ~own'[d] <=> Dist(Oldest', d) < h - 1
    <3> SUFFICES ASSUME NEW d \in Slots PROVE ~own'[d] <=> Dist(Oldest', d) < h - 1
      OBVIOUS
    <3>1. CASE d = Oldest
      BY <1>2, <1>7, <1>8, <3>1
    <3>2. CASE d # Oldest
      BY <1>2, <1>3, <1>7, <1>8, <3>2
    <3> QED
      BY <3>1, <3>2
  <2>2. dmaDesc' = Adv(Oldest', h - 1)
    BY <1>1, <1>3, <1>4, <1>6
  <2>3. h - 1 < ETH_RXBUFNB
    BY <1>2
  <2> QED
    BY <2>1, <2>2, <2>3 DEF Window
<1>10. /\ ls[Oldest] = (Looked = 1)
       /\ fl[Oldest] = i + 1
  <2>1. Dist(Oldest, Oldest) = 0 /\ 0 < Looked
    BY <1>2, RingFacts
  <2>2. /\ fl[Oldest] = 0 + Back + 1
        /\ ls[Oldest] = (pc # "poll" /\ 0 + 1 = Looked)
    BY <1>2, <2>1 DEF Ring, Counted
  <2>3. ls[Oldest] = (1 = Looked)
    BY <1>1, <2>2
  <2> QED
    BY <1>1, <1>2, <2>2, <2>3
<1>11. Contents(h - 1)'
  <2>1. ASSUME NEW d \in Slots, Dist(Oldest', d) < h - 1
        PROVE  /\ fl'[d] >= 1
               /\ fs'[d] = (fl'[d] = 1)
               /\ Dist(Oldest', d) + 1 < h - 1 =>
                    fl'[NextDesc(d)] = IF ls'[d] THEN 1 ELSE fl'[d] + 1
               /\ Dist(Oldest', d) + 1 = h - 1 =>
                    moved' = IF ls'[d] THEN 0 ELSE fl'[d]
    <3>1. d # Oldest
      BY <1>2, <1>7, <2>1
    <3>2. Dist(Oldest', d) = Dist(Oldest, d) - 1 /\ Dist(Oldest, d) < h
          /\ Dist(Oldest, d) \in Nat
      BY <1>2, <1>7, <2>1, <3>1
    <3>3. /\ fl[d] >= 1
          /\ fs[d] = (fl[d] = 1)
          /\ Dist(Oldest, d) + 1 < h =>
               fl[NextDesc(d)] = IF ls[d] THEN 1 ELSE fl[d] + 1
          /\ Dist(Oldest, d) + 1 = h => moved = IF ls[d] THEN 0 ELSE fl[d]
      BY <3>2 DEF Ring, Contents
    <3>4. Dist(Oldest, d) + 1 < h => NextDesc(d) \in Slots /\ NextDesc(d) # Oldest
      <4> SUFFICES ASSUME Dist(Oldest, d) + 1 < h
                   PROVE  NextDesc(d) \in Slots /\ NextDesc(d) # Oldest
        OBVIOUS
      <4>1. Dist(Oldest, d) + 1 < ETH_RXBUFNB
        BY <1>2, <3>2
      <4>2. Dist(Oldest, NextDesc(d)) = Dist(Oldest, d) + 1
        BY <1>2, <4>1, NextDist
      <4>3. NextDesc(d) \in Slots
        BY RingFacts
      <4> QED
        BY <1>7, <3>2, <4>2, <4>3
    <3>5. /\ fl'[d] = fl[d] /\ fs'[d] = fs[d] /\ ls'[d] = ls[d]
          /\ Dist(Oldest, d) + 1 < h => fl'[NextDesc(d)] = fl[NextDesc(d)]
          /\ moved' = moved
      BY <1>1, <1>8, <3>1, <3>4
    <3>6. /\ Dist(Oldest', d) + 1 < h - 1 => Dist(Oldest, d) + 1 < h
          /\ Dist(Oldest', d) + 1 = h - 1 => Dist(Oldest, d) + 1 = h
      BY <1>2, <3>2
    <3> QED
      BY <3>3, <3>5, <3>6
  <2>2. h - 1 >= 1 => fl'[Oldest'] = Back' + 1
    <3> SUFFICES ASSUME h - 1 >= 1 PROVE fl'[Oldest'] = Back' + 1
      OBVIOUS
    <3>1. Dist(Oldest, Oldest) = 0 /\ 0 + 1 < h /\ 0 < h
      BY <1>2, RingFacts
    <3>2. fl[NextDesc(Oldest)] = IF ls[Oldest] THEN 1 ELSE fl[Oldest] + 1
      BY <1>2, <3>1 DEF Ring, Contents
    <3>3. NextDesc(Oldest) # Oldest
      BY <1>2 DEF NextDesc, Slots
    <3>4. fl'[Oldest'] = fl[NextDesc(Oldest)]
      BY <1>2, <1>6, <1>8, <3>3
    <3>5. CASE Looked = 1
      <4>1. ls[Oldest] /\ Back' = 0
        BY <1>6, <1>10, <3>5
      <4> QED
        BY <3>2, <3>4, <4>1
    <3>6. CASE Looked # 1
      <4>1. ~ls[Oldest] /\ Back' = i + 1
        BY <1>6, <1>10, <3>6
      <4> QED
        BY <1>10, <3>2, <3>4, <4>1
    <3> QED
      BY <3>5, <3>6
  <2>3. h - 1 = 0 => moved' = 0
    <3> SUFFICES ASSUME h - 1 = 0 PROVE moved' = 0
      OBVIOUS
    <3>1. Dist(Oldest, Oldest) = 0 /\ 0 + 1 = h /\ 0 < h /\ Looked = 1
      BY <1>2, RingFacts
    <3>2. moved = IF ls[Oldest] THEN 0 ELSE fl[Oldest]
      BY <1>2, <3>1 DEF Ring, Contents
    <3> QED
      BY <1>1, <1>10, <3>1, <3>2
  <2> QED
    BY <2>1, <2>2, <2>3 DEF Contents
<1>12. Counted(h - 1)'
  <2>1. /\ Looked' \in 0 .. h - 1
        /\ Looked' = 0 <=> pc' = "rbus"
        /\ pc' \in {"rbus", "release"}
        /\ pc' = "rbus" => Seg_Count' = 0
    BY <1>2, <1>6
  <2>2. ASSUME NEW d \in Slots, Dist(Oldest', d) < Looked'
        PROVE  /\ fl'[d] = Dist(Oldest', d) + Back' + 1
               /\ ls'[d] = (pc' # "poll" /\ Dist(Oldest', d) + 1 = Looked')
    <3>1. d # Oldest
      BY <1>2, <1>6, <1>7, <2>2
    <3>2. /\ Dist(Oldest', d) = Dist(Oldest, d) - 1
          /\ Dist(Oldest, d) < Looked
          /\ Dist(Oldest, d) \in Nat /\ Dist(Oldest, d) # 0
      BY <1>2, <1>6, <1>7, <2>2, <3>1, RingFacts
    <3>3. /\ fl[d] = Dist(Oldest, d) + Back + 1
          /\ ls[d] = (pc # "poll" /\ Dist(Oldest, d) + 1 = Looked)
      BY <3>2 DEF Ring, Counted
    <3>4. Looked # 1 /\ Back' = i + 1
      BY <1>2, <1>6, <3>2
    <3>5. fl'[d] = Dist(Oldest', d) + Back' + 1
      BY <1>1, <1>2, <1>8, <3>1, <3>2, <3>3, <3>4
    <3>6. ls'[d] = (Dist(Oldest, d) + 1 = Looked)
      BY <1>1, <1>8, <3>1, <3>3
    <3>7. Dist(Oldest, d) + 1 = Looked <=> Dist(Oldest', d) + 1 = Looked'
      BY <1>2, <1>6, <3>2
    <3>8. pc' # "poll"
      BY <2>1
    <3> QED
      BY <3>5, <3>6, <3>7, <3>8
  <2>3. DMARxDescToGet' = Adv(Oldest', Looked')
    BY <1>1, <1>3, <1>4, <1>6
  <2> QED
    BY <2>1, <2>2, <2>3 DEF Counted
<1>13. h - 1 \in 0 .. ETH_RXBUFNB
  BY <1>2
<1> QED
  BY <1>9, <1>11, <1>12, <1>13 DEF Ring

\* The engine hands a descriptor over.
LEMMA MoveRing ==
  ASSUME TypeOK, Incoming, NEW h \in 0 .. ETH_RXBUFNB, Ring(h), DmaMove
  PROVE  h + 1 \in 0 .. ETH_RXBUFNB /\ Ring(h + 1)'
<1> USE RingAssumption
<1>1. /\ Oldest \in Slots /\ dmaDesc \in Slots /\ moved \in Nat
      /\ h \in Nat /\ h < ETH_RXBUFNB
      /\ dmaDesc = Adv(Oldest, h)
      /\ \A d \in Slots : ~own[d] <=> Dist(Oldest, d) < h
      /\ Looked \in 0 .. h
  <2>1. h < ETH_RXBUFNB
    BY DEF DmaMove, Ring, Window
  <2> QED
    BY <2>1, TypeFacts DEF Ring, Window, Counted
<1>2. /\ Oldest' = Oldest /\ Back' = Back /\ Looked' = Looked
      /\ UNCHANGED <<pc, Seg_Count, i, len, DMARxDesc, DMARxDescToGet>>
  BY DEF DmaMove, cpu, Oldest, Back, Looked
<1>3. /\ Dist(Oldest, dmaDesc) = h
      /\ NextDesc(dmaDesc) = Adv(Oldest, h + 1)
      /\ NextDesc(dmaDesc) \in Slots
  BY <1>1, AdvFacts, RingFacts
<1> DEFINE ends == moved + 1 = arriving.segs \/ ~own[NextDesc(dmaDesc)]
<1>4. /\ own' = [own EXCEPT ![dmaDesc] = FALSE]
      /\ fs' = [fs EXCEPT ![dmaDesc] = (moved = 0)]
      /\ ls' = [ls EXCEPT ![dmaDesc] = ends]
      /\ fl' = [fl EXCEPT ![dmaDesc] = moved + 1]
      /\ dmaDesc' = NextDesc(dmaDesc)
      /\ moved' = IF ends THEN 0 ELSE moved + 1
      /\ dma' = "holding" => own[NextDesc(dmaDesc)]
  BY DEF DmaMove
<1> HIDE DEF ends
<1>5. /\ own'[dmaDesc] = FALSE /\ fs'[dmaDesc] = (moved = 0)
      /\ ls'[dmaDesc] = ends /\ fl'[dmaDesc] = moved + 1
      /\ \A d \in Slots : d # dmaDesc => /\ own'[d] = own[d] /\ fs'[d] = fs[d]
                                         /\ ls'[d] = ls[d] /\ fl'[d] = fl[d]
  BY <1>1, <1>4 DEF TypeOK
<1>6. \A d \in Slots : /\ Dist(Oldest, d) \in Nat
                       /\ Dist(Oldest, d) = h => d = dmaDesc
  BY <1>1, RingFacts, AdvFacts
<1>7. Window(h + 1)'
  <2>1. \A d \in Slots : ~own'[d] <=> Dist(Oldest, d) < h + 1
    <3> SUFFICES ASSUME NEW d \in Slots PROVE ~own'[d] <=> Dist(Oldest, d) < h + 1
      OBVIOUS
    <3>1. CASE d = dmaDesc
      BY <1>1, <1>3, <1>5, <3>1
    <3>2. CASE d # dmaDesc
      BY <1>1, <1>5, <1>6, <3>2
    <3> QED
      BY <3>1, <3>2
  <2>2. dma' = "holding" => h + 1 < ETH_RXBUFNB
    <3> SUFFICES ASSUME dma' = "holding", h + 1 = ETH_RXBUFNB PROVE FALSE
      BY <1>1
    <3>1. NextDesc(dmaDesc) = Oldest
      BY <1>1, <1>3 DEF Adv, Slots
    <3>2. Dist(Oldest, Oldest) = 0 /\ 0 < h
      BY <1>1, RingFacts
    <3> QED
      BY <1>1, <1>4, <3>1, <3>2
  <2> QED
    BY <1>2, <1>3, <1>4, <2>1, <2>2 DEF Window
<1>8. Contents(h + 1)'
  <2>1. ASSUME NEW d \in Slots, Dist(Oldest, d) < h + 1
        PROVE  /\ fl'[d] >= 1
               /\ fs'[d] = (fl'[d] = 1)
               /\ Dist(Oldest, d) + 1 < h + 1 =>
                    fl'[NextDesc(d)] = IF ls'[d] THEN 1 ELSE fl'[d] + 1
               /\ Dist(Oldest, d) + 1 = h + 1 =>
                    moved' = IF ls'[d] THEN 0 ELSE fl'[d]
    <3>1. CASE d = dmaDesc
      <4>1. /\ fl'[d] = moved + 1 /\ ls'[d] = ends /\ fs'[d] = (moved = 0)
            /\ Dist(Oldest, d) = h
        BY <1>3, <1>5, <3>1
      <4>2. moved = 0 <=> moved + 1 = 1
        BY <1>1
      <4>3. fs'[d] = (fl'[d] = 1)
        BY <4>1, <4>2
      <4>4. fl'[d] >= 1 /\ ~(Dist(Oldest, d) + 1 < h + 1)
        BY <1>1, <4>1
      <4>5. moved' = IF ls'[d] THEN 0 ELSE fl'[d]
        BY <1>4, <4>1
      <4> QED
        BY <4>3, <4>4, <4>5
    <3>2. CASE d # dmaDesc
      <4>1. Dist(Oldest, d) < h /\ Dist(Oldest, d) + 1 < ETH_RXBUFNB
        BY <1>1, <1>6, <2>1, <3>2
      <4>2. /\ fl[d] >= 1
            /\ fs[d] = (fl[d] = 1)
            /\ Dist(Oldest, d) + 1 < h =>
                 fl[NextDesc(d)] = IF ls[d] THEN 1 ELSE fl[d] + 1
            /\ Dist(Oldest, d) + 1 = h => moved = IF ls[d] THEN 0 ELSE fl[d]
        BY <4>1 DEF Ring, Contents
      <4>3. /\ NextDesc(d) \in Slots
            /\ Dist(Oldest, NextDesc(d)) = Dist(Oldest, d) + 1
        BY <1>1, <4>1, NextDist, RingFacts
      <4>4. fl'[d] = fl[d] /\ fs'[d] = fs[d] /\ ls'[d] = ls[d]
        BY <1>5, <3>2
      <4>5. fl'[NextDesc(d)] = IF ls[d] THEN 1 ELSE fl[d] + 1
        <5>1. CASE Dist(Oldest, d) + 1 < h
          <6>1. NextDesc(d) # dmaDesc
            BY <1>1, <1>3, <4>3, <5>1
          <6> QED
            BY <1>5, <4>2, <4>3, <5>1, <6>1
        <5>2. CASE Dist(Oldest, d) + 1 = h
          <6>1. NextDesc(d) = dmaDesc
            BY <1>6, <4>3, <5>2
          <6>2. moved = IF ls[d] THEN 0 ELSE fl[d]
            BY <4>2, <5>2
          <6> QED
            BY <1>5, <6>1, <6>2
        <5> QED
          BY <1>1, <1>6, <4>1, <5>1, <5>2
      <4>6. ~(Dist(Oldest, d) + 1 = h + 1)
        BY <1>1, <1>6, <4>1
      <4> QED
        BY <4>2, <4>4, <4>5, <4>6
    <3> QED
      BY <3>1, <3>2
  <2>2. fl'[Oldest] = Back + 1
    <3>1. CASE h = 0
      <4>1. Oldest = dmaDesc
        BY <1>1, <3>1, AdvFacts
      <4>2. moved = 0
        BY <3>1 DEF Ring, Contents
      <4>3. Looked = 0
        BY <1>1, <3>1
      <4>4. Back = 0
        BY <4>3 DEF Ring, Counted, Back
      <4> QED
        BY <1>5, <4>1, <4>2, <4>4
    <3>2. CASE h # 0
      <4>1. fl[Oldest] = Back + 1
        BY <1>1, <3>2 DEF Ring, Contents
      <4>2. Oldest # dmaDesc
        BY <1>1, <1>3, <3>2, RingFacts
      <4> QED
        BY <1>1, <1>5, <4>1, <4>2
    <3> QED
      BY <3>1, <3>2
  <2>3. h + 1 # 0
    BY <1>1
  <2> QED
    BY <1>2, <2>1, <2>2, <2>3 DEF Contents
<1>9. Counted(h + 1)'
  <2>1. ASSUME NEW d \in Slots, Dist(Oldest, d) < Looked
        PROVE  /\ fl'[d] = Dist(Oldest, d) + Back + 1
               /\ ls'[d] = (pc # "poll" /\ Dist(Oldest, d) + 1 = Looked)
    <3>1. d # dmaDesc
      BY <1>1, <1>3, <1>6, <2>1
    <3>2. /\ fl[d] = Dist(Oldest, d) + Back + 1
          /\ ls[d] = (pc # "poll" /\ Dist(Oldest, d) + 1 = Looked)
      BY <2>1 DEF Ring, Counted
    <3> QED
      BY <1>5, <3>1, <3>2
  <2>2. Looked \in 0 .. h + 1
    BY <1>1
  <2>3. ASSUME NEW d \in Slots, Dist(Oldest, d) + 1 = Looked
        PROVE  DataSegs(d)' = DataSegs(d)
    <3>1. d # dmaDesc
      BY <1>1, <1>3, <1>6, <2>3
    <3>2. bare'[d] = bare[d]
      BY <3>1 DEF DmaMove, TypeOK
    <3> QED
      BY <1>5, <3>1, <3>2 DEF DataSegs
  <2> QED
    BY <1>2, <2>1, <2>2, <2>3 DEF Ring, Counted
<1>10. h + 1 \in 0 .. ETH_RXBUFNB
  BY <1>1
<1> QED
  BY <1>7, <1>8, <1>9, <1>10 DEF Ring

\* The steps of either side that leave every descriptor where it is.
LEMMA OtherRing ==
  ASSUME TypeOK, Incoming, NEW h \in 0 .. ETH_RXBUFNB, Ring(h),
         \/ CheckRBUS \/ Input
         \/ DmaFetch \/ DmaSuspend \/ \E f \in Frames : Arrive(f)
         \/ UNCHANGED vars
  PROVE  Ring(h)'
<1>1. CASE CheckRBUS \/ Input
  <2>1. /\ pc \in {"rbus", "input"} /\ pc' \in {"input", "poll"}
        /\ UNCHANGED <<own, fs, ls, fl, dmaDesc, moved, Seg_Count,
                       DMARxDescToGet>>
        /\ dma' = "holding" => dma = "holding"
    BY <1>1 DEF CheckRBUS, Input, ring, hw
  <2>2. Seg_Count = 0
    BY <2>1 DEF Ring, Counted
  <2>3. /\ Back = 0 /\ Back' = 0 /\ Looked = 0 /\ Looked' = 0
        /\ Oldest = DMARxDescToGet /\ Oldest' = DMARxDescToGet
    BY <2>1, <2>2 DEF Back, Looked, Oldest
  <2>4. Window(h)' /\ Contents(h)'
    BY <2>1, <2>3, WindowStands
  <2>5. Counted(h)'
    <3>1. Oldest \in Slots
      BY TypeFacts
    <3>2. \A d \in Slots : ~(Dist(Oldest, d) < 0)
      BY <3>1, RingFacts
    <3>3. DMARxDescToGet = Adv(Oldest, 0)
      BY <2>3, <3>1, AdvFacts, RingAssumption
    <3>4. 0 \in 0 .. h
      BY RingAssumption
    <3> QED
      BY <2>1, <2>2, <2>3, <3>2, <3>3, <3>4 DEF Counted
  <2> QED
    BY <2>4, <2>5 DEF Ring
<1>2. CASE \/ DmaFetch \/ DmaSuspend \/ \E f \in Frames : Arrive(f)
           \/ UNCHANGED vars
  <2>1. UNCHANGED <<ring, cpu, dmaDesc>>
    BY <1>2 DEF DmaFetch, DmaSuspend, Arrive, vars, ring, cpu
  <2>2. Oldest' = Oldest /\ Back' = Back /\ Looked' = Looked
    BY <2>1 DEF cpu, Oldest, Back, Looked
  <2>3. moved' = moved
    BY <1>2 DEF DmaFetch, DmaSuspend, Arrive, vars, Incoming, TypeOK
  <2>4. dma' = "holding" => dma = "holding" \/ own[dmaDesc]
    BY <1>2 DEF DmaFetch, DmaSuspend, Arrive, vars
  <2>5. Window(h)' /\ Contents(h)'
    BY <2>1, <2>2, <2>3, <2>4, WindowStands DEF ring
  <2>6. Counted(h)'
    <3>1. \A d \in Slots : DataSegs(d)' = DataSegs(d)
      BY <2>1 DEF DataSegs, ring
    <3> QED
      BY <2>1, <2>2, <3>1 DEF Ring, Counted, ring, cpu
  <2> QED
    BY <2>5, <2>6 DEF Ring
<1> QED
  BY <1>1, <1>2

\* The invariant holds initially.
LEMMA InitInvariant == Init => IInv
<1> SUFFICES ASSUME Init PROVE IInv
  OBVIOUS
<1> USE RingAssumption
<1>1. TypeOK
  <2>1. 0 \in Slots /\ 0 \in 0 .. MaxSegs /\ 0 \in 0 .. ETH_RXBUFNB
    BY DEF Slots
  <2>2. buf \in [Slots -> Segments]
    BY DEF Init, Segments
  <2> QED
    BY <2>1, <2>2 DEF Init, TypeOK, CpuStates, DmaStates
<1>2. Incoming
  BY DEF Init, Incoming
<1>3. Oldest = 0 /\ Back = 0 /\ Looked = 0 /\ 0 \in Slots
  BY DEF Init, Oldest, Back, Looked, Slots
<1>4. \A d \in Slots : ~(Dist(0, d) < 0)
  BY <1>3, RingFacts
<1>5. Adv(0, 0) = 0
  BY DEF Adv
<1>6. Window(0)
  BY <1>3, <1>4, <1>5 DEF Init, Window
<1>7. Contents(0)
  BY <1>3, <1>4 DEF Init, Contents
<1>8. Counted(0)
  <2>1. pc = "poll" /\ Seg_Count = 0 /\ DMARxDescToGet = 0
    BY DEF Init
  <2> QED
    BY <1>3, <1>4, <1>5, <2>1 DEF Counted
<1> QED
  BY <1>1, <1>2, <1>6, <1>7, <1>8 DEF IInv

\* Every step keeps it.
LEMMA NextInvariant == IInv /\ [Next]_vars => IInv'
<1> SUFFICES ASSUME IInv, [Next]_vars PROVE IInv'
  OBVIOUS
<1>1. TypeOK /\ Incoming
  BY DEF IInv
<1>2. TypeOK' /\ Incoming'
  <2>1. CASE Next
    BY <1>1, <2>1, TypeStep, IncomingStep
  <2>2. CASE UNCHANGED vars
    BY <1>1, <2>2 DEF vars, TypeOK, Incoming
  <2> QED
    BY <2>1, <2>2
<1>3. PICK h \in 0 .. ETH_RXBUFNB : Ring(h)
  BY DEF IInv, Ring
<1>4. \E g \in 0 .. ETH_RXBUFNB : Ring(g)'
  <2>1. CASE CheckLast \/ CheckFirst \/ CheckMiddle
    BY <1>1, <1>3, <2>1, CheckRing
  <2>2. ASSUME NEW a \in BOOLEAN, GetFrame(a)
        PROVE  \E g \in 0 .. ETH_RXBUFNB : Ring(g)'
    BY <1>1, <1>3, <2>2, GetRing
  <2>3. CASE CopySegment
    BY <1>1, <1>3, <2>3, CopyRing
  <2>4. CASE ReleaseDesc
    BY <1>1, <1>3, <2>4, ReleaseRing
  <2>5. CASE DmaMove
    BY <1>1, <1>3, <2>5, MoveRing
  <2>6. CASE \/ CheckRBUS \/ Input
             \/ DmaFetch \/ DmaSuspend \/ \E f \in Frames : Arrive(f)
             \/ UNCHANGED vars
    BY <1>1, <1>3, <2>6, OtherRing
  <2> QED
    BY <2>1, <2>2, <2>3, <2>4, <2>5, <2>6 DEF Next, CpuStep, DmaStep
<1> QED
  BY <1>2, <1>4 DEF IInv, Ring

\* In every state the program reaches, the CPU and the engine agree on whose
\* each descriptor is, and the CPU's count of segments, the lengths and the
\* flags in the descriptors on where each frame begins and ends.
THEOREM Inductive == Spec => []IInv
<1> QED
  BY InitInvariant, NextInvariant, PTL DEF Spec

-----------------------------------------------------------------------------
(* What follows from it.                                                   *)

\* low_level_input reads no buffer the engine may be filling and none of
\* another frame: the length the last descriptor tells is what
\* ETH_CheckFrameReceived has counted, without the CRC.
THEOREM CopiesOwnFrame == Spec => []CopyStaysInFrame
<1>1. IInv => CopyStaysInFrame
  <2> SUFFICES ASSUME IInv, pc = "copy"
               PROVE  /\ ~own[DMARxDesc]
                      /\ Dist(FS_Rx_Desc, DMARxDesc) < Seg_Count
                      /\ \E d \in Slots :
                           /\ Dist(FS_Rx_Desc, d) + 1 = Seg_Count
                           /\ len = IF bare[d] THEN Seg_Count - 1 ELSE Seg_Count
    BY DEF CopyStaysInFrame
  <2> USE RingAssumption
  <2>1. PICK h \in 0 .. ETH_RXBUFNB : Ring(h)
    BY DEF IInv, Ring
  <2>2. /\ Looked \in 0 .. h /\ len <= Seg_Count /\ i < len
        /\ DMARxDesc = Adv(Oldest, i)
        /\ \A d \in Slots : ~own[d] <=> Dist(Oldest, d) < h
    BY <2>1 DEF Ring, Counted, Window
  <2>3. /\ i \in Nat /\ Seg_Count \in Nat /\ Oldest \in Slots
        /\ DMARxDesc \in Slots /\ len \in Nat
    BY TypeFacts DEF IInv, TypeOK
  <2>4. Looked = Seg_Count /\ Back = 0 /\ Oldest = FS_Rx_Desc
    BY <2>2, <2>3 DEF Looked, Back, Oldest
  <2>5. i < h /\ i \in 0 .. ETH_RXBUFNB /\ i < ETH_RXBUFNB
    BY <2>2, <2>3, <2>4
  <2>6. Dist(Oldest, DMARxDesc) = i
    BY <2>2, <2>3, <2>5, AdvFacts
  <2>7. PICK d \in Slots : Dist(Oldest, d) = Seg_Count - 1
    <3>1. Seg_Count - 1 \in 0 .. ETH_RXBUFNB /\ Seg_Count - 1 < ETH_RXBUFNB
      BY <2>2, <2>3, <2>4
    <3> QED
      BY <2>3, <3>1, AdvFacts
  <2>8. Dist(Oldest, d) + 1 = Seg_Count
    BY <2>3, <2>7
  <2>9. len = DataSegs(d)
    BY <2>1, <2>4, <2>8 DEF Ring, Counted
  <2>10. fl[d] = Seg_Count
    <3>1. Dist(Oldest, d) < Looked
      BY <2>3, <2>4, <2>7
    <3>2. fl[d] = Dist(Oldest, d) + Back + 1
      BY <2>1, <3>1 DEF Ring, Counted
    <3> QED
      BY <2>3, <2>4, <2>7, <3>2
  <2> QED
    BY <2>2, <2>3, <2>4, <2>5, <2>6, <2>8, <2>9, <2>10 DEF DataSegs
<1> QED
  BY <1>1, Inductive, PTL

\* The CPU keeps no descriptor but those of a frame that is still coming in,
\* although a frame may find no pbuf or be cut off, and no index leaves the
\* ring.
THEOREM NoneLost == Spec => []NoDescriptorLost
<1>1. IInv => NoDescriptorLost
  <2> SUFFICES ASSUME IInv, pc = "poll", own[DMARxDescToGet]
               PROVE  \A d \in Slots :
                         ~own[d] <=> Dist(FS_Rx_Desc, d) < Seg_Count
    BY DEF NoDescriptorLost, IInv
  <2> USE RingAssumption
  <2>1. PICK h \in 0 .. ETH_RXBUFNB : Ring(h)
    BY DEF IInv, Ring
  <2>2. /\ Looked = Seg_Count
        /\ Looked \in 0 .. h /\ DMARxDescToGet = Adv(Oldest, Looked)
        /\ \A d \in Slots : ~own[d] <=> Dist(Oldest, d) < h
    <3>1. Seg_Count \in Nat
      BY TypeFacts DEF IInv
    <3> QED
      BY <2>1, <3>1 DEF Ring, Counted, Window, Looked, Back
  <2>3. Oldest \in Slots /\ DMARxDescToGet \in Slots /\ FS_Rx_Desc \in Slots
    BY TypeFacts DEF IInv, TypeOK
  <2>4. h = Looked
    <3>1. CASE Looked < ETH_RXBUFNB
      <4>1. Dist(Oldest, DMARxDescToGet) = Looked
        BY <2>2, <2>3, <3>1, AdvFacts
      <4> QED
        BY <2>2, <2>3, <4>1
    <3>2. CASE ~(Looked < ETH_RXBUFNB)
      BY <2>2, <3>2
    <3> QED
      BY <3>1, <3>2
  <2>5. CASE Seg_Count = 0
    <3>1. \A d \in Slots : Dist(Oldest, d) >= 0 /\ Dist(FS_Rx_Desc, d) >= 0
      BY <2>3, RingFacts
    <3>2. \A d \in Slots : ~(Dist(Oldest, d) < 0) /\ ~(Dist(FS_Rx_Desc, d) < 0)
      BY <2>3, <3>1, RingFacts
    <3> QED
      BY <2>2, <2>4, <2>5, <3>2
  <2>6. CASE Seg_Count # 0
    <3>1. Oldest = FS_Rx_Desc
      BY <2>2, <2>6 DEF Oldest
    <3> QED
      BY <2>2, <2>4, <3>1
  <2> QED
    BY <2>5, <2>6
<1> QED
  BY <1>1, Inductive, PTL

-----------------------------------------------------------------------------
(* The ring implements FrameInbox.                                         *)

\* What the CPU's buffers hold: one segment after the other of the frames
\* that filled them, and of the one that still comes in.
Buffers(h) ==
  /\ \A d \in Slots : Dist(Oldest, d) < h => buf[d].seg = fl[d]
  /\ \A d, e \in Slots :
       /\ Dist(Oldest, d) < h
       /\ Dist(Oldest, e) < h
       /\ Dist(Oldest, d) + fl[e] = Dist(Oldest, e) + fl[d]
       => buf[d].payload = buf[e].payload /\ buf[d].segs = buf[e].segs
  /\ \A d \in Slots :
       Dist(Oldest, d) + 1 = h /\ ~ls[d]
       => buf[d].payload = arriving.payload /\ buf[d].segs = arriving.segs

\* Nothing has been copied of a frame that has not been taken.
NotCopied == pc \in {"poll", "get"} => p = <<>>

RInv ==
  /\ TypeOK
  /\ Incoming
  /\ NotCopied
  /\ \E h \in 0 .. ETH_RXBUFNB : Ring(h) /\ Buffers(h)

\* Where the window ends tells where it begins.
LEMMA AdvInjective ==
  ASSUME NEW d \in Slots, NEW e \in Slots, NEW c \in 0 .. ETH_RXBUFNB,
         Adv(d, c) = Adv(e, c)
  PROVE  d = e
BY RingAssumption, SMT DEF Slots, Adv

\* A step that moves neither end of the window.
LEMMA SameOldest ==
  ASSUME TypeOK, TypeOK', NEW h \in 0 .. ETH_RXBUFNB,
         Ring(h), Ring(h)', dmaDesc' = dmaDesc
  PROVE  Oldest' = Oldest
<1>1. Oldest \in Slots /\ dmaDesc = Adv(Oldest, h)
  BY TypeFacts DEF Ring, Window
<1>2. Oldest' \in Slots /\ dmaDesc' = Adv(Oldest', h)
  <2>1. (TypeOK => Oldest \in Slots)'
    BY TypeFacts, PTL
  <2>2. (Ring(h) => dmaDesc = Adv(Oldest, h))'
    BY DEF Ring, Window
  <2> QED
    BY <2>1, <2>2 DEF Adv
<1> QED
  BY <1>1, <1>2, AdvInjective

\* The CPU reads the descriptors; the engine writes none and brings nothing
\* of the frame that comes in.
LEMMA BuffersStand ==
  ASSUME TypeOK, TypeOK', Incoming, NEW h \in 0 .. ETH_RXBUFNB,
         Ring(h), Ring(h)', Buffers(h),
         UNCHANGED <<ls, fl, buf, dmaDesc>>,
         arriving' = arriving \/ moved = 0
  PROVE  Buffers(h)'
<1> USE RingAssumption
<1>1. Oldest' = Oldest
  BY SameOldest
<1>2. ASSUME NEW d \in Slots, Dist(Oldest, d) + 1 = h, ~ls[d]
      PROVE  arriving' = arriving
  <2>1. moved = fl[d] /\ fl[d] >= 1
    <3>1. Dist(Oldest, d) < h
      BY <1>2, TypeFacts, RingFacts
    <3> QED
      BY <1>2, <3>1 DEF Ring, Contents
  <2>2. moved # 0
    BY <2>1, TypeFacts
  <2> QED
    BY <2>2
<1> QED
  BY <1>1, <1>2 DEF Buffers

\* The engine takes the oldest descriptor back.
LEMMA BuffersReleased ==
  ASSUME TypeOK, TypeOK', NEW h \in 0 .. ETH_RXBUFNB, h - 1 \in 0 .. ETH_RXBUFNB,
         Ring(h), Ring(h - 1)', Buffers(h), ReleaseDesc
  PROVE  Buffers(h - 1)' /\ Oldest' = NextDesc(Oldest)
<1> USE RingAssumption
<1>1. /\ pc = "release" /\ Oldest = DMARxDesc
      /\ UNCHANGED <<dmaDesc, buf, arriving>>
      /\ ls' = [ls EXCEPT ![Oldest] = FALSE]
      /\ fl' = [fl EXCEPT ![Oldest] = 0]
  BY DEF ReleaseDesc, hw, Oldest
<1>2. /\ Oldest \in Slots /\ dmaDesc = Adv(Oldest, h) /\ h >= 1
      /\ NextDesc(Oldest) \in Slots
  BY TypeFacts, RingFacts DEF Ring, Window
<1>3. Oldest' \in Slots /\ dmaDesc' = Adv(Oldest', h - 1)
  <2>1. (TypeOK => Oldest \in Slots)'
    BY TypeFacts, PTL
  <2>2. (Ring(h - 1) => dmaDesc = Adv(Oldest, h - 1))'
    BY DEF Ring, Window
  <2> QED
    BY <2>1, <2>2 DEF Adv
<1>4. Oldest' = NextDesc(Oldest)
  <2>1. Adv(NextDesc(Oldest), h - 1) = Adv(Oldest, h)
    BY <1>2, AdvFacts
  <2> QED
    BY <1>1, <1>2, <1>3, <2>1, AdvInjective
<1>5. \A d \in Slots : Dist(Oldest', d) < h - 1 =>
        /\ d # Oldest
        /\ Dist(Oldest', d) = Dist(Oldest, d) - 1
        /\ Dist(Oldest, d) \in Nat /\ Dist(Oldest, d) < h
        /\ fl'[d] = fl[d] /\ ls'[d] = ls[d]
  <2> SUFFICES ASSUME NEW d \in Slots, Dist(Oldest', d) < h - 1
               PROVE  /\ d # Oldest
                      /\ Dist(Oldest', d) = Dist(Oldest, d) - 1
                      /\ Dist(Oldest, d) \in Nat /\ Dist(Oldest, d) < h
                      /\ fl'[d] = fl[d] /\ ls'[d] = ls[d]
    OBVIOUS
  <2>1. d # Oldest
    <3>1. Dist(NextDesc(Oldest), Oldest) = ETH_RXBUFNB - 1
      BY <1>2, NextDistBack
    <3> QED
      BY <1>4, <3>1
  <2>2. /\ Dist(Oldest', d) = Dist(Oldest, d) - 1
        /\ Dist(Oldest, d) \in Nat
    BY <1>2, <1>4, <2>1, RingFacts
  <2>3. fl'[d] = fl[d] /\ ls'[d] = ls[d]
    BY <1>1, <2>1 DEF TypeOK
  <2> QED
    BY <2>1, <2>2, <2>3
<1>6. ASSUME NEW d \in Slots, Dist(Oldest', d) < h - 1
      PROVE  buf[d].seg = fl'[d]
  BY <1>5, <1>6 DEF Buffers
<1>7. ASSUME NEW d \in Slots, NEW e \in Slots,
             Dist(Oldest', d) < h - 1, Dist(Oldest', e) < h - 1,
             Dist(Oldest', d) + fl'[e] = Dist(Oldest', e) + fl'[d]
      PROVE  buf[d].payload = buf[e].payload /\ buf[d].segs = buf[e].segs
  <2>1. Dist(Oldest, d) - 1 + fl[e] = Dist(Oldest, e) - 1 + fl[d]
    BY <1>5, <1>7
  <2>2. /\ Dist(Oldest, d) \in Nat /\ Dist(Oldest, e) \in Nat
        /\ fl[d] \in Nat /\ fl[e] \in Nat
    BY <1>5, <1>7, TypeFacts
  <2>3. Dist(Oldest, d) + fl[e] = Dist(Oldest, e) + fl[d]
    BY <2>1, <2>2
  <2> QED
    BY <1>5, <1>7, <2>3 DEF Buffers
<1>8. ASSUME NEW d \in Slots, Dist(Oldest', d) + 1 = h - 1, ~ls'[d]
      PROVE  buf[d].payload = arriving.payload /\ buf[d].segs = arriving.segs
  <2>1. Dist(Oldest', d) \in Nat
    BY <1>3, RingFacts
  <2>2. Dist(Oldest', d) < h - 1
    BY <1>8, <2>1
  <2>3. Dist(Oldest, d) + 1 = h /\ ~ls[d]
    BY <1>5, <1>8, <2>2
  <2> QED
    BY <2>3 DEF Buffers
<1>9. Buffers(h - 1)'
  BY <1>1, <1>6, <1>7, <1>8 DEF Buffers
<1> QED
  BY <1>4, <1>9

\* The engine fills a buffer.
LEMMA BuffersFilled ==
  ASSUME TypeOK, TypeOK', Incoming, NEW h \in 0 .. ETH_RXBUFNB,
         Ring(h), Buffers(h), DmaMove
  PROVE  Buffers(h + 1)'
<1> USE RingAssumption
<1>1. /\ Oldest \in Slots /\ dmaDesc \in Slots /\ moved \in Nat
      /\ h \in Nat /\ h < ETH_RXBUFNB
      /\ dmaDesc = Adv(Oldest, h) /\ arriving # NoFrame
  <2>1. h < ETH_RXBUFNB
    BY DEF DmaMove, Ring, Window
  <2> QED
    BY <2>1, TypeFacts DEF Ring, Window, DmaMove
<1>2. Oldest' = Oldest
  BY DEF DmaMove, cpu, Oldest
<1>3. Dist(Oldest, dmaDesc) = h
  BY <1>1, AdvFacts
<1> DEFINE ends == moved + 1 = arriving.segs \/ ~own[NextDesc(dmaDesc)]
<1>4. /\ ls' = [ls EXCEPT ![dmaDesc] = ends]
      /\ fl' = [fl EXCEPT ![dmaDesc] = moved + 1]
      /\ buf' = [buf EXCEPT ![dmaDesc] = Segment(arriving, moved + 1)]
      /\ arriving' = IF ends THEN NoFrame ELSE arriving
  BY DEF DmaMove
<1> HIDE DEF ends
<1>5. /\ ls'[dmaDesc] = ends /\ fl'[dmaDesc] = moved + 1
      /\ buf'[dmaDesc].seg = moved + 1
      /\ buf'[dmaDesc].payload = arriving.payload
      /\ buf'[dmaDesc].segs = arriving.segs
      /\ \A d \in Slots : d # dmaDesc => /\ ls'[d] = ls[d] /\ fl'[d] = fl[d]
                                         /\ buf'[d] = buf[d]
  BY <1>1, <1>4 DEF TypeOK, Segment
<1>6. \A d \in Slots : /\ Dist(Oldest, d) \in Nat
                       /\ Dist(Oldest, d) = h => d = dmaDesc
                       /\ Dist(Oldest, d) < h => d # dmaDesc
  <2> SUFFICES ASSUME NEW d \in Slots
               PROVE  /\ Dist(Oldest, d) \in Nat
                      /\ Dist(Oldest, d) = h => d = dmaDesc
                      /\ Dist(Oldest, d) < h => d # dmaDesc
    OBVIOUS
  <2>1. Dist(Oldest, d) \in Nat
    BY <1>1, RingFacts
  <2>2. Dist(Oldest, d) = h => d = dmaDesc
    BY <1>1, AdvFacts
  <2>3. d = dmaDesc => ~(Dist(Oldest, d) < h)
    BY <1>1, <1>3
  <2> QED
    BY <2>1, <2>2, <2>3
<1>7. \A d \in Slots : Dist(Oldest, d) < h + 1 /\ d # dmaDesc
                       => Dist(Oldest, d) < h
  BY <1>1, <1>6
\* The frame that comes in goes on from the last descriptor filled.
<1>8. ASSUME NEW d \in Slots, Dist(Oldest, d) < h,
             Dist(Oldest, d) + (moved + 1) = h + fl[d]
      PROVE  buf[d].payload = arriving.payload /\ buf[d].segs = arriving.segs
  <2> DEFINE last == Adv(Oldest, h - 1)
  <2>1. last \in Slots /\ Dist(Oldest, last) = h - 1
    BY <1>1, <1>6, <1>8, AdvFacts
  <2> HIDE DEF last
  <2>2. /\ Dist(Oldest, last) + 1 = h /\ Dist(Oldest, last) < h
        /\ Dist(Oldest, d) \in Nat /\ fl[d] \in Nat /\ fl[last] \in Nat
    BY <1>1, <1>6, <2>1, TypeFacts
  <2>3. fl[d] >= 1 /\ moved = IF ls[last] THEN 0 ELSE fl[last]
    BY <1>8, <2>1, <2>2 DEF Ring, Contents
  <2>4. ~ls[last]
    <3>1. moved # 0
      BY <1>1, <1>8, <2>2, <2>3
    <3> QED
      BY <2>3, <3>1
  <2>5. Dist(Oldest, d) + fl[last] = Dist(Oldest, last) + fl[d]
    BY <1>1, <1>8, <2>1, <2>2, <2>3, <2>4
  <2>6. buf[d].payload = buf[last].payload /\ buf[d].segs = buf[last].segs
    BY <1>8, <2>1, <2>2, <2>5 DEF Buffers
  <2>7. buf[last].payload = arriving.payload /\ buf[last].segs = arriving.segs
    BY <2>1, <2>2, <2>4 DEF Buffers
  <2> QED
    BY <2>6, <2>7
<1>9. ASSUME NEW d \in Slots, Dist(Oldest, d) < h + 1
      PROVE  buf'[d].seg = fl'[d]
  <2>1. CASE d = dmaDesc
    BY <1>5, <2>1
  <2>2. CASE d # dmaDesc
    BY <1>5, <1>7, <1>9, <2>2 DEF Buffers
  <2> QED
    BY <2>1, <2>2
<1>10. ASSUME NEW d \in Slots, NEW e \in Slots,
              Dist(Oldest, d) < h + 1, Dist(Oldest, e) < h + 1,
              Dist(Oldest, d) + fl'[e] = Dist(Oldest, e) + fl'[d]
       PROVE  buf'[d].payload = buf'[e].payload /\ buf'[d].segs = buf'[e].segs
  <2>0. Dist(Oldest, d) \in Nat /\ Dist(Oldest, e) \in Nat
        /\ fl[d] \in Nat /\ fl[e] \in Nat
    BY <1>6, TypeFacts
  <2>1. CASE d = dmaDesc /\ e = dmaDesc
    BY <2>1
  <2>2. CASE d = dmaDesc /\ e # dmaDesc
    <3>1. Dist(Oldest, e) + (moved + 1) = h + fl[e]
      BY <1>1, <1>3, <1>5, <1>10, <2>0, <2>2
    <3>2. buf[e].payload = arriving.payload /\ buf[e].segs = arriving.segs
      BY <1>7, <1>8, <1>10, <2>2, <3>1
    <3> QED
      BY <1>5, <2>2, <3>2
  <2>3. CASE d # dmaDesc /\ e = dmaDesc
    <3>1. Dist(Oldest, d) + (moved + 1) = h + fl[d]
      BY <1>1, <1>3, <1>5, <1>10, <2>0, <2>3
    <3>2. buf[d].payload = arriving.payload /\ buf[d].segs = arriving.segs
      BY <1>7, <1>8, <1>10, <2>3, <3>1
    <3> QED
      BY <1>5, <2>3, <3>2
  <2>4. CASE d # dmaDesc /\ e # dmaDesc
    BY <1>5, <1>7, <1>10, <2>4 DEF Buffers
  <2> QED
    BY <2>1, <2>2, <2>3, <2>4
<1>11. ASSUME NEW d \in Slots, Dist(Oldest, d) + 1 = h + 1, ~ls'[d]
       PROVE  /\ buf'[d].payload = arriving'.payload
              /\ buf'[d].segs = arriving'.segs
  <2>1. d = dmaDesc
    BY <1>1, <1>6, <1>11
  <2> QED
    BY <1>4, <1>5, <1>11, <2>1
<1> QED
  BY <1>2, <1>9, <1>10, <1>11 DEF Buffers

\* Nothing is copied before a frame is taken, and what was copied is gone
\* when the next one is looked for.
LEMMA NotCopiedStep == NotCopied /\ [Next]_vars => NotCopied'
BY DEF NotCopied, Next, vars, CpuStep, DmaStep, CheckLast, CheckFirst,
   CheckMiddle, GetFrame, AfterAlloc, CopySegment, ReleaseDesc, CheckRBUS,
   Input, DmaFetch, DmaMove, DmaSuspend, Arrive, cpu

\* Initially no descriptor is the CPU's.
LEMMA InitBuffers == Init => RInv
<1> SUFFICES ASSUME Init PROVE RInv
  OBVIOUS
<1>1. IInv /\ NotCopied
  BY InitInvariant DEF Init, NotCopied
<1>2. PICK h \in 0 .. ETH_RXBUFNB : Ring(h)
  BY <1>1 DEF IInv, Ring
<1>3. Oldest \in Slots /\ Dist(Oldest, Oldest) = 0
  BY <1>1, TypeFacts, RingFacts DEF IInv
<1>4. h = 0
  <2>1. own[Oldest]
    BY <1>3 DEF Init
  <2>2. ~(0 < h)
    BY <1>2, <1>3, <2>1 DEF Ring, Window
  <2> QED
    BY <2>2, RingAssumption
<1>5. \A d \in Slots : ~(Dist(Oldest, d) < 0) /\ Dist(Oldest, d) + 1 # 0
  BY <1>3, RingFacts, RingAssumption
<1>6. Buffers(h)
  BY <1>4, <1>5 DEF Buffers
<1> QED
  BY <1>1, <1>2, <1>6 DEF RInv, IInv

\* Every step keeps it.
LEMMA NextBuffers == RInv /\ [Next]_vars => RInv'
<1> SUFFICES ASSUME RInv, [Next]_vars PROVE RInv'
  OBVIOUS
<1>1. TypeOK /\ Incoming /\ NotCopied
  BY DEF RInv
<1>2. PICK h \in 0 .. ETH_RXBUFNB : Ring(h) /\ Buffers(h)
  BY DEF RInv
<1>3. IInv
  BY <1>1, <1>2 DEF IInv, Ring
<1>4. TypeOK' /\ Incoming' /\ NotCopied'
  BY <1>1, <1>3, NextInvariant, NotCopiedStep DEF IInv
<1>5. \E g \in 0 .. ETH_RXBUFNB : Ring(g)' /\ Buffers(g)'
  <2>1. CASE ReleaseDesc
    <3>1. h - 1 \in 0 .. ETH_RXBUFNB /\ Ring(h - 1)'
      BY <1>1, <1>2, <2>1, ReleaseRing
    <3> QED
      BY <1>1, <1>2, <1>4, <2>1, <3>1, BuffersReleased
  <2>2. CASE DmaMove
    <3>1. h + 1 \in 0 .. ETH_RXBUFNB /\ Ring(h + 1)'
      BY <1>1, <1>2, <2>2, MoveRing
    <3> QED
      BY <1>1, <1>2, <1>4, <2>2, <3>1, BuffersFilled
  <2>3. CASE CheckLast \/ CheckFirst \/ CheckMiddle
    <3>1. Ring(h)'
      BY <1>1, <1>2, <2>3, CheckRing
    <3>2. UNCHANGED <<ls, fl, buf, dmaDesc, arriving>>
      BY <2>3 DEF CheckLast, CheckFirst, CheckMiddle, ring, hw
    <3> QED
      BY <1>1, <1>2, <1>4, <3>1, <3>2, BuffersStand
  <2>4. ASSUME NEW a \in BOOLEAN, GetFrame(a)
        PROVE  \E g \in 0 .. ETH_RXBUFNB : Ring(g)' /\ Buffers(g)'
    <3>1. Ring(h)'
      BY <1>1, <1>2, <2>4, GetRing
    <3>2. UNCHANGED <<ls, fl, buf, dmaDesc, arriving>>
      BY <2>4 DEF GetFrame, ring, hw
    <3> QED
      BY <1>1, <1>2, <1>4, <3>1, <3>2, BuffersStand
  <2>5. CASE CopySegment
    <3>1. Ring(h)'
      BY <1>1, <1>2, <2>5, CopyRing
    <3>2. UNCHANGED <<ls, fl, buf, dmaDesc, arriving>>
      BY <2>5 DEF CopySegment, ring, hw
    <3> QED
      BY <1>1, <1>2, <1>4, <3>1, <3>2, BuffersStand
  <2>6. CASE \/ CheckRBUS \/ Input
             \/ DmaFetch \/ DmaSuspend \/ \E f \in Frames : Arrive(f)
             \/ UNCHANGED vars
    <3>1. Ring(h)'
      BY <1>1, <1>2, <2>6, OtherRing
    <3>2. UNCHANGED <<ls, fl, buf, dmaDesc>>
      BY <2>6 DEF CheckRBUS, Input, DmaFetch, DmaSuspend, Arrive, ring, hw, vars
    <3>3. arriving' = arriving \/ moved = 0
      <4>1. DmaSuspend => moved = 0
        BY <1>1 DEF DmaSuspend, Incoming, TypeOK
      <4>2. (\E f \in Frames : Arrive(f)) => moved = 0
        BY <1>1 DEF Arrive, Incoming
      <4> QED
        BY <2>6, <4>1, <4>2 DEF CheckRBUS, Input, DmaFetch, hw, vars
    <3> QED
      BY <1>1, <1>2, <1>4, <3>1, <3>2, <3>3, BuffersStand
  <2> QED
    BY <2>1, <2>2, <2>3, <2>4, <2>5, <2>6 DEF Next, CpuStep, DmaStep
<1> QED
  BY <1>4, <1>5 DEF RInv

Contained == [d \in Waiting |-> FrameOf(d)]

\* What FrameInbox's frames carry, with the segments got of each.
Entries == [payload : Payloads, segs : 1 .. MaxSegs, got : 0 .. MaxSegs]

\* The waiting descriptors can be put in order, and hold frames.
LEMMA WaitingRanked ==
  TypeOK => Ranked(Waiting, Ages) /\ Values(Contained, Waiting, Entries)
<1> SUFFICES ASSUME TypeOK
             PROVE  Ranked(Waiting, Ages) /\ Values(Contained, Waiting, Entries)
  OBVIOUS
<1> USE RingAssumption
<1>1. IsFiniteSet(Waiting)
  <2>1. IsFiniteSet(0 .. ETH_RXBUFNB - 1)
    BY FS_Interval
  <2>2. Waiting \in SUBSET (0 .. ETH_RXBUFNB - 1)
    BY DEF Waiting, Slots
  <2> QED
    BY <2>1, <2>2, FS_Subset
<1>2. \A d \in Waiting : /\ Ages[d] = Dist(dmaDesc, d)
                         /\ Ages[d] \in 0 .. ETH_RXBUFNB - 1
  BY RingFacts DEF TypeOK, Waiting, Ages
<1>3. \A d, e \in Slots : Dist(dmaDesc, d) = Dist(dmaDesc, e) => d = e
  BY DEF TypeOK, Slots, Dist
<1>4. Keyed(Waiting, Ages)
  <2>1. \A d \in Waiting : d \in Slots
    BY DEF Waiting
  <2>2. \A d \in Waiting : Ages[d] \in Nat
    BY <1>2
  <2>3. \A d, e \in Waiting : Ages[d] = Ages[e] => d = e
    BY <1>2, <1>3, <2>1
  <2> QED
    BY <2>2, <2>3 DEF Keyed
<1>5. Ranked(Waiting, Ages)
  <2>1. ETH_RXBUFNB - 1 \in Nat /\ \A d \in Waiting : Ages[d] <= ETH_RXBUFNB - 1
    BY <1>2
  <2> QED
    BY <1>1, <1>4, <2>1 DEF Ranked
<1>6. Values(Contained, Waiting, Entries)
  <2>1. \A d \in Waiting : FrameOf(d) \in Entries
    BY DataFacts DEF FrameOf, Waiting, TypeOK, Segments, Entries
  <2> QED
    BY <2>1 DEF Values, Contained
<1> QED
  BY <1>5, <1>6

\* The same in the next state.
LEMMA WaitingRankedNext ==
  TypeOK' => Ranked(Waiting', Ages') /\ Values(Contained', Waiting', Entries)
<1>1. (TypeOK => Ranked(Waiting, Ages) /\ Values(Contained, Waiting, Entries))'
  BY WaitingRanked, PTL
<1>2. Entries' = Entries
  BY DEF Entries
<1> QED
  BY <1>1, <1>2

\* Steps after which the same frames wait, the engine standing still or
\* moving past a descriptor that ends none.
LEMMA InboxKept ==
  ASSUME TypeOK, TypeOK', Waiting' = Waiting,
         \A d \in Waiting : FrameOf(d)' = FrameOf(d),
         \/ dmaDesc' = dmaDesc
         \/ dmaDesc' = NextDesc(dmaDesc) /\ dmaDesc \notin Waiting
  PROVE  WaitingFrames' = WaitingFrames
<1>1. SameOrder(Ages, Ages', Waiting)
  <2>1. CASE dmaDesc' = dmaDesc
    BY <2>1 DEF SameOrder, Ages
  <2>2. CASE dmaDesc' = NextDesc(dmaDesc) /\ dmaDesc \notin Waiting
    <3>1. ASSUME NEW d \in Waiting
          PROVE  /\ Dist(dmaDesc', d) = Dist(dmaDesc, d) - 1
                 /\ Dist(dmaDesc, d) \in Nat
      <4>1. d \in Slots /\ dmaDesc \in Slots /\ d # dmaDesc
        BY <2>2 DEF TypeOK, Waiting
      <4>2. Dist(dmaDesc, d) \in 0 .. ETH_RXBUFNB - 1
        BY <4>1, RingFacts
      <4>3. Dist(NextDesc(dmaDesc), d) = Dist(dmaDesc, d) - 1
        BY <4>1, RingFacts
      <4> QED
        BY <2>2, <4>2, <4>3
    <3>2. \A d \in Waiting : /\ Ages'[d] = Ages[d] - 1
                             /\ Ages[d] \in Nat
      BY <3>1 DEF Ages
    <3> QED
      BY <3>2 DEF SameOrder
  <2> QED
    BY <2>1, <2>2
<1>2. SameValues(Contained, Contained', Waiting)
  BY DEF SameValues, Contained
<1>3. /\ Ranked(Waiting, Ages) /\ Ranked(Waiting, Ages')
      /\ Values(Contained, Waiting, Entries)
      /\ Values(Contained', Waiting, Entries)
  BY WaitingRanked, WaitingRankedNext
<1>4. InKeyOrder(Waiting, Ages', Contained') = InKeyOrder(Waiting, Ages, Contained)
  BY <1>1, <1>2, <1>3, OrderKept
<1> QED
  BY <1>4 DEF WaitingFrames, Contained

\* The descriptors of the frame that has been taken are the oldest ones.
LEMMA HandFacts ==
  ASSUME TypeOK, NEW h \in 0 .. ETH_RXBUFNB, Ring(h)
  PROVE  \A d \in Slots : InHand(d) <=> /\ pc \in {"copy", "release"}
                                        /\ Dist(Oldest, d) < Looked
<1>1. CASE pc = "copy"
  <2>1. Seg_Count > 0
    BY <1>1, TypeFacts DEF Ring, Counted
  <2>2. Oldest = FS_Rx_Desc /\ Looked = Seg_Count
    BY <1>1, <2>1, TypeFacts DEF Oldest, Looked, Back
  <2> QED
    BY <1>1, <2>2 DEF InHand
<1>2. CASE pc = "release"
  BY <1>2 DEF InHand, Oldest, Looked, Back
<1>3. CASE pc \notin {"copy", "release"}
  BY <1>3 DEF InHand
<1> QED
  BY <1>1, <1>2, <1>3

\* The CPU's descriptors in the order the engine comes round to them.
LEMMA AgeFacts ==
  ASSUME TypeOK, NEW h \in 0 .. ETH_RXBUFNB, Ring(h)
  PROVE  /\ \A d \in Waiting : Dist(Oldest, d) < h /\ Dist(Oldest, d) \in Nat
         /\ \A d \in Waiting :
              Dist(dmaDesc, d) = Dist(Oldest, d) + ETH_RXBUFNB - h
<1> USE RingAssumption
<1>1. Oldest \in Slots /\ dmaDesc = Adv(Oldest, h)
  BY TypeFacts DEF Ring, Window
<1>2. \A d \in Waiting : /\ d \in Slots
                         /\ Dist(Oldest, d) < h /\ Dist(Oldest, d) \in Nat
  BY <1>1, RingFacts DEF Ring, Window, Waiting
<1>3. \A d \in Slots : Dist(Oldest, d) < h =>
         Dist(dmaDesc, d) = Dist(Oldest, d) + ETH_RXBUFNB - h
  BY <1>1, SMT DEF Slots, Dist, Adv
<1> QED
  BY <1>2, <1>3

\* The engine touches no buffer that is still to be copied.
LEMMA TakenStands ==
  ASSUME TypeOK, NEW h \in 0 .. ETH_RXBUFNB, Ring(h), UNCHANGED cpu,
         \A d \in Slots : Dist(Oldest, d) < h => buf'[d] = buf[d]
  PROVE  TakenFrame' = TakenFrame
<1> USE RingAssumption
<1>1. CASE pc = "copy"
  <2>1. /\ i \in Nat /\ i < len /\ len <= Seg_Count /\ len \in Nat
        /\ DMARxDesc = Adv(Oldest, i) /\ Oldest \in Slots
        /\ Looked \in 0 .. h /\ Seg_Count \in Nat
    BY <1>1, TypeFacts DEF Ring, Counted
  <2>2. Looked = Seg_Count
    BY <1>1, <2>1 DEF Looked, Back
  <2>3. ASSUME NEW k \in 1 .. len - i
        PROVE  buf'[Adv(DMARxDesc, k - 1)] = buf[Adv(DMARxDesc, k - 1)]
    <3>1. Adv(DMARxDesc, k - 1) = Adv(Oldest, i + (k - 1))
      BY <2>1, <2>2, SMT DEF Adv, Slots
    <3>2. i + (k - 1) \in 0 .. ETH_RXBUFNB /\ i + (k - 1) < h
          /\ i + (k - 1) < ETH_RXBUFNB
      BY <2>1, <2>2
    <3>3. /\ Adv(Oldest, i + (k - 1)) \in Slots
          /\ Dist(Oldest, Adv(Oldest, i + (k - 1))) = i + (k - 1)
      BY <2>1, <3>2, AdvFacts
    <3> QED
      BY <3>1, <3>2, <3>3
  <2>4. /\ pc' = pc /\ p' = p /\ len' = len /\ i' = i
        /\ DMARxDesc' = DMARxDesc
    BY DEF cpu
  <2>5. [k \in 1 .. len - i |-> buf[Adv(DMARxDesc, k - 1)]]'
          = [k \in 1 .. len - i |-> buf[Adv(DMARxDesc, k - 1)]]
    BY <2>3, <2>4 DEF Adv
  <2> QED
    BY <1>1, <2>4, <2>5 DEF TakenFrame
<1>2. CASE pc # "copy"
  BY <1>2 DEF TakenFrame, cpu
<1> QED
  BY <1>1, <1>2

\* The engine fills the last buffer of a frame, or the last one there is for
\* it: the frame has come in, behind all others.
LEMMA InboxComeIn ==
  ASSUME RInv, TypeOK', DmaMove,
         moved + 1 = arriving.segs \/ ~own[NextDesc(dmaDesc)]
  PROVE  Inbox!ComeIn(arriving, moved + 1)
<1> USE RingAssumption
<1>0. PICK h \in 0 .. ETH_RXBUFNB : Ring(h)
  BY DEF RInv
<1>1. /\ TypeOK /\ dmaDesc \in Slots /\ h < ETH_RXBUFNB /\ h \in Nat
      /\ Oldest \in Slots /\ dmaDesc = Adv(Oldest, h)
  <2>1. h < ETH_RXBUFNB
    BY <1>0 DEF DmaMove, Ring, Window
  <2> QED
    BY <1>0, <2>1, TypeFacts DEF RInv, Ring, Window
<1>2. Dist(Oldest, dmaDesc) = h
  BY <1>1, AdvFacts
<1>3. /\ dmaDesc' = NextDesc(dmaDesc)
      /\ own' = [own EXCEPT ![dmaDesc] = FALSE]
      /\ ls' = [ls EXCEPT ![dmaDesc] = TRUE]
      /\ fl' = [fl EXCEPT ![dmaDesc] = moved + 1]
      /\ bare' = [bare EXCEPT ![dmaDesc] =
                     moved + 1 = arriving.segs /\ arriving.bare]
      /\ buf' = [buf EXCEPT ![dmaDesc] = Segment(arriving, moved + 1)]
      /\ UNCHANGED cpu
  BY DEF DmaMove
<1>4. \A d \in Slots : InHand(d)' <=> InHand(d)
  BY <1>3 DEF InHand, cpu
<1>5. own[dmaDesc] /\ ~InHand(dmaDesc)
  <2>1. own[dmaDesc]
    BY <1>0, <1>1, <1>2 DEF Ring, Window
  <2>2. Looked <= h
    BY <1>0 DEF Ring, Counted
  <2>3. ~(Dist(Oldest, dmaDesc) < Looked)
    BY <1>1, <1>2, <2>2, TypeFacts
  <2> QED
    BY <1>0, <1>1, <2>1, <2>3, HandFacts
<1>6. Waiting' = Waiting \cup {dmaDesc} /\ dmaDesc \notin Waiting
  <2>1. own'[dmaDesc] = FALSE /\ ls'[dmaDesc] = TRUE
    BY <1>1, <1>3 DEF TypeOK
  <2>2. \A e \in Slots \ {dmaDesc} : own'[e] = own[e] /\ ls'[e] = ls[e]
    BY <1>1, <1>3 DEF TypeOK
  <2>3. PICK d : d = dmaDesc
    OBVIOUS
  <2>4. d \in Waiting' /\ d \notin Waiting
    <3>1. ~InHand(d)'
      BY <1>1, <1>4, <1>5, <2>3
    <3> QED
      BY <1>1, <1>5, <2>1, <2>3, <3>1 DEF Waiting
  <2>5. \A e \in Slots \ {d} : e \in Waiting' <=> e \in Waiting
    BY <1>4, <2>2, <2>3 DEF Waiting
  <2>6. Waiting' \in SUBSET Slots /\ Waiting \in SUBSET Slots /\ d \in Slots
    BY <1>1, <2>3 DEF Waiting, Slots
  <2>7. Waiting' = Waiting \cup {d}
    BY <2>4, <2>5, <2>6
  <2> QED
    BY <2>3, <2>4, <2>7
<1>7. \A e \in Waiting : /\ Dist(dmaDesc', e) = Dist(dmaDesc, e) - 1
                         /\ Dist(dmaDesc, e) \in 0 .. ETH_RXBUFNB - 1
  BY <1>1, <1>3, <1>6, RingFacts DEF Waiting
<1>8. /\ \A e \in Waiting : Ages'[e] = Ages[e] - 1 /\ Ages[e] \in Nat
      /\ \A e \in Waiting : Ages'[e] < Ages'[dmaDesc]
  <2>1. Ages'[dmaDesc] = ETH_RXBUFNB - 1
    BY <1>1, <1>3, <1>6, NextDistBack DEF Ages
  <2>2. \A e \in Waiting : /\ Ages'[e] = Ages[e] - 1
                           /\ Ages[e] \in 0 .. ETH_RXBUFNB - 1
    BY <1>6, <1>7 DEF Ages
  <2> QED
    BY <2>1, <2>2
<1>9. SameOrder(Ages, Ages', Waiting)
  BY <1>8 DEF SameOrder
<1> DEFINE frame == [payload |-> arriving.payload, segs |-> arriving.segs,
                     got |-> Inbox!DataOf(arriving, moved + 1)]
<1>10. Contained'[dmaDesc] = frame
  <2>1. /\ buf'[dmaDesc] = Segment(arriving, moved + 1)
        /\ fl'[dmaDesc] = moved + 1
        /\ bare'[dmaDesc] = (moved + 1 = arriving.segs /\ arriving.bare)
    BY <1>1, <1>3 DEF TypeOK
  <2>2. PICK d : d = dmaDesc
    OBVIOUS
  <2>3. /\ buf'[d].payload = arriving.payload
        /\ buf'[d].segs = arriving.segs
    BY <2>1, <2>2 DEF Segment
  <2>a. DataSegs(d)' = Inbox!DataOf(arriving, moved + 1)
    <3>1. DataSegs(d)' = IF bare'[d] THEN fl'[d] - 1 ELSE fl'[d]
      BY DEF DataSegs
    <3>2. fl'[d] = moved + 1
          /\ (bare'[d] <=> arriving.bare /\ moved + 1 = arriving.segs)
      BY <2>1, <2>2
    <3> QED
      BY <3>1, <3>2, Zenon DEF Inbox!DataOf
  <2>4. FrameOf(d)' = frame
    BY <2>3, <2>a DEF FrameOf
  <2>5. d \in Waiting'
    BY <1>6, <2>2
  <2>6. Contained'[d] = FrameOf(d)'
    BY <2>5 DEF Contained
  <2> QED
    BY <2>2, <2>4, <2>6
<1>11. SameValues(Contained, Contained', Waiting)
  <2>1. \A e \in Waiting : FrameOf(e)' = FrameOf(e)
    BY <1>3, <1>6 DEF FrameOf, DataSegs, TypeOK, Waiting
  <2> QED
    BY <1>6, <2>1 DEF SameValues, Contained
<1>12. /\ Ranked(Waiting, Ages) /\ Ranked(Waiting', Ages')
       /\ Values(Contained, Waiting, Entries)
       /\ Values(Contained', Waiting', Entries)
  BY <1>1, WaitingRanked, WaitingRankedNext
<1>13. IsLonger(InKeyOrder(Waiting', Ages', Contained'),
                InKeyOrder(Waiting, Ages, Contained), Contained'[dmaDesc])
  BY <1>6, <1>8, <1>9, <1>11, <1>12, OrderAppended
<1>14. WaitingFrames' = Append(WaitingFrames, frame)
  BY <1>10, <1>13 DEF WaitingFrames, Contained, IsLonger
<1>15. Len(WaitingFrames) < ETH_RXBUFNB
  <2>1. IsFiniteSet(Slots) /\ Cardinality(Slots) = ETH_RXBUFNB
    <3>1. 0 \in Int /\ ETH_RXBUFNB - 1 \in Int /\ ~(0 > ETH_RXBUFNB - 1)
      OBVIOUS
    <3> QED
      BY <3>1, FS_Interval DEF Slots
  <2>2. /\ IsFiniteSet(Slots \ {dmaDesc})
        /\ Cardinality(Slots \ {dmaDesc}) = ETH_RXBUFNB - 1
    BY <1>1, <2>1, FS_RemoveElement
  <2>3. Waiting \in SUBSET (Slots \ {dmaDesc})
    BY <1>6 DEF Waiting
  <2>4. Cardinality(Waiting) <= ETH_RXBUFNB - 1
    BY <2>2, <2>3, FS_Subset
  <2>5. Len(WaitingFrames) = Cardinality(Waiting)
    BY <1>12, OrderLength DEF WaitingFrames, Contained
  <2>6. Cardinality(Waiting) \in Nat
    BY <1>12, FS_CardinalityType DEF Ranked
  <2> QED
    BY <2>4, <2>5, <2>6
<1>16. TakenFrame' = TakenFrame
  <2>1. \A d \in Slots : Dist(Oldest, d) < h => buf'[d] = buf[d]
    BY <1>1, <1>2, <1>3 DEF TypeOK
  <2> QED
    BY <1>0, <1>1, <1>3, <2>1, TakenStands
<1> QED
  BY <1>14, <1>15, <1>16 DEF Inbox!ComeIn


\* The frame ETH_Get_Received_Frame takes, and its descriptors.
LEMMA TakenFacts ==
  ASSUME TypeOK, NEW h \in 0 .. ETH_RXBUFNB, Ring(h), pc = "get"
  PROVE  /\ Oldest = FS_Rx_Desc /\ Looked = Seg_Count
         /\ Looked \in Nat /\ Looked >= 1 /\ Looked <= h
         /\ Dist(Oldest, DMARxDescToGet) = Looked - 1
         /\ DMARxDescToGet \in Waiting
         /\ fl[DMARxDescToGet] = Looked
         /\ \A e \in Waiting : e = DMARxDescToGet \/ ~(Dist(Oldest, e) < Looked)
         /\ \A e \in Slots : Dist(Oldest, e) < Looked =>
              /\ fl[e] = Dist(Oldest, e) + 1
              /\ ls[e] = (e = DMARxDescToGet)
<1> USE RingAssumption
<1>1. /\ Looked \in 0 .. h /\ Looked # 0 /\ Looked = Seg_Count /\ Back = 0
      /\ Seg_Count \in Nat
  BY TypeFacts DEF Ring, Counted, Looked, Back
<1>2. Oldest = FS_Rx_Desc /\ Oldest \in Slots
  BY <1>1, TypeFacts DEF Oldest
<1>3. /\ DMARxDescToGet = Adv(Oldest, Looked - 1) /\ DMARxDescToGet \in Slots
      /\ Looked - 1 \in 0 .. ETH_RXBUFNB /\ Looked - 1 < ETH_RXBUFNB
  BY <1>1, TypeFacts DEF Ring, Counted
<1>4. /\ Dist(Oldest, DMARxDescToGet) = Looked - 1
      /\ \A e \in Slots : Dist(Oldest, e) = Looked - 1 => e = DMARxDescToGet
  BY <1>2, <1>3, AdvFacts
<1>5. ASSUME NEW e \in Slots, Dist(Oldest, e) < Looked
      PROVE  fl[e] = Dist(Oldest, e) + 1 /\ ls[e] = (e = DMARxDescToGet)
  <2>1. Dist(Oldest, e) \in 0 .. ETH_RXBUFNB - 1
    BY <1>2, RingFacts
  <2>2. /\ fl[e] = Dist(Oldest, e) + Back + 1
        /\ ls[e] = (pc # "poll" /\ Dist(Oldest, e) + 1 = Looked)
    BY <1>5 DEF Ring, Counted
  <2>3. (Dist(Oldest, e) + 1 = Looked) = (e = DMARxDescToGet)
    BY <1>1, <1>4, <2>1
  <2>4. ls[e] = (e = DMARxDescToGet)
    BY <2>2, <2>3
  <2> QED
    BY <1>1, <2>1, <2>2, <2>4
<1>6. Dist(Oldest, DMARxDescToGet) < Looked
  BY <1>1, <1>4
<1>7. fl[DMARxDescToGet] = Looked /\ ls[DMARxDescToGet]
  <2>1. /\ fl[DMARxDescToGet] = Dist(Oldest, DMARxDescToGet) + 1
        /\ ls[DMARxDescToGet] = (DMARxDescToGet = DMARxDescToGet)
    BY <1>3, <1>5, <1>6
  <2>2. fl[DMARxDescToGet] = Looked
    BY <1>1, <1>4, <2>1
  <2> QED
    BY <2>1, <2>2
<1>8. ~own[DMARxDescToGet]
  BY <1>1, <1>3, <1>4 DEF Ring, Window
<1>9. DMARxDescToGet \in Waiting
  BY <1>3, <1>7, <1>8 DEF Waiting, InHand
<1>10. \A e \in Waiting : e = DMARxDescToGet \/ ~(Dist(Oldest, e) < Looked)
  BY <1>5 DEF Waiting
<1> QED
  BY <1>1, <1>2, <1>4, <1>5, <1>7, <1>9, <1>10

\* What low_level_input will copy is the frame as it came.
LEMMA WholeFrame ==
  ASSUME TypeOK, NEW h \in 0 .. ETH_RXBUFNB, Ring(h), Buffers(h), pc = "get",
         NEW d, d = DMARxDescToGet
  PROVE  /\ fl[d] \in Nat
         /\ \A k \in 1 .. fl[d] : buf[Adv(FS_Rx_Desc, k - 1)]
              = [payload |-> buf[d].payload, segs |-> buf[d].segs, seg |-> k]
         /\ \A k \in 1 .. fl[d] : buf[Adv(FS_Rx_Desc, k - 1)] \in Segments
<1> USE RingAssumption
<1>1. /\ Oldest = FS_Rx_Desc /\ Oldest \in Slots
      /\ Looked \in Nat /\ Looked >= 1 /\ Looked <= h
      /\ Dist(Oldest, d) = Looked - 1 /\ fl[d] = Looked /\ d \in Slots
  BY TakenFacts, TypeFacts
<1>2. ASSUME NEW k \in 1 .. fl[d]
      PROVE  /\ buf[Adv(FS_Rx_Desc, k - 1)] = [payload |-> buf[d].payload,
                                               segs |-> buf[d].segs, seg |-> k]
             /\ buf[Adv(FS_Rx_Desc, k - 1)] \in Segments
  <2>1. /\ k - 1 \in 0 .. ETH_RXBUFNB /\ k - 1 < ETH_RXBUFNB
        /\ k - 1 < Looked /\ k \in Nat
    BY <1>1
  <2>2. PICK e : e = Adv(Oldest, k - 1)
    OBVIOUS
  <2>3. e \in Slots /\ Dist(Oldest, e) = k - 1
    BY <1>1, <2>1, <2>2, AdvFacts
  <2>4. fl[e] = k
    <3>1. fl[e] = Dist(Oldest, e) + 1
      BY <2>1, <2>3, TakenFacts
    <3> QED
      BY <2>1, <2>3, <3>1
  <2>5. Dist(Oldest, e) < h /\ Dist(Oldest, d) < h
    BY <1>1, <2>1, <2>3
  <2>6. buf[e].seg = k
    BY <2>3, <2>4, <2>5 DEF Buffers
  <2>7. Dist(Oldest, e) + fl[d] = Dist(Oldest, d) + fl[e]
    BY <1>1, <2>1, <2>3, <2>4
  <2>8. buf[e].payload = buf[d].payload /\ buf[e].segs = buf[d].segs
    BY <1>1, <2>3, <2>5, <2>7 DEF Buffers
  <2>9. buf[e] \in Segments
    BY <2>3 DEF TypeOK
  <2>10. buf[e] = [payload |-> buf[e].payload, segs |-> buf[e].segs,
                   seg |-> buf[e].seg]
    BY <2>9 DEF Segments
  <2> QED
    BY <1>1, <2>2, <2>6, <2>8, <2>9, <2>10
<1> QED
  BY <1>1, <1>2

\* ETH_Get_Received_Frame takes the oldest waiting frame, and low_level_input
\* copies all of it or nothing.
LEMMA InboxTaken ==
  ASSUME RInv, TypeOK', NEW allocated \in BOOLEAN, GetFrame(allocated)
  PROVE  Inbox!Take \/ Inbox!NoMemory
<1> USE RingAssumption
<1>0. PICK d : d = DMARxDescToGet
  OBVIOUS
<1>1. PICK h \in 0 .. ETH_RXBUFNB : Ring(h) /\ Buffers(h)
  BY DEF RInv
<1>2. TypeOK /\ pc = "get" /\ p = <<>>
  BY DEF GetFrame, RInv, NotCopied
<1>3. /\ Oldest = FS_Rx_Desc /\ Looked = Seg_Count
      /\ Looked \in Nat /\ Looked >= 1 /\ Looked <= h
      /\ Dist(Oldest, d) = Looked - 1 /\ d \in Waiting /\ d \in Slots
      /\ \A e \in Waiting : e = d \/ ~(Dist(Oldest, e) < Looked)
      /\ \A e \in Slots : Dist(Oldest, e) < Looked => ls[e] = (e = d)
  <2>1. d \in Waiting
    BY <1>0, <1>1, <1>2, TakenFacts
  <2> QED
    BY <1>0, <1>1, <1>2, <2>1, TakenFacts DEF Waiting
<1>4. /\ len' = DataSegs(d) /\ DMARxDesc' = FS_Rx_Desc /\ i' = 0 /\ p' = <<>>
      /\ UNCHANGED <<own, ls, fl, bare, buf, Seg_Count, FS_Rx_Desc, dmaDesc>>
      /\ pc' = IF allocated THEN "copy" ELSE "release"
  BY <1>0, <1>2 DEF GetFrame, FrameStart, AfterAlloc, ring, hw
<1>5. \A e \in Slots : InHand(e)' <=> Dist(Oldest, e) < Looked
  <2>1. Seg_Count - 0 = Seg_Count
    BY <1>3
  <2> QED
    BY <1>3, <1>4, <2>1 DEF InHand, Dist
<1>6. Waiting' = Waiting \ {d}
  <2>1. \A e \in Slots : ~InHand(e)
    BY <1>2 DEF InHand
  <2>2. \A e \in Slots : e \in Waiting <=> ~own[e] /\ ls[e]
    BY <2>1 DEF Waiting
  <2>3. \A e \in Slots : e \in Waiting'
                         <=> ~own[e] /\ ls[e] /\ ~(Dist(Oldest, e) < Looked)
    BY <1>4, <1>5 DEF Waiting
  <2>4. Dist(Oldest, d) < Looked
    BY <1>3
  <2>5. \A e \in Slots : e \in Waiting' <=> e \in Waiting /\ e # d
    BY <1>3, <2>2, <2>3, <2>4
  <2>6. Waiting' \in SUBSET Slots /\ Waiting \in SUBSET Slots
    BY DEF Waiting, Slots
  <2> QED
    BY <2>5, <2>6
<1>7. \A e \in Waiting \ {d} : Ages[d] < Ages[e]
  <2> SUFFICES ASSUME NEW e \in Waiting \ {d}
               PROVE  Dist(dmaDesc, d) < Dist(dmaDesc, e)
    BY <1>3 DEF Ages
  <2>1. /\ Dist(dmaDesc, e) = Dist(Oldest, e) + ETH_RXBUFNB - h
        /\ Dist(dmaDesc, d) = Dist(Oldest, d) + ETH_RXBUFNB - h
        /\ Dist(Oldest, e) \in Nat
    BY <1>1, <1>2, <1>3, AgeFacts
  <2>2. ~(Dist(Oldest, e) < Looked)
    BY <1>3
  <2> QED
    BY <1>3, <2>1, <2>2
<1>8. SameOrder(Ages, Ages', Waiting')
  BY <1>4, <1>6 DEF SameOrder, Ages, Dist
<1>9. SameValues(Contained, Contained', Waiting')
  BY <1>4, <1>6 DEF SameValues, Contained, FrameOf, DataSegs
<1>10. /\ Ranked(Waiting, Ages) /\ Ranked(Waiting', Ages')
       /\ Values(Contained, Waiting, Entries)
       /\ Values(Contained', Waiting', Entries)
  BY <1>2, WaitingRanked, WaitingRankedNext
<1>11. /\ InKeyOrder(Waiting, Ages, Contained) # <<>>
       /\ Head(InKeyOrder(Waiting, Ages, Contained)) = Contained[d]
       /\ IsShorter(InKeyOrder(Waiting', Ages', Contained'),
                    InKeyOrder(Waiting, Ages, Contained))
  BY <1>3, <1>6, <1>7, <1>8, <1>9, <1>10, OrderTail
<1>12. /\ WaitingFrames' = Tail(WaitingFrames) /\ WaitingFrames # <<>>
       /\ Head(WaitingFrames) = FrameOf(d)
  BY <1>3, <1>11 DEF WaitingFrames, Contained, IsShorter
<1>13. TakenFrame = <<>>
  BY <1>2 DEF TakenFrame
<1>14. CASE ~allocated
  <2>1. TakenFrame' = <<>>
    BY <1>4, <1>14 DEF TakenFrame
  <2> QED
    BY <1>12, <1>13, <2>1 DEF Inbox!NoMemory
<1>15. CASE allocated
  <2> DEFINE n == DataSegs(d)
  <2>1. /\ n \in Nat
        /\ \A k \in 1 .. n : buf[Adv(FS_Rx_Desc, k - 1)]
             = [payload |-> buf[d].payload, segs |-> buf[d].segs, seg |-> k]
        /\ \A k \in 1 .. n : buf[Adv(FS_Rx_Desc, k - 1)] \in Segments
    <3>1. n \in Nat /\ n <= fl[d]
      BY <1>2, <1>3, DataFacts
    <3>2. /\ fl[d] \in Nat
          /\ \A k \in 1 .. fl[d] : buf[Adv(FS_Rx_Desc, k - 1)]
               = [payload |-> buf[d].payload, segs |-> buf[d].segs, seg |-> k]
          /\ \A k \in 1 .. fl[d] : buf[Adv(FS_Rx_Desc, k - 1)] \in Segments
      BY <1>0, <1>1, <1>2, WholeFrame
    <3> HIDE DEF n
    <3>3. \A k \in 1 .. n : k \in 1 .. fl[d]
      BY <3>1, <3>2
    <3> QED
      BY <3>1, <3>2, <3>3
  <2>a. FrameOf(d) = [payload |-> buf[d].payload, segs |-> buf[d].segs, got |-> n]
    BY DEF FrameOf
  <2>b. len' = n
    BY <1>4
  <2> HIDE DEF n
  <2> DEFINE copy == [k \in 1 .. n |-> buf[Adv(FS_Rx_Desc, k - 1)]]
  <2>2. copy \in Seq(Segments)
    BY <2>1
  <2>3. copy = Inbox!Segs(FrameOf(d))
    BY <2>1, <2>a DEF Inbox!Segs
  <2>4. [k \in 1 .. len - i |-> buf[Adv(DMARxDesc, k - 1)]]' = copy
    <3>1. n - 0 = n
      BY <2>1
    <3> QED
      BY <1>4, <2>b, <3>1 DEF Adv
  <2>5. TakenFrame' = <<>> \o copy
    BY <1>4, <1>15, <2>4 DEF TakenFrame
  <2> HIDE DEF copy
  <2>6. TakenFrame' = copy
    BY <2>2, <2>5, ConcatEmptySeq
  <2> QED
    BY <1>12, <1>13, <2>3, <2>6 DEF Inbox!Take
<1> QED
  BY <1>14, <1>15


\* Moving the first of n elements that follow to the end of what precedes.
Shifts(s, n, f) ==
  /\ s \o [k \in 1 .. n |-> f[k]]
       = Append(s, f[1]) \o [k \in 1 .. n - 1 |-> f[k + 1]]
  /\ n = 1 => s \o [k \in 1 .. n |-> f[k]] = Append(s, f[1])

\* It changes nothing of the whole.
LEMMA ConcatShift ==
  ASSUME NEW S, NEW s \in Seq(S), NEW n \in Nat, n >= 1,
         NEW f, \A k \in 1 .. n : f[k] \in S
  PROVE  Shifts(s, n, f)
<1> DEFINE a == [k \in 1 .. n |-> f[k]]
           b == [k \in 1 .. n - 1 |-> f[k + 1]]
           u == Append(s, f[1])
<1>1. a \in Seq(S) /\ Len(a) = n /\ \A k \in 1 .. n : a[k] = f[k]
  OBVIOUS
<1>2. /\ b \in Seq(S) /\ Len(b) = n - 1
      /\ \A k \in 1 .. n - 1 : b[k] = f[k + 1]
  <2>1. \A k \in 1 .. n - 1 : f[k + 1] \in S
    OBVIOUS
  <2> QED
    BY <2>1
<1>3. /\ u \in Seq(S) /\ Len(u) = Len(s) + 1 /\ Len(s) \in Nat
      /\ \A k \in 1 .. Len(s) : u[k] = s[k]
      /\ u[Len(s) + 1] = f[1]
  BY AppendProperties
<1> HIDE DEF a, b, u
<1>4. /\ s \o a \in Seq(S) /\ Len(s \o a) = Len(s) + n
      /\ \A k \in 1 .. Len(s) + n :
           (s \o a)[k] = IF k <= Len(s) THEN s[k] ELSE a[k - Len(s)]
  BY <1>1, ConcatProperties
<1>5. /\ u \o b \in Seq(S) /\ Len(u \o b) = Len(s) + n
      /\ \A k \in 1 .. Len(s) + n :
           (u \o b)[k] = IF k <= Len(u) THEN u[k] ELSE b[k - Len(u)]
  <2>1. Len(u) + Len(b) = Len(s) + n
    BY <1>2, <1>3
  <2>2. /\ u \o b \in Seq(S) /\ Len(u \o b) = Len(u) + Len(b)
        /\ \A k \in 1 .. Len(u) + Len(b) :
             (u \o b)[k] = IF k <= Len(u) THEN u[k] ELSE b[k - Len(u)]
    BY <1>2, <1>3, ConcatProperties
  <2> QED
    BY <2>1, <2>2
<1>6. ASSUME NEW k \in 1 .. Len(s) + n PROVE (s \o a)[k] = (u \o b)[k]
  <2>1. CASE k <= Len(s)
    BY <1>3, <1>4, <1>5, <2>1
  <2>2. CASE k = Len(s) + 1
    <3>1. (s \o a)[k] = a[1]
      BY <1>3, <1>4, <2>2
    <3>2. (u \o b)[k] = u[k]
      BY <1>3, <1>5, <2>2
    <3> QED
      BY <1>1, <1>3, <2>2, <3>1, <3>2
  <2>3. CASE k > Len(s) + 1
    <3>1. PICK j : j = k - Len(s)
      OBVIOUS
    <3>2. j \in 2 .. n /\ j - 1 \in 1 .. n - 1
      BY <1>3, <2>3, <3>1
    <3>3. (s \o a)[k] = a[j]
      BY <1>3, <1>4, <2>3, <3>1
    <3>4. (u \o b)[k] = b[j - 1]
      <4>1. k - Len(u) = j - 1
        BY <1>3, <3>1
      <4> QED
        BY <1>3, <1>5, <2>3, <4>1
    <3>5. a[j] = f[j] /\ b[j - 1] = f[(j - 1) + 1] /\ (j - 1) + 1 = j
      BY <1>1, <1>2, <3>2
    <3> QED
      BY <3>3, <3>4, <3>5
  <2>4. k <= Len(s) \/ k = Len(s) + 1 \/ k > Len(s) + 1
    <3>1. PICK m \in Nat : m = Len(s)
      BY <1>3
    <3>2. k \in Nat
      BY <1>3
    <3> QED
      BY <3>1, <3>2
  <2> QED
    BY <2>1, <2>2, <2>3, <2>4, Zenon
<1>7. s \o a = u \o b
  BY <1>4, <1>5, <1>6, SeqEqual
<1>8. n = 1 => u \o b = u
  <2> SUFFICES ASSUME n = 1 PROVE u \o b = u
    OBVIOUS
  <2>1. b = <<>>
    BY <1>2, EmptySeq
  <2> QED
    BY <1>3, <2>1, ConcatEmptySeq
<1> QED
  BY <1>7, <1>8 DEF a, b, u, Shifts

\* One turn of the copy loop takes nothing and adds nothing.
LEMMA CopyTaken ==
  ASSUME TypeOK, NEW h \in 0 .. ETH_RXBUFNB, Ring(h), CopySegment
  PROVE  TakenFrame' = TakenFrame
<1> USE RingAssumption
<1>1. /\ pc = "copy" /\ i \in Nat /\ i < len /\ len <= Seg_Count
      /\ DMARxDesc = Adv(Oldest, i) /\ DMARxDesc \in Slots /\ len \in Nat
      /\ p \in Seq(Segments) /\ Looked \in 0 .. h /\ Looked = Seg_Count
      /\ p' = Append(p, buf[DMARxDesc]) /\ len' = len /\ buf' = buf
  BY TypeFacts DEF CopySegment, Ring, Counted, Looked, Back, TypeOK, ring
<1> DEFINE f == [k \in 1 .. len - i |-> buf[Adv(DMARxDesc, k - 1)]]
<1>2. ASSUME NEW k \in 1 .. len - i
      PROVE  /\ Adv(DMARxDesc, k - 1) \in Slots
             /\ k >= 2 => Adv(DMARxDesc, k - 1)
                            = Adv(NextDesc(DMARxDesc), k - 2)
  <2>1. k - 1 \in 0 .. ETH_RXBUFNB /\ k \in Nat
    BY <1>1
  <2>2. /\ Adv(DMARxDesc, k - 1) \in Slots
        /\ k - 1 >= 1 => Adv(NextDesc(DMARxDesc), (k - 1) - 1)
                           = Adv(DMARxDesc, k - 1)
    BY <1>1, <2>1, AdvFacts
  <2>3. (k - 1) - 1 = k - 2 /\ (k >= 2 => k - 1 >= 1)
    BY <2>1
  <2> QED
    BY <2>2, <2>3
<1>3. \A k \in 1 .. len - i : f[k] \in Segments
  BY <1>2 DEF TypeOK
<1>4. f[1] = buf[DMARxDesc] /\ 1 \in 1 .. len - i
  <2>1. 0 \in 0 .. ETH_RXBUFNB /\ 1 - 1 = 0 /\ 1 \in 1 .. len - i
    BY <1>1
  <2>2. Adv(DMARxDesc, 0) = DMARxDesc
    BY <1>1, <2>1, AdvFacts
  <2> QED
    BY <2>1, <2>2
<1>5. [k \in 1 .. len - i |-> f[k]] = f
  OBVIOUS
<1>6. TakenFrame = p \o f
  BY <1>1 DEF TakenFrame
<1>7. \A k \in 1 .. len - i - 1 :
         f[k + 1] = buf[Adv(NextDesc(DMARxDesc), k - 1)]
  <2> SUFFICES ASSUME NEW k \in 1 .. len - i - 1
               PROVE  f[k + 1] = buf[Adv(NextDesc(DMARxDesc), k - 1)]
    OBVIOUS
  <2>1. PICK j : j = k + 1
    OBVIOUS
  <2>2. /\ j \in 1 .. len - i /\ j >= 2 /\ j - 2 = k - 1
    BY <1>1, <2>1
  <2>3. f[j] = buf[Adv(DMARxDesc, j - 1)]
    BY <2>2
  <2>4. Adv(DMARxDesc, j - 1) = Adv(NextDesc(DMARxDesc), j - 2)
    BY <1>2, <2>2
  <2> QED
    BY <2>1, <2>2, <2>3, <2>4
<1> HIDE DEF f
<1>8. len - i \in Nat /\ len - i >= 1
  BY <1>1
<1>9. PICK n \in Nat : n = len - i
  BY <1>8
<1>10. Shifts(p, n, f)
  <2>1. \A k \in 1 .. n : f[k] \in Segments
    BY <1>3, <1>9
  <2> QED
    BY <1>1, <1>8, <1>9, <2>1, ConcatShift
<1>11. CASE i + 1 < len
  <2>1. pc' = "copy" /\ i' = i + 1 /\ DMARxDesc' = NextDesc(DMARxDesc)
    BY <1>11 DEF CopySegment
  <2>2. len' - i' = n - 1
    BY <1>1, <1>9, <2>1
  <2>3. [k \in 1 .. n - 1 |-> f[k + 1]]
          = [k \in 1 .. n - 1 |-> buf[Adv(NextDesc(DMARxDesc), k - 1)]]
    BY <1>7, <1>9
  <2>4. TakenFrame' = p' \o [k \in 1 .. n - 1 |-> buf[Adv(NextDesc(DMARxDesc), k - 1)]]
    BY <1>1, <2>1, <2>2 DEF TakenFrame, Adv
  <2> QED
    BY <1>1, <1>4, <1>5, <1>6, <1>9, <1>10, <2>3, <2>4 DEF Shifts
<1>12. CASE ~(i + 1 < len)
  <2>1. pc' = "release"
    BY <1>12 DEF CopySegment
  <2>2. n = 1
    BY <1>1, <1>9, <1>12
  <2>3. TakenFrame' = p'
    BY <2>1 DEF TakenFrame
  <2> QED
    BY <1>1, <1>4, <1>5, <1>6, <1>9, <1>10, <2>2, <2>3 DEF Shifts
<1> QED
  BY <1>11, <1>12


\* Giving a descriptor back takes it from the frame in hand, and none from
\* those that wait.
LEMMA ReleaseWaiting ==
  ASSUME TypeOK, NEW h \in 0 .. ETH_RXBUFNB, Ring(h), ReleaseDesc
  PROVE  /\ Waiting' = Waiting
         /\ \A d \in Waiting : FrameOf(d)' = FrameOf(d)
<1> USE RingAssumption
<1>0. PICK q : q = DMARxDesc
  OBVIOUS
<1>1. /\ pc = "release" /\ q \in Slots /\ Seg_Count \in Nat /\ i \in Nat
      /\ Looked \in 0 .. h /\ Looked # 0 /\ Looked = Seg_Count - i
      /\ own' = [own EXCEPT ![q] = TRUE] /\ ls' = [ls EXCEPT ![q] = FALSE]
      /\ fl' = [fl EXCEPT ![q] = 0] /\ buf' = buf
      /\ bare' = [bare EXCEPT ![q] = FALSE]
      /\ DMARxDesc' = NextDesc(q) /\ i' = i + 1
      /\ IF i + 1 >= Seg_Count THEN pc' = "rbus"
                               ELSE pc' = "release" /\ Seg_Count' = Seg_Count
  BY <1>0, TypeFacts DEF ReleaseDesc, Released, Ring, Counted, Looked, Back, TypeOK
<1>2. \A d \in Slots : Dist(q, d) \in Nat /\ (Dist(q, d) = 0 <=> q = d)
  BY <1>1, RingFacts
<1>3. \A d \in Slots \ {q} : Dist(NextDesc(q), d) = Dist(q, d) - 1
  BY <1>1, RingFacts
<1>4. \A d \in Slots : InHand(d) <=> Dist(q, d) < Seg_Count - i
  BY <1>0, <1>1 DEF InHand
<1>5. InHand(q)
  BY <1>1, <1>2, <1>4
<1>6. ASSUME NEW d \in Slots \ {q} PROVE InHand(d)' <=> InHand(d)
  <2>1. Dist(q, d) \in Nat /\ Dist(q, d) # 0
    BY <1>2
  <2>2. CASE i + 1 >= Seg_Count
    <3>1. ~InHand(d)'
      BY <1>1, <2>2 DEF InHand
    <3>2. ~InHand(d)
      BY <1>1, <1>4, <2>1, <2>2
    <3> QED
      BY <3>1, <3>2
  <2>3. CASE ~(i + 1 >= Seg_Count)
    <3>1. InHand(d)' <=> Dist(NextDesc(q), d) < Seg_Count - (i + 1)
      BY <1>1, <2>3 DEF InHand, Dist
    <3>2. Dist(NextDesc(q), d) = Dist(q, d) - 1
      BY <1>3
    <3>3. Dist(q, d) - 1 < Seg_Count - (i + 1) <=> Dist(q, d) < Seg_Count - i
      BY <1>1, <2>1
    <3> QED
      BY <1>4, <3>1, <3>2, <3>3
  <2> QED
    BY <2>2, <2>3
<1>7. /\ \A d \in Slots \ {q} : own'[d] = own[d] /\ ls'[d] = ls[d]
      /\ own'[q]
  BY <1>1 DEF TypeOK
<1>8. q \notin Waiting /\ q \notin Waiting'
  BY <1>5, <1>7 DEF Waiting
<1>9. \A d \in Slots \ {q} : d \in Waiting' <=> d \in Waiting
  BY <1>6, <1>7 DEF Waiting
<1>10. Waiting' \in SUBSET Slots /\ Waiting \in SUBSET Slots
  BY DEF Waiting, Slots
<1>11. Waiting' = Waiting
  BY <1>8, <1>9, <1>10
<1>12. \A d \in Waiting : d \in Slots /\ d # q
  BY <1>8, <1>10
<1>13. \A d \in Waiting : /\ fl'[d] = fl[d] /\ buf'[d] = buf[d]
                          /\ bare'[d] = bare[d]
  BY <1>1, <1>12 DEF TypeOK
<1>14. \A d \in Waiting : FrameOf(d)' = FrameOf(d)
  BY <1>13 DEF FrameOf, DataSegs
<1> QED
  BY <1>11, <1>14

\* The engine ends a frame.
Ending == DmaMove /\ (moved + 1 = arriving.segs \/ ~own[NextDesc(dmaDesc)])

\* A segment that does not end its frame makes nothing wait.
LEMMA MoveWaiting ==
  ASSUME TypeOK, NEW h \in 0 .. ETH_RXBUFNB, Ring(h), DmaMove, ~Ending
  PROVE  /\ Waiting' = Waiting
         /\ \A d \in Waiting : FrameOf(d)' = FrameOf(d)
         /\ dmaDesc' = NextDesc(dmaDesc) /\ dmaDesc \notin Waiting
         /\ TakenFrame' = TakenFrame
<1> USE RingAssumption
<1>0. PICK q : q = dmaDesc
  OBVIOUS
<1>1. /\ q \in Slots /\ h < ETH_RXBUFNB /\ Oldest \in Slots
      /\ q = Adv(Oldest, h)
      /\ dmaDesc' = NextDesc(q)
      /\ own' = [own EXCEPT ![q] = FALSE] /\ ls' = [ls EXCEPT ![q] = FALSE]
      /\ \A d \in Slots \ {q} : /\ fl'[d] = fl[d] /\ buf'[d] = buf[d]
                                /\ bare'[d] = bare[d]
      /\ UNCHANGED cpu
  <2>1. h < ETH_RXBUFNB
    BY DEF DmaMove, Ring, Window
  <2>2. \A d \in Slots \ {q} : /\ fl'[d] = fl[d] /\ buf'[d] = buf[d]
                               /\ bare'[d] = bare[d]
    BY <1>0 DEF DmaMove, TypeOK
  <2> QED
    BY <1>0, <2>1, <2>2, TypeFacts DEF DmaMove, Ending, Ring, Window
<1>2. Dist(Oldest, q) = h
  BY <1>1, AdvFacts
<1>3. own[q]
  <2>1. ~(Dist(Oldest, q) < h)
    BY <1>2
  <2> QED
    BY <1>1, <2>1 DEF Ring, Window
<1>4. \A d \in Slots : InHand(d)' <=> InHand(d)
  BY <1>1 DEF InHand, cpu
<1>5. /\ \A d \in Slots \ {q} : own'[d] = own[d] /\ ls'[d] = ls[d]
      /\ ~ls'[q]
  BY <1>1 DEF TypeOK
<1>6. q \notin Waiting /\ q \notin Waiting'
  BY <1>3, <1>5 DEF Waiting
<1>7. \A d \in Slots \ {q} : d \in Waiting' <=> d \in Waiting
  BY <1>4, <1>5 DEF Waiting
<1>8. Waiting' \in SUBSET Slots /\ Waiting \in SUBSET Slots
  BY DEF Waiting, Slots
<1>9. Waiting' = Waiting
  BY <1>6, <1>7, <1>8
<1>10. \A d \in Waiting : FrameOf(d)' = FrameOf(d)
  <2>1. \A d \in Waiting : d \in Slots \ {q}
    BY <1>6, <1>8
  <2> QED
    BY <1>1, <2>1 DEF FrameOf, DataSegs
<1>11. TakenFrame' = TakenFrame
  <2>1. \A d \in Slots : Dist(Oldest, d) < h => buf'[d] = buf[d]
    BY <1>1, <1>2
  <2> QED
    BY <1>1, <2>1, TakenStands
<1> QED
  BY <1>0, <1>1, <1>6, <1>9, <1>10, <1>11

\* Every step that neither ends a frame nor takes one leaves those that wait
\* alone; at most it passes the pbuf on.
LEMMA InboxStands ==
  ASSUME RInv, [Next]_vars, ~Ending, \A a \in BOOLEAN : ~GetFrame(a)
  PROVE  /\ Waiting' = Waiting
         /\ \A d \in Waiting : FrameOf(d)' = FrameOf(d)
         /\ \/ dmaDesc' = dmaDesc
            \/ dmaDesc' = NextDesc(dmaDesc) /\ dmaDesc \notin Waiting
         /\ TakenFrame' = TakenFrame \/ (TakenFrame # <<>> /\ TakenFrame' = <<>>)
<1>1. TypeOK
  BY DEF RInv
<1>2. PICK h \in 0 .. ETH_RXBUFNB : Ring(h)
  BY DEF RInv
<1>3. CASE DmaMove
  BY <1>1, <1>2, <1>3, MoveWaiting
<1>4. CASE ReleaseDesc
  <2>1. /\ Waiting' = Waiting
        /\ \A d \in Waiting : FrameOf(d)' = FrameOf(d)
    BY <1>1, <1>2, <1>4, ReleaseWaiting
  <2>2. dmaDesc' = dmaDesc /\ p' = p /\ pc = "release" /\ pc' # "copy"
    BY <1>4 DEF ReleaseDesc, hw
  <2>3. TakenFrame' = TakenFrame
    BY <2>2 DEF TakenFrame
  <2> QED
    BY <2>1, <2>2, <2>3
<1>5. ASSUME UNCHANGED <<own, ls, fl, bare, buf, dmaDesc>>,
             \A d \in Slots : InHand(d)' <=> InHand(d)
      PROVE  /\ Waiting' = Waiting
             /\ \A d \in Waiting : FrameOf(d)' = FrameOf(d)
             /\ dmaDesc' = dmaDesc
  BY <1>5 DEF Waiting, FrameOf, DataSegs, Slots
<1>6. CASE CopySegment
  <2>1. UNCHANGED <<own, ls, fl, bare, buf, dmaDesc>>
    BY <1>6 DEF CopySegment, ring, hw
  <2>2. /\ pc = "copy" /\ FS_Rx_Desc' = FS_Rx_Desc
        /\ Seg_Count' = Seg_Count /\ Seg_Count \in Nat
        /\ \/ pc' = "copy"
           \/ pc' = "release" /\ DMARxDesc' = FS_Rx_Desc /\ i' = 0
    BY <1>1, <1>6, TypeFacts DEF CopySegment
  <2>3. Seg_Count - 0 = Seg_Count
    BY <2>2
  <2>4. \A d \in Slots : InHand(d)' <=> InHand(d)
    BY <2>2, <2>3 DEF InHand, Dist
  <2> QED
    BY <1>1, <1>2, <1>5, <1>6, <2>1, <2>4, CopyTaken
<1>7. CASE CheckLast \/ CheckFirst \/ CheckMiddle
  <2>1. /\ UNCHANGED <<own, ls, fl, bare, buf, dmaDesc, p>>
        /\ pc = "poll" /\ pc' \in {"poll", "get"}
    BY <1>7 DEF CheckLast, CheckFirst, CheckMiddle, ring, hw
  <2>2. \A d \in Slots : ~InHand(d)' /\ ~InHand(d)
    BY <2>1 DEF InHand
  <2>3. TakenFrame' = TakenFrame
    BY <2>1 DEF TakenFrame
  <2> QED
    BY <1>5, <2>1, <2>2, <2>3
<1>8. CASE CheckRBUS \/ Input
  <2>1. /\ UNCHANGED <<own, ls, fl, bare, buf, dmaDesc>>
        /\ pc \in {"rbus", "input"} /\ pc' \in {"input", "poll"}
        /\ p' = p \/ p' = <<>>
    BY <1>8 DEF CheckRBUS, Input, ring, hw
  <2>2. \A d \in Slots : ~InHand(d)' /\ ~InHand(d)
    BY <2>1 DEF InHand
  <2>3. TakenFrame = p /\ TakenFrame' = p'
    BY <2>1 DEF TakenFrame
  <2> QED
    BY <1>5, <2>1, <2>2, <2>3
<1>9. CASE DmaFetch \/ DmaSuspend \/ (\E f \in Frames : Arrive(f)) \/ UNCHANGED vars
  <2>1. UNCHANGED <<own, ls, fl, bare, buf, dmaDesc>> /\ UNCHANGED cpu
    BY <1>9 DEF DmaFetch, DmaSuspend, Arrive, ring, cpu, vars
  <2>2. \A d \in Slots : InHand(d)' <=> InHand(d)
    BY <2>1 DEF InHand, cpu
  <2>3. TakenFrame' = TakenFrame
    BY <2>1 DEF TakenFrame, cpu, Adv
  <2> QED
    BY <1>5, <2>1, <2>2, <2>3
<1> QED
  BY <1>3, <1>4, <1>6, <1>7, <1>8, <1>9 DEF Next, CpuStep, DmaStep

\* An empty ring is an empty inbox.
LEMMA RefineInit == Init => Inbox!Init
<1> SUFFICES ASSUME Init PROVE WaitingFrames = <<>> /\ TakenFrame = <<>>
  BY DEF Inbox!Init
<1>1. TypeOK
  BY InitInvariant DEF IInv
<1>2. Waiting = {}
  BY DEF Init, Waiting
<1>3. Cardinality(Waiting) = 0
  BY <1>2, FS_EmptySet
<1>4. /\ Len(WaitingFrames) = Cardinality(Waiting)
      /\ WaitingFrames \in Seq(Entries)
  BY <1>1, WaitingRanked, OrderLength DEF WaitingFrames, Contained
<1>5. WaitingFrames = <<>>
  BY <1>3, <1>4, EmptySeq
<1> QED
  BY <1>5 DEF Init, TakenFrame

\* A step of the driver or of the engine is a step of the inbox or a stutter.
LEMMA RefineStep ==
  RInv /\ [Next]_vars => [Inbox!Next]_<<WaitingFrames, TakenFrame>>
<1> SUFFICES ASSUME RInv, [Next]_vars
             PROVE  [Inbox!Next]_<<WaitingFrames, TakenFrame>>
  OBVIOUS
<1>1. TypeOK /\ TypeOK'
  BY NextBuffers DEF RInv
<1>2. CASE Ending
  <2>1. Inbox!ComeIn(arriving, moved + 1)
    BY <1>1, <1>2, InboxComeIn DEF Ending
  <2>2. arriving \in Frames /\ moved + 1 \in 1 .. arriving.segs
    <3>1. arriving \in Frames /\ moved < arriving.segs /\ moved \in Nat
      BY <1>1, <1>2, TypeFacts DEF RInv, Incoming, TypeOK, Ending, DmaMove
    <3>2. arriving.segs \in Nat
      BY <3>1, RingAssumption, FramesAssumption
    <3> QED
      BY <3>1, <3>2
  <2> QED
    BY <2>1, <2>2 DEF Inbox!Next
<1>3. ASSUME NEW a \in BOOLEAN, GetFrame(a)
      PROVE  [Inbox!Next]_<<WaitingFrames, TakenFrame>>
  BY <1>1, <1>3, InboxTaken DEF Inbox!Next
<1>4. CASE ~Ending /\ \A a \in BOOLEAN : ~GetFrame(a)
  <2>1. /\ Waiting' = Waiting
        /\ \A d \in Waiting : FrameOf(d)' = FrameOf(d)
        /\ \/ dmaDesc' = dmaDesc
           \/ dmaDesc' = NextDesc(dmaDesc) /\ dmaDesc \notin Waiting
        /\ TakenFrame' = TakenFrame \/ (TakenFrame # <<>> /\ TakenFrame' = <<>>)
    BY <1>4, InboxStands
  <2>2. WaitingFrames' = WaitingFrames
    BY <1>1, <2>1, InboxKept
  <2>3. TakenFrame' = TakenFrame \/ Inbox!PassOn
    BY <2>1, <2>2 DEF Inbox!PassOn
  <2> QED
    BY <2>2, <2>3 DEF Inbox!Next
<1> QED
  BY <1>2, <1>3, <1>4

\* Frames reach the stack whole, each once and in the order they came: every
\* step of the ring, of the CPU and of the engine is a step of the inbox or
\* leaves it alone.
THEOREM Refines == Spec => ImplementsFrameInbox
<1>1. Spec => []RInv
  BY InitBuffers, NextBuffers, PTL DEF Spec
<1> QED
  BY <1>1, RefineInit, RefineStep, PTL DEF Spec, ImplementsFrameInbox, Inbox!Spec
=============================================================================
