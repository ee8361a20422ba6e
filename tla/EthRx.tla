------------------------------- MODULE EthRx --------------------------------
(***************************************************************************)
(* The receive path of the polling Ethernet driver.  The MAC's DMA engine  *)
(* fills a ring of ETH_RXBUFNB descriptors, each with one buffer; the main *)
(* loop polls the ring (ETH_CheckFrameReceived), and once the last segment *)
(* of a frame is there it takes the frame (ETH_Get_Received_Frame), copies *)
(* it to a pbuf, gives the descriptors back (low_level_input) and passes   *)
(* the pbuf to the stack (ethernetif_input).                               *)
(*                                                                         *)
(* The CPU and the engine run concurrently and share the descriptors, the  *)
(* buffers and the sticky bit RBUS ("receive buffer unavailable") of       *)
(* DMASR; every access of the CPU to them is a step of its own.  The       *)
(* engine is external: it is modelled from the protocol the driver follows *)
(* with it.  Lengths are counted in buffers: a frame of "segs" segments    *)
(* fills segs consecutive buffers, the last of which may be "bare", with   *)
(* nothing in it but bytes of the CRC.                                     *)
(***************************************************************************)
EXTENDS Naturals, Sequences

CONSTANTS
  ETH_RXBUFNB,  \* number of descriptors in the ring
  MaxSegs,      \* bound: buffers the longest frame fills
  Payloads,     \* what frames carry
  Frames        \* bound: the frames that may come in

ASSUME RingAssumption ==
  /\ ETH_RXBUFNB \in Nat \ {0, 1}
  /\ MaxSegs \in Nat \ {0}

\* The CRC is not all there is of a frame.
ASSUME FramesAssumption ==
  /\ Frames \subseteq [payload : Payloads, segs : 1 .. MaxSegs, bare : BOOLEAN]
  /\ \A f \in Frames : f.bare => f.segs > 1

VARIABLES
  own, fs, ls, fl,  \* OWN, FS, LS and the frame length, in each Status,
  bare,             \* whose last buffer holds but bytes of the CRC
  buf,              \* the segment each receive buffer holds
  DMARxDescToGet,   \* next descriptor the CPU will look at
  Seg_Count,        \* DMA_RX_FRAME_infos: segments seen of the frame ...
  FS_Rx_Desc,       \* ... and the descriptor of its first one
  pc,               \* where the CPU is in the main loop
  DMARxDesc,        \* low_level_input's descriptor pointer
  len,              \* length of the frame it is taking
  i,                \* segments copied, then descriptors released
  p,                \* segments copied to the pbuf
  RBUS,             \* sticky bit of DMASR
  dma,              \* what the DMA engine is doing
  dmaDesc,          \* the descriptor it is at
  arriving,         \* the frame that comes in, NoFrame when there is none
  moved             \* how many of its segments are in the ring

ring == <<own, fs, ls, fl, bare, buf>>
cpu  == <<DMARxDescToGet, Seg_Count, FS_Rx_Desc, pc, DMARxDesc, len, i, p>>
hw   == <<RBUS, dma, dmaDesc, arriving, moved>>
vars == <<own, fs, ls, fl, bare, buf, DMARxDescToGet, Seg_Count, FS_Rx_Desc,
          pc, DMARxDesc, len, i, p, RBUS, dma, dmaDesc, arriving, moved>>

Slots    == 0 .. ETH_RXBUFNB - 1
Segments == [payload : Payloads, segs : 1 .. MaxSegs, seg : 1 .. MaxSegs]
NoFrame  == [payload |-> "none", segs |-> 0, bare |-> FALSE]

\* Buffer2NextDescAddr: the chain closes on the first descriptor.
NextDesc(d) == IF d < ETH_RXBUFNB - 1 THEN d + 1 ELSE 0

\* Steps of the chain from descriptor d to descriptor e.
Dist(d, e) == IF e >= d THEN e - d ELSE e + ETH_RXBUFNB - d

\* Segment n of frame f.
Segment(f, n) == [payload |-> f.payload, segs |-> f.segs, seg |-> n]

CpuStates == {"poll", "get", "copy", "release", "rbus", "input"}
DmaStates == {"running", "holding", "idling", "suspended"}

-----------------------------------------------------------------------------
(* ETH_DMARxDescChainInit, then ETH_Start: the engine owns every           *)
(* descriptor and reception is enabled.                                    *)
Init ==
  /\ own = [d \in Slots |-> TRUE]
  /\ fs = [d \in Slots |-> FALSE]
  /\ ls = [d \in Slots |-> FALSE]
  /\ fl = [d \in Slots |-> 0]
  /\ bare = [d \in Slots |-> FALSE]
  /\ \E q \in Payloads :
       buf = [d \in Slots |-> [payload |-> q, segs |-> 1, seg |-> 1]]
  /\ DMARxDescToGet = 0
  /\ Seg_Count = 0
  /\ FS_Rx_Desc = 0
  /\ pc = "poll"
  /\ DMARxDesc = 0
  /\ len = 0
  /\ i = 0
  /\ p = <<>>
  /\ RBUS = FALSE
  /\ dma = "running"
  /\ dmaDesc = 0
  /\ arriving = NoFrame
  /\ moved = 0

-----------------------------------------------------------------------------
(* The CPU: ETH_CheckFrameReceived looks at one descriptor per turn of the *)
(* main loop, and does nothing while the engine owns it.                   *)

\* It is a frame's last one: the frame is complete.
CheckLast ==
  /\ pc = "poll"
  /\ ~own[DMARxDescToGet]
  /\ ls[DMARxDescToGet]
  /\ Seg_Count' = Seg_Count + 1
  /\ FS_Rx_Desc' = IF Seg_Count = 0 THEN DMARxDescToGet ELSE FS_Rx_Desc
  /\ pc' = "get"
  /\ UNCHANGED <<ring, DMARxDescToGet, DMARxDesc, len, i, p, hw>>

\* It is the first one of several.
CheckFirst ==
  /\ pc = "poll"
  /\ ~own[DMARxDescToGet]
  /\ fs[DMARxDescToGet] /\ ~ls[DMARxDescToGet]
  /\ Seg_Count' = 1
  /\ FS_Rx_Desc' = DMARxDescToGet
  /\ DMARxDescToGet' = NextDesc(DMARxDescToGet)
  /\ UNCHANGED <<ring, pc, DMARxDesc, len, i, p, hw>>

\* It is neither the first nor the last one.
CheckMiddle ==
  /\ pc = "poll"
  /\ ~own[DMARxDescToGet]
  /\ ~fs[DMARxDescToGet] /\ ~ls[DMARxDescToGet]
  /\ Seg_Count' = Seg_Count + 1
  /\ DMARxDescToGet' = NextDesc(DMARxDescToGet)
  /\ UNCHANGED <<ring, FS_Rx_Desc, pc, DMARxDesc, len, i, p, hw>>

\* frame.length, without the 4 bytes of the CRC, in a frame's last descriptor.
DataSegs(d) == IF bare[d] THEN fl[d] - 1 ELSE fl[d]

\* Mutant of FrameStart: the frame is taken from its last descriptor.
FrameStartLast == DMARxDescToGet

\* frame.descriptor.
FrameStart == FS_Rx_Desc

\* Mutant of AfterAlloc: low_level_input returns at once without a pbuf.
AfterAllocReturn(allocated) == IF allocated THEN "copy" ELSE "input"

\* Without a pbuf nothing is copied.
AfterAlloc(allocated) == IF allocated THEN "copy" ELSE "release"

\* ETH_Get_Received_Frame and pbuf_alloc, which may find no pbuf: then
\* nothing is copied, but the descriptors are released all the same.
GetFrame(allocated) ==
  /\ pc = "get"
  /\ len' = DataSegs(DMARxDescToGet)
  /\ DMARxDesc' = FrameStart
  /\ DMARxDescToGet' = NextDesc(DMARxDescToGet)
  /\ i' = 0
  /\ pc' = AfterAlloc(allocated)
  /\ UNCHANGED <<ring, Seg_Count, FS_Rx_Desc, p, hw>>

\* One turn of the copy loops; at the end the pointer goes back to the
\* frame's first descriptor.
CopySegment ==
  /\ pc = "copy"
  /\ p' = Append(p, buf[DMARxDesc])
  /\ IF i + 1 < len
       THEN /\ DMARxDesc' = NextDesc(DMARxDesc)
            /\ i' = i + 1
            /\ pc' = "copy"
       ELSE /\ DMARxDesc' = FS_Rx_Desc
            /\ i' = 0
            /\ pc' = "release"
  /\ UNCHANGED <<ring, DMARxDescToGet, Seg_Count, FS_Rx_Desc, len, hw>>

\* Mutant of Released: only the frame's first descriptor is given back.
ReleasedFirst == i >= 0

\* The turn that gives back the last one of Seg_Count descriptors.
Released == i + 1 >= Seg_Count

\* Mutant of CountAfterRelease: Seg_Count is not cleared.
CountAfterReleaseKept == Seg_Count

CountAfterRelease == 0

\* One turn of the loop that gives the descriptors back.  The whole Status
\* is overwritten.
ReleaseDesc ==
  /\ pc = "release"
  /\ own' = [own EXCEPT ![DMARxDesc] = TRUE]
  /\ fs' = [fs EXCEPT ![DMARxDesc] = FALSE]
  /\ ls' = [ls EXCEPT ![DMARxDesc] = FALSE]
  /\ fl' = [fl EXCEPT ![DMARxDesc] = 0]
  /\ bare' = [bare EXCEPT ![DMARxDesc] = FALSE]
  /\ DMARxDesc' = NextDesc(DMARxDesc)
  /\ i' = i + 1
  /\ IF Released
       THEN pc' = "rbus" /\ Seg_Count' = CountAfterRelease
       ELSE pc' = "release" /\ UNCHANGED Seg_Count
  /\ UNCHANGED <<buf, DMARxDescToGet, FS_Rx_Desc, len, p, hw>>

\* "When Rx Buffer unavailable flag is set: clear it and resume reception".
CheckRBUS ==
  /\ pc = "rbus"
  /\ RBUS' = FALSE
  /\ dma' = IF RBUS /\ dma = "suspended" THEN "running" ELSE dma
  /\ pc' = "input"
  /\ UNCHANGED <<ring, DMARxDescToGet, Seg_Count, FS_Rx_Desc, DMARxDesc, len,
                 i, p, dmaDesc, arriving, moved>>

\* ethernetif_input passes the pbuf on, if there is one.
Input ==
  /\ pc = "input"
  /\ p' = <<>>
  /\ pc' = "poll"
  /\ UNCHANGED <<ring, DMARxDescToGet, Seg_Count, FS_Rx_Desc, DMARxDesc, len,
                 i, hw>>

-----------------------------------------------------------------------------
(* The DMA engine (external).                                              *)

\* A frame comes in; one recognised while the engine is suspended makes it
\* look at its descriptor again.
Arrive(f) ==
  /\ arriving = NoFrame
  /\ arriving' = f
  /\ moved' = 0
  /\ dma' = IF dma = "suspended" THEN "running" ELSE dma
  /\ UNCHANGED <<ring, cpu, RBUS, dmaDesc>>

\* It reads the current descriptor's OWN bit.
DmaFetch ==
  /\ dma = "running"
  /\ dma' = IF own[dmaDesc] THEN "holding" ELSE "idling"
  /\ UNCHANGED <<ring, cpu, RBUS, dmaDesc, arriving, moved>>

\* It fills the buffer of the descriptor it holds and gives the descriptor
\* to the CPU, having fetched the next one if the frame goes on.  When that
\* one is the CPU's, the frame ends here: its rest is flushed.
DmaMove ==
  /\ dma = "holding"
  /\ arriving # NoFrame
  /\ LET next  == NextDesc(dmaDesc)
         whole == moved + 1 = arriving.segs
         ends  == whole \/ ~own[next]
     IN  /\ own' = [own EXCEPT ![dmaDesc] = FALSE]
         /\ fs' = [fs EXCEPT ![dmaDesc] = (moved = 0)]
         /\ ls' = [ls EXCEPT ![dmaDesc] = ends]
         /\ fl' = [fl EXCEPT ![dmaDesc] = moved + 1]
         /\ bare' = [bare EXCEPT ![dmaDesc] = whole /\ arriving.bare]
         /\ buf' = [buf EXCEPT ![dmaDesc] = Segment(arriving, moved + 1)]
         /\ dmaDesc' = next
         /\ arriving' = IF ends THEN NoFrame ELSE arriving
         /\ moved' = IF ends THEN 0 ELSE moved + 1
         /\ dma' = CASE whole -> "running"
                     [] ends /\ ~whole -> "idling"
                     [] OTHER -> "holding"
  /\ UNCHANGED <<cpu, RBUS>>

\* It did not own the descriptor it read: it raises RBUS and suspends.  A
\* frame that waits for the descriptor is flushed.
DmaSuspend ==
  /\ dma = "idling"
  /\ RBUS' = TRUE
  /\ dma' = "suspended"
  /\ arriving' = NoFrame
  /\ moved' = 0
  /\ UNCHANGED <<ring, cpu, dmaDesc>>

-----------------------------------------------------------------------------
CpuStep == \/ CheckLast
           \/ CheckFirst
           \/ CheckMiddle
           \/ \E allocated \in BOOLEAN : GetFrame(allocated)
           \/ CopySegment
           \/ ReleaseDesc
           \/ CheckRBUS
           \/ Input

DmaStep == DmaFetch \/ DmaMove \/ DmaSuspend

Next == CpuStep \/ DmaStep \/ \E f \in Frames : Arrive(f)

Spec == Init /\ [][Next]_vars

\* The main loop goes round and the engine keeps working; nothing is assumed
\* of the network.
FairSpec == Spec /\ WF_vars(CpuStep) /\ WF_vars(DmaStep)

-----------------------------------------------------------------------------
(* Properties.                                                             *)

TypeOK ==
  /\ own \in [Slots -> BOOLEAN]
  /\ fs \in [Slots -> BOOLEAN]
  /\ ls \in [Slots -> BOOLEAN]
  /\ fl \in [Slots -> 0 .. MaxSegs]
  /\ bare \in [Slots -> BOOLEAN]
  /\ \A d \in Slots : bare[d] => fl[d] > 1
  /\ buf \in [Slots -> Segments]
  /\ DMARxDescToGet \in Slots
  /\ Seg_Count \in 0 .. ETH_RXBUFNB
  /\ FS_Rx_Desc \in Slots
  /\ pc \in CpuStates
  /\ DMARxDesc \in Slots
  /\ len \in 0 .. MaxSegs
  /\ i \in 0 .. ETH_RXBUFNB
  /\ p \in Seq(Segments)
  /\ RBUS \in BOOLEAN
  /\ dma \in DmaStates
  /\ dmaDesc \in Slots
  /\ arriving \in Frames \cup {NoFrame}
  /\ moved \in 0 .. MaxSegs

\* low_level_input copies from buffers the engine cannot touch, and only
\* from those of the frame: the length the last descriptor tells, without
\* the CRC, and the number of segments ETH_CheckFrameReceived counted agree.
CopyStaysInFrame ==
  pc = "copy" => /\ ~own[DMARxDesc]
                 /\ Dist(FS_Rx_Desc, DMARxDesc) < Seg_Count
                 /\ \E d \in Slots :
                      /\ Dist(FS_Rx_Desc, d) + 1 = Seg_Count
                      /\ len = IF bare[d] THEN Seg_Count - 1 ELSE Seg_Count

\* When ETH_CheckFrameReceived has caught up with the engine, the CPU holds
\* the descriptors of a frame that is still coming in, as many as Seg_Count
\* says, and no other: none is lost to a frame without a pbuf, or to one
\* that was cut off.  No index leaves the ring on the way.
NoDescriptorLost ==
  /\ TypeOK
  /\ pc = "poll" /\ own[DMARxDescToGet] =>
       \A d \in Slots : ~own[d] <=> Dist(FS_Rx_Desc, d) < Seg_Count

\* Every descriptor the engine gives to the CPU comes back to it.
DescriptorsComeBack ==
  \A d \in Slots : ~own[d] ~> own[d]

\* While frames keep arriving the CPU keeps finding some, also when a
\* suspension of the engine goes unnoticed.
KeepsReceiving ==
  []<>(arriving # NoFrame) => []<>(pc = "get")
=============================================================================
