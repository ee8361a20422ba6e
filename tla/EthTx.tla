------------------------------- MODULE EthTx -------------------------------
(***************************************************************************)
(* The transmit path of the polling Ethernet driver: low_level_output      *)
(* (src/src/ethernetif.c) and ETH_Prepare_Transmit_Descriptors             *)
(* (src/src/stm32f4x7_eth.c) hand frames to the MAC's DMA engine through a *)
(* ring of ETH_TXBUFNB descriptors, each with one buffer.                  *)
(*                                                                         *)
(* Two actors run concurrently: the CPU (the single main loop, NO_SYS) and *)
(* the DMA engine.  They share the OWN bits, the buffers and two sticky    *)
(* status bits of DMASR: TBUS ("transmit buffer unavailable") and TUS      *)
(* ("transmit underflow").  Every access of the CPU to one of these is a   *)
(* step of its own; the DMA engine is external (hardware) and is modelled  *)
(* from the protocol the driver follows with it.                           *)
(*                                                                         *)
(* The engine is configured to operate on the second frame (OSF): it moves *)
(* on to the next frame while the last descriptor of the one before still  *)
(* waits for its transmission status.                                      *)
(*                                                                         *)
(* Lengths are counted in buffers: a frame of "segs" segments fills segs   *)
(* consecutive transmit buffers (one, for every frame within the MTU).     *)
(***************************************************************************)
EXTENDS Naturals, Sequences

CONSTANTS
  ETH_TXBUFNB,  \* number of descriptors in the ring
  MaxSegs,      \* bound: buffers the longest frame fills
  Payloads      \* what frames carry

ASSUME RingAssumption ==
  /\ ETH_TXBUFNB \in Nat \ {0, 1}
  /\ MaxSegs \in 1 .. ETH_TXBUFNB

VARIABLES
  own, fs, ls,     \* the OWN, FS and LS bits of each descriptor's Status
  buf,             \* the segment each transmit buffer holds
  DMATxDescToSet,  \* next descriptor the CPU will fill
  pc,              \* where the CPU is in low_level_output
  frame,           \* the frame being sent (low_level_output's p)
  DmaTxDesc,       \* the local descriptor pointer of the two functions
  i,               \* segments copied, then segments handed over
  errval,          \* low_level_output's result
  TBUS, TUS,       \* sticky bits of DMASR
  dma,             \* what the DMA engine is doing
  dmaDesc,         \* the descriptor the DMA engine is at
  fifo,            \* the segments it has fetched of the frame it is at
  mac,             \* the frame the MAC is sending, <<>> when there is none
  unclosed         \* that frame's last descriptor, which waits for a status

ring == <<own, fs, ls, buf>>
cpu  == <<DMATxDescToSet, pc, frame, DmaTxDesc, i, errval>>
hw   == <<TBUS, TUS, dma, dmaDesc, fifo, mac, unclosed>>
vars == <<own, fs, ls, buf, DMATxDescToSet, pc, frame, DmaTxDesc, i, errval,
          TBUS, TUS, dma, dmaDesc, fifo, mac, unclosed>>

Slots    == 0 .. ETH_TXBUFNB - 1
Frames   == [payload : Payloads, segs : 1 .. MaxSegs]
Segments == [payload : Payloads, segs : 1 .. MaxSegs, seg : 1 .. MaxSegs]

\* Buffer2NextDescAddr: the chain closes on the first descriptor.
NextDesc(d) == IF d < ETH_TXBUFNB - 1 THEN d + 1 ELSE 0

\* Steps of the chain from descriptor d to descriptor e.
Dist(d, e) == IF e >= d THEN e - d ELSE e + ETH_TXBUFNB - d

NoDesc == ETH_TXBUFNB

\* Segment n of frame f.
Segment(f, n) == [payload |-> f.payload, segs |-> f.segs, seg |-> n]

CpuStates == {"idle", "copy", "prepare", "give", "tbus", "error"}
DmaStates == {"running", "busy", "idling", "suspended"}
Results   == {"ERR_OK", "ERR_BUF", "ERR_USE"}

\* Writing DMATPDR: the poll demand wakes a suspended engine and is ignored
\* by one that is not.
PollDemand == dma' = IF dma = "suspended" THEN "running" ELSE dma

-----------------------------------------------------------------------------
(* ETH_DMATxDescChainInit, then ETH_Start: the CPU owns every descriptor,  *)
(* the chain is closed and transmission is enabled.                        *)
Init ==
  /\ own = [d \in Slots |-> FALSE]
  /\ fs  = [d \in Slots |-> FALSE]
  /\ ls  = [d \in Slots |-> FALSE]
  /\ \E p \in Payloads :
       /\ frame = [payload |-> p, segs |-> 1]
       /\ buf = [d \in Slots |-> Segment(frame, 1)]
  /\ DMATxDescToSet = 0
  /\ pc = "idle"
  /\ DmaTxDesc = 0
  /\ i = 0
  /\ errval = "ERR_OK"
  /\ TBUS = FALSE
  /\ TUS = FALSE
  /\ dma = "running"
  /\ dmaDesc = 0
  /\ fifo = <<>>
  /\ mac = <<>>
  /\ unclosed = NoDesc

-----------------------------------------------------------------------------
(* The CPU.                                                                *)

\* low_level_output is called with frame f.  Timing assumption: the engine
\* needs a few bus cycles from reading a descriptor it does not own to
\* raising TBUS, so no call begins in between; one that had already begun
\* may still be running.
Output(f) ==
  /\ pc = "idle"
  /\ dma # "idling"
  /\ frame' = f
  /\ DmaTxDesc' = DMATxDescToSet
  /\ i' = 0
  /\ errval' = "ERR_OK"
  /\ pc' = "copy"
  /\ UNCHANGED <<ring, DMATxDescToSet, hw>>

\* Mutant of Free: the copy loops do not look at OWN.
FreeUnchecked(d) == d \in Slots

\* The CPU may fill the buffer of descriptor d.
Free(d) == ~own[d]

\* One turn of the copy loops: the descriptor must be the CPU's, its buffer
\* is filled, and the pointer moves on while data is left.
CopySegment ==
  /\ pc = "copy"
  /\ Free(DmaTxDesc)
  /\ buf' = [buf EXCEPT ![DmaTxDesc] = Segment(frame, i + 1)]
  /\ IF i + 1 < frame.segs
       THEN /\ DmaTxDesc' = NextDesc(DmaTxDesc)
            /\ i' = i + 1
            /\ pc' = "copy"
       ELSE /\ DmaTxDesc' = DmaTxDesc
            /\ i' = 0
            /\ pc' = "prepare"
  /\ UNCHANGED <<own, fs, ls, DMATxDescToSet, frame, errval, hw>>

\* The descriptor still belongs to the DMA: give up, nothing handed over.
CopyUnavailable ==
  /\ pc = "copy"
  /\ ~Free(DmaTxDesc)
  /\ errval' = IF i = 0 THEN "ERR_BUF" ELSE "ERR_USE"
  /\ pc' = "error"
  /\ UNCHANGED <<ring, DMATxDescToSet, frame, DmaTxDesc, i, hw>>

\* ETH_Prepare_Transmit_Descriptors starts over from DMATxDescToSet.  It
\* returns ETH_ERROR, which low_level_output ignores, when the engine owns
\* that descriptor.
Prepare ==
  /\ pc = "prepare"
  /\ DmaTxDesc' = DMATxDescToSet
  /\ pc' = IF own[DMATxDescToSet] THEN "error" ELSE "give"
  /\ UNCHANGED <<ring, DMATxDescToSet, frame, i, errval, hw>>

\* Mutant of BufCount: a last buffer that is only partly filled is forgotten.
BufCountFull == IF frame.segs > 1 THEN frame.segs - 1 ELSE 1

\* buf_count: how many buffers FrameLength fills.
BufCount == frame.segs

\* Mutant of AfterFrame: every frame is taken to fill one buffer.
AfterFrameByOne == NextDesc(DMATxDescToSet)

\* Where DMATxDescToSet goes after a frame.
AfterFrame == NextDesc(DmaTxDesc)

\* One turn of the loop that sets FS, LS and, last, OWN.  The single-buffer
\* branch ORs FS and LS in; the other one clears both first.  After the last
\* segment DMATxDescToSet takes the local pointer's value.
GiveSegment ==
  /\ pc = "give"
  /\ fs' = [fs EXCEPT ![DmaTxDesc] = (i = 0)]
  /\ ls' = [ls EXCEPT ![DmaTxDesc] = (i + 1 = BufCount)]
  /\ own' = [own EXCEPT ![DmaTxDesc] = TRUE]
  /\ DmaTxDesc' = NextDesc(DmaTxDesc)
  /\ i' = i + 1
  /\ IF i + 1 < BufCount
       THEN pc' = "give" /\ UNCHANGED DMATxDescToSet
       ELSE pc' = "tbus" /\ DMATxDescToSet' = AfterFrame
  /\ UNCHANGED <<buf, frame, errval, hw>>

\* Mutant of CheckTBUS: nothing resumes the transmission.
CheckTBUSDropped ==
  /\ pc = "tbus"
  /\ pc' = "error"
  /\ UNCHANGED <<ring, DMATxDescToSet, frame, DmaTxDesc, i, errval, hw>>

\* "When Tx Buffer unavailable flag is set: clear it and resume
\* transmission".
CheckTBUS ==
  /\ pc = "tbus"
  /\ pc' = "error"
  /\ TBUS' = FALSE
  /\ IF TBUS THEN PollDemand ELSE UNCHANGED dma
  /\ UNCHANGED <<ring, DMATxDescToSet, frame, DmaTxDesc, i, errval,
                 TUS, dmaDesc, fifo, mac, unclosed>>

\* Mutant of CheckTUS: the flag is cleared and no poll demand is issued.
CheckTUSNoDemand ==
  /\ pc = "error"
  /\ pc' = "idle"
  /\ TUS' = FALSE
  /\ UNCHANGED <<ring, DMATxDescToSet, frame, DmaTxDesc, i, errval,
                 TBUS, dma, dmaDesc, fifo, mac, unclosed>>

\* The error label, which every path reaches: "When Transmit Underflow flag
\* is set, clear it and issue a Transmit Poll Demand".  Then return.
CheckTUS ==
  /\ pc = "error"
  /\ pc' = "idle"
  /\ TUS' = FALSE
  /\ IF TUS THEN PollDemand ELSE UNCHANGED dma
  /\ UNCHANGED <<ring, DMATxDescToSet, frame, DmaTxDesc, i, errval,
                 TBUS, dmaDesc, fifo, mac, unclosed>>

-----------------------------------------------------------------------------
(* The DMA engine (external).                                              *)

\* It reads the current descriptor's OWN bit.
DmaFetch ==
  /\ dma = "running"
  /\ dma' = IF own[dmaDesc] THEN "busy" ELSE "idling"
  /\ UNCHANGED <<ring, cpu, TBUS, TUS, dmaDesc, fifo, mac, unclosed>>

\* It has moved a buffer which is not a frame's last into its FIFO, and
\* gives the descriptor back.
DmaNextSegment ==
  /\ dma = "busy"
  /\ ~ls[dmaDesc]
  /\ own' = [own EXCEPT ![dmaDesc] = FALSE]
  /\ fifo' = Append(fifo, buf[dmaDesc])
  /\ dmaDesc' = NextDesc(dmaDesc)
  /\ dma' = "running"
  /\ UNCHANGED <<fs, ls, buf, cpu, TBUS, TUS, mac, unclosed>>

\* It has moved the last buffer of a frame and passes the frame to the MAC,
\* once the frame before has left it.
DmaLastSegment ==
  /\ dma = "busy"
  /\ ls[dmaDesc]
  /\ unclosed = NoDesc
  /\ mac' = Append(fifo, buf[dmaDesc])
  /\ unclosed' = dmaDesc
  /\ fifo' = <<>>
  /\ dmaDesc' = NextDesc(dmaDesc)
  /\ dma' = "running"
  /\ UNCHANGED <<ring, cpu, TBUS, TUS>>

\* The MAC has sent the frame: its last descriptor is given back.
MacDone ==
  /\ unclosed # NoDesc
  /\ own' = [own EXCEPT ![unclosed] = FALSE]
  /\ mac' = <<>>
  /\ unclosed' = NoDesc
  /\ UNCHANGED <<fs, ls, buf, cpu, TBUS, TUS, dma, dmaDesc, fifo>>

\* The MAC ran out of data and aborted the frame: its last descriptor is
\* given back, TUS is raised and the engine suspends.
MacUnderflow ==
  /\ unclosed # NoDesc
  /\ own' = [own EXCEPT ![unclosed] = FALSE]
  /\ mac' = <<>>
  /\ unclosed' = NoDesc
  /\ TUS' = TRUE
  /\ dma' = "suspended"
  /\ UNCHANGED <<fs, ls, buf, cpu, TBUS, dmaDesc, fifo>>

\* It did not own the descriptor it read: it raises TBUS and suspends.
DmaSuspend ==
  /\ dma = "idling"
  /\ TBUS' = TRUE
  /\ dma' = "suspended"
  /\ UNCHANGED <<ring, cpu, TUS, dmaDesc, fifo, mac, unclosed>>

-----------------------------------------------------------------------------
CpuStep == \/ CopySegment
           \/ CopyUnavailable
           \/ Prepare
           \/ GiveSegment
           \/ CheckTBUS
           \/ CheckTUS

DmaStep == \/ DmaFetch
           \/ DmaNextSegment
           \/ DmaLastSegment
           \/ MacDone
           \/ MacUnderflow
           \/ DmaSuspend

Next == \/ \E f \in Frames : Output(f)
        \/ CpuStep
        \/ DmaStep

Spec == Init /\ [][Next]_vars

\* The CPU finishes a call it has begun, the engine keeps working, and the
\* MAC gets rid of every frame.  No fairness is assumed of the calls.
FairSpec == /\ Spec
            /\ WF_vars(CpuStep)
            /\ WF_vars(DmaFetch \/ DmaNextSegment \/ DmaLastSegment
                                \/ DmaSuspend)
            /\ WF_vars(MacDone \/ MacUnderflow)
-----------------------------------------------------------------------------
(* Properties.                                                             *)

TypeOK ==
  /\ own \in [Slots -> BOOLEAN]
  /\ fs \in [Slots -> BOOLEAN]
  /\ ls \in [Slots -> BOOLEAN]
  /\ buf \in [Slots -> Segments]
  /\ DMATxDescToSet \in Slots
  /\ pc \in CpuStates
  /\ frame \in Frames
  /\ DmaTxDesc \in Slots
  /\ i \in 0 .. MaxSegs
  /\ errval \in Results
  /\ TBUS \in BOOLEAN
  /\ TUS \in BOOLEAN
  /\ dma \in DmaStates
  /\ dmaDesc \in Slots
  /\ fifo \in Seq(Segments)
  /\ mac \in Seq(Segments)
  /\ unclosed \in Slots \cup {NoDesc}

\* low_level_output says "ERR_OK if the packet could be sent", yet ignores
\* what ETH_Prepare_Transmit_Descriptors returns: when it is about to return
\* ERR_OK it must have handed over every segment of its frame.
ErrOkMeansQueued ==
  pc = "error" /\ errval = "ERR_OK" => i = frame.segs

\* Whatever the CPU is doing meanwhile, the engine only ever works on the
\* segments of one frame, in order, from the one marked FS to the one marked
\* LS: the CPU neither refills a buffer the engine still has to read nor
\* leaves a hole in the ring.
DmaReadsWholeFrames ==
  dma = "busy" =>
    LET s == buf[dmaDesc]
    IN  /\ s.seg = Len(fifo) + 1
        /\ fs[dmaDesc] = (s.seg = 1)
        /\ ls[dmaDesc] = (s.seg = s.segs)
        /\ \A k \in 1 .. Len(fifo) :
              fifo[k].payload = s.payload /\ fifo[k].segs = s.segs

\* The CPU reads TBUS after it has set the OWN bits, so a suspension that
\* falls in between goes unnoticed and the frame just handed over is
\* stranded.  Between two calls an engine suspended this way has TBUS set,
\* for the next call to find, and holds no more than that one frame: the
\* ring cannot be full of stranded frames, with every call refused before it
\* reaches the check.
NeverJammed ==
  dma = "suspended" /\ ~TUS /\ pc = "idle" =>
    /\ TBUS
    /\ \A d \in Slots :
          own[d] /\ d # unclosed => Dist(dmaDesc, d) < MaxSegs

\* As long as the stack keeps sending, every descriptor handed to the
\* engine comes back, lost wake-ups and underflows notwithstanding.
EveryFrameLeaves ==
  []<>(pc = "copy") => \A d \in Slots : []<>(~own[d])

=============================================================================
