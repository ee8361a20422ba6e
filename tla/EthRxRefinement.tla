-------------------------- MODULE EthRxRefinement ---------------------------
(***************************************************************************)
(* The descriptor ring of EthRx implements FrameInbox.  A frame has come   *)
(* in once its last descriptor is the CPU's, and is taken when             *)
(* ETH_Get_Received_Frame moves on to the next one.                        *)
(***************************************************************************)
EXTENDS EthRx, OrderedLists

\* The descriptor k steps after d.
Adv(d, k) == IF d + k < ETH_RXBUFNB THEN d + k ELSE d + k - ETH_RXBUFNB

\* The descriptors of the frame low_level_input is working on.  Those it
\* has released may already hold the next frames.
InHand(d) == \/ pc = "copy" /\ Dist(FS_Rx_Desc, d) < Seg_Count
             \/ pc = "release" /\ Dist(DMARxDesc, d) < Seg_Count - i

\* The descriptors that end a waiting frame.
Waiting == {d \in Slots : ~own[d] /\ ls[d] /\ ~InHand(d)}

\* The engine has filled them in the order in which it will come round to
\* them.
Ages == [d \in Waiting |-> Dist(dmaDesc, d)]

FrameOf(d) ==
  [payload |-> buf[d].payload, segs |-> buf[d].segs, got |-> DataSegs(d)]

WaitingFrames == InKeyOrder(Waiting, Ages, [d \in Waiting |-> FrameOf(d)])

\* What low_level_input has copied, and what it has still to copy.
TakenFrame ==
  IF pc = "copy"
    THEN p \o [k \in 1 .. len - i |-> buf[Adv(DMARxDesc, k - 1)]]
    ELSE p

Inbox == INSTANCE FrameInbox
           WITH Capacity <- ETH_RXBUFNB, inbox <- WaitingFrames,
                taken <- TakenFrame

\* Frames reach the stack in the order they came, each once, and with the
\* contents they came with, however the steps of the engine and the CPU
\* interleave and whatever allocation fails.
ImplementsFrameInbox == Inbox!Spec
=============================================================================
