-------------------------- MODULE EthTxRefinement ---------------------------
(***************************************************************************)
(* The descriptor ring of EthTx implements FrameQueue.  A frame is queued  *)
(* once its last descriptor has been handed to the engine, and leaves the  *)
(* queue when the engine has moved that descriptor's buffer out.           *)
(***************************************************************************)
EXTENDS EthTx, OrderedLists

\* The descriptors that end a queued frame.
Waiting == {d \in Slots : own[d] /\ ls[d] /\ d # unclosed}

\* The engine visits them in the order of their distances.
Visits == [d \in Waiting |-> Dist(dmaDesc, d)]

FrameOf(d) == [payload |-> buf[d].payload, segs |-> buf[d].segs]

QueuedFrames == InKeyOrder(Waiting, Visits, [d \in Waiting |-> FrameOf(d)])

Queue == INSTANCE FrameQueue
           WITH Capacity <- ETH_TXBUFNB, queue <- QueuedFrames, wire <- mac

\* What low_level_output has accepted goes out whole, once and in order,
\* however the engine's and the CPU's steps interleave.
ImplementsFrameQueue == Queue!Spec
=============================================================================
