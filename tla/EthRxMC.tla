------------------------------ MODULE EthRxMC ------------------------------
(* A small instance of EthRx for TLC: frames of one and of three buffers,  *)
(* and one that fills a buffer and leaves bytes of its CRC to the next.    *)
EXTENDS EthRxRefinement

CONSTANT p1

OnePayload == {p1}

FramesMC ==
  {[payload |-> p1, segs |-> 1, bare |-> FALSE],
   [payload |-> p1, segs |-> 2, bare |-> TRUE],
   [payload |-> p1, segs |-> 3, bare |-> FALSE]}
=============================================================================
