SPECIFICATION FairSpec
CONSTANTS
  p1 = p1
  p2 = p2
  ETH_TXBUFNB = 4
  MaxSegs = 2
  Payloads <- TwoPayloads
INVARIANTS
  ErrOkMeansQueued
  DmaReadsWholeFrames
  NeverJammed
  IInv
PROPERTIES
  ImplementsFrameQueue
  EveryFrameLeaves
