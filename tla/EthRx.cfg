SPECIFICATION FairSpec
CONSTANTS
  p1 = p1
  ETH_RXBUFNB = 3
  MaxSegs = 3
  Payloads <- OnePayload
  Frames <- FramesMC
INVARIANTS
  CopyStaysInFrame
  NoDescriptorLost
PROPERTIES
  ImplementsFrameInbox
  DescriptorsComeBack
  KeepsReceiving
