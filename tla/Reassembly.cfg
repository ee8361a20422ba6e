SPECIFICATION Spec
CONSTANTS
  Ids <- IdsMC
  Size <- SizeMC
  Wrap = 5
  MaxLen = 3
  MaxPbufs = 5
  NumReassdata = 2
  PoolSize = 6
  MaxAge = 2
INVARIANTS
  ListSound
  WholeDatagram
PROPERTIES
  OwnPiecesStay
  Forgotten
