SPECIFICATION Spec
CONSTANTS
  Client = client
  Server = server
  Writes <- MCWrites
  ISS <- MCIss
  SeqSpace = 32
  TCP_MSS = 2
  TCP_WND = 3
  TCP_MAXRTX = 1
  TCP_SYNMAXRTX = 1
  NetSize <- MCNetSize
  MaxConns = 2
  MaxFaults = 1
  Closers = {server}
  HalfClosers = {client}
INVARIANTS
  QueueSound
  NeverStalls
  AckedWasReceived
PROPERTIES
  ImplementsStreams
CHECK_DEADLOCK FALSE
