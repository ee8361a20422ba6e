SPECIFICATION ReplaySpec
CONSTANTS
  Client = client
  Server = server
  Writes <- ReplayWrites
  ISS <- ReplayIss
  SeqSpace = 64
  TCP_MSS = 2
  TCP_WND = 3
  TCP_MAXRTX = 3
  TCP_SYNMAXRTX = 3
  NetSize <- ReplayNetSize
  MaxConns = 1
  MaxFaults = 10
  Closers = {server}
  HalfClosers = {client}
INVARIANTS
  QueuesOrdered
CHECK_DEADLOCK FALSE
