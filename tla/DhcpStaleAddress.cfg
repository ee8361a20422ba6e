SPECIFICATION Spec
CONSTANTS
  Addr = {a}
  NoAddr = none
  Static = static
  NULL = null
  Leases <- LeasesMC
  MAX_DHCP_TRIES = 2
  RequestRetries = 3
  StartMayFail = FALSE
  MaxTries = 4
  RequestTicks = 2
  FinePerCoarse = 3
  MaxReplies = 2
  MaxNaks = 1
  MaxConflicts = 1
INVARIANTS
  ZeroWhileSeeking
