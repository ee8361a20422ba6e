SPECIFICATION FairSpec
CONSTANTS
  Addr = {a}
  NoAddr = none
  Static = static
  NULL = null
  Leases <- LeasesMC
  MAX_DHCP_TRIES = 2
  RequestRetries = 3
  StartMayFail = TRUE
  MaxTries = 4
  RequestTicks = 2
  FinePerCoarse = 2
  MaxReplies = 2
  MaxNaks = 1
  MaxConflicts = 1
INVARIANTS
  AddressHasSource
  LeaseHonoured
  PcbHeld
  SuppliedUnlessNak
PROPERTIES
  ProbedFirst
  Settles
