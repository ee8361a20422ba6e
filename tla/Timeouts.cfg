SPECIFICATION FairSpec
CONSTANTS
  arp = arp
  dhcp = dhcp
  Wrap = 12
  Cyclic = {arp, dhcp}
  Tcp = tcp
  App = {app}
  NoHandler = none
  Interval <- IntervalMC
  MEMP_NUM_SYS_TIMEOUT = 4
  AppQuota = 1
  MaxLate = 2
INVARIANTS
  Sorted
  NeverEarly
  CyclicAlive
  TcpTimerRuns
PROPERTIES
  AllDueHandled
  CyclicRuns
  CheckReturns
