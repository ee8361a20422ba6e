SPECIFICATION Spec
CONSTANTS
  Ips <- IpsMC
  Hws = {m1, m2}
  Packets <- PacketsMC
  ARP_TABLE_SIZE = 2
  ARP_MAXAGE = 4
  ARP_MAXPENDING = 2
  RequestAge = 2
  None = none
INVARIANTS
  CacheSound
  RightAddress
PROPERTIES
  LossJustified
  NoPacketStays
