SPECIFICATION LinkSpec
CONSTANTS
  Partners <- PartnersMC
  Resolves <- ResolvesMC
  Modes <- ModesMC
  NoLink = nolink
INVARIANTS
  PartsAgree
PROPERTIES
  UpAsNegotiated
  MacFollowsInterface
