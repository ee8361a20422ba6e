SPECIFICATION LinkSpec
CONSTANTS
  Partners <- PartnersMC
  Resolves <- ResolvesMC
  Modes <- ModesMC
  NoLink = nolink
INVARIANTS
  MacAsNegotiated
