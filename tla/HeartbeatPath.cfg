SPECIFICATION FairSpec
CONSTANTS
  Ttl <- MCTtl
  Cycle <- MCCycle
  TickMaxAge <- MCTickMaxAge
  RealertSecs <- MCRealert
  Periods <- MCPeriods
INVARIANTS
  TypeOK
  ExpiryArmed
  GoneMeansSilent
  FreshWhileHealthy
PROPERTIES
  SilenceNoticed
  ReturnNoticed
  SilenceTold
