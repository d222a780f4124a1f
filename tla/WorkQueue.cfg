SPECIFICATION Spec
CONSTANTS
  MaxId = 3
  MaxAttempts = 2
  Batch = 2
  BaseBackoff = 1
  Lease <- MCLease
  Cooldowns <- MCCooldowns
  Outcomes <- Everything
INVARIANTS
  TypeOK
  NothingLost
  NoResurrection
  WakesInTime
  ParkedIsQuiet
  SnapshotHolds
PROPERTY
  KeepsLedger
