SPECIFICATION FairSpec
CONSTANTS
  MaxId = 3
  MaxAttempts = 3
  Batch = 1
  BaseBackoff = 1
  Lease <- MCLease
  Cooldowns <- MCCooldowns
  Outcomes <- Synchronous
PROPERTY
  EveryJobResolved
