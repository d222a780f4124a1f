SPECIFICATION FairSpec
CONSTANTS
  MaxId = 2
  MaxAttempts = 2
  Batch = 1
  BaseBackoff = 1
  Lease <- MCLease
  Cooldowns <- MCCooldowns
  Outcomes <- Dispatching
PROPERTY
  NoEndlessRetry
