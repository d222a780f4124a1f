SPECIFICATION LockSpec
CONSTANTS
  Slot = {"worker", "preview"}
  LockTtl = 2
  Grace = 1
  Overlap = TRUE
INVARIANT
  MutualExclusion
