SPECIFICATION Spec
CONSTANTS
  Slot <- MCSlot
  Worker = "worker"
  Preview = "preview"
  LockTtl = 2
  Grace = 1
  Overlap = FALSE
  MaxRev = 3
  Bad <- MCBad
  Job <- MCJob
  Faults <- Everything
  Mortal <- MCSlot
INVARIANTS
  TypeOK
  MutualExclusion
  DoneMeansDeployed
  RecordedIsHealthy
  BadIsRolledBack
