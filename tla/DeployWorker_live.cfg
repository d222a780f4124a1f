SPECIFICATION FairSpec
CONSTANTS
  Slot <- MCSlot
  Worker = "worker"
  Preview = "preview"
  LockTtl = 2
  Grace = 1
  Overlap = FALSE
  MaxRev = 3
  Bad <- MCBad
  Job <- MCJob
  Faults <- NoFault
  Mortal <- MCSlot
PROPERTIES
  NeverWedged
  MergeGoesLive
  QueueDrains
