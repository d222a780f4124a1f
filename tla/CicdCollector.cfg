SPECIFICATION Spec
CONSTANTS
  Run <- MCRun
  Signal <- MCSignal
  MaxAttempt = 2
  MaxDay = 2
  Crossing = FALSE
  Unreadable = TRUE
  Period = 2
  Window = 4
  MaxNow = 6
  Slowest = 2
  MaxLost = 1
INVARIANTS
  TypeOK
  NoneSlipsOut
  OncePerAttempt
  OncePerDay
  NoLostUpdate
CHECK_DEADLOCK FALSE
