SPECIFICATION Spec
CONSTANTS
  Host = "tommys-mac-mini.local"
  BusHost = "tommys-mac-mini"
  Lookback = 3
  Silent = 2
  Disarm = 5
  MaxWrites = 1
  MaxBuffer = 3
  MaxLost = 1
  Load <- MCLoad
  Rows = 2
  MaxWeight = 2
  Caps = {1000}
INVARIANTS
  TypeOK
  RecoveryIsReal
  SilenceIsTold
  HealthyIsQuiet
  HoveringIsQuiet
CHECK_DEADLOCK FALSE
