SPECIFICATION FairSpec
CONSTANTS
  Job = {"notification", "alarm"}
  RowId = {7}
  IdOf <- MCIdOf
  MaxAttempts = 2
  Lease = 5
  RunLimit = 3
  None = "none"
INVARIANTS
  TypeOK
  OnceUnlessLost
PROPERTY
  Settles
