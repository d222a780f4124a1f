SPECIFICATION FairSpec
CONSTANTS
  Vault = {"dev", "gear"}
  Note = {"a", "b"}
  VaultOf <- MCVaultOf
  MaxVersion = 2
  Batch = 1
  Attempts = 2
  Num = 1
  Den = 2
  MaxChars = 12
  MinChars = 4
  Length <- MCLength
  MaxLength <- MCMaxLength
  Cuts <- MCCuts
  Paragraphs = 3
INVARIANTS
  TypeOK
  MissedOnlyByRace
  TextIsFound
PROPERTY
  Converges
