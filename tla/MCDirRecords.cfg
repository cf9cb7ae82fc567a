SPECIFICATION Spec
CONSTANTS
  BlockSize = 5
  MinRecord = 2
  MaxDirExtent = 25
  MaxUnknownAlloc = 50
  Word = 16
  Directories <- MCDirectories
INVARIANTS
  TypeOK
  ReadsEveryRecord
  KeepsEveryExtent
  RefusesExactlyDamage
PROPERTIES
  DirectoryReadReturns
CHECK_DEADLOCK FALSE
