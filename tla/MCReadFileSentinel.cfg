SPECIFICATION Spec
CONSTANTS
  BlockSize = 4
  ImageLen = 14
  MaxOffset = 15
  EagerEOF = TRUE
  Faults = TRUE
  MaxUnknownAlloc = 12
  MaxInt = 14
  GrowChunk = 1
  Spare = {0, 1, 3, 20}
  Records <- MCRecords
  Declared <- MCSentinelDeclared
INVARIANTS
  KnownSizeIsChecked
CHECK_DEADLOCK FALSE
