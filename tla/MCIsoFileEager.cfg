SPECIFICATION Spec
CONSTANTS
  Callers = {c1, c2}
  BlockSize = 4
  ImageLen = 10
  MaxOffset = 6
  EagerEOF = TRUE
  Faults = TRUE
  Offsets <- MCOffsets
  Lengths = {0, 1, 4}
  Records <- MCRecords
  Declared <- MCDeclared
INVARIANTS
  FilledWhenBytesExist
