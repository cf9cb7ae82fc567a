SPECIFICATION ListSpec
CONSTANTS
  NameWidth = 8
  ExtWidth = 3
  MaxSectors = 3
  SectorSize = 3
  Faults = TRUE
  MaxAreas = 4
  Bytes <- MCBytes
  Images <- MCPaddedImages
INVARIANTS
  NothingTruncated
CHECK_DEADLOCK FALSE
