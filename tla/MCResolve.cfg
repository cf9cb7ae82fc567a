SPECIFICATION Spec
CONSTANTS
  NameWidth = 8
  ExtWidth = 3
  MaxHops = 2
  Faults = TRUE
  Volumes <- MCVolumes
  Paths <- MCPaths
INVARIANTS
  TypeOK
  NeverServesALink
  WorkBounded
PROPERTIES
  CallReturns
  WalksThePath
CHECK_DEADLOCK FALSE
