SPECIFICATION Spec
CONSTANTS
  NameWidth = 8
  ExtWidth = 3
  SectorSize = 104
  SystemArea = 2
  Word = 1024
  MaxAdds = 2
  MaxWrites = 2
  DirPaths = {}
  FilePaths <- MCWideFiles
  Contents <- MCWideContents
INVARIANTS
  ReadsBack
CHECK_DEADLOCK FALSE
