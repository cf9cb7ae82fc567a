SPECIFICATION Spec
CONSTANTS
  NameWidth = 8
  ExtWidth = 3
  SectorSize = 104
  SystemArea = 2
  Word = 65536
  MaxAdds = 2
  MaxWrites = 2
  DirPaths <- MCShadowDirs
  FilePaths <- MCShadowFiles
  Contents <- MCContents
INVARIANTS
  FoundByShownName
CHECK_DEADLOCK FALSE
