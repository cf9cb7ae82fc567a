SPECIFICATION Spec
CONSTANTS
  NameWidth = 2
  ExtWidth = 3
  SectorSize = 104
  SystemArea = 2
  Word = 65536
  MaxAdds = 3
  MaxWrites = 2
  DirPaths <- MCDirPaths
  FilePaths <- MCFilePaths
  Contents <- MCContents
INVARIANTS
  TypeOK
  ReadsBack
  IdentifiersDistinct
  WritesAreContiguous
  PathTablesAgree
  IdentifiersFromNames
CHECK_DEADLOCK FALSE
