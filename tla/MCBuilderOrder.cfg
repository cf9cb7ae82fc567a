SPECIFICATION Spec
CONSTANTS
  NameWidth = 8
  ExtWidth = 3
  SectorSize = 104
  SystemArea = 2
  Word = 65536
  MaxAdds = 3
  MaxWrites = 2
  DirPaths <- MCDirPaths
  FilePaths <- MCFilePaths
  Contents <- MCContents
INVARIANTS
  IdentifiersDeterministic
CHECK_DEADLOCK FALSE
