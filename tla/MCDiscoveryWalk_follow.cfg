SPECIFICATION WalkFairSpec
CONSTANTS
  Dirs <- MCDirs
  Files <- MCFiles
  Root = "root"
  Nowhere = "nowhere"
  Setups <- MCSetups
INVARIANTS
  EachDirectoryOnce
  ExclusionKept
  StaysOnRootFilesystem
  CompleteUnlessPathExcluded
PROPERTIES
  WalkEnds
