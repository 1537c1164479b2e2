SPECIFICATION WalkSpec
CONSTANTS
  Dirs <- MCDirs
  Files <- MCFiles
  Root = "root"
  Nowhere = "nowhere"
  Setups <- MCSetups
INVARIANT FollowingAddsOnly
