\* One worker inside an archive while the walk goes on.
SPECIFICATION FeedSpec
CONSTANTS
  WalkLen = 2
  ErrorVisits = {}
  BadFiles = {}
  RootIsFile = FALSE
  Workers = {w1}
  JobsCap = 1
  NotifyEvery = 2
INVARIANT SnapshotIsPointInTime
