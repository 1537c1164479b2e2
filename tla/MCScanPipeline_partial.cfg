\* The smallest scan: one regular file as the root, one worker.
SPECIFICATION Spec
CONSTANTS
  WalkLen = 1
  ErrorVisits = {}
  BadFiles = {}
  RootIsFile = TRUE
  Workers = {w1}
  JobsCap = 1
INVARIANT ReportIsComplete
