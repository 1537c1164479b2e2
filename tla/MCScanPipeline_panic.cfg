\* A tree with one unreadable directory, two workers.
SPECIFICATION Spec
CONSTANTS
  WalkLen = 2
  ErrorVisits = {2}
  BadFiles = {}
  RootIsFile = FALSE
  Workers = {w1, w2}
  JobsCap = 1
INVARIANT FileErrorsAreNotFatal
