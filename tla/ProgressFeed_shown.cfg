\* Two workers, three files of which the second is announced by NotifyEvery,
\* and one unreadable path; a cancellation at any moment.
SPECIFICATION FeedSpec
CONSTANTS
  WalkLen = 3
  ErrorVisits = {2}
  BadFiles = {}
  RootIsFile = FALSE
  Workers = {w1, w2}
  JobsCap = 1
  NotifyEvery = 2
INVARIANTS
  ShownHasHappened
  FinalDisplayExact
PROPERTY ShownNeverRegresses
