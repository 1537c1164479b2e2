\* Every interleaving of three workers, a queue of two paths, a tree of four
\* files and two unreadable paths, the first before any file; a cancellation at
\* any moment.  No symmetry: the temporal properties would not survive it.
SPECIFICATION FairSpec
CONSTANTS
  WalkLen = 6
  ErrorVisits = {1, 4}
  BadFiles = {3}
  RootIsFile = FALSE
  Workers = {w1, w2, w3}
  JobsCap = 2
INVARIANTS
  TypeOK
  EachPathInOnePlace
  NoPathLost
  GoroutinesEndInOrder
  CountersExact
PROPERTIES
  Termination
  DiscoveredFinal
  ImplementsContract
