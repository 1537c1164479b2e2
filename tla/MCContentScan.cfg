\* A limit of two blocks, files of up to three that grow to five.
SPECIFICATION ContentSpec
CONSTANTS
  MaxBytes = 2
  ScanArchives = TRUE
  InitialFiles <- MCInitialFiles
  MaxLen = 5
INVARIANTS
  WholeOrCapped
  HeldWithinLimit
