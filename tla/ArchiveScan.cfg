\* Entries of nothing, one byte, two or four under a sniffing limit of one
\* byte, three nesting levels, four entries and five bytes in all.
SPECIFICATION ArchiveFairSpec
CONSTANTS
  MaxBytes = 1
  ArchiveMaxBytes = 5
  ArchiveMaxEntries = 4
  ArchiveMaxDepth = 3
  EntrySizes = {0, 1, 2, 4}
  EntryCounts = {0, 2, 5}
  WordSize = 16
INVARIANTS
  LimitsKept
  RemainingNonnegative
  EntriesAccounted
PROPERTIES
  ErrorsNeverLost
  ByteLimitStops
  ArchiveEnds
