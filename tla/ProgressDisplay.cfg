\* A scan goroutine, counts up to 2, two results and two ticks.
SPECIFICATION DisplayFairSpec
CONSTANTS
  Callers = {"worker"}
  MaxCount = 2
  MaxResults = 2
  MaxTicks = 2
INVARIANTS
  LinesKept
  ResultsPrinted
  StopIsFinal
PROPERTY StopEnds
