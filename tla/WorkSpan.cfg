CONSTANTS
  AssertsCompiledIn = FALSE
  StrandTimes = {0, 1, 3}
  MaxDepth = 4
  MaxEvents = 7
SPECIFICATION Spec
INVARIANTS
  TypeOK
  PrintedSpanIsLongestPath
  SpanNeverExceedsWork
CHECK_DEADLOCK FALSE
