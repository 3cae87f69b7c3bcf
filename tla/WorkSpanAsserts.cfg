CONSTANTS
  AssertsCompiledIn = TRUE
  StrandTimes = {0, 1, 3}
  MaxDepth = 4
  MaxEvents = 7
SPECIFICATION Spec
INVARIANTS
  NoAssertionFails
CHECK_DEADLOCK FALSE
