CONSTANTS
  NULL = NULL
  MaxEntries = 4
  MaxFrames = 4
  MaxNodes = 9
  MaxStrands = 8
  MaxOff = 0
  CommandLines <- MCCommandLines
  Promotes = FALSE
  MaxUpdates = 1
SPECIFICATION StealSpec
INVARIANT NoAssertionFails
CHECK_DEADLOCK FALSE
