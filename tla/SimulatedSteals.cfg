CONSTANTS
  NULL = NULL
  MaxEntries = 4
  MaxFrames = 4
  MaxNodes = 10
  MaxStrands = 10
  MaxOff = 0
  CommandLines <- MCCommandLines
  Promotes = TRUE
  MaxUpdates = 1
SPECIFICATION StealSpec
INVARIANTS
  NoAssertionFails
  SPBagsCorrect
  PBagsSplitByView
  ViewRacesFound
CHECK_DEADLOCK FALSE
