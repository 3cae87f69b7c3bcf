CONSTANTS
  NULL = NULL
  MaxEntries = 4
  MaxFrames = 3
  MaxNodes = 5
  MaxStrands = 6
  MaxOff = 1
  HeapLocs = {h1}
  StackLocs = {2}
  ReadInsts = {2}
  WriteInsts = {1, 3}
  MaxAccesses = 3
SPECIFICATION MemSpec
INVARIANTS
  MemTypeOK
  NoAssertionFails
  RaceReportedIffRaceExists
  RacesFoundAreDistinct
  NoRaceMissed
CHECK_DEADLOCK FALSE
