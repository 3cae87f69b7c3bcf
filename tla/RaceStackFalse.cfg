CONSTANTS
  NULL = NULL
  MaxEntries = 5
  MaxFrames = 3
  MaxNodes = 6
  MaxStrands = 7
  MaxOff = 1
  HeapLocs = {}
  StackLocs = {1, 2}
  ReadInsts = {1}
  WriteInsts = {2}
  MaxAccesses = 4
SPECIFICATION MemSpec
INVARIANTS
  StackReportsAreRaces
CHECK_DEADLOCK FALSE
