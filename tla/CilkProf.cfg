SPECIFICATION Spec
CONSTANTS
  NULL = NULL
  START_CC_LG_CAPACITY = 0
  TABLE_CONSTANT = 1
  START_LG_CAPACITY = 1
  Sites <- MCSites
  MainSite <- MCMainSite
  StrandLengths = {1}
  LeavingLengths = {1, 4}
  START_STATUS_VECTOR_SIZE = 1
  START_C_STACK_SIZE = 2
  MaxDepth = 3
  MaxEvents = 9
  MaxInits = 1
  PrintFrom = 7
INVARIANTS
  TypeOK
  NoAssertionFails
  TablesHaveOneOwner
  NumberingIsStable
  StatusMatchesStack
  PathProfileExact
  WorkProfileExact
CHECK_DEADLOCK FALSE
