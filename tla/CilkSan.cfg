CONSTANTS
  NULL = NULL
  MaxEntries = 6
  MaxFrames = 4
  MaxNodes = 8
  MaxStrands = 10
  MaxOff = 1
SPECIFICATION Spec
INVARIANTS
  TypeOK
  NoAssertionFails
  SPBagsCorrect
  DeepestCommonAncestor
  CheckingMatchesPhase
  DequeModelMirrors
  StatisticsComplete
PROPERTY UsesDisjointSetsAsRequired
CHECK_DEADLOCK FALSE
