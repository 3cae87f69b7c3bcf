CONSTANTS
  MaxAccesses = 3
  Ranges <- MCRanges
SPECIFICATION Spec
INVARIANTS
  TypeOK
  NoAssertionFails
  RefCountsExact
  PiecesCoverAccess
PROPERTY ImplementsByteShadow
CHECK_DEADLOCK FALSE
