CONSTANT MaxNodes = 6
SPECIFICATION Spec
INVARIANTS
  TypeOK
  RanksBoundDepth
PROPERTY ImplementsPartition
CHECK_DEADLOCK FALSE
