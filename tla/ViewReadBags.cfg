CONSTANTS
  NULL = NULL
  Reducers = {1, 2, 3}
  HashOf <- MCHashOf
  MaxLgCapacity = 3
  MaxDepth = 5
  MaxNodes = 5
  MaxStrands = 6
  MaxReads = 3
SPECIFICATION Spec
PROPERTY SpawnedChildGoesToPBag
CHECK_DEADLOCK FALSE
