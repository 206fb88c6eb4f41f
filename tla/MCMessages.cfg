SPECIFICATION Spec
CONSTANTS
  RawBlocks <- MCBlocks
  HashLen = 1
  MaxOutputs = 3
INVARIANTS TypeOK SuitD2 BmmMatched PayoutFixedByID
PROPERTIES AmbiguousMovesNothing
CHECK_DEADLOCK FALSE
