SPECIFICATION FairSpec
CONSTANTS
  RawBlocks <- TransactionBlocks
  HashLen = 1
  MaxOutputs = 2
INVARIANT TreasuryAccounted
CHECK_DEADLOCK FALSE
