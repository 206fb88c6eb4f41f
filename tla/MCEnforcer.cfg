SPECIFICATION Spec
CONSTANTS
  RawBlocks <- MCRawBlocks
  SidechainNumbers = {2, 4}
  ActiveSlots = {2, 4}
  M6IDs <- MCM6IDs
  MaxAge = 1
  Threshold = 1
  Lead = 1
  VoteMod = 4
  MaxHeight = 3
INVARIANTS CallInOrder ListsInOrder WithdrawalsProposed BundlesProposed
CHECK_DEADLOCK FALSE
