SPECIFICATION AFairSpec
CONSTANTS
  SidechainNumbers = {2, 4}
  ActiveSlots = {2}
  M6IDs = {a, b}
  Vouts = {1, 2}
  VoteValues <- MCVoteValues
  Blocks <- MCBlocks
  CoinbaseMax = 2
  M6Max = 1
  PaidIDs = {a}
  Vectors <- AllVectors
  MaxAge = 1
  Threshold = 1
  Lead = 1
  VoteMod = 4
  MaxHeight = 3
INVARIANT CorrespondingM6Paid
CHECK_DEADLOCK FALSE
