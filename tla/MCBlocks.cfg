SPECIFICATION BlocksSpec
CONSTANTS
  Files <- MCFiles
  Keys = {0, 8}
  Magic = 9
  Word = 2
  Wide = 2
  Amount = 2
  RootByte <- FirstByte
  Padding <- NoneOrMany
  Tears = TRUE
  MaxLen = 8
INVARIANTS ReadsTheChain WholeFilesRead RootBinds DistinctAccepted
PROPERTY Ends
CHECK_DEADLOCK FALSE
