SPECIFICATION FairSpec
CONSTANTS
  MaxHash = 4
  Hashes <- FewHashes
  Bodyless = TRUE
INVARIANTS ChainInOrder OneVersion FailsForAReason
PROPERTY ScanEnds
CHECK_DEADLOCK FALSE
