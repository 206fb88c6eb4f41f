SPECIFICATION MCSpec
CONSTANTS
  Base = 8
  OP_PUSHDATA1 = 3
  OP_PUSHDATA2 = 4
  OP_PUSHDATA4 = 5
  Sizes = {1, 2, 3, 7, 8, 9, 63}
  Scripts <- MCScripts
  Raw <- MCRaw
  Witnesses <- SegwitWitnesses
  Strings <- ForeignStrings
  Spans <- ShortSpans
  Letters <- AnyLetter
  FirstHardenedChild = 4
  Paths <- WalletPaths
  Numbers <- NumbersRead
  Pairs <- TxPairs
  Spends <- SpendPairs
  Word64 = 4
  Buffers <- HeightFiles
INVARIANT CoinbaseKept
CHECK_DEADLOCK FALSE
