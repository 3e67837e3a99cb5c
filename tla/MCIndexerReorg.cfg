\* Fork switches one and two blocks deep, after which a block may join the chain again, and a node that does not answer; safety and refinement.
SPECIFICATION Spec
CONSTANTS
  Blocks <- MCShortFork
  HeightOf <- MCHeightOf
  ParentOf <- MCParentOf
  Txs <- MCTxs
  TxsOf <- MCTxsOf
  Root = "root"
  MempoolTxs = {}
  FirstHeight = 1
  MaxHeight = 3
  MaxApplies = 2
  MaxUnapplies = 2
  MaxMempool = 0
  MaxMalformed = 0
  InterceptHeight = 2
  Lookback = 1
  MaxOffsetEntries = 100
  Unparsable = {"w"}
  RestartTopics = {}
  MaxRestarts = 1
  MaxNodeErrors = 1
INVARIANTS
  TxWithinItsBlock
  CursorBacked
  MirrorsChain
PROPERTIES
  ImplementsStream
CHECK_DEADLOCK FALSE
