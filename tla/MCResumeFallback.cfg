\* Three failing reads on a chain that never forks: the seek ends without a point.
SPECIFICATION ResumeSpec
CONSTANTS
  Blocks <- MCLine
  HeightOf <- MCHeightOf
  ParentOf <- MCParentOf
  Txs <- MCTxs
  TxsOf <- MCTxsOf
  Root = "root"
  MempoolTxs = {}
  FirstHeight = 1
  MaxHeight = 3
  MaxApplies = 1
  MaxUnapplies = 0
  MaxMempool = 0
  MaxMalformed = 0
  InterceptHeight = 1
  Lookback = 1
  MaxOffsetEntries = 100
  Unparsable = {"x"}
  RestartTopics = {}
  MaxRestarts = 1
  MaxNodeErrors = 0
  MaxCrashes = 1
  MaxSeekErrors = 3
INVARIANTS
  FallbackStartsOver
CHECK_DEADLOCK FALSE
