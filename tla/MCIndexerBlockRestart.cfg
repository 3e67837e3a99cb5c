\* The block reader is restarted after a fork switch.
SPECIFICATION Spec
CONSTANTS
  Blocks <- MCShortFork
  HeightOf <- MCHeightOf
  ParentOf <- MCParentOf
  Txs <- MCTxs
  TxsOf <- MCTxsOf
  Root = "root"
  MempoolTxs = {}
  FirstHeight = 1
  MaxHeight = 3
  MaxApplies = 1
  MaxUnapplies = 1
  MaxMempool = 0
  MaxMalformed = 0
  InterceptHeight = 2
  Lookback = 1
  MaxOffsetEntries = 100
  Unparsable = {"w"}
  RestartTopics = {"block"}
  MaxRestarts = 1
  MaxNodeErrors = 0
INVARIANTS
  BlockOffsetSentOnce
CHECK_DEADLOCK FALSE
