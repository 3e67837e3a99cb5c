\* A fork switch, an empty block, a restarted reader of any topic and a malformed message; safety.
SPECIFICATION Spec
CONSTANTS
  Blocks <- MCFork
  HeightOf <- MCHeightOf
  ParentOf <- MCParentOf
  Txs <- MCTxs
  TxsOf <- MCTxsOfEmpty
  Root = "root"
  MempoolTxs = {"v"}
  FirstHeight = 1
  MaxHeight = 2
  MaxApplies = 1
  MaxUnapplies = 1
  MaxMempool = 1
  MaxMalformed = 1
  InterceptHeight = 1
  Lookback = 1
  MaxOffsetEntries = 100
  Unparsable = {"w"}
  RestartTopics = {"block", "tx", "mempool"}
  MaxRestarts = 1
  MaxNodeErrors = 0
INVARIANTS
  TypeOK
  TxOffsetSentOnce
  CursorTight
CHECK_DEADLOCK FALSE
