\* One crash anywhere around a fork switch, two failing reads of the seek, a restarted transaction reader; safety and liveness.
SPECIFICATION ResumeFairSpec
CONSTANTS
  Blocks <- MCFork
  HeightOf <- MCHeightOf
  ParentOf <- MCParentOf
  Txs <- MCTxs
  TxsOf <- MCTxsOf
  Root = "root"
  MempoolTxs = {}
  FirstHeight = 1
  MaxHeight = 2
  MaxApplies = 1
  MaxUnapplies = 1
  MaxMempool = 0
  MaxMalformed = 0
  InterceptHeight = 1
  Lookback = 1
  MaxOffsetEntries = 100
  Unparsable = {"x"}
  RestartTopics = {"tx"}
  MaxRestarts = 1
  MaxNodeErrors = 0
  MaxCrashes = 1
  MaxSeekErrors = 2
INVARIANTS
  ResumeTypeOK
  TxKnownSinceStart
  LivesMirrorChain
PROPERTIES
  CursorReachesTipAgain
CHECK_DEADLOCK FALSE
