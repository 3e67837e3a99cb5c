\* Two crashes at any point, a panic, competing mempool transactions, a failed lookup, a dropped block, no fork; safety and liveness.
SPECIFICATION FairSpec
CONSTANTS
  Blocks <- MCLine
  HeightOf <- MCHeightOf
  ParentOf <- MCParentOf
  Txs <- MCTxs
  TxsOf <- MCTxsOf
  Root = "root"
  MempoolTxs = {"g", "m", "m2", "f", "r2"}
  FirstHeight = 1
  MaxHeight = 3
  MaxApplies = 1
  MaxUnapplies = 0
  MaxMempool = 0
  MaxMalformed = 0
  InterceptHeight = 1
  MaxNodeErrors = 1
  Loks = {"lok", "lok2"}
  LokOf <- MCLokOf
  NoRow = NoRow
  MaxCursorEntries = 1
  KindOf <- MCKindOf
  Unwritable = {}
  MaxCrashes = 2
  MaxPanics = 1
  MaxLookupErrors = 1
  MaxAccepted = 2
INVARIANTS
  TypeOK
  ResumeLosesNothing
  TokenEventsOnce
  KeyMatchesMint
PROPERTIES
  EventuallyRecorded
CHECK_DEADLOCK FALSE
