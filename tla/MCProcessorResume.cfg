\* One fork switch and one crash.
SPECIFICATION Spec
CONSTANTS
  Blocks <- MCFork
  HeightOf <- MCHeightOf
  ParentOf <- MCParentOf
  Txs <- MCTxs
  TxsOf <- MCTxsOf
  Root = "root"
  MempoolTxs = {}
  FirstHeight = 1
  MaxHeight = 3
  MaxApplies = 1
  MaxUnapplies = 1
  MaxMempool = 0
  MaxMalformed = 0
  InterceptHeight = 1
  MaxNodeErrors = 0
  Loks = {"lok", "lok2"}
  LokOf <- MCLokOf
  NoRow = NoRow
  MaxCursorEntries = 1
  KindOf <- MCKindOf
  Unwritable = {}
  MaxCrashes = 1
  MaxPanics = 0
  MaxLookupErrors = 0
  MaxAccepted = 0
PROPERTIES
  SkippedWasProcessed
CHECK_DEADLOCK FALSE
