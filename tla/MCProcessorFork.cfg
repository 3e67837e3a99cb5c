\* Fork switches up to two blocks deep, a competing mempool transaction, a panic and a crash, safety.
SPECIFICATION Spec
CONSTANTS
  Blocks <- MCAll
  HeightOf <- MCHeightOf
  ParentOf <- MCParentOf
  Txs <- MCTxs
  TxsOf <- MCTxsOf
  Root = "root"
  MempoolTxs = {"g2", "m"}
  FirstHeight = 1
  MaxHeight = 3
  MaxApplies = 1
  MaxUnapplies = 2
  MaxMempool = 0
  MaxMalformed = 0
  InterceptHeight = 1
  MaxNodeErrors = 0
  Loks = {"lok", "lok2"}
  LokOf <- MCLokOf
  NoRow = NoRow
  MaxCursorEntries = 1
  KindOf <- MCKindOf
  Unwritable = {"g2"}
  MaxCrashes = 1
  MaxPanics = 1
  MaxLookupErrors = 0
  MaxAccepted = 1
INVARIANTS
  CursorPointExact
  CursorOnBranch
  ConfirmedWasMined
CHECK_DEADLOCK FALSE
