------------------------- MODULE ChainEventProcessor -------------------------
(***************************************************************************)
(* ChainEventProcessorActor (internal/strategy/chain_event_processor_      *)
(* strategy.go, action_handlers.go): the strategy that turns the event     *)
(* stream into rows of the lok tables and, whenever a block is complete,   *)
(* into a cursor point from which a restarted process resumes.             *)
(*                                                                         *)
(* One action per event it receives.  What is lost in a crash (failed,     *)
(* info, cache) is kept apart from the tables, which survive it.           *)
(***************************************************************************)
EXTENDS EventStream, LokDatabase

CONSTANTS
  KindOf,         \* what each transaction does to its lok
  Unwritable,     \* transactions a write... function fails or panics on
  MaxCrashes,     \* bound: crashes of the process
  MaxPanics,      \* bound: panics after which the engine replaces the actor
  MaxLookupErrors,\* bound: failed GetSpendingProof calls
  MaxAccepted     \* bound: mempool events that reach the strategy

Kinds == {"genesis", "mint", "fund", "redeem"}

ASSUME ProcessorAssumption ==
  /\ KindOf \in [Txs -> Kinds \cup {"none"}]
  /\ Unwritable \subseteq Txs
  /\ MaxCrashes \in Nat /\ MaxPanics \in Nat
  /\ MaxLookupErrors \in Nat /\ MaxAccepted \in Nat

VARIABLES
  failed,        \* processingFailed
  info,          \* blockInfoMap, by height
  cache,         \* mempoolTxMap: the action remembered for a transaction
  cleared,       \* history: the engine replaced an actor that had failed
  crashes, panics, lookupErrors, accepted  \* counters for the bounds

volatileVars == <<failed, info, cache>>
panicVars == <<cleared, panics>>
boundVars == <<crashes, panicVars, lookupErrors, accepted>>
vars == <<feedVars, streamVars, dbVars, volatileVars, boundVars>>

BlockInfo == [count : Nat, block : Blocks, offset : Nat]

NoInfo == [h \in 0..MaxHeight |-> NoRow]
EmptyCache == [t \in Txs |-> NoRow]

Init ==
  /\ FeedInit /\ StreamInit /\ DatabaseInit
  /\ failed = FALSE
  /\ info = NoInfo
  /\ cache = EmptyCache
  /\ cleared = FALSE
  /\ crashes = 0 /\ panics = 0 /\ lookupErrors = 0 /\ accepted = 0

-------------------------------------------------------------------------------
(* IndexerBlockEvent: handled even after a failure.                        *)

CountOneShort(b) == NumTxs(b) - 1  \* mutant
InitialCount(b) == NumTxs(b)

HandleBlock(b) ==
  /\ SendBlock(b)
  /\ info' = [info EXCEPT ![HeightOf[b]] =
       [count |-> InitialCount(b), block |-> b, offset |-> blockPos]]
  /\ UNCHANGED <<dbVars, failed, cache, boundVars>>

(* IndexerRollbackEvent: processRollbackEvent forgets the heights from h   *)
(* on, in memory, in the cursor table and in the table block.              *)
HandleRollback(b) ==
  /\ SendRollback(b)
  /\ IF failed
     THEN UNCHANGED <<dbVars, info>>
     ELSE /\ info' = [h \in 0..MaxHeight |->
                        IF h >= HeightOf[b] THEN NoRow ELSE info[h]]
          /\ RollbackCursor(HeightOf[b])
          /\ Rollback(HeightOf[b])
  /\ UNCHANGED <<failed, cache, boundVars>>

-------------------------------------------------------------------------------
(* The action of a transaction (processLokTransaction).  The node is asked *)
(* for the context extension of the lok input; when it does not answer,    *)
(* the action is unknown and the transaction is ignored.  A genesis has no *)
(* lok input.                                                              *)

AskNode(t, a) ==
  \/ a = KindOf[t] /\ UNCHANGED lookupErrors
  \/ /\ KindOf[t] \in Kinds \ {"genesis"}
     /\ lookupErrors < MaxLookupErrors
     /\ lookupErrors' = lookupErrors + 1
     /\ a = "unknown"

ConfirmedAction(t, a) ==
  IF cache[t] # NoRow THEN a = cache[t] /\ UNCHANGED lookupErrors
  ELSE AskNode(t, a)

(* The four handlers (handleGenesis, handleMint, handleFunding,            *)
(* handleRedeem) differ in the table they look at.                         *)

Known(a, t) ==
  CASE a = "genesis" -> CheckGenesisTxExists(t)
    [] a = "mint"    -> CheckMintTxExists(t)
    [] a = "fund"    -> CheckFundingTxExists(t)
    [] a = "redeem"  -> CheckRedeemTxExists(t)

Unconfirmed(a, t) ==
  CASE a = "genesis" -> CheckGenesisTxExistsAndUnconfirmed(t)
    [] a = "mint"    -> CheckMintTxExistsAndUnconfirmed(t)
    [] a = "fund"    -> CheckFundingTxExistsAndUnconfirmed(t)
    [] a = "redeem"  -> CheckRedeemTxExistsAndUnconfirmed(t)

CanWrite(a, t) ==
  /\ t \notin Unwritable
  /\ CASE a = "genesis" -> CanCreateContract(LokOf[t])
       [] a = "mint"    -> CanMint(LokOf[t])
       [] a = "fund"    -> CanFund(LokOf[t], t)
       [] a = "redeem"  -> CanRedeem(LokOf[t])

Write(a, t, b) ==
  \/ a = "genesis" /\ WriteGenesisTx(t, b)
  \/ a = "mint" /\ WriteCreateTokenLokAction(t, b)
  \/ a = "fund" /\ WriteFundingTx(t, b)
  \/ a = "redeem" /\ WriteRedeemTx(t, b)

(* The update reports an error when it finds no unconfirmed row.           *)
CanConfirm(a, t) == a = "fund" => CanConfirmFunding(t)

Confirm(a, t, b) ==
  \/ a = "genesis" /\ UpdateGenesisTxToConfirmed(t, b)
  \/ a = "mint" /\ UpdateMintTxToConfirmed(t, b)
  \/ a = "fund" /\ UpdateFundingTxToConfirmed(t, b)
  \/ a = "redeem" /\ UpdateRedeemTxToConfirmed(t, b)

(* What a handler does with transaction t of block b: it confirms the row  *)
(* the mempool left, skips a row that is confirmed, or writes a new one;   *)
(* ok is FALSE when it returns an error or panics.                         *)
KeepUnconfirmed(a, t, b, ok) ==  \* mutant: any row counts as recorded
  IF a \in Kinds /\ ~Known(a, t) /\ CanWrite(a, t)
  THEN ok /\ Write(a, t, b)
  ELSE /\ ok = (a \notin Kinds \/ Known(a, t))
       /\ UNCHANGED lokTables
RecordTx(a, t, b, ok) ==
  \/ a \notin Kinds /\ ok /\ UNCHANGED lokTables
  \/ /\ a \in Kinds /\ Known(a, t)
     /\ IF ~Unconfirmed(a, t) THEN ok /\ UNCHANGED lokTables
        ELSE IF CanConfirm(a, t) THEN ok /\ Confirm(a, t, b)
        ELSE ~ok /\ UNCHANGED lokTables
  \/ /\ a \in Kinds /\ ~Known(a, t)
     /\ IF CanWrite(a, t) THEN ok /\ Write(a, t, b)
        ELSE ~ok /\ UNCHANGED lokTables

(* IndexerTransactionEvent.  The block is the one last announced at the    *)
(* height; without one the event is an error.                              *)
ProcessTx(o, ok) ==
  LET t == txLog[o].tx
      h == HeightOf[txLog[o].block]
  IN IF info[h] = NoRow
     THEN ~ok /\ UNCHANGED <<lokTables, cache, lookupErrors>>
     ELSE \E a \in Kinds \cup {"none", "unknown"} :
            /\ ConfirmedAction(t, a)
            /\ RecordTx(a, t, info[h].block, ok)
            /\ cache' = IF ok /\ a \in Kinds /\ Unconfirmed(a, t)
                        THEN [cache EXCEPT ![t] = NoRow] ELSE cache

(* The transaction that brings the count of its block to 0 leaves a cursor *)
(* point.                                                                  *)
CursorPointAt(o) ==
  LET h == HeightOf[txLog[o].block]
  IN IF info'[h] # NoRow /\ info'[h].count = 0
     THEN AddCursorPoint(info[h].block, info[h].offset, o)
     ELSE UNCHANGED cursor

HandleTx(o) ==
  /\ SendTx(o)
  /\ ~failed
  /\ \E ok \in BOOLEAN :
       /\ ProcessTx(o, ok)
       /\ failed' = ~ok
       /\ LET h == HeightOf[txLog[o].block]
          IN info' = IF ok /\ info[h] # NoRow
                     THEN [info EXCEPT ![h].count = @ - 1] ELSE info
  /\ CursorPointAt(o)
  /\ UNCHANGED <<crashes, accepted, panicVars>>

DropTxAfterFailure(o) ==
  /\ SendTx(o)
  /\ failed
  /\ UNCHANGED <<dbVars, volatileVars, boundVars>>

(* Transactions the IndexerActor does not send as applied, and what it     *)
(* reads without sending anything.                                         *)
PassOverTx ==
  /\ SkipTx \/ SkipUnappliedTx
  /\ UNCHANGED <<dbVars, volatileVars, boundVars>>

ReadSilently ==
  /\ \/ \E b \in Blocks : DropBlock(b)
     \/ \E o \in 1..Len(txLog) : BufferTx(o)
  /\ UNCHANGED <<dbVars, volatileVars, boundVars>>

-------------------------------------------------------------------------------
(* IndexerMempoolAcceptedEvent: handled even after a failure, and its own  *)
(* errors are only logged.  The events come from a topic of their own and  *)
(* may be late: any transaction, at any time.                              *)

(* A lok has one contract, one mint and one redeem row.                    *)
RowOf(a, c) ==
  CASE a = "genesis" -> contract[c] [] a = "mint" -> mintTx[c]
    [] a = "redeem" -> redeemTx[c] [] OTHER -> NoRow

(* The transaction is stored already, or another one is confirmed.         *)
Superseded(a, t) ==
  \/ a \notin Kinds
  \/ Known(a, t)
  \/ RowOf(a, LokOf[t]) # NoRow /\ RowOf(a, LokOf[t]).confirmed

(* Rollback...ByTxID of an unconfirmed row that another transaction takes  *)
(* over.  No other table is touched, the mint's key apart.                 *)
Evict(a, t) ==
  LET c == LokOf[t]
  IN /\ contract' = IF a = "genesis" THEN [contract EXCEPT ![c] = NoRow] ELSE contract
     /\ mintTx' = IF a = "mint" THEN [mintTx EXCEPT ![c] = NoRow] ELSE mintTx
     /\ key' = IF a = "mint" /\ mintTx[c] # NoRow THEN [key EXCEPT ![c] = NoRow] ELSE key
     /\ redeemTx' = IF a = "redeem" THEN [redeemTx EXCEPT ![c] = NoRow] ELSE redeemTx
     /\ UNCHANGED <<block, fundingTx, tokenEvent>>

WriteMempool(a, t) ==
  \/ a = "genesis" /\ WriteGenesisTxMempool(t)
  \/ a = "mint" /\ WriteCreateTokenLokMempool(t)
  \/ a = "fund" /\ WriteFundingTxMempool(t)
  \/ a = "redeem" /\ WriteRedeemTxMempool(t)

RecordMempoolTx(a, t) ==
  IF Superseded(a, t) THEN UNCHANGED lokTables
  ELSE IF t \notin Unwritable /\ (a = "genesis" \/ contract[LokOf[t]] # NoRow)
  THEN WriteMempool(a, t)
  ELSE Evict(a, t)

HandleMempoolAccepted(t) ==
  /\ KindOf[t] \in Kinds
  /\ accepted < MaxAccepted
  /\ accepted' = accepted + 1
  /\ \E a \in Kinds \cup {"unknown"} :
       /\ AskNode(t, a)
       /\ cache' = [cache EXCEPT ![t] = a]
       /\ RecordMempoolTx(a, t)
  /\ UNCHANGED <<feedVars, streamVars, cursor, failed, info, crashes, panicVars>>

(* IndexerMempoolWithdrawnEvent of a transaction that does not parse: its  *)
(* ID is read outside every recover.  The engine puts a fresh actor in the *)
(* place of the one that panicked, and the stream goes on to it.           *)
PanicOnWithdrawn ==
  /\ panics < MaxPanics
  /\ panics' = panics + 1
  /\ cleared' = (cleared \/ failed)
  /\ failed' = FALSE
  /\ info' = NoInfo
  /\ cache' = EmptyCache
  /\ UNCHANGED <<feedVars, streamVars, dbVars, crashes, lookupErrors, accepted>>

-------------------------------------------------------------------------------
(* A crash and the next start of the process: the newest cursor point left *)
(* whose block the node still knows (a block of its best chain, or an      *)
(* orphan it has kept), else from the beginning.                           *)

Restart ==
  /\ crashes < MaxCrashes
  /\ crashes' = crashes + 1
  /\ failed' = FALSE
  /\ info' = NoInfo
  /\ cache' = EmptyCache
  /\ \/ \E p \in cursor' :
          /\ \A newer \in cursor' : newer.id > p.id => newer.block \notin chain
          /\ RestartAt(p)
     \/ /\ \A p \in cursor' : p.block \notin chain
        /\ RestartFromBeginning
  /\ UNCHANGED <<feedVars, panicVars>>

CrashAndRestart ==
  /\ UNCHANGED <<dbVars, lookupErrors, accepted>>
  /\ Restart

(* The rows of a transaction and the cursor point behind it are written in *)
(* two database transactions ...                                           *)
CrashBeforeCursorPoint ==
  \E o \in 1..Len(txLog), ok \in BOOLEAN, a \in Kinds :
    /\ TxIsNext(o)
    /\ ~failed
    /\ LET t == txLog[o].tx
           h == HeightOf[txLog[o].block]
       IN /\ info[h] # NoRow
          /\ ConfirmedAction(t, a)
          /\ RecordTx(a, t, info[h].block, ok)
    /\ UNCHANGED <<cursor, accepted>>
    /\ Restart

(* ... so are the cursor points and the blocks that a rollback deletes ... *)
CrashInRollback ==
  \E b \in Blocks :
    /\ NextIs("unapply", b)
    /\ ~failed
    /\ RollbackCursor(HeightOf[b])
    /\ UNCHANGED <<lokTables, lookupErrors, accepted>>
    /\ Restart

(* ... and so are the removal of a mempool row and the one in its place.   *)
CrashAfterEvict ==
  \E t \in MempoolTxs :
    /\ KindOf[t] \in Kinds /\ accepted < MaxAccepted
    /\ ~Superseded(KindOf[t], t)
    /\ RowOf(KindOf[t], LokOf[t]) # NoRow
    /\ Evict(KindOf[t], t)
    /\ accepted' = accepted + 1
    /\ UNCHANGED <<cursor, lookupErrors>>
    /\ Restart

-------------------------------------------------------------------------------
Publish(b) ==
  /\ PublishApply(b) \/ PublishUnapply(b)
  /\ UNCHANGED <<streamVars, dbVars, volatileVars, boundVars>>

HandleTopics ==
  \/ \E b \in Blocks : HandleBlock(b) \/ HandleRollback(b)
  \/ \E o \in 1..Len(txLog) : HandleTx(o) \/ DropTxAfterFailure(o)
  \/ PassOverTx
  \/ ReadSilently

Next ==
  \/ \E b \in Blocks : Publish(b)
  \/ HandleTopics
  \/ \E t \in MempoolTxs : HandleMempoolAccepted(t)
  \/ PanicOnWithdrawn
  \/ CrashAndRestart
  \/ CrashBeforeCursorPoint
  \/ CrashInRollback
  \/ CrashAfterEvict

Spec == Init /\ [][Next]_vars

(* The actors keep being scheduled.                                        *)
FairSpec == Spec /\ WF_vars(HandleTopics)

-------------------------------------------------------------------------------
(* Properties.                                                             *)

Confirmed(t) ==
  \/ \E c \in Loks : \/ contract[c] # NoRow /\ contract[c].tx = t /\ contract[c].confirmed
                     \/ mintTx[c] # NoRow /\ mintTx[c].tx = t /\ mintTx[c].confirmed
                     \/ redeemTx[c] # NoRow /\ redeemTx[c].tx = t /\ redeemTx[c].confirmed
  \/ \E r \in fundingTx : r.tx = t /\ r.confirmed

IsIn(t, b) == \E n \in 1..NumTxs(b) : TxsOf[b][n] = t

LokTxsOf(c) ==
  {t \in Txs : /\ KindOf[t] \in Kinds
               /\ \E b \in c : HeightOf[b] >= InterceptHeight /\ IsIn(t, b)}

(* Types of the tables and of the strategy's own state.  count is a uint64 *)
(* that is decremented without a test: it must not pass below 0.           *)
TypeOK ==
  /\ FeedTypeOK /\ StreamTypeOK /\ DatabaseTypeOK
  /\ failed \in BOOLEAN /\ cleared \in BOOLEAN
  /\ info \in [0..MaxHeight -> BlockInfo \cup {NoRow}]
  /\ cache \in [Txs -> Kinds \cup {"unknown", NoRow}]

(* What a cursor point stands for is stored: every lok transaction of the  *)
(* chain that ends in the point's block has a confirmed row, but for those *)
(* of blocks that were dropped because the node did not tell its height    *)
(* (indexer.go:823; the points of later blocks pass over them).  That is   *)
(* as long as the node answered every lookup, the chain did not fork       *)
(* (SkippedWasProcessed says why), and no panic wiped out a failure (the   *)
(* engine's fresh actor knows nothing of it, and writes points again).     *)
ResumeLosesNothing ==
  lookupErrors = 0 /\ ~cleared =>
    \A p \in cursor :
      \A t \in LokTxsOf(blockLog[p.blockOffset].chain \ dropped) : Confirmed(t)

(* A cursor point names one place in both topics: the message that applied *)
(* its block, and the last transaction of that block.  (seekUsingStored-   *)
(* Offsets reads both again and gives the point up otherwise.)             *)
CursorPointExact ==
  \A p \in cursor :
    /\ blockLog[p.blockOffset].kind = "apply"
    /\ blockLog[p.blockOffset].block = p.block
    /\ txLog[p.txOffset].kind = "applied" /\ txLog[p.txOffset].block = p.block
    /\ LastOfBlock(p.txOffset)

(* No cursor point outlives its block: as long as processing goes on, a    *)
(* fork switch that has been handled left no point of the old branch.      *)
(* After a first restart that passed over the newest points (the node did  *)
(* not answer for them) the table holds points from further down the topic *)
(* than the new ones; a second restart at one of those jumps over the      *)
(* rollback of the new ones, so the property speaks of one restart.        *)
CursorOnBranch ==
  ~failed /\ ~cleared /\ crashes <= 1 =>
    \A p \in cursor : \A j \in (p.blockOffset + 1)..(blockPos - 1) :
      blockLog[j].kind = "unapply" => HeightOf[blockLog[j].block] > HeightOf[p.block]

Mined(t, h) ==
  \E i \in 1..Len(blockLog) :
    /\ blockLog[i].kind = "apply" /\ HeightOf[blockLog[i].block] = h
    /\ IsIn(t, blockLog[i].block)

(* A confirmed row tells the truth about its transaction: it was mined at  *)
(* the row's height, a contract's in the very block whose hash is stored.  *)
ConfirmedWasMined ==
  /\ \A c \in Loks :
       /\ \A r \in {mintTx[c], redeemTx[c]} \ {NoRow} :
            r.confirmed => Mined(r.tx, r.height)
       /\ contract[c] # NoRow /\ contract[c].confirmed =>
            IsIn(contract[c].tx, contract[c].hash)
  /\ \A r \in fundingTx : r.confirmed => Mined(r.tx, r.height)

(* However often a transaction is announced, mined and replayed after a    *)
(* crash, its token events are written once.  (A genesis that another one  *)
(* replaced in the mempool is the exception: RollbackGenesisByTxID relies  *)
(* on the cascade that RollbackCascades is about, rollback.go:59.)         *)
TokenEventsOnce == \A t \in Txs : tokenEvent[t] <= 1

(* The tables mint_tx, key and designate move together: a lok has a key    *)
(* exactly when it has a mint, at the same height.                         *)
KeyMatchesMint ==
  \A c \in Loks :
    /\ (key[c] = NoRow) <=> (mintTx[c] = NoRow)
    /\ key[c] # NoRow => key[c] = mintTx[c].height

(* Every lok transaction of the node's chain, but for those of dropped     *)
(* blocks, is stored and confirmed in the end, unless the strategy has     *)
(* given up or a lookup has failed: after a block was dropped the stream   *)
(* goes on to the blocks behind it.                                        *)
EventuallyRecorded ==
  <>[](\/ failed \/ cleared \/ lookupErrors > 0
       \/ \A t \in LokTxsOf(chain \ dropped) : Confirmed(t))

(* A rollback leaves no row at or above its height (rollback.go:10-11).    *)
RollbackCascades ==
  [][\A b \in Blocks : HandleRollback(b) /\ ~failed =>
       /\ \A c \in Loks :
            /\ contract'[c] # NoRow => contract'[c].height < HeightOf[b]
            /\ mintTx'[c] # NoRow => mintTx'[c].height < HeightOf[b]
            /\ redeemTx'[c] # NoRow => redeemTx'[c].height < HeightOf[b]
       /\ \A r \in fundingTx' : r.height < HeightOf[b]]_vars

(* A lok transaction that a resumed indexer skips, because it is "at or    *)
(* below last processed height" (indexer.go:923), has been processed.      *)
SkippedWasProcessed ==
  [][PassOverTx /\ cursorLoaded =>
       LET m == txLog[txPos]
       IN m.kind = "applied" /\ m.block \in chain /\ KindOf[m.tx] \in Kinds
            => Confirmed(m.tx)]_vars

(* A funding transaction that is stored and confirmed is skipped when it   *)
(* comes again, it is no error (action_handlers.go:362-366).               *)
ReplayedFundingSkipped ==
  [][\A o \in 1..Len(txLog) :
       HandleTx(o) /\ KindOf[txLog[o].tx] = "fund" /\ Confirmed(txLog[o].tx)
         => ~failed']_vars
==============================================================================
