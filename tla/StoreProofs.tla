------------------------------ MODULE StoreProofs ------------------------------
(***************************************************************************)
(* What the chain event processor keeps in its tables, for every chain,    *)
(* fork pattern, life of the loks, and order of mempool announcements,     *)
(* however often the process crashes, fails to write or panics.            *)
(*                                                                         *)
(* The key of a lok moves with its mint and a confirmed row tells the      *)
(* truth about its transaction; up to the first restart and after it no    *)
(* cursor point is left of a branch that was rolled back.                  *)
(*                                                                         *)
(* What a restarted processor can rely on:                                 *)
(*  - a cursor point stands behind the last transaction of its block, and  *)
(*    the tables and counts keep their types, when no block joins the best *)
(*    chain twice (a block that leaves it and comes back has a second run  *)
(*    in the transaction topic, and a point can be written in the first);  *)
(*  - the token events of a transaction are written once, when the mempool *)
(*    holds no two geneses of one lok (the second takes the row away that  *)
(*    says the events of the first are written);                           *)
(*  - resuming behind a point loses nothing, on a chain that never forks.  *)
(*                                                                         *)
(* The argument: the messages that apply a block lie one behind the other  *)
(* (RunsInv of FeedProofs), and a count is never less than what the reader *)
(* has still before it of its block (CountsInv), so that only the last     *)
(* message writes the point (PointsInv).  What the stream passes over is   *)
(* below the intercept height or behind a point (DoneInv); everything      *)
(* before the reader and everything behind a point is confirmed (KeptInv), *)
(* and without a rollback nothing confirmed is taken away (AllStay).       *)
(***************************************************************************)
EXTENDS ChainEventProcessor, FeedProofs

-------------------------------------------------------------------------------
(* Types: of what the strategy remembers of a block no more than that it   *)
(* is one (that its count does not wrap depends on how often a block joins *)
(* the chain).                                                             *)

LooseInfo == [count : Int, block : Blocks, offset : Nat \ {0}]

StoreTyping ==
  /\ FeedTypeOK
  /\ blockPos \in 1..(Len(blockLog) + 1)
  /\ info \in [0..MaxHeight -> LooseInfo \cup {NoRow}]
  /\ \A h \in 0..MaxHeight :
       info[h] # NoRow => info[h].offset < blockPos /\ HeightOf[info[h].block] = h
  /\ crashes \in Nat
  /\ \A p \in cursor : p.block \in Blocks /\ p.blockOffset \in 1..Len(blockLog)

(* The next message of either topic that is handled is one of a block.     *)
LEMMA NextMessage ==
  ASSUME StoreTyping
  PROVE  /\ \A o \in 1..Len(txLog) : TxIsNext(o) =>
              txLog[o].block \in Blocks /\ txLog[o].tx \in Txs
              /\ HeightOf[txLog[o].block] \in 0..MaxHeight
         /\ \A b \in Blocks : HeightOf[b] \in 0..MaxHeight
BY FeedAssumption DEF StoreTyping, FeedTypeOK, TxIsNext, TxMessage

-------------------------------------------------------------------------------
(* The key of a lok moves with its mint.  An update finds its rows by the  *)
(* transaction, in both tables, so it must be known which lok a mint row   *)
(* is of.                                                                  *)

MintTyping ==
  /\ mintTx \in [Loks -> Row \cup {NoRow}]
  /\ key \in [Loks -> Nat \cup {NoRow}]

MintOfItsLok == \A c \in Loks : mintTx[c] # NoRow => LokOf[mintTx[c].tx] = c

MintInv == MintTyping /\ MintOfItsLok /\ KeyMatchesMint

LEMMA RowFacts ==
  ASSUME NEW t \in Txs, NEW h \in Nat, NEW c \in BOOLEAN
  PROVE  /\ NewRow(t, h, c) \in Row /\ NewRow(t, h, c) # NoRow
         /\ NewRow(t, h, c).tx = t /\ NewRow(t, h, c).height = h
         /\ h # NoRow /\ LokOf[t] \in Loks
BY DatabaseAssumption DEF NewRow, Row

(* A new mint of t at height h, or the confirmation of its row.            *)
LEMMA MintWritten ==
  ASSUME MintInv, NEW t \in Txs, NEW h \in Nat, NEW c \in BOOLEAN,
         mintTx' = [mintTx EXCEPT ![LokOf[t]] = NewRow(t, h, c)],
         key' = [key EXCEPT ![LokOf[t]] = h]
  PROVE  MintInv'
BY RowFacts DEF MintInv, MintTyping, MintOfItsLok, KeyMatchesMint

LEMMA MintConfirmed ==
  ASSUME MintInv, NEW t \in Txs, NEW b \in Blocks, HeightOf[b] \in Nat,
         UpdateMintTxToConfirmed(t, b), CheckMintTxExistsAndUnconfirmed(t)
  PROVE  MintInv'
<1> DEFINE h == HeightOf[b]
<1>1. NewRow(t, h, TRUE) \in Row /\ NewRow(t, h, TRUE) # NoRow /\ h # NoRow
      /\ NewRow(t, h, TRUE).tx = t /\ NewRow(t, h, TRUE).height = h
  BY RowFacts
<1>2. LokOf[t] \in Loks
  BY DatabaseAssumption
<1>3. ~mintTx[LokOf[t]].confirmed /\ mintTx[LokOf[t]] # NoRow /\ mintTx[LokOf[t]].tx = t
  BY DEF CheckMintTxExistsAndUnconfirmed, MintInv, MintOfItsLok
<1>4. \A c \in Loks : c # LokOf[t] => ~(mintTx[c] # NoRow /\ mintTx[c].tx = t)
  BY DEF MintInv, MintOfItsLok
<1>5. key[LokOf[t]] # NoRow
  BY <1>2, <1>3 DEF MintInv, KeyMatchesMint
<1>6. /\ mintTx' = [c \in Loks |-> IF c = LokOf[t] THEN NewRow(t, h, TRUE) ELSE mintTx[c]]
      /\ key' = [c \in Loks |-> IF c = LokOf[t] THEN h ELSE key[c]]
  BY <1>3, <1>4, <1>5 DEF UpdateMintTxToConfirmed, ConfirmIn
<1>7. MintTyping'
  BY <1>1, <1>6 DEF MintInv, MintTyping
<1>8. MintOfItsLok'
  BY <1>1, <1>6 DEF MintInv, MintOfItsLok
<1>9. KeyMatchesMint'
  BY <1>1, <1>6 DEF MintInv, KeyMatchesMint
<1> QED BY <1>7, <1>8, <1>9 DEF MintInv

LEMMA MintStays ==
  ASSUME MintInv, UNCHANGED <<mintTx, key>>
  PROVE  MintInv'
BY DEF MintInv, MintTyping, MintOfItsLok, KeyMatchesMint

LEMMA RecordKeepsMint ==
  ASSUME MintInv, NEW a, NEW t \in Txs, NEW b \in Blocks, NEW ok,
         HeightOf[b] \in Nat, RecordTx(a, t, b, ok)
  PROVE  MintInv'
<1>1. CASE UNCHANGED lokTables
  BY <1>1, MintStays DEF lokTables
<1>2. CASE Write(a, t, b)
  <2>1. CASE WriteCreateTokenLokAction(t, b)
    BY <2>1, MintWritten DEF WriteCreateTokenLokAction
  <2>2. CASE WriteGenesisTx(t, b) \/ WriteFundingTx(t, b) \/ WriteRedeemTx(t, b)
    BY <2>2, MintStays DEF WriteGenesisTx, WriteFundingTx, WriteRedeemTx
  <2> QED BY <1>2, <2>1, <2>2 DEF Write
<1>3. CASE Confirm(a, t, b) /\ Unconfirmed(a, t)
  <2>1. CASE a = "mint" /\ UpdateMintTxToConfirmed(t, b)
    BY <1>3, <2>1, MintConfirmed DEF Unconfirmed
  <2>2. CASE UpdateGenesisTxToConfirmed(t, b) \/ UpdateFundingTxToConfirmed(t, b)
             \/ UpdateRedeemTxToConfirmed(t, b)
    BY <2>2, MintStays DEF UpdateGenesisTxToConfirmed, UpdateFundingTxToConfirmed,
                           UpdateRedeemTxToConfirmed
  <2> QED BY <1>3, <2>1, <2>2 DEF Confirm
<1> QED BY <1>1, <1>2, <1>3 DEF RecordTx

(* A mempool row makes way, with its key.                                  *)
LEMMA EvictKeepsMint ==
  ASSUME MintInv, NEW a, NEW t \in Txs, Evict(a, t)
  PROVE  MintInv'
<1>1. LokOf[t] \in Loks
  BY DatabaseAssumption
<1>2. CASE a = "mint"
  <2>1. mintTx' = [mintTx EXCEPT ![LokOf[t]] = NoRow]
    BY <1>2 DEF Evict
  <2>2. key' = [key EXCEPT ![LokOf[t]] = NoRow]
    BY <1>1, <1>2 DEF Evict, MintInv, MintTyping, KeyMatchesMint
  <2> QED BY <1>1, <2>1, <2>2 DEF MintInv, MintTyping, MintOfItsLok, KeyMatchesMint
<1>3. CASE a # "mint"
  BY <1>3, MintStays DEF Evict
<1> QED BY <1>2, <1>3

LEMMA RecordMempoolKeepsMint ==
  ASSUME MintInv, NEW a, NEW t \in Txs, RecordMempoolTx(a, t)
  PROVE  MintInv'
<1>1. CASE UNCHANGED lokTables
  BY <1>1, MintStays DEF lokTables
<1>2. CASE WriteMempool(a, t)
  <2>1. CASE WriteCreateTokenLokMempool(t)
    BY <2>1, MintWritten DEF WriteCreateTokenLokMempool
  <2>2. CASE WriteGenesisTxMempool(t) \/ WriteFundingTxMempool(t) \/ WriteRedeemTxMempool(t)
    BY <2>2, MintStays DEF WriteGenesisTxMempool, WriteFundingTxMempool,
                           WriteRedeemTxMempool
  <2> QED BY <1>2, <2>1, <2>2 DEF WriteMempool
<1>3. CASE Evict(a, t)
  BY <1>3, EvictKeepsMint
<1> QED BY <1>1, <1>2, <1>3 DEF RecordMempoolTx

-------------------------------------------------------------------------------
(* What each event does to the strategy's memory and its cursor points.    *)

LEMMA PublishStep ==
  ASSUME StoreTyping, NEW b \in Blocks, Publish(b)
  PROVE  /\ StoreTyping' /\ IsGrownFrom(blockLog', blockLog)
         /\ UNCHANGED <<mintTx, key, cursor, info, failed, cleared, crashes, blockPos>>
<1>1. /\ UNCHANGED <<mintTx, key, cursor, info, failed, cleared, crashes, blockPos, txPos>>
      /\ PublishApply(b) \/ PublishUnapply(b)
  BY DEF Publish, streamVars, dbVars, lokTables, volatileVars, boundVars, panicVars
<1>2. FeedTypeOK' /\ IsGrownFrom(blockLog', blockLog)
  BY <1>1, FeedTyping DEF StoreTyping, FeedNext
<1>3. Len(blockLog) \in Nat /\ Len(blockLog') \in Nat /\ Len(blockLog) <= Len(blockLog')
  BY <1>2 DEF StoreTyping, FeedTypeOK, IsGrownFrom
<1>4. \A p \in cursor' : p.block \in Blocks /\ p.blockOffset \in 1..Len(blockLog')
  BY <1>1, <1>3 DEF StoreTyping
<1>5. blockPos' \in 1..(Len(blockLog') + 1)
  BY <1>1, <1>3 DEF StoreTyping
<1> QED BY <1>1, <1>2, <1>4, <1>5 DEF StoreTyping

LEMMA BlockStep ==
  ASSUME StoreTyping, NEW b \in Blocks, HandleBlock(b)
  PROVE  /\ StoreTyping'
         /\ blockPos \in 1..Len(blockLog) /\ blockLog[blockPos].kind = "apply"
         /\ blockPos' = blockPos + 1
         /\ info' = [info EXCEPT ![HeightOf[b]] =
                        [count |-> InitialCount(b), block |-> b, offset |-> blockPos]]
         /\ UNCHANGED <<mintTx, key, cursor, blockLog, failed, cleared, crashes>>
<1>1. /\ blockPos \in 1..Len(blockLog) /\ blockLog[blockPos].kind = "apply"
      /\ blockPos' = blockPos + 1
      /\ info' = [info EXCEPT ![HeightOf[b]] =
                     [count |-> InitialCount(b), block |-> b, offset |-> blockPos]]
      /\ UNCHANGED <<mintTx, key, cursor, blockLog, failed, cleared, crashes>>
      /\ UNCHANGED <<feedVars, txPos>>
  BY DEF HandleBlock, SendBlock, NextIs, feedVars, dbVars, lokTables, boundVars, panicVars, StoreTyping
<1>2. InitialCount(b) \in Int /\ HeightOf[b] \in 0..MaxHeight
  BY FeedAssumption DEF InitialCount, NumTxs
<1>3. FeedTypeOK'
  BY <1>1 DEF StoreTyping, FeedTypeOK, feedVars
<1>4. [count |-> InitialCount(b), block |-> b, offset |-> blockPos] \in LooseInfo
  BY <1>1, <1>2 DEF LooseInfo
<1>5. info' \in [0..MaxHeight -> LooseInfo \cup {NoRow}]
  BY <1>1, <1>4 DEF StoreTyping
<1>6. \A h \in 0..MaxHeight :
        info'[h] # NoRow => info'[h].offset < blockPos' /\ HeightOf[info'[h].block] = h
  BY <1>1, <1>2 DEF StoreTyping, LooseInfo
<1> QED BY <1>1, <1>3, <1>5, <1>6 DEF StoreTyping

LEMMA RollbackStep ==
  ASSUME StoreTyping, NEW b \in Blocks, HandleRollback(b)
  PROVE  /\ StoreTyping'
         /\ blockPos \in 1..Len(blockLog)
         /\ blockLog[blockPos].kind = "unapply" /\ blockLog[blockPos].block = b
         /\ blockPos' = blockPos + 1
         /\ failed => UNCHANGED cursor
         /\ ~failed => /\ cursor' = {p \in cursor : HeightOf[p.block] < HeightOf[b]}
                       /\ \A h \in 0..MaxHeight :
                            info'[h] # NoRow => h < HeightOf[b] /\ info'[h] = info[h]
         /\ UNCHANGED <<mintTx, key, blockLog, failed, cleared, crashes>>
<1>1. /\ blockPos \in 1..Len(blockLog)
      /\ blockLog[blockPos].kind = "unapply" /\ blockLog[blockPos].block = b
      /\ blockPos' = blockPos + 1
      /\ UNCHANGED <<failed, cleared, crashes, blockLog, feedVars, txPos>>
  BY DEF HandleRollback, SendRollback, NextIs, feedVars, boundVars, panicVars, StoreTyping
<1>2. FeedTypeOK'
  BY <1>1 DEF StoreTyping, FeedTypeOK, feedVars
<1>3. CASE failed
  <2>1. UNCHANGED <<mintTx, key, cursor, info>>
    BY <1>3 DEF HandleRollback, dbVars, lokTables
  <2>2. \A h \in 0..MaxHeight :
          info'[h] # NoRow => info'[h].offset < blockPos' /\ HeightOf[info'[h].block] = h
    BY <1>1, <2>1 DEF StoreTyping, LooseInfo
  <2> QED BY <1>1, <1>2, <1>3, <2>1, <2>2 DEF StoreTyping
<1>4. CASE ~failed
  <2>1. /\ info' = [h \in 0..MaxHeight |-> IF h >= HeightOf[b] THEN NoRow ELSE info[h]]
        /\ cursor' = {p \in cursor : HeightOf[p.block] < HeightOf[b]}
        /\ UNCHANGED <<mintTx, key>>
    BY <1>4 DEF HandleRollback, RollbackCursor, BelowHeight, Rollback
  <2>2. HeightOf[b] \in 0..MaxHeight
    BY FeedAssumption
  <2>3. info' \in [0..MaxHeight -> LooseInfo \cup {NoRow}]
    BY <2>1 DEF StoreTyping
  <2>4. \A h \in 0..MaxHeight :
          info'[h] # NoRow => h < HeightOf[b] /\ info'[h] = info[h]
    BY <2>1, <2>2
  <2>5. \A h \in 0..MaxHeight :
          info'[h] # NoRow => info'[h].offset < blockPos' /\ HeightOf[info'[h].block] = h
    BY <1>1, <2>3, <2>4 DEF StoreTyping, LooseInfo
  <2>6. \A p \in cursor' : p.block \in Blocks /\ p.blockOffset \in 1..Len(blockLog')
    BY <1>1, <2>1 DEF StoreTyping
  <2> QED BY <1>1, <1>2, <1>4, <2>1, <2>3, <2>4, <2>5, <2>6 DEF StoreTyping
<1> QED BY <1>3, <1>4

(* A point that is added names the block the strategy knows at the height  *)
(* of the transaction.                                                     *)
NewPointOf(h) ==
  \A p \in cursor' : p \in cursor
                     \/ (info[h] # NoRow /\ p.block = info[h].block
                         /\ p.blockOffset = info[h].offset)

LEMMA AddedPoint ==
  ASSUME NEW b, NEW blockOffset, NEW txOffset, AddCursorPoint(b, blockOffset, txOffset)
  PROVE  \A p \in cursor' : p \in cursor \/ (p.block = b /\ p.blockOffset = blockOffset)
BY DEF AddCursorPoint

LEMMA TxStep ==
  ASSUME StoreTyping, NEW o \in 1..Len(txLog), HandleTx(o)
  PROVE  /\ StoreTyping' /\ ~failed
         /\ \E h \in 0..MaxHeight : NewPointOf(h)
         /\ \A h \in 0..MaxHeight : info'[h] # NoRow =>
              /\ info[h] # NoRow
              /\ info'[h].block = info[h].block /\ info'[h].offset = info[h].offset
         /\ UNCHANGED <<blockLog, blockPos, crashes, cleared>>
<1> DEFINE H == HeightOf[txLog[o].block]
<1>1. /\ ~failed /\ TxIsNext(o) /\ txPos' = txPos + 1
      /\ UNCHANGED <<feedVars, blockLog, blockPos, crashes, cleared>>
  BY DEF HandleTx, SendTx, feedVars, panicVars
<1>2. H \in 0..MaxHeight
  BY <1>1, NextMessage
<1>3. FeedTypeOK'
  BY <1>1 DEF StoreTyping, FeedTypeOK, feedVars
<1>4. PICK ok \in BOOLEAN :
        /\ failed' = ~ok
        /\ info' = IF ok /\ info[H] # NoRow THEN [info EXCEPT ![H].count = @ - 1]
                   ELSE info
  BY DEF HandleTx
<1>5. ASSUME info[H] # NoRow, ok
      PROVE  /\ info' \in [0..MaxHeight -> LooseInfo \cup {NoRow}]
             /\ \A h \in 0..MaxHeight : info'[h] # NoRow =>
                  /\ info[h] # NoRow
                  /\ info'[h].block = info[h].block /\ info'[h].offset = info[h].offset
  <2>1. info[H] \in LooseInfo
    BY <1>2, <1>5 DEF StoreTyping
  <2>2. info' = [info EXCEPT ![H] = [info[H] EXCEPT !.count = @ - 1]]
    BY <1>4, <1>5
  <2>3. [info[H] EXCEPT !.count = @ - 1] \in LooseInfo
    BY <2>1 DEF LooseInfo
  <2>4. info' \in [0..MaxHeight -> LooseInfo \cup {NoRow}]
    BY <2>2, <2>3 DEF StoreTyping
  <2>5. /\ [info[H] EXCEPT !.count = @ - 1].block = info[H].block
        /\ [info[H] EXCEPT !.count = @ - 1].offset = info[H].offset
    BY <2>1 DEF LooseInfo
  <2>6. ASSUME NEW h \in 0..MaxHeight, info'[h] # NoRow
        PROVE  /\ info[h] # NoRow
               /\ info'[h].block = info[h].block /\ info'[h].offset = info[h].offset
    <3>1. CASE h = H
      <4>1. info'[h] = [info[H] EXCEPT !.count = @ - 1]
        BY <1>2, <2>2, <3>1 DEF StoreTyping
      <4> QED BY <1>5, <2>5, <3>1, <4>1
    <3>2. CASE h # H
      BY <2>2, <2>6, <3>2 DEF StoreTyping
    <3> QED BY <3>1, <3>2
  <2> QED BY <2>4, <2>6
<1>6. ~(info[H] # NoRow /\ ok) => info' = info
  BY <1>4
<1>7. /\ info' \in [0..MaxHeight -> LooseInfo \cup {NoRow}]
      /\ \A h \in 0..MaxHeight : info'[h] # NoRow =>
              /\ info[h] # NoRow
              /\ info'[h].block = info[h].block /\ info'[h].offset = info[h].offset
  BY <1>5, <1>6 DEF StoreTyping
<1>8. NewPointOf(H)
  <2>1. CASE UNCHANGED cursor
    BY <2>1 DEF NewPointOf
  <2>2. CASE info'[H] # NoRow /\ AddCursorPoint(info[H].block, info[H].offset, o)
    BY <1>2, <1>7, <2>2, AddedPoint DEF NewPointOf
  <2> QED BY <2>1, <2>2 DEF HandleTx, CursorPointAt
<1>9. \A p \in cursor' : p.block \in Blocks /\ p.blockOffset \in 1..Len(blockLog')
  <2>1. info[H] # NoRow => /\ info[H].block \in Blocks
                           /\ info[H].offset \in 1..Len(blockLog)
    BY <1>2 DEF StoreTyping, LooseInfo
  <2>2. \A p \in cursor : p.block \in Blocks /\ p.blockOffset \in 1..Len(blockLog)
    BY DEF StoreTyping
  <2>3. UNCHANGED blockLog
    BY <1>1 DEF feedVars
  <2>4. ASSUME NEW p \in cursor', p \notin cursor
        PROVE  p.block \in Blocks /\ p.blockOffset \in 1..Len(blockLog)
    BY <1>8, <2>1, <2>4 DEF NewPointOf
  <2> QED BY <2>2, <2>3, <2>4
<1>10. StoreTyping'
  <2>1. UNCHANGED <<blockLog, blockPos, crashes>>
    BY <1>1 DEF feedVars
  <2>2. blockPos' \in 1..(Len(blockLog') + 1) /\ crashes' \in Nat
    BY <2>1 DEF StoreTyping
  <2>3. ASSUME NEW h \in 0..MaxHeight, info'[h] # NoRow
        PROVE  info'[h].offset < blockPos' /\ HeightOf[info'[h].block] = h
    <3>1. info[h].offset < blockPos /\ HeightOf[info[h].block] = h
      BY <1>7, <2>3 DEF StoreTyping
    <3> QED BY <1>7, <2>1, <2>3, <3>1
  <2> QED BY <1>3, <1>7, <1>9, <2>2, <2>3 DEF StoreTyping
<1> QED BY <1>1, <1>2, <1>7, <1>8, <1>10

(* What neither reads nor writes blocks or points.                         *)
LEMMA QuietStep ==
  ASSUME StoreTyping,
         UNCHANGED <<feedVars, blockPos, info, failed, crashes, cursor>>
  PROVE  StoreTyping'
BY DEF StoreTyping, FeedTypeOK, feedVars

(* A transaction is read early, or a block and not sent.                   *)
LEMMA ReadStep ==
  ASSUME StoreTyping, ReadSilently
  PROVE  /\ StoreTyping'
         /\ \/ UNCHANGED blockPos
            \/ /\ blockPos \in 1..Len(blockLog) /\ blockLog[blockPos].kind = "apply"
               /\ blockPos' = blockPos + 1
         /\ UNCHANGED <<feedVars, blockLog, dbVars, volatileVars, boundVars>>
         /\ UNCHANGED <<emitted, done, start, cursorLoaded, txPos>>
<1>1. /\ \/ UNCHANGED blockPos
         \/ /\ blockPos \in 1..Len(blockLog) /\ blockLog[blockPos].kind = "apply"
            /\ blockPos' = blockPos + 1
      /\ UNCHANGED <<feedVars, blockLog, dbVars, volatileVars, boundVars>>
      /\ UNCHANGED <<emitted, done, start, cursorLoaded, txPos>>
  BY DEF ReadSilently, DropBlock, NextIs, BufferTx, StoreTyping, feedVars
<1>2. UNCHANGED <<cursor, info, failed, crashes>>
  BY <1>1 DEF dbVars, volatileVars, boundVars
<1>3. /\ Len(blockLog) \in Nat
      /\ \A h \in 0..MaxHeight : info[h] # NoRow => info[h].offset \in Nat
  BY DEF StoreTyping, FeedTypeOK, LooseInfo
<1>4. /\ blockPos' \in 1..(Len(blockLog') + 1)
      /\ \A h \in 0..MaxHeight : info[h] # NoRow => info[h].offset < blockPos'
  BY <1>1, <1>3 DEF StoreTyping
<1>5. FeedTypeOK'
  BY <1>1 DEF StoreTyping, FeedTypeOK, feedVars
<1> QED BY <1>1, <1>2, <1>4, <1>5 DEF StoreTyping

(* A process that starts again finds the points the crash has left it.     *)
RestartWith == Restart /\ cursor' \subseteq cursor

LEMMA CrashStep ==
  ASSUME \/ CrashAndRestart \/ CrashBeforeCursorPoint
         \/ CrashInRollback \/ CrashAfterEvict
  PROVE  RestartWith
BY DEF CrashAndRestart, CrashBeforeCursorPoint, CrashInRollback, CrashAfterEvict,
       RestartWith, dbVars, RollbackCursor, BelowHeight

LEMMA RestartStep ==
  ASSUME StoreTyping, RestartWith
  PROVE  /\ StoreTyping'
         /\ crashes' = crashes + 1
         /\ \/ blockPos' = 1
            \/ \E p \in cursor : blockPos' = p.blockOffset + 1
         /\ \A h \in 0..MaxHeight : info'[h] = NoRow
         /\ cursor' \subseteq cursor
         /\ UNCHANGED <<blockLog, cleared>>
<1>1. /\ crashes' = crashes + 1 /\ failed' = FALSE /\ info' = NoInfo
      /\ cursor' \subseteq cursor
      /\ UNCHANGED <<feedVars, blockLog, cleared>>
  BY DEF RestartWith, Restart, feedVars, panicVars
<1>2. \/ blockPos' = 1
      \/ \E p \in cursor : blockPos' = p.blockOffset + 1
  BY DEF RestartWith, Restart, RestartAt, RestartFromBeginning
<1>3. FeedTypeOK'
  BY <1>1 DEF StoreTyping, FeedTypeOK, feedVars
<1>4. \A h \in 0..MaxHeight : info'[h] = NoRow
  BY <1>1 DEF NoInfo
<1>5. info' \in [0..MaxHeight -> LooseInfo \cup {NoRow}]
  BY <1>1 DEF NoInfo
<1>6. blockPos' \in 1..(Len(blockLog') + 1)
  <2>1. Len(blockLog) \in Nat /\ \A p \in cursor : p.blockOffset \in 1..Len(blockLog)
    BY DEF StoreTyping, FeedTypeOK
  <2> QED BY <1>1, <1>2, <2>1
<1>7. /\ crashes' \in Nat
      /\ \A p \in cursor' : p.block \in Blocks /\ p.blockOffset \in 1..Len(blockLog')
  BY <1>1 DEF StoreTyping
<1>8. StoreTyping'
  BY <1>3, <1>4, <1>5, <1>6, <1>7 DEF StoreTyping
<1> QED BY <1>1, <1>2, <1>4, <1>8

-------------------------------------------------------------------------------
(* The branch of the cursor points.                                        *)

(* No unapply message of a height up to h lies in the block topic between  *)
(* offset and last.                                                        *)
Kept(offset, h, last) ==
  \A j \in (offset + 1)..last :
    blockLog[j].kind = "unapply" => HeightOf[blockLog[j].block] > h

(* What the strategy knows of a block is of the branch it has read; so are *)
(* the points, until a second restart; before the first one no point lies  *)
(* beyond a rollback of another either, so that wherever that restart puts *)
(* the reader, the points are of the branch up to there.                   *)
BranchInv ==
  /\ StoreTyping
  /\ ~failed => \A h \in 0..MaxHeight :
                   info[h] # NoRow => Kept(info[h].offset, h, blockPos - 1)
  /\ ~failed /\ ~cleared /\ crashes <= 1 => \A p \in cursor :
                   Kept(p.blockOffset, HeightOf[p.block], blockPos - 1)
  /\ crashes = 0 /\ ~cleared => \A p, q \in cursor :
                      /\ p.blockOffset < blockPos
                      /\ Kept(p.blockOffset, HeightOf[p.block], q.blockOffset)

LEMMA KeptLonger ==
  ASSUME NEW offset \in Nat, NEW h \in Nat, NEW last \in 0..Len(blockLog),
         Kept(offset, h, last),
         IsGrownFrom(blockLog', blockLog), Len(blockLog) \in Nat
  PROVE  Kept(offset, h, last)'
BY DEF Kept, IsGrownFrom

LEMMA BranchPublish ==
  ASSUME BranchInv, NEW b \in Blocks, Publish(b)
  PROVE  BranchInv'
<1> USE DEF BranchInv
<1>1. /\ StoreTyping' /\ IsGrownFrom(blockLog', blockLog)
      /\ UNCHANGED <<cursor, info, failed, cleared, crashes, blockPos>>
  BY PublishStep
<1>2. blockPos - 1 \in 0..Len(blockLog) /\ Len(blockLog) \in Nat
  BY DEF StoreTyping, FeedTypeOK
<1>3. \A h \in 0..MaxHeight : info[h] # NoRow => info[h].offset \in Nat /\ h \in Nat
  BY DEF StoreTyping, LooseInfo
<1>4. \A p \in cursor : /\ p.blockOffset \in Nat /\ p.blockOffset \in 0..Len(blockLog)
                        /\ HeightOf[p.block] \in Nat
  BY NextMessage DEF StoreTyping
<1>5. ~failed' => \A h \in 0..MaxHeight :
                    info'[h] # NoRow => Kept(info[h].offset, h, blockPos - 1)'
  BY <1>1, <1>2, <1>3, KeptLonger
<1>6. ~failed' /\ ~cleared' /\ crashes' <= 1 => \A p \in cursor' :
                   Kept(p.blockOffset, HeightOf[p.block], blockPos - 1)'
  BY <1>1, <1>2, <1>4, KeptLonger
<1>7. crashes' = 0 /\ ~cleared' => \A p, q \in cursor' :
                      /\ p.blockOffset < blockPos'
                      /\ Kept(p.blockOffset, HeightOf[p.block], q.blockOffset)'
  BY <1>1, <1>2, <1>4, KeptLonger
<1> QED BY <1>1, <1>5, <1>6, <1>7

LEMMA BranchBlock ==
  ASSUME BranchInv, NEW b \in Blocks, HandleBlock(b)
  PROVE  BranchInv'
<1> USE DEF BranchInv
<1>1. /\ StoreTyping'
      /\ blockPos \in 1..Len(blockLog) /\ blockLog[blockPos].kind = "apply"
      /\ blockPos' = blockPos + 1
      /\ info' = [info EXCEPT ![HeightOf[b]] =
                     [count |-> InitialCount(b), block |-> b, offset |-> blockPos]]
      /\ UNCHANGED <<cursor, blockLog, failed, cleared, crashes>>
  BY BlockStep
<1>2. ASSUME NEW offset \in Nat, NEW h \in Nat, Kept(offset, h, blockPos - 1)
      PROVE  Kept(offset, h, blockPos - 1)'
  BY <1>1, <1>2 DEF Kept
<1>3. \A h \in Nat : Kept(blockPos, h, blockPos - 1)'
  BY <1>1 DEF Kept
<1>4. \A p \in cursor : p.blockOffset \in Nat /\ HeightOf[p.block] \in Nat
  BY NextMessage DEF StoreTyping
<1>5. ASSUME ~failed', NEW h \in 0..MaxHeight, info'[h] # NoRow
      PROVE  Kept(info[h].offset, h, blockPos - 1)'
  <2>1. CASE h = HeightOf[b]
    <3>1. info'[h].offset = blockPos
      BY <1>1, <2>1 DEF StoreTyping
    <3> QED BY <1>1, <1>3, <3>1 DEF Kept
  <2>2. CASE h # HeightOf[b]
    <3>1. info'[h] = info[h] /\ info[h].offset \in Nat
      BY <1>1, <1>5, <2>2 DEF StoreTyping, LooseInfo
    <3>2. Kept(info[h].offset, h, blockPos - 1)
      BY <1>1, <1>5, <3>1
    <3> QED BY <1>1, <3>1, <3>2 DEF Kept
  <2> QED BY <2>1, <2>2
<1>6. ~failed' /\ ~cleared' /\ crashes' <= 1 => \A p \in cursor' :
                   Kept(p.blockOffset, HeightOf[p.block], blockPos - 1)'
  BY <1>1, <1>2, <1>4
<1>7. crashes' = 0 /\ ~cleared' => \A p, q \in cursor' :
                      /\ p.blockOffset < blockPos'
                      /\ Kept(p.blockOffset, HeightOf[p.block], q.blockOffset)'
  BY <1>1, <1>4 DEF Kept
<1> QED BY <1>1, <1>5, <1>6, <1>7

LEMMA BranchRollback ==
  ASSUME BranchInv, NEW b \in Blocks, HandleRollback(b)
  PROVE  BranchInv'
<1> USE DEF BranchInv
<1>1. /\ StoreTyping'
      /\ blockPos \in 1..Len(blockLog)
      /\ blockLog[blockPos].kind = "unapply" /\ blockLog[blockPos].block = b
      /\ blockPos' = blockPos + 1
      /\ failed => UNCHANGED cursor
      /\ ~failed => /\ cursor' = {p \in cursor : HeightOf[p.block] < HeightOf[b]}
                    /\ \A h \in 0..MaxHeight :
                         info'[h] # NoRow => h < HeightOf[b] /\ info'[h] = info[h]
      /\ UNCHANGED <<blockLog, failed, cleared, crashes>>
  BY RollbackStep
<1>2. ASSUME NEW offset \in Nat, NEW h \in Nat, h < HeightOf[b],
             Kept(offset, h, blockPos - 1)
      PROVE  \A j \in (offset + 1)..(blockPos' - 1) :
               blockLog'[j].kind = "unapply" => HeightOf[blockLog'[j].block] > h
  BY <1>1, <1>2, NextMessage DEF Kept
<1>3. \A p \in cursor : p.blockOffset \in Nat /\ HeightOf[p.block] \in Nat
  BY NextMessage DEF StoreTyping
<1>4. ASSUME ~failed', NEW h \in 0..MaxHeight, info'[h] # NoRow
      PROVE  Kept(info[h].offset, h, blockPos - 1)'
  <2>1. info'[h] = info[h] /\ info[h].offset \in Nat /\ h < HeightOf[b] /\ h \in Nat
    BY <1>1, <1>4 DEF StoreTyping, LooseInfo
  <2>2. Kept(info[h].offset, h, blockPos - 1)
    BY <1>1, <1>4, <2>1
  <2>3. \A j \in (info[h].offset + 1)..(blockPos' - 1) :
          blockLog'[j].kind = "unapply" => HeightOf[blockLog'[j].block] > h
    BY <1>2, <2>1, <2>2
  <2> QED BY <2>1, <2>3 DEF Kept
<1>5. ASSUME ~failed', ~cleared' /\ crashes' <= 1, NEW p \in cursor'
      PROVE  Kept(p.blockOffset, HeightOf[p.block], blockPos - 1)'
  <2>1. p \in cursor /\ HeightOf[p.block] < HeightOf[b]
    BY <1>1, <1>5
  <2>2. Kept(p.blockOffset, HeightOf[p.block], blockPos - 1)
    BY <1>1, <1>5, <2>1
  <2>3. \A j \in (p.blockOffset + 1)..(blockPos' - 1) :
          blockLog'[j].kind = "unapply" => HeightOf[blockLog'[j].block] > HeightOf[p.block]
    BY <1>2, <1>3, <2>1, <2>2
  <2> QED BY <2>3 DEF Kept
<1>6. crashes' = 0 /\ ~cleared' => \A p, q \in cursor' :
                      /\ p.blockOffset < blockPos'
                      /\ Kept(p.blockOffset, HeightOf[p.block], q.blockOffset)'
  <2>1. cursor' \subseteq cursor
    BY <1>1 DEF StoreTyping
  <2>2. blockPos < blockPos'
    BY <1>1
  <2> QED BY <1>1, <1>3, <2>1, <2>2 DEF Kept
<1> QED BY <1>1, <1>4, <1>5, <1>6

LEMMA BranchTx ==
  ASSUME BranchInv, NEW o \in 1..Len(txLog), HandleTx(o)
  PROVE  BranchInv'
<1> USE DEF BranchInv
<1>1. /\ StoreTyping' /\ ~failed
      /\ \A h \in 0..MaxHeight : info'[h] # NoRow =>
              /\ info[h] # NoRow
              /\ info'[h].block = info[h].block /\ info'[h].offset = info[h].offset
      /\ UNCHANGED <<blockLog, blockPos, crashes, cleared>>
  BY TxStep
<1>2. PICK h \in 0..MaxHeight : NewPointOf(h)
  BY TxStep
<1>3. \A k \in 0..MaxHeight :
        info[k] # NoRow => Kept(info[k].offset, k, blockPos - 1)
  BY <1>1
<1>4. ~cleared /\ crashes <= 1 => \A p \in cursor :
        Kept(p.blockOffset, HeightOf[p.block], blockPos - 1)
  BY <1>1
<1>5. info[h] # NoRow => /\ info[h].offset < blockPos /\ HeightOf[info[h].block] = h
                         /\ info[h].offset \in Nat
  BY DEF StoreTyping, LooseInfo
<1>6. \A p \in cursor' : /\ p.blockOffset \in Nat
                         /\ ~cleared /\ crashes <= 1 =>
                              Kept(p.blockOffset, HeightOf[p.block], blockPos - 1)
                         /\ crashes = 0 /\ ~cleared => p.blockOffset < blockPos
  <2> SUFFICES ASSUME NEW p \in cursor'
               PROVE  /\ p.blockOffset \in Nat
                      /\ ~cleared /\ crashes <= 1 =>
                           Kept(p.blockOffset, HeightOf[p.block], blockPos - 1)
                      /\ crashes = 0 /\ ~cleared => p.blockOffset < blockPos
    OBVIOUS
  <2>1. CASE p \in cursor
    BY <1>4, <2>1 DEF StoreTyping
  <2>2. CASE info[h] # NoRow /\ p.block = info[h].block /\ p.blockOffset = info[h].offset
    BY <1>3, <1>5, <2>2
  <2> QED BY <1>2, <2>1, <2>2 DEF NewPointOf
<1>7. ~failed' => \A k \in 0..MaxHeight :
                    info'[k] # NoRow => Kept(info[k].offset, k, blockPos - 1)'
  <2> SUFFICES ASSUME NEW k \in 0..MaxHeight, info'[k] # NoRow
               PROVE  Kept(info[k].offset, k, blockPos - 1)'
    OBVIOUS
  <2>1. Kept(info[k].offset, k, blockPos - 1) /\ info'[k].offset = info[k].offset
    BY <1>1, <1>3
  <2> QED BY <1>1, <2>1 DEF Kept
<1>8. ~failed' /\ ~cleared' /\ crashes' <= 1 => \A p \in cursor' :
                   Kept(p.blockOffset, HeightOf[p.block], blockPos - 1)'
  BY <1>1, <1>6 DEF Kept
<1>9. crashes' = 0 /\ ~cleared' => \A p, q \in cursor' :
                      /\ p.blockOffset < blockPos'
                      /\ Kept(p.blockOffset, HeightOf[p.block], q.blockOffset)'
  <2> SUFFICES ASSUME crashes' = 0, ~cleared', NEW p \in cursor', NEW q \in cursor'
               PROVE  /\ p.blockOffset < blockPos'
                      /\ Kept(p.blockOffset, HeightOf[p.block], q.blockOffset)'
    OBVIOUS
  <2>1. /\ p.blockOffset < blockPos /\ q.blockOffset < blockPos
        /\ q.blockOffset \in Nat /\ p.blockOffset \in Nat /\ blockPos \in Nat
        /\ Kept(p.blockOffset, HeightOf[p.block], blockPos - 1)
    BY <1>1, <1>6 DEF StoreTyping
  <2> QED BY <1>1, <2>1 DEF Kept
<1> QED BY <1>1, <1>7, <1>8, <1>9

(* The reader jumps back, and nothing is known of any block.               *)
LEMMA BranchRestart ==
  ASSUME BranchInv, RestartWith
  PROVE  BranchInv'
<1> USE DEF BranchInv
<1>1. /\ StoreTyping'
      /\ crashes' = crashes + 1
      /\ \A h \in 0..MaxHeight : info'[h] = NoRow
      /\ cursor' \subseteq cursor
      /\ UNCHANGED <<blockLog, cleared>>
  BY RestartStep
<1>2. crashes \in Nat
  BY DEF StoreTyping
<1>3. ~cleared' /\ crashes' <= 1 => \A p \in cursor' :
        Kept(p.blockOffset, HeightOf[p.block], blockPos - 1)'
  <2> SUFFICES ASSUME crashes = 0, ~cleared, NEW p \in cursor
               PROVE  Kept(p.blockOffset, HeightOf[p.block], blockPos - 1)'
    BY <1>1, <1>2
  <2>1. p.blockOffset \in Nat
    BY DEF StoreTyping
  <2>2. CASE blockPos' = 1
    BY <2>1, <2>2 DEF Kept
  <2>3. CASE \E q \in cursor : blockPos' = q.blockOffset + 1
    <3>1. PICK q \in cursor : blockPos' = q.blockOffset + 1
      BY <2>3
    <3>2. Kept(p.blockOffset, HeightOf[p.block], q.blockOffset)
      OBVIOUS
    <3>3. q.blockOffset \in Nat
      BY DEF StoreTyping
    <3> QED BY <1>1, <3>1, <3>2, <3>3 DEF Kept
  <2> QED BY <2>2, <2>3, RestartStep
<1>4. crashes' # 0
  BY <1>1, <1>2
<1> QED BY <1>1, <1>3, <1>4

(* Only a panic of an actor that had failed forgets the rollbacks it       *)
(* dropped.                                                                *)
LEMMA BranchPanic ==
  ASSUME BranchInv, PanicOnWithdrawn
  PROVE  BranchInv'
<1> USE DEF BranchInv
<1>1. /\ UNCHANGED <<feedVars, blockPos, crashes, cursor>>
      /\ info' = NoInfo /\ ~failed' /\ (~cleared' => ~cleared /\ ~failed)
  BY DEF PanicOnWithdrawn, streamVars, dbVars
<1>2. /\ info' \in [0..MaxHeight -> LooseInfo \cup {NoRow}]
      /\ \A h \in 0..MaxHeight : info'[h] = NoRow
  BY <1>1 DEF NoInfo
<1>3. StoreTyping'
  BY <1>1, <1>2 DEF StoreTyping, FeedTypeOK, feedVars
<1> QED BY <1>1, <1>2, <1>3 DEF Kept, feedVars

LEMMA BranchRead ==
  ASSUME BranchInv, ReadSilently
  PROVE  BranchInv'
<1>1. /\ StoreTyping'
      /\ \/ UNCHANGED blockPos
         \/ /\ blockPos \in 1..Len(blockLog) /\ blockLog[blockPos].kind = "apply"
            /\ blockPos' = blockPos + 1
      /\ UNCHANGED <<blockLog, cursor, info, failed, cleared, crashes>>
  BY ReadStep DEF BranchInv, dbVars, volatileVars, boundVars, panicVars
<1>2. ASSUME NEW offset \in Nat, NEW h \in Nat, Kept(offset, h, blockPos - 1)
      PROVE  Kept(offset, h, blockPos - 1)'
  <2>1. CASE UNCHANGED blockPos
    BY <1>1, <1>2, <2>1 DEF Kept
  <2>2. CASE /\ blockPos \in 1..Len(blockLog) /\ blockLog[blockPos].kind = "apply"
             /\ blockPos' = blockPos + 1
    BY <1>1, <1>2, <2>2 DEF Kept
  <2> QED BY <1>1, <2>1, <2>2
<1>3. \A h \in 0..MaxHeight : info[h] # NoRow => info[h].offset \in Nat /\ h \in Nat
  BY DEF BranchInv, StoreTyping, LooseInfo
<1>4. \A p \in cursor : p.blockOffset \in Nat /\ HeightOf[p.block] \in Nat
  BY NextMessage DEF BranchInv, StoreTyping
<1>5. ~failed' => \A h \in 0..MaxHeight :
                    info'[h] # NoRow => Kept(info[h].offset, h, blockPos - 1)'
  BY <1>1, <1>2, <1>3 DEF BranchInv
<1>6. ~failed' /\ ~cleared' /\ crashes' <= 1 => \A p \in cursor' :
                   Kept(p.blockOffset, HeightOf[p.block], blockPos - 1)'
  BY <1>1, <1>2, <1>4 DEF BranchInv
<1>7. blockPos <= blockPos' /\ blockPos \in Int
  BY <1>1 DEF BranchInv, StoreTyping
<1>8. crashes' = 0 /\ ~cleared' => \A p, q \in cursor' :
                      /\ p.blockOffset < blockPos'
                      /\ Kept(p.blockOffset, HeightOf[p.block], q.blockOffset)'
  BY <1>1, <1>4, <1>7 DEF BranchInv, Kept
<1> QED BY <1>1, <1>5, <1>6, <1>8 DEF BranchInv

LEMMA BranchQuiet ==
  ASSUME BranchInv,
         UNCHANGED <<feedVars, blockPos, info, failed, cleared, crashes, cursor>>
  PROVE  BranchInv'
<1>1. StoreTyping' /\ UNCHANGED blockLog
  BY QuietStep DEF BranchInv, feedVars
<1> QED BY <1>1 DEF BranchInv, Kept

-------------------------------------------------------------------------------
(* What a confirmed row says.  The strategy records a transaction under    *)
(* the block it knows at the transaction's height; that this is the block  *)
(* the transaction was mined in needs what the topics say of the chain:    *)
(* two blocks of one height are never on it together.                      *)

OnePerHeight(c) == \A a, b \in c : HeightOf[a] = HeightOf[b] => a = b

TopicInv ==
  /\ FeedTypeOK /\ ChainInv /\ LogInv
  /\ \A i \in 1..Len(blockLog) : OnePerHeight(blockLog[i].chain)
  /\ \A o \in 1..Len(txLog) :
       txLog[o].kind = "applied" => IsIn(txLog[o].tx, txLog[o].block)

(* What has been sent, and what the strategy still knows, is on the chain  *)
(* where the reader of the block topic stands.                             *)
KnownInv ==
  /\ emitted \subseteq Before(blockPos)
  /\ \A h \in 0..MaxHeight : info[h] # NoRow =>
       /\ blockLog[info[h].offset].kind = "apply"
       /\ blockLog[info[h].offset].block = info[h].block
       /\ ~failed => info[h].block \in Before(blockPos)

TableTells(table) ==
  /\ table \in [Loks -> Row \cup {NoRow}]
  /\ \A c \in Loks :
       table[c] # NoRow /\ table[c].confirmed => Mined(table[c].tx, table[c].height)

ContractTells ==
  /\ contract \in [Loks -> ContractRow \cup {NoRow}]
  /\ \A c \in Loks :
       contract[c] # NoRow /\ contract[c].confirmed => IsIn(contract[c].tx, contract[c].hash)

FundingTells == \A r \in fundingTx : r.confirmed => Mined(r.tx, r.height)

RowsTell ==
  TableTells(mintTx) /\ TableTells(redeemTx) /\ ContractTells /\ FundingTells

LEMMA TopicInit == FeedInit => TopicInv
<1> SUFFICES ASSUME FeedInit PROVE TopicInv
  OBVIOUS
<1>1. FeedTypeOK /\ blockLog = <<>> /\ txLog = <<>>
  BY FeedAssumption DEF FeedInit, FeedTypeOK
<1> QED BY <1>1, ChainInit DEF TopicInv

LEMMA TopicStep ==
  ASSUME TopicInv, NEW b \in Blocks, PublishApply(b) \/ PublishUnapply(b)
  PROVE  TopicInv'
<1>1. FeedNext
  BY DEF FeedNext
<1>2. FeedTypeOK' /\ ChainInv' /\ LogInv' /\ IsGrownFrom(blockLog', blockLog)
  BY <1>1, FeedTyping, ChainStep DEF TopicInv
<1>3. OnePerHeight(chain')
  BY <1>2 DEF OnePerHeight, ChainInv
<1>4. PICK change : blockLog' = Append(blockLog, [kind |-> change, block |-> b, chain |-> chain'])
  BY DEF PublishApply, PublishUnapply
<1>5. \A i \in 1..Len(blockLog') : OnePerHeight(blockLog'[i].chain)
  <2>1. ASSUME NEW i \in 1..Len(blockLog')
        PROVE  blockLog'[i].chain = chain' \/ (i \in 1..Len(blockLog) /\ blockLog'[i] = blockLog[i])
    BY <1>4, <2>1 DEF TopicInv, FeedTypeOK
  <2> QED BY <1>3, <2>1 DEF TopicInv
<1>6. PICK kind \in {"applied", "unapplied"} : txLog' = txLog \o TxMessages(kind, b)
  BY DEF PublishApply, PublishUnapply
<1>7. \A n \in 1..NumTxs(b) : IsIn(TxMessages(kind, b)[n].tx, TxMessages(kind, b)[n].block)
  BY DEF TxMessages, IsIn
<1>8. Len(TxMessages(kind, b)) = NumTxs(b) /\ NumTxs(b) \in Nat
      /\ TxMessages(kind, b) \in Seq(TxMessage)
  BY FeedAssumption DEF TxMessages, NumTxs, TxMessage
<1>9. ASSUME NEW o \in 1..Len(txLog')
      PROVE  txLog'[o].kind = "applied" => IsIn(txLog'[o].tx, txLog'[o].block)
  <2>1. CASE o \in 1..Len(txLog)
    BY <1>6, <1>8, <2>1 DEF TopicInv, FeedTypeOK
  <2>2. CASE o \notin 1..Len(txLog)
    <3>1. o - Len(txLog) \in 1..NumTxs(b)
          /\ txLog'[o] = TxMessages(kind, b)[o - Len(txLog)]
      BY <1>6, <1>8, <1>9, <2>2 DEF TopicInv, FeedTypeOK
    <3> QED BY <1>7, <3>1
  <2> QED BY <2>1, <2>2
<1> QED BY <1>2, <1>5, <1>9 DEF TopicInv, IsIn

LEMMA TopicStays == TopicInv /\ UNCHANGED feedVars => TopicInv'
BY DEF TopicInv, feedVars, FeedTypeOK, ChainInv, NodeHeight, LogInv, LinkOK, Before

(* Where the transaction that comes next was mined.                        *)
LEMMA NextTxMined ==
  ASSUME StoreTyping, TopicInv, KnownInv, ~failed,
         NEW o \in 1..Len(txLog), TxIsNext(o),
         info[HeightOf[txLog[o].block]] # NoRow
  PROVE  LET t == txLog[o].tx
             b == info[HeightOf[txLog[o].block]].block
         IN b \in Blocks /\ t \in Txs /\ IsIn(t, b) /\ Mined(t, HeightOf[b])
<1> DEFINE t == txLog[o].tx
           h == HeightOf[txLog[o].block]
           b == info[h].block
<1>1. txLog[o].block \in Blocks /\ t \in Txs /\ h \in 0..MaxHeight
  BY NextMessage
<1>2. /\ b \in Blocks /\ HeightOf[b] = h
      /\ info[h].offset \in 1..Len(blockLog)
  BY <1>1 DEF StoreTyping, LooseInfo, FeedTypeOK
<1>3. txLog[o].block \in Before(blockPos) /\ b \in Before(blockPos)
  BY <1>1 DEF KnownInv, TxIsNext
<1>4. blockPos - 1 \in 1..Len(blockLog) /\ Before(blockPos) = blockLog[blockPos - 1].chain
  BY <1>3 DEF Before, StoreTyping, FeedTypeOK
<1>5. b = txLog[o].block
  BY <1>2, <1>3, <1>4 DEF TopicInv, OnePerHeight
<1>6. IsIn(t, b)
  BY <1>5 DEF TopicInv, TxIsNext
<1>7. blockLog[info[h].offset].kind = "apply" /\ blockLog[info[h].offset].block = b
  BY <1>1 DEF KnownInv
<1> QED BY <1>1, <1>2, <1>6, <1>7 DEF Mined

(* A mined row is written or confirmed; an unconfirmed one comes or goes.  *)
LEMMA TableWritten ==
  ASSUME NEW table, TableTells(table), NEW t \in Txs, NEW h \in Nat, NEW next,
         \/ /\ Mined(t, h)
            /\ \/ next = [table EXCEPT ![LokOf[t]] = NewRow(t, h, TRUE)]
               \/ next = ConfirmIn(table, t, h)
         \/ next = [table EXCEPT ![LokOf[t]] = NewRow(t, h, FALSE)]
         \/ next = [table EXCEPT ![LokOf[t]] = NoRow]
  PROVE  TableTells(next)
<1>1. \A c \in BOOLEAN : /\ NewRow(t, h, c) \in Row
                         /\ NewRow(t, h, c).tx = t /\ NewRow(t, h, c).height = h
                         /\ NewRow(t, h, c).confirmed = c
  BY DEF NewRow, Row
<1> QED BY <1>1 DEF TableTells, ConfirmIn

LEMMA ContractWritten ==
  ASSUME ContractTells, UNCHANGED feedVars, NEW t \in Txs, NEW b \in Blocks,
         HeightOf[b] \in Nat, IsIn(t, b), WriteGenesisTx(t, b) \/ UpdateGenesisTxToConfirmed(t, b)
  PROVE  ContractTells'
<1> DEFINE row == [tx |-> t, height |-> HeightOf[b], hash |-> b, confirmed |-> TRUE]
<1>1. row \in ContractRow
  BY DEF ContractRow
<1>2. CASE WriteGenesisTx(t, b)
  BY <1>1, <1>2 DEF WriteGenesisTx, ContractTells, IsIn
<1>3. CASE UpdateGenesisTxToConfirmed(t, b)
  BY <1>1, <1>3 DEF UpdateGenesisTxToConfirmed, ContractTells, IsIn
<1> QED BY <1>2, <1>3

LEMMA TellsStay ==
  ASSUME UNCHANGED blockLog
  PROVE  /\ TableTells(mintTx') => TableTells(mintTx)'
         /\ TableTells(redeemTx') => TableTells(redeemTx)'
         /\ UNCHANGED mintTx /\ TableTells(mintTx) => TableTells(mintTx)'
         /\ UNCHANGED redeemTx /\ TableTells(redeemTx) => TableTells(redeemTx)'
         /\ UNCHANGED contract /\ ContractTells => ContractTells'
         /\ UNCHANGED fundingTx /\ FundingTells => FundingTells'
BY DEF TableTells, ContractTells, FundingTells, Mined, IsIn

LEMMA RecordTells ==
  ASSUME RowsTell, UNCHANGED feedVars, NEW a, NEW ok, NEW t \in Txs, NEW b \in Blocks,
         HeightOf[b] \in Nat, IsIn(t, b), Mined(t, HeightOf[b]), RecordTx(a, t, b, ok)
  PROVE  RowsTell'
<1> USE DEF RowsTell
<1>1. UNCHANGED blockLog
  BY DEF feedVars
<1>2. CASE UNCHANGED lokTables
  BY <1>1, <1>2, TellsStay DEF lokTables
<1>3. CASE WriteGenesisTx(t, b) \/ UpdateGenesisTxToConfirmed(t, b)
  <2>1. UNCHANGED <<mintTx, redeemTx, fundingTx>>
    BY <1>3 DEF WriteGenesisTx, UpdateGenesisTxToConfirmed
  <2> QED BY <1>1, <1>3, <2>1, TellsStay, ContractWritten
<1>4. CASE WriteCreateTokenLokAction(t, b) \/ UpdateMintTxToConfirmed(t, b)
  <2>1. UNCHANGED <<contract, redeemTx, fundingTx>>
    BY <1>4 DEF WriteCreateTokenLokAction, UpdateMintTxToConfirmed
  <2>2. TableTells(mintTx')
    BY <1>4, TableWritten DEF WriteCreateTokenLokAction, UpdateMintTxToConfirmed
  <2> QED BY <1>1, <2>1, <2>2, TellsStay
<1>5. CASE WriteRedeemTx(t, b) \/ UpdateRedeemTxToConfirmed(t, b)
  <2>1. UNCHANGED <<contract, mintTx, fundingTx>>
    BY <1>5 DEF WriteRedeemTx, UpdateRedeemTxToConfirmed
  <2>2. TableTells(redeemTx')
    BY <1>5, TableWritten DEF WriteRedeemTx, UpdateRedeemTxToConfirmed
  <2> QED BY <1>1, <2>1, <2>2, TellsStay
<1>6. CASE WriteFundingTx(t, b) \/ UpdateFundingTxToConfirmed(t, b)
  <2>1. UNCHANGED <<contract, mintTx, redeemTx>>
    BY <1>6 DEF WriteFundingTx, UpdateFundingTxToConfirmed
  <2>2. NewRow(t, HeightOf[b], TRUE).tx = t /\ NewRow(t, HeightOf[b], TRUE).height = HeightOf[b]
    BY DEF NewRow
  <2>3. \A r \in fundingTx' : r \in fundingTx \/ r = NewRow(t, HeightOf[b], TRUE)
    <3>1. CASE WriteFundingTx(t, b)
      BY <3>1 DEF WriteFundingTx
    <3>2. CASE UpdateFundingTxToConfirmed(t, b)
      BY <3>2 DEF UpdateFundingTxToConfirmed
    <3> QED BY <1>6, <3>1, <3>2
  <2>4. \A r \in fundingTx' : r.confirmed => Mined(r.tx, r.height)
    BY <2>2, <2>3 DEF FundingTells
  <2>5. FundingTells'
    BY <1>1, <2>4 DEF FundingTells, Mined, IsIn
  <2> QED BY <1>1, <2>1, <2>5, TellsStay
<1> QED
  BY <1>2, <1>3, <1>4, <1>5, <1>6 DEF RecordTx, Write, Confirm

LEMMA EvictTells ==
  ASSUME RowsTell, UNCHANGED feedVars, NEW a, NEW t \in Txs, Evict(a, t)
  PROVE  RowsTell'
<1> USE DEF RowsTell
<1>1. UNCHANGED blockLog /\ UNCHANGED fundingTx /\ 0 \in Nat
  BY DEF feedVars, Evict
<1>2. TableTells(mintTx')
  BY <1>1, TableWritten DEF Evict
<1>3. TableTells(redeemTx')
  BY <1>1, TableWritten DEF Evict
<1>4. ContractTells'
  BY DEF Evict, ContractTells, IsIn
<1> QED BY <1>1, <1>2, <1>3, <1>4, TellsStay

LEMMA RecordMempoolTells ==
  ASSUME RowsTell, UNCHANGED feedVars, NEW a, NEW t \in Txs, RecordMempoolTx(a, t)
  PROVE  RowsTell'
<1> USE DEF RowsTell
<1>1. UNCHANGED blockLog /\ 0 \in Nat
  BY DEF feedVars
<1>2. CASE UNCHANGED lokTables
  BY <1>1, <1>2, TellsStay DEF lokTables
<1>3. CASE Evict(a, t)
  BY <1>3, EvictTells
<1>4. CASE WriteMempool(a, t)
  <2>1. CASE WriteGenesisTxMempool(t)
    <3>1. [tx |-> t, height |-> 0, hash |-> Root, confirmed |-> FALSE] \in ContractRow
      BY DEF ContractRow
    <3>2. ContractTells'
      BY <2>1, <3>1 DEF WriteGenesisTxMempool, ContractTells, IsIn
    <3> QED BY <1>1, <2>1, <3>2, TellsStay DEF WriteGenesisTxMempool
  <2>2. CASE WriteCreateTokenLokMempool(t)
    <3>1. TableTells(mintTx')
      BY <1>1, <2>2, TableWritten DEF WriteCreateTokenLokMempool
    <3> QED BY <1>1, <2>2, <3>1, TellsStay DEF WriteCreateTokenLokMempool
  <2>3. CASE WriteRedeemTxMempool(t)
    <3>1. TableTells(redeemTx')
      BY <1>1, <2>3, TableWritten DEF WriteRedeemTxMempool
    <3> QED BY <1>1, <2>3, <3>1, TellsStay DEF WriteRedeemTxMempool
  <2>4. CASE WriteFundingTxMempool(t)
    <3>1. FundingTells'
      BY <1>1, <2>4 DEF WriteFundingTxMempool, FundingTells, NewRow, Mined, IsIn
    <3> QED BY <1>1, <2>4, <3>1, TellsStay DEF WriteFundingTxMempool
  <2> QED BY <1>4, <2>1, <2>2, <2>3, <2>4 DEF WriteMempool
<1> QED BY <1>2, <1>3, <1>4 DEF RecordMempoolTx

-------------------------------------------------------------------------------
(* Every step, one by one.                                                 *)

LEMMA StoreInit == Init => BranchInv /\ MintInv
<1> SUFFICES ASSUME Init PROVE BranchInv /\ MintInv
  OBVIOUS
<1>1. FeedTypeOK /\ blockLog = <<>>
  BY FeedAssumption DEF Init, FeedInit, FeedTypeOK
<1>2. /\ blockPos = 1 /\ cursor = {} /\ failed = FALSE /\ cleared = FALSE /\ crashes = 0
      /\ info \in [0..MaxHeight -> LooseInfo \cup {NoRow}]
      /\ \A h \in 0..MaxHeight : info[h] = NoRow
  BY DEF Init, StreamInit, DatabaseInit, NoInfo
<1>3. StoreTyping
  BY <1>1, <1>2 DEF StoreTyping
<1>4. BranchInv
  BY <1>2, <1>3 DEF BranchInv
<1>5. MintInv
  BY DEF Init, DatabaseInit, MintInv, MintTyping, MintOfItsLok, KeyMatchesMint
<1> QED BY <1>4, <1>5

LEMMA TxKeepsMint ==
  ASSUME StoreTyping, MintInv, NEW o \in 1..Len(txLog), HandleTx(o)
  PROVE  MintInv'
<1> DEFINE t == txLog[o].tx
           h == HeightOf[txLog[o].block]
<1>1. TxIsNext(o)
  BY DEF HandleTx, SendTx
<1>2. t \in Txs /\ h \in 0..MaxHeight
  BY <1>1, NextMessage
<1>3. PICK ok \in BOOLEAN : ProcessTx(o, ok)
  BY DEF HandleTx
<1>4. CASE info[h] = NoRow
  BY <1>3, <1>4, MintStays DEF ProcessTx, lokTables
<1>5. CASE info[h] # NoRow
  <2>1. PICK a \in Kinds \cup {"none", "unknown"} : RecordTx(a, t, info[h].block, ok)
    BY <1>3, <1>5 DEF ProcessTx
  <2>2. info[h].block \in Blocks /\ HeightOf[info[h].block] \in Nat
    BY <1>2, <1>5 DEF StoreTyping, LooseInfo
  <2> QED BY <1>2, <2>1, <2>2, RecordKeepsMint
<1> QED BY <1>4, <1>5

LEMMA StoreStep == BranchInv /\ MintInv /\ [Next]_vars => BranchInv' /\ MintInv'
<1> SUFFICES ASSUME BranchInv, MintInv, [Next]_vars PROVE BranchInv' /\ MintInv'
  OBVIOUS
<1>1. StoreTyping
  BY DEF BranchInv
<1>2. ASSUME NEW b \in Blocks, Publish(b)
      PROVE  BranchInv' /\ MintInv'
  BY <1>1, <1>2, BranchPublish, PublishStep, MintStays
<1>3. ASSUME NEW b \in Blocks, HandleBlock(b)
      PROVE  BranchInv' /\ MintInv'
  BY <1>1, <1>3, BranchBlock, BlockStep, MintStays
<1>4. ASSUME NEW b \in Blocks, HandleRollback(b)
      PROVE  BranchInv' /\ MintInv'
  BY <1>1, <1>4, BranchRollback, RollbackStep, MintStays
<1>5. ASSUME NEW o \in 1..Len(txLog), HandleTx(o)
      PROVE  BranchInv' /\ MintInv'
  BY <1>1, <1>5, BranchTx, TxKeepsMint
<1>6. ASSUME NEW o \in 1..Len(txLog), DropTxAfterFailure(o)
      PROVE  BranchInv' /\ MintInv'
  BY <1>6, BranchQuiet, MintStays
     DEF DropTxAfterFailure, SendTx, dbVars, lokTables, volatileVars, boundVars, panicVars
<1>7. CASE PassOverTx
  BY <1>7, BranchQuiet, MintStays
     DEF PassOverTx, SkipTx, SkipUnappliedTx, dbVars, lokTables, volatileVars, boundVars, panicVars
<1>8. ASSUME NEW t \in MempoolTxs, HandleMempoolAccepted(t)
      PROVE  BranchInv' /\ MintInv'
  <2>1. t \in Txs
    BY FeedAssumption
  <2>2. PICK a \in Kinds \cup {"unknown"} : RecordMempoolTx(a, t)
    BY <1>8 DEF HandleMempoolAccepted
  <2>3. UNCHANGED <<feedVars, blockPos, info, failed, cleared, crashes, cursor>>
    BY <1>8 DEF HandleMempoolAccepted, streamVars, panicVars
  <2> QED BY <2>1, <2>2, <2>3, BranchQuiet, RecordMempoolKeepsMint
<1>9. CASE CrashAndRestart \/ CrashInRollback
  <2>1. UNCHANGED <<mintTx, key>>
    BY <1>9 DEF CrashAndRestart, CrashInRollback, dbVars, lokTables
  <2> QED BY <1>9, <2>1, CrashStep, BranchRestart, MintStays
<1>10. CASE CrashBeforeCursorPoint
  <2>1. PICK o \in 1..Len(txLog), ok \in BOOLEAN, a \in Kinds :
          LET t == txLog[o].tx
              h == HeightOf[txLog[o].block]
          IN TxIsNext(o) /\ info[h] # NoRow /\ RecordTx(a, t, info[h].block, ok)
    BY <1>10 DEF CrashBeforeCursorPoint
  <2> DEFINE h == HeightOf[txLog[o].block]
  <2>2. txLog[o].tx \in Txs /\ h \in 0..MaxHeight
    BY <1>1, <2>1, NextMessage
  <2>3. info[h].block \in Blocks /\ HeightOf[info[h].block] \in Nat
    BY <1>1, <2>1, <2>2 DEF StoreTyping, LooseInfo
  <2>4. MintInv'
    BY <2>1, <2>2, <2>3, RecordKeepsMint
  <2> QED BY <1>10, <2>4, CrashStep, BranchRestart
<1>11. CASE CrashAfterEvict
  <2>1. PICK t \in MempoolTxs : Evict(KindOf[t], t)
    BY <1>11 DEF CrashAfterEvict
  <2>2. t \in Txs
    BY FeedAssumption
  <2> QED BY <1>11, <2>1, <2>2, CrashStep, BranchRestart, EvictKeepsMint
<1>12. CASE UNCHANGED vars
  BY <1>12, BranchQuiet, MintStays
     DEF vars, streamVars, dbVars, lokTables, volatileVars, boundVars, panicVars
<1>13. CASE PanicOnWithdrawn
  BY <1>13, BranchPanic, MintStays DEF PanicOnWithdrawn, dbVars, lokTables
<1>14. CASE ReadSilently
  <2>1. UNCHANGED <<mintTx, key>>
    BY <1>14 DEF ReadSilently, dbVars, lokTables
  <2> QED BY <1>14, <2>1, BranchRead, MintStays
<1> QED
  BY <1>2, <1>3, <1>4, <1>5, <1>6, <1>7, <1>8, <1>9, <1>10, <1>11, <1>12, <1>13, <1>14
  DEF Next, HandleTopics

-------------------------------------------------------------------------------
(* What is known of blocks and rows, step by step.                         *)

LEMMA KnownPublish ==
  ASSUME StoreTyping, StoreTyping', TopicInv, KnownInv,
         IsGrownFrom(blockLog', blockLog), UNCHANGED <<emitted, info, failed, blockPos>>
  PROVE  KnownInv'
<1>1. Before(blockPos)' = Before(blockPos)
  BY BeforeKept DEF StoreTyping, Before
<1>2. ASSUME NEW h \in 0..MaxHeight, info[h] # NoRow
      PROVE  blockLog'[info[h].offset] = blockLog[info[h].offset]
  <2>1. info[h].offset \in Nat \ {0} /\ info[h].offset < blockPos
    BY <1>2 DEF StoreTyping, LooseInfo
  <2>2. info[h].offset \in 1..Len(blockLog)
    BY <2>1 DEF StoreTyping, FeedTypeOK
  <2> QED BY <2>2 DEF IsGrownFrom
<1> QED BY <1>1, <1>2 DEF KnownInv

LEMMA KnownBlock ==
  ASSUME StoreTyping, TopicInv, KnownInv, NEW b \in Blocks, HandleBlock(b)
  PROVE  KnownInv'
<1>1. /\ blockPos \in 1..Len(blockLog)
      /\ blockLog[blockPos].kind = "apply" /\ blockLog[blockPos].block = b
      /\ blockPos' = blockPos + 1
      /\ info' = [info EXCEPT ![HeightOf[b]] =
                     [count |-> InitialCount(b), block |-> b, offset |-> blockPos]]
      /\ emitted' = emitted \cup {b}
      /\ UNCHANGED <<blockLog, failed>>
  BY BlockStep DEF HandleBlock, SendBlock, NextIs
<1>2. Before(blockPos)' = Before(blockPos) \cup {b}
  BY <1>1 DEF Before, TopicInv, LogInv, LinkOK
<1>3. HeightOf[b] \in 0..MaxHeight /\ DOMAIN info = 0..MaxHeight
  BY FeedAssumption DEF StoreTyping
<1>4. ASSUME NEW h \in 0..MaxHeight, info'[h] # NoRow
      PROVE  /\ blockLog[info'[h].offset].kind = "apply"
             /\ blockLog[info'[h].offset].block = info'[h].block
             /\ ~failed => info'[h].block \in Before(blockPos) \cup {b}
  <2>1. CASE h = HeightOf[b]
    BY <1>1, <1>3, <2>1
  <2>2. CASE h # HeightOf[b]
    <3>1. info'[h] = info[h]
      BY <1>1, <1>3, <2>2
    <3> QED BY <1>4, <3>1 DEF KnownInv
  <2> QED BY <2>1, <2>2
<1> QED BY <1>1, <1>2, <1>4 DEF KnownInv

LEMMA KnownRollback ==
  ASSUME StoreTyping, TopicInv, KnownInv, NEW b \in Blocks, HandleRollback(b)
  PROVE  KnownInv'
<1>1. /\ blockPos \in 1..Len(blockLog)
      /\ blockLog[blockPos].kind = "unapply" /\ blockLog[blockPos].block = b
      /\ blockPos' = blockPos + 1
      /\ ~failed => \A h \in 0..MaxHeight :
                      info'[h] # NoRow => h < HeightOf[b] /\ info'[h] = info[h]
      /\ failed => info' = info
      /\ emitted' = emitted \ {b}
      /\ UNCHANGED <<blockLog, failed>>
  BY RollbackStep DEF HandleRollback, SendRollback, NextIs
<1>2. Before(blockPos)' = Before(blockPos) \ {b}
  BY <1>1 DEF Before, TopicInv, LogInv, LinkOK
<1>3. ASSUME NEW h \in 0..MaxHeight, info'[h] # NoRow
      PROVE  info'[h] = info[h] /\ (~failed => info[h].block # b)
  <2>1. info'[h] = info[h] /\ (~failed => h < HeightOf[b])
    BY <1>1, <1>3
  <2>2. HeightOf[info[h].block] = h /\ h \in Nat
    BY <1>3, <2>1 DEF StoreTyping
  <2> QED BY <2>1, <2>2
<1> QED BY <1>1, <1>2, <1>3 DEF KnownInv

LEMMA KnownTx ==
  ASSUME StoreTyping, KnownInv, NEW o \in 1..Len(txLog), HandleTx(o)
  PROVE  KnownInv'
<1>1. /\ ~failed
      /\ \A h \in 0..MaxHeight : info'[h] # NoRow =>
              /\ info[h] # NoRow
              /\ info'[h].block = info[h].block /\ info'[h].offset = info[h].offset
      /\ UNCHANGED <<blockLog, blockPos, emitted>>
  BY TxStep DEF HandleTx, SendTx
<1> QED BY <1>1 DEF KnownInv, Before

LEMMA KnownRestart ==
  ASSUME StoreTyping, RestartWith
  PROVE  KnownInv'
<1>1. emitted' = {} /\ \A h \in 0..MaxHeight : info'[h] = NoRow
  BY RestartStep DEF RestartWith, Restart, RestartAt, RestartFromBeginning
<1> QED BY <1>1 DEF KnownInv

LEMMA KnownRead ==
  ASSUME StoreTyping, TopicInv, KnownInv, ReadSilently
  PROVE  KnownInv'
<1>1. /\ \/ UNCHANGED blockPos
         \/ /\ blockPos \in 1..Len(blockLog) /\ blockLog[blockPos].kind = "apply"
            /\ blockPos' = blockPos + 1
      /\ UNCHANGED <<blockLog, emitted, info, failed>>
  BY ReadStep DEF volatileVars
<1>2. Before(blockPos) \subseteq Before(blockPos)'
  <2>1. CASE UNCHANGED blockPos
    BY <1>1, <2>1 DEF Before
  <2>2. CASE /\ blockPos \in 1..Len(blockLog) /\ blockLog[blockPos].kind = "apply"
             /\ blockPos' = blockPos + 1
    BY <1>1, <2>2 DEF Before, TopicInv, LogInv, LinkOK
  <2> QED BY <1>1, <2>1, <2>2
<1> QED BY <1>1, <1>2 DEF KnownInv

LEMMA KnownQuiet ==
  ASSUME KnownInv, UNCHANGED <<feedVars, blockPos, info, failed, emitted>>
  PROVE  KnownInv'
BY DEF KnownInv, Before, feedVars

(* The topics grow: a row that told the truth goes on telling it.          *)
LEMMA RowsStay ==
  ASSUME FeedTypeOK, FeedTypeOK', RowsTell, IsGrownFrom(blockLog', blockLog),
         UNCHANGED <<mintTx, redeemTx, contract, fundingTx>>
  PROVE  RowsTell'
<1>1. ASSUME NEW t, NEW h, Mined(t, h)
      PROVE  Mined(t, h)'
  <2>1. PICK i \in 1..Len(blockLog) :
          /\ blockLog[i].kind = "apply" /\ HeightOf[blockLog[i].block] = h
          /\ IsIn(t, blockLog[i].block)
    BY <1>1 DEF Mined
  <2>2. i \in 1..Len(blockLog') /\ blockLog'[i] = blockLog[i]
    BY <2>1 DEF IsGrownFrom, FeedTypeOK
  <2> QED BY <2>1, <2>2 DEF Mined, IsIn
<1>2. TableTells(mintTx)' /\ TableTells(redeemTx)'
  BY <1>1 DEF RowsTell, TableTells
<1>3. ContractTells' /\ FundingTells'
  BY <1>1 DEF RowsTell, ContractTells, FundingTells, IsIn
<1> QED BY <1>2, <1>3 DEF RowsTell

TruthInv == StoreTyping /\ TopicInv /\ KnownInv /\ RowsTell

LEMMA TruthInit == Init => TruthInv
<1> SUFFICES ASSUME Init PROVE TruthInv
  OBVIOUS
<1>1. StoreTyping /\ TopicInv
  BY StoreInit, TopicInit DEF BranchInv, Init
<1>2. KnownInv
  BY DEF Init, StreamInit, NoInfo, KnownInv
<1>3. RowsTell
  BY DEF Init, DatabaseInit, RowsTell, TableTells, ContractTells, FundingTells
<1> QED BY <1>1, <1>2, <1>3 DEF TruthInv

LEMMA TxTellsTruth ==
  ASSUME TruthInv, NEW o \in 1..Len(txLog), NEW a, NEW ok, ~failed,
         TxIsNext(o), UNCHANGED feedVars,
         LET h == HeightOf[txLog[o].block]
         IN info[h] # NoRow /\ RecordTx(a, txLog[o].tx, info[h].block, ok)
  PROVE  RowsTell'
<1> DEFINE t == txLog[o].tx
           b == info[HeightOf[txLog[o].block]].block
<1>1. b \in Blocks /\ t \in Txs /\ IsIn(t, b) /\ Mined(t, HeightOf[b])
  BY NextTxMined DEF TruthInv
<1>2. HeightOf[b] \in Nat
  <2>1. \A c \in Blocks : HeightOf[c] \in Nat
    BY NextMessage DEF TruthInv
  <2> HIDE DEF b
  <2> QED BY <1>1, <2>1
<1> QED BY <1>1, <1>2, RecordTells DEF TruthInv

LEMMA TruthStep == TruthInv /\ [Next]_vars => TruthInv'
<1> SUFFICES ASSUME TruthInv, [Next]_vars PROVE TruthInv'
  OBVIOUS
<1> USE DEF TruthInv
<1>0. /\ UNCHANGED feedVars => TopicInv' /\ IsGrownFrom(blockLog', blockLog)
                               /\ FeedTypeOK' /\ FeedTypeOK
      /\ UNCHANGED lokTables => UNCHANGED <<mintTx, redeemTx, contract, fundingTx>>
  BY TopicStays DEF TopicInv, feedVars, lokTables, IsGrownFrom
<1>1. ASSUME NEW b \in Blocks, Publish(b)
      PROVE  TruthInv'
  <2>1. /\ StoreTyping' /\ IsGrownFrom(blockLog', blockLog)
        /\ UNCHANGED <<emitted, info, failed, blockPos, lokTables>>
        /\ PublishApply(b) \/ PublishUnapply(b)
    BY <1>1, PublishStep DEF Publish, streamVars, dbVars, volatileVars
  <2>2. TopicInv'
    BY <2>1, TopicStep
  <2>3. FeedTypeOK /\ FeedTypeOK'
    BY <2>2 DEF TopicInv
  <2> QED BY <1>0, <2>1, <2>2, <2>3, KnownPublish, RowsStay
<1>2. ASSUME NEW b \in Blocks, HandleBlock(b)
      PROVE  TruthInv'
  <2>1. UNCHANGED <<feedVars, lokTables>>
    BY <1>2 DEF HandleBlock, SendBlock, NextIs, dbVars
  <2> QED BY <1>0, <1>2, <2>1, BlockStep, KnownBlock, RowsStay
<1>3. ASSUME NEW b \in Blocks, HandleRollback(b)
      PROVE  TruthInv'
  <2>1. UNCHANGED feedVars
    BY <1>3 DEF HandleRollback, SendRollback, NextIs
  <2>2. UNCHANGED <<mintTx, redeemTx, contract, fundingTx>>
    BY <1>3 DEF HandleRollback, dbVars, lokTables, Rollback
  <2> QED BY <1>0, <1>3, <2>1, <2>2, RollbackStep, KnownRollback, RowsStay
<1>4. ASSUME NEW o \in 1..Len(txLog), HandleTx(o)
      PROVE  TruthInv'
  <2>1. UNCHANGED feedVars /\ ~failed /\ TxIsNext(o)
    BY <1>4 DEF HandleTx, SendTx
  <2>2. PICK ok \in BOOLEAN : ProcessTx(o, ok)
    BY <1>4 DEF HandleTx
  <2>3. CASE info[HeightOf[txLog[o].block]] = NoRow
    <3>1. UNCHANGED lokTables
      BY <2>2, <2>3 DEF ProcessTx
    <3> QED BY <1>0, <1>4, <2>1, <3>1, TxStep, KnownTx, RowsStay
  <2>4. CASE info[HeightOf[txLog[o].block]] # NoRow
    <3>1. PICK a \in Kinds \cup {"none", "unknown"} :
            RecordTx(a, txLog[o].tx, info[HeightOf[txLog[o].block]].block, ok)
      BY <2>2, <2>4 DEF ProcessTx
    <3>2. RowsTell'
      BY <2>1, <2>4, <3>1, TxTellsTruth
    <3> QED BY <1>0, <1>4, <2>1, <3>2, TxStep, KnownTx
  <2> QED BY <2>3, <2>4
<1>5. ASSUME UNCHANGED <<feedVars, blockPos, info, failed, emitted, lokTables, crashes, cursor>>
      PROVE  TruthInv'
  BY <1>0, <1>5, QuietStep, KnownQuiet, RowsStay
<1>6. ASSUME NEW t \in MempoolTxs, HandleMempoolAccepted(t)
      PROVE  TruthInv'
  <2>1. UNCHANGED <<feedVars, blockPos, info, failed, emitted, crashes, cursor>>
    BY <1>6 DEF HandleMempoolAccepted, streamVars, panicVars
  <2>2. PICK a \in Kinds \cup {"unknown"} : RecordMempoolTx(a, t)
    BY <1>6 DEF HandleMempoolAccepted
  <2>3. t \in Txs
    BY FeedAssumption
  <2>4. RowsTell'
    BY <2>1, <2>2, <2>3, RecordMempoolTells
  <2> QED BY <1>0, <2>1, <2>4, QuietStep, KnownQuiet
<1>7. ASSUME RestartWith
      PROVE  StoreTyping' /\ TopicInv' /\ KnownInv' /\ UNCHANGED feedVars
  BY <1>0, <1>7, RestartStep, KnownRestart DEF RestartWith, Restart
<1>8. CASE CrashAndRestart \/ CrashInRollback
  <2>1. UNCHANGED lokTables
    BY <1>8 DEF CrashAndRestart, CrashInRollback, dbVars
  <2> QED BY <1>0, <1>7, <1>8, <2>1, CrashStep, RowsStay
<1>9. CASE CrashBeforeCursorPoint
  <2>1. PICK o \in 1..Len(txLog), ok \in BOOLEAN, a \in Kinds :
          LET t == txLog[o].tx
              h == HeightOf[txLog[o].block]
          IN TxIsNext(o) /\ info[h] # NoRow /\ RecordTx(a, t, info[h].block, ok)
    BY <1>9 DEF CrashBeforeCursorPoint
  <2>2. RestartWith /\ ~failed
    BY <1>9, CrashStep DEF CrashBeforeCursorPoint
  <2>3. UNCHANGED feedVars
    BY <1>7, <2>2
  <2>4. RowsTell'
    BY <2>1, <2>2, <2>3, TxTellsTruth
  <2> QED BY <1>7, <2>2, <2>4
<1>10. CASE CrashAfterEvict
  <2>1. PICK t \in MempoolTxs : Evict(KindOf[t], t)
    BY <1>10 DEF CrashAfterEvict
  <2>2. t \in Txs
    BY FeedAssumption
  <2> QED BY <1>7, <1>10, <2>1, <2>2, CrashStep, EvictTells
<1>11. ASSUME NEW o \in 1..Len(txLog), DropTxAfterFailure(o)
       PROVE  TruthInv'
  BY <1>5, <1>11 DEF DropTxAfterFailure, SendTx, dbVars, volatileVars, boundVars, panicVars
<1>12. CASE PassOverTx
  BY <1>5, <1>12 DEF PassOverTx, SkipTx, SkipUnappliedTx, dbVars, volatileVars, boundVars, panicVars
<1>13. CASE UNCHANGED vars
  BY <1>5, <1>13 DEF vars, streamVars, dbVars, volatileVars, boundVars, panicVars
<1>14. CASE PanicOnWithdrawn
  <2>1. /\ UNCHANGED <<feedVars, blockPos, crashes, cursor, emitted, lokTables>>
        /\ info' = NoInfo
    BY <1>14 DEF PanicOnWithdrawn, streamVars, dbVars
  <2>2. /\ info' \in [0..MaxHeight -> LooseInfo \cup {NoRow}]
        /\ \A h \in 0..MaxHeight : info'[h] = NoRow
    BY <2>1 DEF NoInfo
  <2>3. StoreTyping'
    BY <1>0, <2>1, <2>2 DEF StoreTyping, feedVars
  <2>4. KnownInv'
    BY <2>1, <2>2 DEF KnownInv, Before, feedVars
  <2> QED BY <1>0, <2>1, <2>3, <2>4, RowsStay
<1>15. CASE ReadSilently
  <2>1. UNCHANGED <<feedVars, lokTables>>
    BY <1>15, ReadStep DEF dbVars
  <2> QED BY <1>0, <1>15, <2>1, ReadStep, KnownRead, RowsStay
<1> QED
  BY <1>1, <1>2, <1>3, <1>4, <1>6, <1>8, <1>9, <1>10, <1>11, <1>12, <1>13,
     <1>14, <1>15
  DEF Next, HandleTopics

(* The key and the designates of a lok move together with its mint         *)
(* (UpdateMintTxToConfirmed, RollbackMintByTxID, the two writes), however  *)
(* often the process crashes and whatever the mempool announces.           *)
THEOREM KeyMovesWithMint == Spec => []KeyMatchesMint
<1>1. MintInv => KeyMatchesMint
  BY DEF MintInv
<1> QED BY StoreInit, StoreStep, <1>1, PTL DEF Spec

(* Up to the first restart and after it no cursor point survives the       *)
(* rollback of its block's height, while processing goes on and no panic   *)
(* has wiped out a failure (RollbackCursor, processRollbackEvent).         *)
THEOREM CursorStaysOnBranch == Spec => []CursorOnBranch
<1>1. BranchInv => CursorOnBranch
  BY DEF BranchInv, CursorOnBranch, Kept
<1> QED BY StoreInit, StoreStep, <1>1, PTL DEF Spec

(* Every fork, crash, replay and mempool announcement notwithstanding, a   *)
(* confirmed row names a block, or a height, its transaction was mined at  *)
(* (handleGenesis to handleRedeem take the block from blockInfoMap and the *)
(* transaction from another topic).                                        *)
THEOREM ConfirmedTellsTruth == Spec => []ConfirmedWasMined
<1>1. TruthInv => ConfirmedWasMined
  <2> SUFFICES ASSUME TruthInv PROVE ConfirmedWasMined
    OBVIOUS
  <2>1. \A c \in Loks : \A r \in {mintTx[c], redeemTx[c]} \ {NoRow} :
          r.confirmed => Mined(r.tx, r.height)
    BY DEF TruthInv, RowsTell, TableTells
  <2> QED BY <2>1 DEF TruthInv, RowsTell, ContractTells, FundingTells, ConfirmedWasMined
<1> QED BY TruthInit, TruthStep, <1>1, PTL DEF Spec


-------------------------------------------------------------------------------
(* The counts.  As long as no block joins the best chain twice, a count is *)
(* never less than what the transaction reader has still before it of the  *)
(* block: only the last transaction of a block can bring it to 0, and none *)
(* can bring it below.                                                     *)

CountsInv ==
  \A h \in 0..MaxHeight, b \in Blocks : info[h] # NoRow /\ info[h].block = b =>
    /\ info[h].count >= 0
    /\ \A s \in 0..Len(txLog) : RunAt(b, s) =>
         \A o \in (s + 1)..(s + NumTxs(b)) :
           o >= txPos => info[h].count >= s + NumTxs(b) + 1 - o

PointsInv ==
  \A p \in cursor :
    /\ blockLog[p.blockOffset].kind = "apply" /\ blockLog[p.blockOffset].block = p.block
    /\ p.txOffset \in 1..Len(txLog)
    /\ \E b \in Blocks, s \in 0..Len(txLog) :
         b = p.block /\ RunAt(b, s) /\ NumTxs(b) > 0 /\ p.txOffset = s + NumTxs(b)

(* What waits to be sent are messages that apply a transaction.            *)
EarlyInv ==
  /\ early \subseteq txPos..Len(txLog) /\ \A o \in early : txLog[o].kind = "applied"
  /\ dropped \subseteq Blocks /\ nodeErrors \in Nat

ExactInv == TruthInv /\ ReaderTypeOK /\ EarlyInv /\ RunsInv /\ CountsInv /\ PointsInv

LEMMA ExactInit == Init => ExactInv
<1> SUFFICES ASSUME Init PROVE ExactInv
  OBVIOUS
<1>1. TruthInv /\ RunsInv
  BY TruthInit, RunsInit DEF Init
<1>2. blockLog = <<>> /\ txLog = <<>> /\ cursor = {} /\ \A h \in 0..MaxHeight : info[h] = NoRow
  BY DEF Init, FeedInit, DatabaseInit, NoInfo
<1>3. ReaderTypeOK
  <2>1. Len(txLog) = 0 /\ Len(blockLog) = 0 /\ start \in Nat
    BY <1>2, StreamAssumption DEF Init, StreamInit
  <2>2. blockPos \in 1..(Len(blockLog) + 1) /\ txPos \in 1..(Len(txLog) + 1)
    BY <2>1 DEF Init, StreamInit
  <2>3. emitted = {} /\ done = {} /\ cursorLoaded = FALSE
    BY DEF Init, StreamInit
  <2> QED BY <2>1, <2>2, <2>3 DEF ReaderTypeOK
<1>4. EarlyInv
  BY DEF Init, StreamInit, EarlyInv
<1> QED BY <1>1, <1>2, <1>3, <1>4 DEF ExactInv, CountsInv, PointsInv

LEMMA EarlyStays ==
  ASSUME EarlyInv, UNCHANGED <<txPos, txLog, early, lossVars>>
  PROVE  EarlyInv'
BY DEF EarlyInv, lossVars

(* A transaction leaves the head of its topic, and no longer waits.        *)
LEMMA EarlyMoves ==
  ASSUME EarlyInv, FeedTypeOK, txPos \in 1..Len(txLog), txPos' = txPos + 1,
         early' = early \ {txPos}, UNCHANGED <<txLog, lossVars>>
  PROVE  EarlyInv'
<1>1. Len(txLog) \in Nat
  BY DEF FeedTypeOK
<1>2. early' \subseteq txPos'..Len(txLog')
  BY <1>1 DEF EarlyInv
<1> QED BY <1>2 DEF EarlyInv, lossVars

LEMMA EarlyStep ==
  ASSUME ReaderTypeOK, StoreTyping, EarlyInv, [Next]_vars
  PROVE  EarlyInv'
<1>0. txPos \in 1..(Len(txLog) + 1) /\ Len(txLog) \in Nat /\ FeedTypeOK
  BY DEF ReaderTypeOK, StoreTyping, FeedTypeOK
<1>1. ASSUME NEW b \in Blocks, Publish(b)
      PROVE  EarlyInv'
  <2>1. UNCHANGED <<txPos, early, lossVars>> /\ FeedNext
    BY <1>1 DEF Publish, streamVars, FeedNext
  <2>2. IsGrownFrom(txLog', txLog) /\ FeedTypeOK'
    BY <1>0, <2>1, FeedTyping
  <2>3. \A o \in 1..Len(txLog) : o \in 1..Len(txLog') /\ txLog'[o] = txLog[o]
    BY <1>0, <2>2 DEF IsGrownFrom, FeedTypeOK
  <2>4. \A o \in early : o \in 1..Len(txLog) /\ o >= txPos
    BY <1>0 DEF EarlyInv
  <2>5. early' \subseteq txPos'..Len(txLog')
    BY <2>1, <2>3, <2>4
  <2> QED BY <2>1, <2>3, <2>4, <2>5 DEF EarlyInv, lossVars
<1>2. ASSUME UNCHANGED <<feedVars, txPos, early, lossVars>>
      PROVE  EarlyInv'
  BY <1>2, EarlyStays DEF feedVars
<1>3. ASSUME UNCHANGED <<feedVars, lossVars>>, txPos \in 1..Len(txLog), txPos' = txPos + 1,
             early' = early \ {txPos}
      PROVE  EarlyInv'
  BY <1>0, <1>3, EarlyMoves DEF feedVars
<1>4. ASSUME NEW o \in 1..Len(txLog), SendTx(o)
      PROVE  EarlyInv'
  BY <1>3, <1>4 DEF SendTx, TxIsNext
<1>5. ASSUME NEW b \in Blocks, HandleBlock(b) \/ HandleRollback(b)
      PROVE  EarlyInv'
  BY <1>2, <1>5 DEF HandleBlock, HandleRollback, SendBlock, SendRollback
<1>6. CASE SkipTx
  BY <1>0, <1>3, <1>6 DEF SkipTx
<1>7. CASE SkipUnappliedTx
  <2>1. txPos \notin early /\ txPos \in 1..Len(txLog)
    BY <1>0, <1>7 DEF SkipUnappliedTx, EarlyInv
  <2>2. early' = early \ {txPos}
    BY <1>7, <2>1 DEF SkipUnappliedTx
  <2> QED BY <1>3, <1>7, <2>1, <2>2 DEF SkipUnappliedTx
<1>8. ASSUME NEW b \in Blocks, DropBlock(b)
      PROVE  EarlyInv'
  BY <1>8 DEF DropBlock, feedVars, EarlyInv
<1>9. ASSUME NEW o \in 1..Len(txLog), BufferTx(o)
      PROVE  EarlyInv'
  <2>1. o \in txPos..Len(txLog) /\ txLog[o].kind = "applied" /\ early' = early \cup {o}
        /\ UNCHANGED <<txLog, txPos, lossVars>>
    BY <1>9 DEF BufferTx, feedVars
  <2> QED BY <2>1 DEF EarlyInv, lossVars
<1>10. ASSUME Restart
       PROVE  EarlyInv'
  BY <1>10 DEF Restart, RestartAt, RestartFromBeginning, EarlyInv, lossVars
<1>11. CASE UNCHANGED vars
  BY <1>2, <1>11 DEF vars, streamVars
<1>12. ASSUME NEW t \in MempoolTxs, HandleMempoolAccepted(t)
       PROVE  EarlyInv'
  BY <1>2, <1>12 DEF HandleMempoolAccepted, streamVars
<1>13. CASE PanicOnWithdrawn
  BY <1>2, <1>13 DEF PanicOnWithdrawn, streamVars
<1> QED
  BY <1>1, <1>4, <1>5, <1>6, <1>7, <1>8, <1>9, <1>10, <1>11, <1>12, <1>13
  DEF Next, HandleTopics, HandleTx, DropTxAfterFailure, PassOverTx, ReadSilently,
      CrashAndRestart, CrashBeforeCursorPoint, CrashInRollback, CrashAfterEvict

(* The reader moves on, or stays, and nothing is counted.                  *)
LEMMA CountsQuiet ==
  ASSUME CountsInv, FeedTypeOK, UNCHANGED <<feedVars, info>>, txPos \in Int,
         txPos' \in Int, txPos' >= txPos
  PROVE  CountsInv'
<1>1. UNCHANGED txLog /\ Len(txLog) \in Nat /\ \A b \in Blocks : NumTxs(b) \in Nat
  BY TxsTyping DEF feedVars, FeedTypeOK
<1>2. \A b \in Blocks : \A s \in 0..Len(txLog) : RunAt(b, s)' <=> RunAt(b, s)
  BY <1>1 DEF RunAt, NumTxs
<1>3. ASSUME NEW h \in 0..MaxHeight, NEW b \in Blocks, info[h] # NoRow, info[h].block = b
      PROVE  /\ info[h].count >= 0
             /\ \A s \in 0..Len(txLog) : RunAt(b, s) =>
                  \A o \in (s + 1)..(s + NumTxs(b)) :
                    o >= txPos' => info[h].count >= s + NumTxs(b) + 1 - o
  <2>1. ASSUME NEW s \in 0..Len(txLog), NEW o \in (s + 1)..(s + NumTxs(b)), o >= txPos'
        PROVE  o >= txPos
    BY <1>1, <2>1
  <2> QED BY <1>1, <1>3, <2>1 DEF CountsInv
<1> QED BY <1>1, <1>2, <1>3 DEF CountsInv, NumTxs

LEMMA PointsQuiet ==
  ASSUME PointsInv, UNCHANGED feedVars, cursor' \subseteq cursor
  PROVE  PointsInv'
<1>1. UNCHANGED <<txLog, blockLog>>
  BY DEF feedVars
<1> QED BY <1>1 DEF PointsInv, RunAt, NumTxs

LEMMA NothingCounted ==
  ASSUME \A h \in 0..MaxHeight : info'[h] = NoRow
  PROVE  CountsInv'
BY DEF CountsInv

LEMMA ExactPublish ==
  ASSUME AppliedOnce, ExactInv, FeedTypeOK', NEW b \in Blocks, Publish(b)
  PROVE  ReaderTypeOK' /\ RunsInv' /\ CountsInv' /\ PointsInv'
<1>1. /\ FeedNext /\ UNCHANGED <<blockPos, txPos, emitted, done, start, cursorLoaded, info, cursor>>
  BY DEF Publish, streamVars, dbVars, volatileVars, FeedNext
<1>2. FeedTypeOK /\ IsGrownFrom(txLog', txLog) /\ IsGrownFrom(blockLog', blockLog)
  BY <1>1, FeedTyping DEF ExactInv, TruthInv, StoreTyping
<1>3. /\ Len(txLog) \in Nat /\ Len(txLog') \in Nat /\ Len(txLog) <= Len(txLog')
      /\ Len(blockLog) \in Nat /\ Len(blockLog') \in Nat /\ Len(blockLog) <= Len(blockLog')
      /\ txLog \in Seq(TxMessage)
  BY <1>2 DEF FeedTypeOK, IsGrownFrom
<1>4. RunsInv'
  BY <1>1, <1>2, RunsStep DEF ExactInv
<1>5. ReaderTypeOK'
  BY <1>1, <1>3 DEF ExactInv, ReaderTypeOK
<1>6. PointsInv'
  <2> SUFFICES ASSUME NEW p \in cursor
               PROVE  /\ blockLog'[p.blockOffset].kind = "apply"
                      /\ blockLog'[p.blockOffset].block = p.block
                      /\ p.txOffset \in 1..Len(txLog')
                      /\ \E c \in Blocks, s \in 0..Len(txLog') :
                           c = p.block /\ RunAt(c, s)' /\ NumTxs(c) > 0
                           /\ p.txOffset = s + NumTxs(c)
    BY <1>1 DEF PointsInv, NumTxs
  <2>1. p.blockOffset \in 1..Len(blockLog)
    BY DEF ExactInv, TruthInv, StoreTyping
  <2>2. PICK c \in Blocks, s \in 0..Len(txLog) :
          c = p.block /\ RunAt(c, s) /\ NumTxs(c) > 0 /\ p.txOffset = s + NumTxs(c)
    BY DEF ExactInv, PointsInv
  <2>3. RunAt(c, s)' /\ s \in 0..Len(txLog')
    BY <1>2, <1>3, <2>2, RunKept
  <2>4. blockLog'[p.blockOffset] = blockLog[p.blockOffset] /\ p.txOffset \in 1..Len(txLog')
    BY <1>2, <1>3, <2>1 DEF IsGrownFrom, ExactInv, PointsInv
  <2> QED BY <2>2, <2>3, <2>4 DEF ExactInv, PointsInv
<1>7. CountsInv'
  <2>1. ASSUME NEW h \in 0..MaxHeight, NEW c \in Blocks, info[h] # NoRow, info[h].block = c,
               NEW s \in 0..Len(txLog'), RunAt(c, s)', NEW o \in (s + 1)..(s + NumTxs(c)),
               o >= txPos
        PROVE  info[h].count >= s + NumTxs(c) + 1 - o
    <3>1. NumTxs(c) \in Nat /\ NumTxs(c) > 0
      BY <2>1, TxsTyping
    <3>2. /\ info[h].offset \in 1..Len(blockLog)
          /\ blockLog[info[h].offset].kind = "apply" /\ blockLog[info[h].offset].block = c
      BY <1>3, <2>1 DEF ExactInv, TruthInv, KnownInv, StoreTyping, LooseInfo
    <3>3. applies[c] > 0
      BY <3>2 DEF ExactInv, RunsInv
    <3>4. RunAt(c, s)
      BY <1>1, <1>2, <2>1, <3>1, <3>3, OldRuns DEF ExactInv
    <3>5. s \in 0..Len(txLog)
      BY <1>3, <3>1, <3>4 DEF RunAt
    <3> QED BY <2>1, <3>4, <3>5 DEF ExactInv, CountsInv
  <2>2. \A h \in 0..MaxHeight : info[h] # NoRow => info[h].count >= 0
    BY DEF ExactInv, CountsInv, TruthInv, StoreTyping, LooseInfo
  <2> QED BY <1>1, <2>1, <2>2 DEF CountsInv, NumTxs
<1> QED BY <1>4, <1>5, <1>6, <1>7

LEMMA ExactBlock ==
  ASSUME ExactInv, NEW b \in Blocks, HandleBlock(b)
  PROVE  ReaderTypeOK' /\ CountsInv' /\ PointsInv'
<1>1. /\ blockPos \in 1..Len(blockLog) /\ blockPos' = blockPos + 1
      /\ info' = [info EXCEPT ![HeightOf[b]] =
                     [count |-> InitialCount(b), block |-> b, offset |-> blockPos]]
      /\ emitted' = emitted \cup {b} /\ done' \subseteq done \cup {HeightOf[b]}
      /\ UNCHANGED <<feedVars, txLog, blockLog, cursor, txPos, start, cursorLoaded>>
  BY BlockStep DEF ExactInv, TruthInv, HandleBlock, SendBlock, NextIs, feedVars, dbVars
<1>2. /\ HeightOf[b] \in 0..MaxHeight /\ NumTxs(b) \in Nat /\ InitialCount(b) = NumTxs(b)
      /\ Len(blockLog) \in Nat /\ txPos \in Int /\ Len(txLog) \in Nat
      /\ DOMAIN info = 0..MaxHeight
  BY NextMessage, TxsTyping
     DEF ExactInv, TruthInv, StoreTyping, FeedTypeOK, ReaderTypeOK, InitialCount
<1>3. ReaderTypeOK'
  BY <1>1, <1>2 DEF ExactInv, ReaderTypeOK
<1>4. PointsInv'
  BY <1>1, PointsQuiet DEF ExactInv
<1>5. ASSUME NEW h \in 0..MaxHeight, NEW c \in Blocks, info'[h] # NoRow, info'[h].block = c
      PROVE  /\ info'[h].count >= 0
             /\ \A s \in 0..Len(txLog) : RunAt(c, s) =>
                  \A o \in (s + 1)..(s + NumTxs(c)) :
                    o >= txPos => info'[h].count >= s + NumTxs(c) + 1 - o
  <2>1. CASE h = HeightOf[b]
    <3>1. info'[h].count = NumTxs(b) /\ c = b
      BY <1>1, <1>2, <1>5, <2>1
    <3> QED BY <1>2, <3>1
  <2>2. CASE h # HeightOf[b]
    <3>1. info'[h] = info[h]
      BY <1>1, <1>2, <2>2
    <3> QED BY <1>5, <3>1 DEF ExactInv, CountsInv
  <2> QED BY <2>1, <2>2
<1>6. \A c \in Blocks : \A s \in 0..Len(txLog) : RunAt(c, s)' <=> RunAt(c, s)
  BY <1>1 DEF RunAt, NumTxs
<1>7. CountsInv'
  BY <1>1, <1>5, <1>6 DEF CountsInv, NumTxs
<1> QED BY <1>3, <1>4, <1>7

LEMMA ExactRollback ==
  ASSUME ExactInv, NEW b \in Blocks, HandleRollback(b)
  PROVE  ReaderTypeOK' /\ CountsInv' /\ PointsInv'
<1>1. /\ blockPos \in 1..Len(blockLog) /\ blockPos' = blockPos + 1
      /\ \A h \in 0..MaxHeight : info'[h] # NoRow => info'[h] = info[h]
      /\ cursor' \subseteq cursor
      /\ emitted' = emitted \ {b} /\ done' = done \cup {HeightOf[b]}
      /\ UNCHANGED <<feedVars, txLog, blockLog, txPos, start, cursorLoaded>>
  <2>1. failed => info' = info /\ cursor' = cursor
    BY DEF HandleRollback, dbVars
  <2> QED BY <2>1, RollbackStep
          DEF ExactInv, TruthInv, HandleRollback, SendRollback, NextIs, feedVars
<1>2. HeightOf[b] \in 0..MaxHeight /\ Len(blockLog) \in Nat
  BY NextMessage DEF ExactInv, TruthInv, StoreTyping, FeedTypeOK
<1>3. ReaderTypeOK'
  <2>1. blockPos' \in 1..(Len(blockLog') + 1)
    BY <1>1, <1>2
  <2>2. emitted' \subseteq Blocks /\ done' \subseteq 0..MaxHeight
    BY <1>1, <1>2 DEF ExactInv, ReaderTypeOK
  <2> QED BY <1>1, <2>1, <2>2 DEF ExactInv, ReaderTypeOK
<1>4. PointsInv'
  BY <1>1, PointsQuiet DEF ExactInv
<1>5. \A c \in Blocks : \A s \in 0..Len(txLog) : RunAt(c, s)' <=> RunAt(c, s)
  BY <1>1 DEF RunAt, NumTxs
<1>6. CountsInv'
  BY <1>1, <1>5 DEF ExactInv, CountsInv, NumTxs
<1> QED BY <1>3, <1>4, <1>6

(* The strategy counts a transaction of the block it knows at the height.  *)
LEMMA NextTxRun ==
  ASSUME ExactInv, NEW o \in 1..Len(txLog), TxIsNext(o), ~failed,
         NEW h \in 0..MaxHeight, h = HeightOf[txLog[o].block], info[h] # NoRow
  PROVE  \E b \in Blocks, s \in 0..Len(txLog) :
           /\ txLog[o].block = b /\ info[h].block = b
           /\ RunAt(b, s) /\ o \in (s + 1)..(s + NumTxs(b))
<1>1. PICK b \in Blocks : txLog[o].block = b
  BY NextMessage DEF ExactInv, TruthInv
<1>2. info[h].block \in Blocks /\ HeightOf[info[h].block] = h
  BY DEF ExactInv, TruthInv, StoreTyping, LooseInfo
<1>3. b \in Before(blockPos) /\ info[h].block \in Before(blockPos)
  BY <1>1 DEF ExactInv, TruthInv, KnownInv, TxIsNext
<1>4. blockPos - 1 \in 1..Len(blockLog) /\ Before(blockPos) = blockLog[blockPos - 1].chain
  BY <1>3 DEF Before, ExactInv, TruthInv, StoreTyping, FeedTypeOK
<1>5. info[h].block = b
  BY <1>1, <1>2, <1>3, <1>4 DEF ExactInv, TruthInv, TopicInv, OnePerHeight
<1>6. PICK s \in 0..(o - 1) : RunAt(b, s) /\ o <= s + NumTxs(b)
  BY <1>1 DEF ExactInv, RunsInv, TxIsNext
<1>7. Len(txLog) \in Nat /\ NumTxs(b) \in Nat
  BY TxsTyping DEF ExactInv, TruthInv, StoreTyping, FeedTypeOK
<1>8. s \in 0..Len(txLog) /\ o \in (s + 1)..(s + NumTxs(b))
  BY <1>6, <1>7
<1> QED BY <1>1, <1>5, <1>6, <1>8

LEMMA AddedPointAt ==
  ASSUME NEW b, NEW blockOffset, NEW txOffset, AddCursorPoint(b, blockOffset, txOffset)
  PROVE  \A p \in cursor' : p \in cursor \/ (p.block = b /\ p.blockOffset = blockOffset
                                            /\ p.txOffset = txOffset)
BY DEF AddCursorPoint

LEMMA ExactTx ==
  ASSUME ExactInv, NEW o \in 1..Len(txLog), HandleTx(o)
  PROVE  ReaderTypeOK' /\ CountsInv' /\ PointsInv'
<1> DEFINE H == HeightOf[txLog[o].block]
<1>1. /\ ~failed /\ TxIsNext(o) /\ o = txPos /\ txPos' = txPos + 1
      /\ done' = IF LastOfBlock(o) THEN done \cup {H} ELSE done
      /\ UNCHANGED <<feedVars, txLog, blockLog, blockPos, emitted, start, cursorLoaded>>
  BY DEF HandleTx, SendTx, TxIsNext, feedVars
<1>2. H \in 0..MaxHeight /\ Len(txLog) \in Nat /\ txPos \in Int
  BY <1>1, NextMessage DEF ExactInv, TruthInv, StoreTyping, FeedTypeOK
<1>3. PICK h \in 0..MaxHeight : h = H
  BY <1>2
<1>4. PICK ok \in BOOLEAN :
        info' = IF ok /\ info[h] # NoRow THEN [info EXCEPT ![h].count = @ - 1] ELSE info
  BY <1>3 DEF HandleTx
<1>5. ReaderTypeOK'
  <2>1. txPos' \in 1..(Len(txLog') + 1)
    BY <1>1, <1>2
  <2>2. done' \subseteq 0..MaxHeight
    BY <1>1, <1>2 DEF ExactInv, ReaderTypeOK
  <2> QED BY <1>1, <2>1, <2>2 DEF ExactInv, ReaderTypeOK
<1>6. \A b \in Blocks : \A s \in 0..Len(txLog) : RunAt(b, s)' <=> RunAt(b, s)
  BY <1>1 DEF RunAt, NumTxs
<1>7. CASE info[h] = NoRow
  <2>1. info' = info /\ cursor' = cursor
    <3>1. info' = info
      BY <1>4, <1>7
    <3> QED BY <1>3, <1>7, <3>1 DEF HandleTx, CursorPointAt
  <2>2. CountsInv'
    BY <1>1, <1>2, <2>1, CountsQuiet DEF ExactInv, TruthInv, StoreTyping
  <2> QED BY <1>1, <1>5, <2>1, <2>2, PointsQuiet DEF ExactInv
<1>8. CASE info[h] # NoRow
  <2>1. PICK b \in Blocks, s \in 0..Len(txLog) :
          /\ txLog[o].block = b /\ info[h].block = b
          /\ RunAt(b, s) /\ o \in (s + 1)..(s + NumTxs(b))
    BY <1>1, <1>3, <1>8, NextTxRun
  <2>2. PICK n \in Nat : n = NumTxs(b)
    BY TxsTyping
  <2>3. PICK k \in Int : k = info[h].count /\ k >= s + n + 1 - o
    <3>1. info[h].count \in Int
      BY <1>8 DEF ExactInv, TruthInv, StoreTyping, LooseInfo
    <3>2. CountsInv
      BY DEF ExactInv
    <3>3. \A x \in (s + 1)..(s + NumTxs(b)) :
            x >= txPos => info[h].count >= s + NumTxs(b) + 1 - x
      BY <1>8, <2>1, <3>2 DEF CountsInv
    <3>4. info[h].count >= s + NumTxs(b) + 1 - o
      BY <1>1, <1>2, <2>1, <3>3
    <3> QED BY <2>2, <3>1, <3>4
  <2>4. o \in (s + 1)..(s + n) /\ n > 0 /\ k >= 1
    BY <2>1, <2>2, <2>3
  <2>5. CountsInv'
    <3>1. ASSUME NEW g \in 0..MaxHeight, NEW c \in Blocks, info'[g] # NoRow, info'[g].block = c
          PROVE  /\ info'[g].count >= 0
                 /\ \A z \in 0..Len(txLog) : RunAt(c, z) =>
                      \A x \in (z + 1)..(z + NumTxs(c)) :
                        x >= txPos + 1 => info'[g].count >= z + NumTxs(c) + 1 - x
      <4>1. CASE info'[g] = info[g]
        <5>1. NumTxs(c) \in Nat
          BY TxsTyping
        <5>2. CountsInv
          BY DEF ExactInv
        <5>3. /\ info[g].count >= 0
              /\ \A z \in 0..Len(txLog) : RunAt(c, z) =>
                   \A x \in (z + 1)..(z + NumTxs(c)) :
                     x >= txPos => info[g].count >= z + NumTxs(c) + 1 - x
          BY <3>1, <4>1, <5>2 DEF CountsInv
        <5> QED BY <1>2, <4>1, <5>1, <5>3
      <4>2. CASE info'[g] # info[g]
        <5>1. g = h /\ info'[h] = [info[h] EXCEPT !.count = @ - 1]
          BY <1>4, <1>8, <4>2 DEF ExactInv, TruthInv, StoreTyping, LooseInfo
        <5>2. info'[g].count = k - 1 /\ c = b
          <6>1. info[h].block = b /\ info[h] \in LooseInfo
            BY <1>8, <2>1 DEF ExactInv, TruthInv, StoreTyping
          <6> QED BY <2>3, <3>1, <5>1, <6>1 DEF LooseInfo
        <5>3. ASSUME NEW z \in 0..Len(txLog), RunAt(b, z)
              PROVE  z = s
          BY <2>1, <2>2, <2>4, <5>3 DEF ExactInv, RunsInv
        <5>4. k - 1 >= 0
          BY <2>3, <2>4
        <5>5. ASSUME NEW x \in (s + 1)..(s + NumTxs(b)), x >= txPos + 1
              PROVE  k - 1 >= s + NumTxs(b) + 1 - x
          <6>1. x \in Int /\ x >= o + 1 /\ o \in Int /\ s \in Int
            BY <1>1, <1>2, <5>5
          <6>2. \A j, l, m, y, z \in Int :
                  j >= l + m + 1 - z /\ y >= z + 1 => j - 1 >= l + m + 1 - y
            OBVIOUS
          <6>3. k \in Int /\ n \in Int /\ k >= s + n + 1 - o
            BY <2>2, <2>3
          <6>4. k - 1 >= s + n + 1 - x
            BY <6>1, <6>2, <6>3
          <6> QED BY <2>2, <6>4
        <5> QED BY <5>2, <5>3, <5>4, <5>5
      <4> QED BY <4>1, <4>2
    <3> QED BY <1>1, <1>6, <3>1 DEF CountsInv, NumTxs
  <2>6. PointsInv'
    <3>1. CASE UNCHANGED cursor
      BY <1>1, <3>1, PointsQuiet DEF ExactInv
    <3>2. CASE info'[h] # NoRow /\ info'[h].count = 0
               /\ AddCursorPoint(info[h].block, info[h].offset, o)
      <4>1. k = 1 /\ o = s + n
        <5>1. info'[h].count \in {k, k - 1}
          <6>1. info[h] \in LooseInfo /\ DOMAIN info = 0..MaxHeight
            BY <1>8 DEF ExactInv, TruthInv, StoreTyping
          <6>2. CASE info' = info
            BY <2>3, <6>2
          <6>3. CASE info' = [info EXCEPT ![h].count = @ - 1]
            BY <2>3, <6>1, <6>3 DEF LooseInfo
          <6> QED BY <1>4, <6>2, <6>3
        <5>2. k = 1
          BY <2>3, <2>4, <3>2, <5>1
        <5>3. s + n + 1 - o <= 1 /\ o <= s + n /\ s \in Nat /\ o \in Nat
          BY <2>3, <2>4, <5>2
        <5> QED BY <2>2, <5>2, <5>3
      <4>2. \A p \in cursor' :
              p \in cursor \/ (p.block = b /\ p.blockOffset = info[h].offset /\ p.txOffset = o)
        BY <2>1, <3>2, AddedPointAt
      <4>3. /\ info[h].offset \in 1..Len(blockLog)
            /\ blockLog[info[h].offset].kind = "apply" /\ blockLog[info[h].offset].block = b
        BY <1>8, <2>1 DEF ExactInv, TruthInv, KnownInv, StoreTyping, LooseInfo
      <4>4. ASSUME NEW p \in cursor'
            PROVE  /\ blockLog[p.blockOffset].kind = "apply"
                   /\ blockLog[p.blockOffset].block = p.block
                   /\ p.txOffset \in 1..Len(txLog)
                   /\ \E c \in Blocks, z \in 0..Len(txLog) :
                        c = p.block /\ RunAt(c, z) /\ NumTxs(c) > 0 /\ p.txOffset = z + NumTxs(c)
        <5>1. CASE p \in cursor
          BY <5>1 DEF ExactInv, PointsInv
        <5>2. CASE p.block = b /\ p.blockOffset = info[h].offset /\ p.txOffset = o
          BY <2>1, <2>2, <2>4, <4>1, <4>3, <5>2
        <5> QED BY <4>2, <4>4, <5>1, <5>2
      <4> QED BY <1>1, <1>6, <4>4 DEF PointsInv, NumTxs
    <3> QED BY <1>3, <3>1, <3>2 DEF HandleTx, CursorPointAt
  <2> QED BY <1>5, <2>5, <2>6
<1> QED BY <1>7, <1>8

LEMMA ExactRestart ==
  ASSUME ExactInv, RestartWith, UNCHANGED feedVars
  PROVE  ReaderTypeOK' /\ CountsInv' /\ PointsInv'
<1>1. UNCHANGED <<blockLog, txLog>> /\ Len(txLog) \in Nat /\ Len(blockLog) \in Nat
  BY DEF feedVars, ExactInv, TruthInv, StoreTyping, FeedTypeOK
<1>2. info' = NoInfo /\ cursor' \subseteq cursor
  BY DEF RestartWith, Restart
<1>3. ReaderTypeOK'
  <2>1. CASE RestartFromBeginning
    <3>1. start' \in Nat /\ blockPos' = 1 /\ txPos' = 1
      BY <2>1, StreamAssumption DEF RestartFromBeginning
    <3>2. blockPos' \in 1..(Len(blockLog') + 1) /\ txPos' \in 1..(Len(txLog') + 1)
      BY <1>1, <3>1
    <3>3. emitted' = {} /\ done' = {} /\ cursorLoaded' = FALSE
      BY <2>1 DEF RestartFromBeginning
    <3> QED BY <3>1, <3>2, <3>3 DEF ReaderTypeOK
  <2>2. ASSUME NEW p \in cursor, RestartAt(p)
        PROVE  ReaderTypeOK'
    <3>1. /\ p.block \in Blocks /\ p.blockOffset \in 1..Len(blockLog)
          /\ p.txOffset \in 1..Len(txLog)
      BY DEF ExactInv, PointsInv, TruthInv, StoreTyping
    <3>2. HeightOf[p.block] \in Nat
      BY <3>1, FeedAssumption
    <3>3. blockPos' \in 1..(Len(blockLog') + 1) /\ txPos' \in 1..(Len(txLog') + 1)
      BY <1>1, <2>2, <3>1 DEF RestartAt
    <3> QED BY <2>2, <3>2, <3>3 DEF RestartAt, ReaderTypeOK
  <2> QED BY <2>1, <2>2 DEF RestartWith, Restart
<1> QED BY <1>2, <1>3, NothingCounted, PointsQuiet DEF ExactInv, NoInfo

LEMMA ExactQuiet ==
  ASSUME ExactInv,
         \/ \E o \in 1..Len(txLog) : DropTxAfterFailure(o)
         \/ PassOverTx
         \/ \E t \in MempoolTxs : HandleMempoolAccepted(t)
  PROVE  ReaderTypeOK' /\ CountsInv' /\ PointsInv'
<1>1. /\ UNCHANGED <<feedVars, blockLog, txLog, cursor, info, blockPos, start, cursorLoaded, emitted>>
      /\ txPos' = txPos \/ (txPos <= Len(txLog) /\ txPos' = txPos + 1)
  BY DEF DropTxAfterFailure, PassOverTx, HandleMempoolAccepted, SendTx, TxIsNext, SkipTx,
         SkipUnappliedTx, dbVars, volatileVars, streamVars, feedVars
<1>2. txPos \in 1..(Len(txLog) + 1) /\ Len(txLog) \in Nat
  BY DEF ExactInv, ReaderTypeOK, TruthInv, StoreTyping, FeedTypeOK
<1>3. txPos' \in 1..(Len(txLog) + 1) /\ txPos' >= txPos
  BY <1>1, <1>2
<1>4. done' \subseteq 0..MaxHeight
  <2>0. done \subseteq 0..MaxHeight
    BY DEF ExactInv, ReaderTypeOK
  <2>1. ASSUME NEW o \in 1..Len(txLog), SendTx(o) PROVE done' \subseteq 0..MaxHeight
    BY <2>0, <2>1, NextMessage DEF SendTx, ExactInv, TruthInv
  <2>2. CASE SkipTx
    BY <2>0, <2>2 DEF SkipTx
  <2>3. CASE SkipUnappliedTx
    <3>1. txLog[txPos].block \in emitted => HeightOf[txLog[txPos].block] \in 0..MaxHeight
      BY FeedAssumption DEF ExactInv, ReaderTypeOK
    <3> QED BY <2>0, <2>3, <3>1 DEF SkipUnappliedTx
  <2>4. ASSUME NEW t \in MempoolTxs, HandleMempoolAccepted(t) PROVE done' \subseteq 0..MaxHeight
    BY <2>0, <2>4 DEF HandleMempoolAccepted, streamVars
  <2> QED BY <2>1, <2>2, <2>3, <2>4 DEF DropTxAfterFailure, PassOverTx
<1>5. ReaderTypeOK'
  BY <1>1, <1>3, <1>4 DEF ExactInv, ReaderTypeOK
<1>6. CountsInv'
  BY <1>1, <1>2, <1>3, CountsQuiet DEF ExactInv, TruthInv, StoreTyping
<1> QED BY <1>1, <1>5, <1>6, PointsQuiet DEF ExactInv

LEMMA ExactRead ==
  ASSUME ExactInv, ReadSilently
  PROVE  ReaderTypeOK' /\ CountsInv' /\ PointsInv'
<1>1. /\ StoreTyping'
      /\ UNCHANGED <<feedVars, blockLog, txLog, cursor, info, emitted, done, start, cursorLoaded,
                     txPos>>
  BY ReadStep DEF ExactInv, TruthInv, dbVars, volatileVars, feedVars
<1>2. ReaderTypeOK'
  BY <1>1 DEF ExactInv, ReaderTypeOK, StoreTyping
<1>3. txPos \in Int /\ FeedTypeOK
  BY DEF ExactInv, ReaderTypeOK, TruthInv, StoreTyping
<1>4. CountsInv'
  BY <1>1, <1>3, CountsQuiet DEF ExactInv
<1> QED BY <1>1, <1>2, <1>4, PointsQuiet DEF ExactInv

LEMMA RunsStay == RunsInv /\ UNCHANGED feedVars => RunsInv'
<1> SUFFICES ASSUME RunsInv, UNCHANGED feedVars PROVE RunsInv'
  OBVIOUS
<1>1. UNCHANGED <<chain, blockLog, txLog, applies, unapplies>>
  BY DEF feedVars
<1>2. \A b, s : RunAt(b, s) <=> RunAt(b, s)'
  BY <1>1 DEF RunAt, NumTxs
<1> QED BY <1>1, <1>2 DEF RunsInv, NumTxs

LEMMA ExactStep ==
  ASSUME AppliedOnce, ExactInv, [Next]_vars
  PROVE  ExactInv'
<1>0. TruthInv' /\ TruthInv /\ EarlyInv'
  BY TruthStep, EarlyStep DEF ExactInv, TruthInv
<1>a. UNCHANGED feedVars => RunsInv'
  BY RunsStay DEF ExactInv
<1>1. ASSUME NEW b \in Blocks, Publish(b)
      PROVE  ExactInv'
  BY <1>0, <1>1, ExactPublish DEF ExactInv, TruthInv, StoreTyping
<1>2. ASSUME NEW b \in Blocks, HandleBlock(b)
      PROVE  ExactInv'
  BY <1>0, <1>a, <1>2, ExactBlock DEF ExactInv, HandleBlock, SendBlock, NextIs
<1>3. ASSUME NEW b \in Blocks, HandleRollback(b)
      PROVE  ExactInv'
  BY <1>0, <1>a, <1>3, ExactRollback DEF ExactInv, HandleRollback, SendRollback, NextIs
<1>4. ASSUME NEW o \in 1..Len(txLog), HandleTx(o)
      PROVE  ExactInv'
  BY <1>0, <1>a, <1>4, ExactTx DEF ExactInv, HandleTx, SendTx
<1>5. ASSUME \/ \E o \in 1..Len(txLog) : DropTxAfterFailure(o)
             \/ PassOverTx
             \/ \E t \in MempoolTxs : HandleMempoolAccepted(t)
      PROVE  ExactInv'
  <2>1. UNCHANGED feedVars
    BY <1>5 DEF DropTxAfterFailure, PassOverTx, HandleMempoolAccepted, SendTx, SkipTx,
                SkipUnappliedTx
  <2> QED BY <1>0, <1>a, <1>5, <2>1, ExactQuiet DEF ExactInv
<1>6. ASSUME RestartWith
      PROVE  ExactInv'
  <2>1. UNCHANGED feedVars
    BY <1>6 DEF RestartWith, Restart
  <2> QED BY <1>0, <1>a, <1>6, <2>1, ExactRestart DEF ExactInv
<1>7. CASE PanicOnWithdrawn
  <2>1. UNCHANGED <<feedVars, streamVars, blockLog, txLog, cursor>> /\ info' = NoInfo
    BY <1>7 DEF PanicOnWithdrawn, dbVars, feedVars
  <2>2. ReaderTypeOK'
    BY <2>1 DEF ExactInv, ReaderTypeOK, streamVars
  <2>3. CountsInv' /\ PointsInv'
    BY <2>1, NothingCounted, PointsQuiet DEF ExactInv, NoInfo
  <2> QED BY <1>0, <1>a, <2>1, <2>2, <2>3 DEF ExactInv
<1>8. CASE UNCHANGED vars
  <2>1. UNCHANGED <<feedVars, streamVars, blockLog, txLog, cursor, info, txPos>>
    BY <1>8 DEF vars, dbVars, feedVars, volatileVars, streamVars
  <2>2. ReaderTypeOK' /\ txPos \in Int
    BY <2>1 DEF ExactInv, ReaderTypeOK, streamVars
  <2>3. CountsInv'
    BY <2>1, <2>2, CountsQuiet DEF ExactInv, TruthInv, StoreTyping
  <2>4. PointsInv'
    BY <2>1, PointsQuiet DEF ExactInv
  <2> QED BY <1>0, <1>a, <2>1, <2>2, <2>3, <2>4 DEF ExactInv
<1>9. CASE ReadSilently
  <2>1. UNCHANGED feedVars
    BY <1>9, ReadStep DEF ExactInv, TruthInv
  <2> QED BY <1>0, <1>a, <1>9, <2>1, ExactRead DEF ExactInv
<1> QED
  BY <1>1, <1>2, <1>3, <1>4, <1>5, <1>6, <1>7, <1>8, <1>9, CrashStep
  DEF Next, HandleTopics

(* A cursor point names the message that applied its block and the last    *)
(* transaction of that block (processTransactionEvent writes it when       *)
(* remainingTxs, the count of blockInfoMap, reaches 0), however many       *)
(* forks, crashes, panics and failures there were: as long as no block     *)
(* joins the best chain twice.                                             *)
THEOREM CursorNamesOnePlace ==
  ASSUME AppliedOnce
  PROVE  Spec => []CursorPointExact
<1>1. ExactInv => CursorPointExact
  <2> SUFFICES ASSUME ExactInv, NEW p \in cursor
               PROVE  /\ blockLog[p.blockOffset].kind = "apply"
                      /\ blockLog[p.blockOffset].block = p.block
                      /\ txLog[p.txOffset].kind = "applied"
                      /\ txLog[p.txOffset].block = p.block
                      /\ LastOfBlock(p.txOffset)
    BY DEF CursorPointExact
  <2>1. PICK b \in Blocks, s \in 0..Len(txLog) :
          b = p.block /\ RunAt(b, s) /\ NumTxs(b) > 0 /\ p.txOffset = s + NumTxs(b)
    BY DEF ExactInv, PointsInv
  <2>2. PICK n \in Nat : n = NumTxs(b)
    BY TxsTyping
  <2>3. PICK o \in (s + 1)..(s + n) : o = s + n
    BY <2>1, <2>2
  <2>4. txLog[o].kind = "applied" /\ txLog[o].block = b /\ txLog[o].tx = TxsOf[b][o - s]
    BY <2>1, <2>2 DEF RunAt
  <2>5. o - s = NumTxs(b)
    BY <2>2, <2>3
  <2> QED BY <2>1, <2>2, <2>3, <2>4, <2>5 DEF ExactInv, PointsInv, LastOfBlock
<1>2. ExactInv /\ [Next]_vars => ExactInv'
  BY ExactStep
<1> QED BY ExactInit, <1>1, <1>2, PTL DEF Spec

-------------------------------------------------------------------------------
(* The types of the tables and of the strategy's memory.                   *)

TablesTyped ==
  /\ block \in [0..MaxHeight -> Blocks \cup {NoRow}]
  /\ fundingTx \subseteq Row
  /\ tokenEvent \in [Txs -> Nat]

(* The points are finitely many: so many ids have a greatest one (NextId). *)
Ids == {0} \cup {p.id : p \in cursor}
HaveMax(S) == \A T \in SUBSET S : T # {} => \E x \in T : \A y \in T : x >= y

PointsTyped == cursor \subseteq CursorPoint /\ HaveMax(Ids)

TypesInv ==
  /\ TablesTyped /\ PointsTyped
  /\ failed \in BOOLEAN /\ cleared \in BOOLEAN
  /\ cache \in [Txs -> Kinds \cup {"unknown", NoRow}]

LEMMA BlockEnsured ==
  ASSUME block \in [0..MaxHeight -> Blocks \cup {NoRow}], NEW b \in Blocks, ensureBlockExists(b)
  PROVE  block' \in [0..MaxHeight -> Blocks \cup {NoRow}]
BY DEF ensureBlockExists

LEMMA RecordTypes ==
  ASSUME TablesTyped, NEW a, NEW ok, NEW t \in Txs, NEW b \in Blocks, RecordTx(a, t, b, ok)
  PROVE  TablesTyped'
<1>1. NewRow(t, HeightOf[b], TRUE) \in Row
  BY FeedAssumption DEF NewRow, Row
<1>2. WriteTokenEvents(t) => tokenEvent' \in [Txs -> Nat]
  BY DEF WriteTokenEvents, TablesTyped
<1>3. CASE UNCHANGED lokTables
  BY <1>3 DEF lokTables, TablesTyped
<1>4. CASE WriteFundingTx(t, b)
  BY <1>1, <1>2, <1>4, BlockEnsured DEF WriteFundingTx, TablesTyped
<1>5. CASE UpdateFundingTxToConfirmed(t, b)
  <2>1. \A r \in fundingTx' : r \in fundingTx \/ r = NewRow(t, HeightOf[b], TRUE)
    BY <1>5 DEF UpdateFundingTxToConfirmed
  <2> QED BY <1>1, <1>5, <2>1, BlockEnsured DEF UpdateFundingTxToConfirmed, TablesTyped
<1>6. CASE WriteGenesisTx(t, b)
  BY <1>2, <1>6, BlockEnsured DEF WriteGenesisTx, TablesTyped
<1>7. CASE \/ UpdateGenesisTxToConfirmed(t, b) \/ WriteCreateTokenLokAction(t, b)
           \/ UpdateMintTxToConfirmed(t, b) \/ WriteRedeemTx(t, b)
           \/ UpdateRedeemTxToConfirmed(t, b)
  BY <1>7, BlockEnsured
     DEF UpdateGenesisTxToConfirmed, WriteCreateTokenLokAction, UpdateMintTxToConfirmed,
         WriteRedeemTx, UpdateRedeemTxToConfirmed, TablesTyped
<1> QED BY <1>3, <1>4, <1>5, <1>6, <1>7 DEF RecordTx, Write, Confirm

LEMMA RecordMempoolTypes ==
  ASSUME TablesTyped, NEW a, NEW t \in Txs, RecordMempoolTx(a, t)
  PROVE  TablesTyped'
<1>1. NewRow(t, 0, FALSE) \in Row
  BY DEF NewRow, Row
<1>2. CASE UNCHANGED lokTables \/ Evict(a, t)
  BY <1>2 DEF lokTables, Evict, TablesTyped
<1>3. CASE WriteMempool(a, t)
  <2>1. WriteTokenEvents(t) => tokenEvent' \in [Txs -> Nat]
    BY DEF WriteTokenEvents, TablesTyped
  <2>2. CASE WriteFundingTxMempool(t)
    BY <1>1, <2>1, <2>2 DEF WriteFundingTxMempool, TablesTyped
  <2>3. CASE WriteGenesisTxMempool(t)
    BY <2>1, <2>3 DEF WriteGenesisTxMempool, TablesTyped
  <2>4. CASE WriteCreateTokenLokMempool(t) \/ WriteRedeemTxMempool(t)
    BY <2>4 DEF WriteCreateTokenLokMempool, WriteRedeemTxMempool, TablesTyped
  <2> QED BY <1>3, <2>2, <2>3, <2>4 DEF WriteMempool
<1> QED BY <1>2, <1>3 DEF RecordMempoolTx

LEMMA OneMore ==
  ASSUME NEW S \in SUBSET Nat, HaveMax(S), NEW m \in Nat
  PROVE  HaveMax(S \cup {m})
<1> SUFFICES ASSUME NEW T \in SUBSET (S \cup {m}), T # {}
             PROVE  \E x \in T : \A y \in T : x >= y
  BY DEF HaveMax
<1>1. CASE T \ {m} = {}
  <2>1. T = {m}
    BY <1>1
  <2> QED BY <2>1
<1>2. CASE T \ {m} # {}
  <2>1. PICK x \in T \ {m} : \A y \in T \ {m} : x >= y
    BY <1>2 DEF HaveMax
  <2>2. x \in Nat
    BY <2>1
  <2>3. CASE x >= m
    BY <2>1, <2>3
  <2>4. CASE m \in T /\ m >= x
    <3>1. \A y \in T : y \in Nat
      OBVIOUS
    <3> QED BY <2>1, <2>2, <2>4, <3>1
  <2>5. CASE m \notin T
    BY <2>1, <2>5
  <2> QED BY <2>2, <2>3, <2>4, <2>5
<1> QED BY <1>1, <1>2

LEMMA PointAdded ==
  ASSUME PointsTyped, NEW b \in Blocks, NEW i \in Nat, NEW o \in Nat, AddCursorPoint(b, i, o)
  PROVE  PointsTyped'
<1>1. Ids \in SUBSET Nat /\ Ids # {}
  BY DEF PointsTyped, CursorPoint, Ids
<1>2. PICK m \in Nat : m = NextId
  <2>1. Max(Ids) \in Ids
    BY <1>1 DEF PointsTyped, HaveMax, Max
  <2>2. NextId = 1 + Max(Ids)
    BY DEF NextId, Ids
  <2>3. PICK x \in Nat : x = Max(Ids)
    BY <1>1, <2>1
  <2>4. 1 + x \in Nat /\ 1 + x = NextId
    BY <2>2, <2>3
  <2> QED BY <2>4
<1> DEFINE point == [id |-> m, block |-> b, blockOffset |-> i, txOffset |-> o]
<1>3. cursor' \subseteq cursor \cup {point}
  BY <1>2 DEF AddCursorPoint
<1>4. point \in CursorPoint /\ point.id = m
  BY DEF CursorPoint
<1>5. cursor' \subseteq CursorPoint
  BY <1>3, <1>4 DEF PointsTyped
<1>6. Ids' \subseteq Ids \cup {m}
  BY <1>3, <1>4 DEF Ids
<1>7. HaveMax(Ids \cup {m})
  BY <1>1, OneMore DEF PointsTyped
<1> QED BY <1>5, <1>6, <1>7 DEF PointsTyped, HaveMax

LEMMA PointsDropped == PointsTyped /\ cursor' \subseteq cursor => PointsTyped'
<1> SUFFICES ASSUME PointsTyped, cursor' \subseteq cursor PROVE PointsTyped'
  OBVIOUS
<1>1. Ids' \subseteq Ids
  BY DEF Ids
<1> QED BY <1>1 DEF PointsTyped, HaveMax

LEMMA TypesInit == Init => TypesInv
<1> SUFFICES ASSUME Init PROVE TypesInv
  OBVIOUS
<1>1. cursor = {} /\ Ids = {0}
  BY DEF Init, DatabaseInit, Ids
<1>2. HaveMax({0})
  <2>1. ASSUME NEW T \in SUBSET {0}, T # {} PROVE T = {0}
    BY <2>1
  <2> QED BY <2>1 DEF HaveMax
<1>3. TablesTyped
  BY DEF Init, DatabaseInit, TablesTyped
<1> QED BY <1>1, <1>2, <1>3 DEF Init, TypesInv, PointsTyped, EmptyCache

LEMMA TxTypes ==
  ASSUME TruthInv, TypesInv, NEW o \in 1..Len(txLog), HandleTx(o)
  PROVE  TypesInv'
<1> DEFINE t == txLog[o].tx
           h == HeightOf[txLog[o].block]
<1>1. TxIsNext(o) /\ t \in Txs /\ h \in 0..MaxHeight /\ o \in Nat
  BY NextMessage DEF HandleTx, SendTx, TruthInv
<1>2. info[h] # NoRow => info[h].block \in Blocks /\ info[h].offset \in Nat
  BY <1>1 DEF TruthInv, StoreTyping, LooseInfo
<1>3. PICK ok \in BOOLEAN : ProcessTx(o, ok) /\ failed' = ~ok
  BY DEF HandleTx
<1>4. TablesTyped' /\ cache' \in [Txs -> Kinds \cup {"unknown", NoRow}]
  <2>1. CASE info[h] = NoRow
    BY <1>3, <2>1 DEF ProcessTx, TypesInv, TablesTyped, lokTables
  <2>2. CASE info[h] # NoRow
    <3>1. PICK a \in Kinds \cup {"none", "unknown"} :
            /\ RecordTx(a, t, info[h].block, ok)
            /\ cache' = IF ok /\ a \in Kinds /\ Unconfirmed(a, t)
                        THEN [cache EXCEPT ![t] = NoRow] ELSE cache
      BY <1>3, <2>2 DEF ProcessTx
    <3>2. TablesTyped'
      BY <1>1, <1>2, <2>2, <3>1, RecordTypes DEF TypesInv
    <3>3. cache' = [cache EXCEPT ![t] = NoRow] \/ cache' = cache
      BY <3>1
    <3> QED BY <3>2, <3>3 DEF TypesInv
  <2> QED BY <2>1, <2>2
<1>5. PointsTyped'
  <2>1. CASE UNCHANGED cursor
    BY <2>1, PointsDropped DEF TypesInv
  <2>2. CASE info'[h] # NoRow /\ AddCursorPoint(info[h].block, info[h].offset, o)
    <3>1. info[h] # NoRow
      BY <1>1, <2>2, TxStep DEF TruthInv
    <3> QED BY <1>1, <1>2, <2>2, <3>1, PointAdded DEF TypesInv
  <2> QED BY <2>1, <2>2 DEF HandleTx, CursorPointAt
<1> QED BY <1>3, <1>4, <1>5 DEF HandleTx, TypesInv, panicVars

LEMMA TypesStep ==
  ASSUME TruthInv, TypesInv, [Next]_vars
  PROVE  TypesInv'
<1>1. ASSUME UNCHANGED <<block, fundingTx, tokenEvent, cleared, failed, cache>>,
             cursor' \subseteq cursor
      PROVE  TypesInv'
  BY <1>1, PointsDropped DEF TypesInv, TablesTyped
<1>2. ASSUME NEW b \in Blocks, HandleRollback(b)
      PROVE  TypesInv'
  <2>1. failed \in BOOLEAN /\ cache \in [Txs -> Kinds \cup {"unknown", NoRow}]
        /\ cleared \in BOOLEAN /\ UNCHANGED <<failed, cache, cleared>>
    BY <1>2 DEF HandleRollback, TypesInv, boundVars, panicVars
  <2>2. cursor' \subseteq cursor
    BY <1>2 DEF HandleRollback, RollbackCursor, dbVars
  <2>3. TablesTyped'
    BY <1>2 DEF HandleRollback, Rollback, dbVars, lokTables, TypesInv, TablesTyped
  <2> QED BY <2>1, <2>2, <2>3, PointsDropped DEF TypesInv
<1>3. ASSUME NEW t \in MempoolTxs, HandleMempoolAccepted(t)
      PROVE  TypesInv'
  <2>1. PICK a \in Kinds \cup {"unknown"} :
          cache' = [cache EXCEPT ![t] = a] /\ RecordMempoolTx(a, t)
    BY <1>3 DEF HandleMempoolAccepted
  <2>2. t \in Txs /\ UNCHANGED <<failed, cleared, cursor>>
    BY <1>3, FeedAssumption DEF HandleMempoolAccepted, panicVars
  <2>3. TablesTyped'
    BY <2>1, <2>2, RecordMempoolTypes DEF TypesInv
  <2>4. cache' \in [Txs -> Kinds \cup {"unknown", NoRow}]
    BY <2>1 DEF TypesInv
  <2> QED BY <2>2, <2>3, <2>4, PointsDropped DEF TypesInv
<1>4. EmptyCache \in [Txs -> Kinds \cup {"unknown", NoRow}]
  BY DEF EmptyCache
<1>5. CASE PanicOnWithdrawn
  BY <1>4, <1>5, PointsDropped DEF PanicOnWithdrawn, dbVars, lokTables, TypesInv, TablesTyped
<1>6. ASSUME RestartWith, TablesTyped'
      PROVE  TypesInv'
  BY <1>4, <1>6, PointsDropped DEF RestartWith, Restart, panicVars, TypesInv
<1>7. CASE CrashAndRestart \/ CrashInRollback
  <2>1. TablesTyped'
    BY <1>7 DEF CrashAndRestart, CrashInRollback, dbVars, lokTables, TypesInv, TablesTyped
  <2> QED BY <1>6, <1>7, <2>1, CrashStep
<1>8. CASE CrashBeforeCursorPoint
  <2>1. PICK o \in 1..Len(txLog), ok \in BOOLEAN, a \in Kinds :
          LET t == txLog[o].tx
              h == HeightOf[txLog[o].block]
          IN TxIsNext(o) /\ info[h] # NoRow /\ RecordTx(a, t, info[h].block, ok)
    BY <1>8 DEF CrashBeforeCursorPoint
  <2>2. txLog[o].tx \in Txs /\ HeightOf[txLog[o].block] \in 0..MaxHeight
    BY <2>1, NextMessage DEF TruthInv
  <2>3. info[HeightOf[txLog[o].block]].block \in Blocks
    BY <2>1, <2>2 DEF TruthInv, StoreTyping, LooseInfo
  <2>4. TablesTyped'
    BY <2>1, <2>2, <2>3, RecordTypes DEF TypesInv
  <2> QED BY <1>6, <1>8, <2>4, CrashStep
<1>9. CASE CrashAfterEvict
  <2>1. TablesTyped'
    BY <1>9 DEF CrashAfterEvict, Evict, TypesInv, TablesTyped
  <2> QED BY <1>6, <1>9, <2>1, CrashStep
<1>10. ASSUME NEW b \in Blocks, Publish(b)
       PROVE  TypesInv'
  BY <1>1, <1>10 DEF Publish, dbVars, lokTables, volatileVars, boundVars, panicVars
<1>11. ASSUME NEW b \in Blocks, HandleBlock(b)
       PROVE  TypesInv'
  BY <1>1, <1>11 DEF HandleBlock, dbVars, lokTables, boundVars, panicVars
<1>12. ASSUME NEW o \in 1..Len(txLog), DropTxAfterFailure(o)
       PROVE  TypesInv'
  BY <1>1, <1>12 DEF DropTxAfterFailure, dbVars, lokTables, volatileVars, boundVars, panicVars
<1>13. CASE PassOverTx
  BY <1>1, <1>13 DEF PassOverTx, dbVars, lokTables, volatileVars, boundVars, panicVars
<1>14. CASE UNCHANGED vars
  BY <1>1, <1>14 DEF vars, dbVars, lokTables, volatileVars, boundVars, panicVars
<1>15. CASE ReadSilently
  BY <1>1, <1>15 DEF ReadSilently, dbVars, lokTables, volatileVars, boundVars, panicVars
<1> QED
  BY <1>2, <1>3, <1>5, <1>7, <1>8, <1>9, <1>10, <1>11, <1>12, <1>13, <1>14, <1>15, TxTypes
  DEF Next, HandleTopics

(* Every variable keeps its type: above all the counts of blockInfoMap,    *)
(* unsigned integers that processTransactionEvent decrements without a     *)
(* test, never pass below 0, as long as no block joins the best chain      *)
(* twice.                                                                  *)
THEOREM StoreTypeCorrect ==
  ASSUME AppliedOnce
  PROVE  Spec => []TypeOK
<1>1. ExactInv /\ TypesInv /\ MintInv => TypeOK
  <2> SUFFICES ASSUME ExactInv, TypesInv, MintInv PROVE TypeOK
    OBVIOUS
  <2>1. FeedTypeOK /\ StreamTypeOK
    BY DEF ExactInv, EarlyInv, TruthInv, StoreTyping, StreamTypeOK
  <2>2. DatabaseTypeOK
    BY DEF ExactInv, TruthInv, RowsTell, TableTells, ContractTells, TypesInv, TablesTyped,
           PointsTyped, MintInv, MintTyping, DatabaseTypeOK
  <2>3. ASSUME NEW h \in 0..MaxHeight
        PROVE  info[h] \in BlockInfo \cup {NoRow}
    <3>1. info[h] # NoRow => info[h] \in LooseInfo /\ info[h].count >= 0
      <4>1. info[h] # NoRow => info[h] \in LooseInfo
        BY DEF ExactInv, TruthInv, StoreTyping
      <4>2. info[h] # NoRow => info[h].block \in Blocks
        BY <4>1 DEF LooseInfo
      <4> QED BY <4>1, <4>2 DEF ExactInv, CountsInv
    <3> QED BY <3>1 DEF LooseInfo, BlockInfo
  <2>4. info \in [0..MaxHeight -> BlockInfo \cup {NoRow}]
    BY <2>3 DEF ExactInv, TruthInv, StoreTyping
  <2> QED BY <2>1, <2>2, <2>4 DEF TypesInv, TypeOK
<1>2. ExactInv /\ TypesInv /\ [Next]_vars => ExactInv' /\ TypesInv'
  BY ExactStep, TypesStep DEF ExactInv
<1> QED BY ExactInit, TypesInit, StoreInit, StoreStep, <1>1, <1>2, PTL DEF Spec

-------------------------------------------------------------------------------
(* The token events of a transaction are written together with its row,    *)
(* and the row stays: a funding is never deleted, a contract only when     *)
(* another genesis of its lok takes its place in the mempool.              *)

GenesisOnce ==
  \A t, u \in MempoolTxs :
    KindOf[t] = "genesis" /\ KindOf[u] = "genesis" /\ LokOf[t] = LokOf[u] => t = u

HasRow(t) ==
  \/ KindOf[t] = "genesis" /\ CheckGenesisTxExists(t)
  \/ KindOf[t] = "fund" /\ CheckFundingTxExists(t)

TokensInv ==
  /\ contract \in [Loks -> ContractRow \cup {NoRow}]
  /\ \A c \in Loks : contract[c] # NoRow =>
       /\ LokOf[contract[c].tx] = c /\ KindOf[contract[c].tx] = "genesis"
       /\ ~contract[c].confirmed => contract[c].tx \in MempoolTxs
  /\ tokenEvent \in [Txs -> Nat]
  /\ \A t \in Txs : tokenEvent[t] <= 1 /\ (tokenEvent[t] = 1 => HasRow(t))

CacheInv ==
  /\ cache \in [Txs -> Kinds \cup {"unknown", NoRow}]
  /\ \A t \in Txs : cache[t] \in {KindOf[t], "unknown", NoRow}

LEMMA NoContract == NoRow \notin ContractRow
BY DatabaseAssumption DEF ContractRow

(* Tables in which the rows of t are written for the first time.           *)
LEMMA GenesisWritten ==
  ASSUME TokensInv, NEW t \in Txs, KindOf[t] = "genesis", ~CheckGenesisTxExists(t),
         contract[LokOf[t]] = NoRow, NEW row \in ContractRow, row # NoRow, row.tx = t,
         ~row.confirmed => t \in MempoolTxs,
         contract' = [contract EXCEPT ![LokOf[t]] = row], WriteTokenEvents(t),
         UNCHANGED fundingTx
  PROVE  TokensInv'
<1>1. LokOf[t] \in Loks
  BY DatabaseAssumption
<1>2. /\ contract' \in [Loks -> ContractRow \cup {NoRow}]
      /\ \A c \in Loks : contract'[c] # NoRow =>
           /\ LokOf[contract'[c].tx] = c /\ KindOf[contract'[c].tx] = "genesis"
           /\ ~contract'[c].confirmed => contract'[c].tx \in MempoolTxs
  BY <1>1 DEF TokensInv
<1>3. tokenEvent[t] = 0
  <2>1. ~HasRow(t)
    BY DEF HasRow
  <2> QED BY <2>1 DEF TokensInv
<1>4. tokenEvent' = [tokenEvent EXCEPT ![t] = 1] /\ tokenEvent' \in [Txs -> Nat]
  BY <1>3 DEF WriteTokenEvents, TokensInv
<1>5. HasRow(t)'
  BY <1>1, <1>2 DEF HasRow, CheckGenesisTxExists, TokensInv
<1>6. ASSUME NEW u \in Txs, u # t, HasRow(u)
      PROVE  HasRow(u)'
  <2>1. ASSUME NEW c \in Loks, contract[c] # NoRow
        PROVE  contract'[c] = contract[c]
    BY <2>1 DEF TokensInv
  <2> QED BY <1>6, <2>1 DEF HasRow, CheckGenesisTxExists, CheckFundingTxExists
<1>7. \A u \in Txs : tokenEvent'[u] <= 1 /\ (tokenEvent'[u] = 1 => HasRow(u)')
  BY <1>4, <1>5, <1>6 DEF TokensInv
<1> QED BY <1>2, <1>4, <1>7 DEF TokensInv

LEMMA FundingWritten ==
  ASSUME TokensInv, NEW t \in Txs, KindOf[t] = "fund", ~CheckFundingTxExists(t),
         NEW row, row.tx = t, fundingTx' = fundingTx \cup {row}, WriteTokenEvents(t),
         UNCHANGED contract
  PROVE  TokensInv'
<1>1. tokenEvent[t] = 0
  <2>1. ~HasRow(t)
    BY DEF HasRow
  <2> QED BY <2>1 DEF TokensInv
<1>2. tokenEvent' = [tokenEvent EXCEPT ![t] = 1] /\ tokenEvent' \in [Txs -> Nat]
  BY <1>1 DEF WriteTokenEvents, TokensInv
<1>3. HasRow(t)' /\ \A u \in Txs : HasRow(u) => HasRow(u)'
  BY DEF HasRow, CheckGenesisTxExists, CheckFundingTxExists
<1>4. \A u \in Txs : tokenEvent'[u] <= 1 /\ (tokenEvent'[u] = 1 => HasRow(u)')
  BY <1>2, <1>3 DEF TokensInv
<1> QED BY <1>2, <1>4 DEF TokensInv

(* Tables that keep their transactions, no token event written.            *)
LEMMA RowsConfirmed ==
  ASSUME TokensInv, UNCHANGED tokenEvent, contract' \in [Loks -> ContractRow \cup {NoRow}],
         \A c \in Loks : /\ contract'[c] # NoRow <=> contract[c] # NoRow
                         /\ contract[c] # NoRow => contract'[c].tx = contract[c].tx
                         /\ contract[c] # NoRow /\ ~contract'[c].confirmed
                              => ~contract[c].confirmed,
         \A t \in Txs : CheckFundingTxExists(t) => CheckFundingTxExists(t)'
  PROVE  TokensInv'
<1>1. \A t \in Txs : HasRow(t) => HasRow(t)'
  BY DEF HasRow, CheckGenesisTxExists
<1> QED BY <1>1 DEF TokensInv

LEMMA TokensRecord ==
  ASSUME TokensInv, NEW t \in Txs, NEW b \in Blocks, NEW a \in {KindOf[t], "unknown"}, NEW ok,
         RecordTx(a, t, b, ok)
  PROVE  TokensInv'
<1>0. HeightOf[b] \in Nat /\ LokOf[t] \in Loks /\ NewRow(t, HeightOf[b], TRUE).tx = t
  BY FeedAssumption, DatabaseAssumption DEF NewRow
<1>1. CASE UNCHANGED <<contract, fundingTx, tokenEvent>>
  BY <1>1 DEF TokensInv, HasRow, CheckGenesisTxExists, CheckFundingTxExists
<1>2. CASE a \in Kinds /\ ~Known(a, t) /\ CanWrite(a, t) /\ Write(a, t, b)
  <2>1. a = KindOf[t]
    BY <1>2 DEF Kinds
  <2>2. CASE a = "genesis"
    <3>1. /\ ~CheckGenesisTxExists(t) /\ contract[LokOf[t]] = NoRow
          /\ WriteGenesisTx(t, b)
      BY <1>2, <2>2 DEF Known, CanWrite, CanCreateContract, Write
    <3>2. PICK row : row = [tx |-> t, height |-> HeightOf[b], hash |-> b, confirmed |-> TRUE]
      OBVIOUS
    <3>3. row \in ContractRow /\ row # NoRow /\ row.tx = t /\ row.confirmed
      <4>a. row \in ContractRow /\ row.tx = t
        BY <1>0, <3>2 DEF ContractRow
      <4>b. row.confirmed = TRUE
        BY <3>2
      <4> QED BY <4>a, <4>b, NoContract
    <3> QED BY <2>1, <2>2, <3>1, <3>2, <3>3, GenesisWritten DEF WriteGenesisTx
  <2>3. CASE a = "fund"
    <3>1. ~CheckFundingTxExists(t) /\ WriteFundingTx(t, b)
      BY <1>2, <2>3 DEF Known, Write
    <3> QED BY <1>0, <2>1, <2>3, <3>1, FundingWritten DEF WriteFundingTx
  <2>4. CASE a = "mint" \/ a = "redeem"
    BY <1>1, <1>2, <2>4 DEF Write, WriteCreateTokenLokAction, WriteRedeemTx
  <2> QED BY <1>2, <2>2, <2>3, <2>4 DEF Kinds
<1>3. CASE a \in Kinds /\ Confirm(a, t, b)
  <2>1. CASE UpdateGenesisTxToConfirmed(t, b)
    <3>1. PICK row : row = [tx |-> t, height |-> HeightOf[b], hash |-> b, confirmed |-> TRUE]
      OBVIOUS
    <3>2. row \in ContractRow /\ row # NoRow /\ row.tx = t /\ row.confirmed
      <4>a. row \in ContractRow /\ row.tx = t
        BY <1>0, <3>1 DEF ContractRow
      <4>b. row.confirmed = TRUE
        BY <3>1
      <4> QED BY <4>a, <4>b, NoContract
    <3>3. \A c \in Loks : contract'[c] = IF contract[c] # NoRow /\ contract[c].tx = t
                                              /\ ~contract[c].confirmed
                                         THEN row ELSE contract[c]
      BY <2>1, <3>1 DEF UpdateGenesisTxToConfirmed
    <3>4. contract' \in [Loks -> ContractRow \cup {NoRow}]
      <4>1. DOMAIN contract' = Loks /\ contract' = [c \in Loks |-> contract'[c]]
        BY <2>1 DEF UpdateGenesisTxToConfirmed
      <4>2. \A c \in Loks : contract'[c] \in ContractRow \cup {NoRow}
        BY <3>2, <3>3 DEF TokensInv
      <4> QED BY <4>1, <4>2
    <3>5. UNCHANGED <<fundingTx, tokenEvent>>
      BY <2>1 DEF UpdateGenesisTxToConfirmed
    <3> QED BY <3>2, <3>3, <3>4, <3>5, RowsConfirmed DEF CheckFundingTxExists
  <2>2. CASE UpdateFundingTxToConfirmed(t, b)
    <3>1. \A u \in Txs : CheckFundingTxExists(u) => CheckFundingTxExists(u)'
      BY <1>0, <2>2 DEF UpdateFundingTxToConfirmed, CheckFundingTxExists
    <3> QED BY <2>2, <3>1, RowsConfirmed DEF UpdateFundingTxToConfirmed, TokensInv
  <2>3. CASE UpdateMintTxToConfirmed(t, b) \/ UpdateRedeemTxToConfirmed(t, b)
    BY <1>1, <2>3 DEF UpdateMintTxToConfirmed, UpdateRedeemTxToConfirmed
  <2> QED BY <1>3, <2>1, <2>2, <2>3 DEF Confirm
<1>4. CASE UNCHANGED lokTables
  BY <1>1, <1>4 DEF lokTables
<1> QED BY <1>2, <1>3, <1>4 DEF RecordTx

(* Only a row of the mempool gives way, and a contract's is not another's. *)
LEMMA NoContractEvicted ==
  ASSUME GenesisOnce, TokensInv, NEW t \in MempoolTxs, KindOf[t] = "genesis",
         ~Superseded("genesis", t)
  PROVE  contract[LokOf[t]] = NoRow /\ ~CheckGenesisTxExists(t)
<1>1. LokOf[t] \in Loks
  BY FeedAssumption, DatabaseAssumption
<1>2. ~CheckGenesisTxExists(t) /\ (contract[LokOf[t]] # NoRow => ~contract[LokOf[t]].confirmed)
  BY DEF Superseded, Known, RowOf
<1>3. ASSUME contract[LokOf[t]] # NoRow PROVE FALSE
  <2>1. /\ contract[LokOf[t]].tx \in MempoolTxs /\ KindOf[contract[LokOf[t]].tx] = "genesis"
        /\ LokOf[contract[LokOf[t]].tx] = LokOf[t]
    BY <1>1, <1>2, <1>3 DEF TokensInv
  <2>2. contract[LokOf[t]].tx = t
    BY <2>1 DEF GenesisOnce
  <2> QED BY <1>1, <1>2, <1>3, <2>2 DEF CheckGenesisTxExists
<1> QED BY <1>2, <1>3

LEMMA TokensEvict ==
  ASSUME GenesisOnce, TokensInv, NEW t \in MempoolTxs, NEW a \in Kinds, a = KindOf[t],
         ~Superseded(a, t), Evict(a, t)
  PROVE  TokensInv'
<1>1. LokOf[t] \in Loks
  BY FeedAssumption, DatabaseAssumption
<1>2. UNCHANGED contract
  <2>1. CASE a = "genesis"
    <3>1. contract[LokOf[t]] = NoRow
      BY <2>1, NoContractEvicted
    <3> QED BY <1>1, <2>1, <3>1 DEF Evict, TokensInv
  <2>2. CASE a # "genesis"
    BY <2>2 DEF Evict
  <2> QED BY <2>1, <2>2
<1>3. UNCHANGED <<contract, fundingTx, tokenEvent>>
  BY <1>2 DEF Evict
<1> QED BY <1>3 DEF TokensInv, HasRow, CheckGenesisTxExists, CheckFundingTxExists

LEMMA TokensMempool ==
  ASSUME GenesisOnce, TokensInv, NEW t \in MempoolTxs, NEW a \in {KindOf[t], "unknown"},
         RecordMempoolTx(a, t)
  PROVE  TokensInv'
<1>0. t \in Txs /\ LokOf[t] \in Loks /\ NewRow(t, 0, FALSE).tx = t
  BY FeedAssumption, DatabaseAssumption DEF NewRow
<1>1. CASE UNCHANGED <<contract, fundingTx, tokenEvent>>
  BY <1>1 DEF TokensInv, HasRow, CheckGenesisTxExists, CheckFundingTxExists
<1>2. CASE Superseded(a, t)
  BY <1>1, <1>2 DEF RecordMempoolTx, lokTables
<1>3. CASE ~Superseded(a, t)
  <2>1. a \in Kinds /\ a = KindOf[t] /\ ~Known(a, t)
    BY <1>3 DEF Superseded, Kinds
  <2>2. CASE Evict(a, t)
    BY <1>3, <2>1, <2>2, TokensEvict
  <2>3. CASE WriteMempool(a, t)
    <3>1. CASE a = "genesis" /\ WriteGenesisTxMempool(t)
      <4>1. ~CheckGenesisTxExists(t) /\ contract[LokOf[t]] = NoRow
        BY <1>3, <2>1, <3>1, NoContractEvicted
      <4>2. PICK row : row = [tx |-> t, height |-> 0, hash |-> Root, confirmed |-> FALSE]
        OBVIOUS
      <4>3. row \in ContractRow /\ row # NoRow /\ row.tx = t /\ ~row.confirmed
        <5>a. row \in ContractRow /\ row.tx = t
          BY <1>0, <4>2 DEF ContractRow
        <5>b. row.confirmed = FALSE
          BY <4>2
        <5> QED BY <5>a, <5>b, NoContract
      <4> QED BY <1>0, <2>1, <3>1, <4>1, <4>2, <4>3, GenesisWritten DEF WriteGenesisTxMempool
    <3>2. CASE a = "fund" /\ WriteFundingTxMempool(t)
      <4>1. ~CheckFundingTxExists(t)
        BY <2>1, <3>2 DEF Known
      <4> QED BY <1>0, <2>1, <3>2, <4>1, FundingWritten DEF WriteFundingTxMempool
    <3>3. CASE WriteCreateTokenLokMempool(t) \/ WriteRedeemTxMempool(t)
      BY <1>1, <3>3 DEF WriteCreateTokenLokMempool, WriteRedeemTxMempool
    <3> QED BY <2>3, <3>1, <3>2, <3>3 DEF WriteMempool
  <2> QED BY <1>3, <2>2, <2>3 DEF RecordMempoolTx
<1> QED BY <1>2, <1>3

LEMMA TokensInit == Init => TokensInv /\ CacheInv
BY DEF Init, DatabaseInit, TokensInv, CacheInv, EmptyCache

(* What the strategy asks the node, or remembers, is what the transaction  *)
(* does, or unknown.                                                       *)
LEMMA ActionOf ==
  ASSUME CacheInv, NEW t \in Txs, NEW a,
         ConfirmedAction(t, a) \/ AskNode(t, a)
  PROVE  a \in {KindOf[t], "unknown"}
BY DEF ConfirmedAction, AskNode, CacheInv

LEMMA CacheStep ==
  ASSUME CacheInv, [Next]_vars
  PROVE  CacheInv'
<1>1. ASSUME NEW o \in 1..Len(txLog), HandleTx(o)
      PROVE  CacheInv'
  <2>1. cache' = cache \/ cache' = [cache EXCEPT ![txLog[o].tx] = NoRow]
    BY <1>1 DEF HandleTx, ProcessTx
  <2> QED BY <2>1 DEF CacheInv
<1>2. ASSUME NEW t \in MempoolTxs, HandleMempoolAccepted(t)
      PROVE  CacheInv'
  <2>1. PICK a \in Kinds \cup {"unknown"} : AskNode(t, a) /\ cache' = [cache EXCEPT ![t] = a]
    BY <1>2 DEF HandleMempoolAccepted
  <2>2. t \in Txs
    BY FeedAssumption
  <2>3. a \in {KindOf[t], "unknown"}
    BY <2>1, <2>2, ActionOf
  <2> QED BY <2>1, <2>2, <2>3 DEF CacheInv
<1>3. CASE cache' = EmptyCache
  BY <1>3 DEF CacheInv, EmptyCache
<1>4. CASE UNCHANGED cache
  BY <1>4 DEF CacheInv
<1>5. ASSUME Restart \/ PanicOnWithdrawn
      PROVE  CacheInv'
  BY <1>3, <1>5 DEF Restart, PanicOnWithdrawn
<1> QED
  BY <1>1, <1>2, <1>4, <1>5
  DEF Next, HandleTopics, Publish, HandleBlock, HandleRollback, DropTxAfterFailure, PassOverTx,
      ReadSilently, CrashAndRestart, CrashBeforeCursorPoint, CrashInRollback, CrashAfterEvict,
      vars, volatileVars

LEMMA TokensStep ==
  ASSUME GenesisOnce, TruthInv, CacheInv, TokensInv, [Next]_vars
  PROVE  TokensInv'
<1>1. CASE UNCHANGED <<contract, fundingTx, tokenEvent>>
  BY <1>1 DEF TokensInv, HasRow, CheckGenesisTxExists, CheckFundingTxExists
<1>2. ASSUME NEW o \in 1..Len(txLog), TxIsNext(o), NEW a, NEW ok,
             ConfirmedAction(txLog[o].tx, a),
             info[HeightOf[txLog[o].block]] # NoRow,
             RecordTx(a, txLog[o].tx, info[HeightOf[txLog[o].block]].block, ok)
      PROVE  TokensInv'
  <2>1. txLog[o].tx \in Txs /\ HeightOf[txLog[o].block] \in 0..MaxHeight
    BY <1>2, NextMessage DEF TruthInv
  <2>2. info[HeightOf[txLog[o].block]].block \in Blocks
    BY <1>2, <2>1 DEF TruthInv, StoreTyping, LooseInfo
  <2>3. a \in {KindOf[txLog[o].tx], "unknown"}
    BY <1>2, <2>1, ActionOf
  <2> QED BY <1>2, <2>1, <2>2, <2>3, TokensRecord
<1>3. ASSUME NEW o \in 1..Len(txLog), HandleTx(o)
      PROVE  TokensInv'
  <2>1. PICK ok \in BOOLEAN : TxIsNext(o) /\ ProcessTx(o, ok)
    BY <1>3 DEF HandleTx, SendTx
  <2>2. CASE info[HeightOf[txLog[o].block]] = NoRow
    BY <1>1, <2>1, <2>2 DEF ProcessTx, lokTables
  <2>3. CASE info[HeightOf[txLog[o].block]] # NoRow
    BY <1>2, <2>1, <2>3 DEF ProcessTx
  <2> QED BY <2>2, <2>3
<1>4. CASE CrashBeforeCursorPoint
  BY <1>2, <1>4 DEF CrashBeforeCursorPoint
<1>5. ASSUME NEW t \in MempoolTxs, HandleMempoolAccepted(t)
      PROVE  TokensInv'
  <2>1. PICK a : AskNode(t, a) /\ RecordMempoolTx(a, t)
    BY <1>5 DEF HandleMempoolAccepted
  <2>2. t \in Txs
    BY FeedAssumption
  <2> QED BY <2>1, <2>2, ActionOf, TokensMempool
<1>6. CASE CrashAfterEvict
  BY <1>6, TokensEvict DEF CrashAfterEvict
<1>7. ASSUME NEW b \in Blocks, HandleRollback(b)
      PROVE  TokensInv'
  BY <1>1, <1>7 DEF HandleRollback, Rollback, dbVars, lokTables
<1> QED
  BY <1>1, <1>3, <1>4, <1>5, <1>6, <1>7
  DEF Next, HandleTopics, Publish, HandleBlock, DropTxAfterFailure, PassOverTx, ReadSilently,
      PanicOnWithdrawn, CrashAndRestart, CrashInRollback, vars, dbVars, lokTables

(* However often a transaction is announced, mined, rolled back and        *)
(* replayed, its token events are written once (writeTokenEvents appends   *)
(* them without looking), as long as the mempool holds no two geneses of   *)
(* one lok.                                                                *)
THEOREM TokensWrittenOnce ==
  ASSUME GenesisOnce
  PROVE  Spec => []TokenEventsOnce
<1>1. TokensInv => TokenEventsOnce
  BY DEF TokensInv, TokenEventsOnce
<1>2. CacheInv /\ [Next]_vars => CacheInv'
  BY CacheStep
<1>3. TruthInv /\ CacheInv /\ TokensInv /\ [Next]_vars => TokensInv'
  BY TokensStep
<1> QED BY TokensInit, TruthInit, TruthStep, <1>1, <1>2, <1>3, PTL DEF Spec

-------------------------------------------------------------------------------
(* What is confirmed stays confirmed: only a rollback and the takeover of  *)
(* an unconfirmed row take a row away, and a rollback leaves the lok       *)
(* tables alone.                                                           *)

ConfirmedIn(table, t) == \E c \in Loks : table[c] # NoRow /\ table[c].tx = t /\ table[c].confirmed
ConfirmedFunding(t) == \E r \in fundingTx : r.tx = t /\ r.confirmed

LEMMA ConfirmedWhere ==
  ASSUME NEW t
  PROVE  Confirmed(t) <=> \/ ConfirmedIn(contract, t) \/ ConfirmedIn(mintTx, t)
                          \/ ConfirmedIn(redeemTx, t) \/ ConfirmedFunding(t)
BY DEF Confirmed, ConfirmedIn, ConfirmedFunding

TablesDefined ==
  /\ contract \in [Loks -> ContractRow \cup {NoRow}]
  /\ mintTx \in [Loks -> Row \cup {NoRow}] /\ redeemTx \in [Loks -> Row \cup {NoRow}]

Keeps(next, table) == \A t : ConfirmedIn(table, t) => ConfirmedIn(next, t)

AllStay == \A t : Confirmed(t) => Confirmed(t)'

LEMMA KeepAll ==
  ASSUME Keeps(contract', contract), Keeps(mintTx', mintTx), Keeps(redeemTx', redeemTx),
         \A r \in fundingTx : r.confirmed => \E q \in fundingTx' : q.tx = r.tx /\ q.confirmed
  PROVE  AllStay
<1> SUFFICES ASSUME NEW t, Confirmed(t)
             PROVE  \/ ConfirmedIn(contract', t) \/ ConfirmedIn(mintTx', t)
                    \/ ConfirmedIn(redeemTx', t) \/ \E q \in fundingTx' : q.tx = t /\ q.confirmed
  BY DEF AllStay, Confirmed, ConfirmedIn
<1> QED BY ConfirmedWhere DEF Keeps, ConfirmedFunding

(* A row is written where there is none, or none that is confirmed.        *)
LEMMA WriteKeeps ==
  ASSUME NEW S, NEW table \in [Loks -> S], NEW k \in Loks, NEW row,
         table[k] = NoRow \/ ~table[k].confirmed
  PROVE  Keeps([table EXCEPT ![k] = row], table)
BY DEF Keeps, ConfirmedIn

LEMMA ConfirmKeeps ==
  ASSUME NEW table, NEW t, NEW h
  PROVE  Keeps(ConfirmIn(table, t, h), table)
BY DEF Keeps, ConfirmedIn, ConfirmIn

LEMMA SameKeeps == \A table : Keeps(table, table)
BY DEF Keeps

LEMMA NewRowConfirmed ==
  ASSUME NEW t \in Txs, NEW h \in Nat
  PROVE  /\ NewRow(t, h, TRUE) \in Row /\ NewRow(t, h, TRUE) # NoRow
         /\ NewRow(t, h, TRUE).tx = t /\ NewRow(t, h, TRUE).confirmed
<1>1. NewRow(t, h, TRUE).confirmed = TRUE
  BY DEF NewRow
<1> QED BY <1>1, RowFacts

(* The two ways to bring a table's row of t to confirmed.                  *)
LEMMA WriteConfirms ==
  ASSUME NEW S, NEW table \in [Loks -> S], NEW t \in Txs, NEW h \in Nat
  PROVE  ConfirmedIn([table EXCEPT ![LokOf[t]] = NewRow(t, h, TRUE)], t)
<1>1. LokOf[t] \in Loks
  BY DatabaseAssumption
<1> QED BY <1>1, NewRowConfirmed DEF ConfirmedIn

LEMMA ConfirmConfirms ==
  ASSUME NEW table, NEW t \in Txs, NEW h \in Nat,
         \E c \in Loks : table[c] # NoRow /\ table[c].tx = t /\ ~table[c].confirmed
  PROVE  ConfirmedIn(ConfirmIn(table, t, h), t)
BY NewRowConfirmed DEF ConfirmedIn, ConfirmIn

LEMMA ContractConfirmed ==
  ASSUME NEW t \in Txs, NEW b \in Blocks, NEW row,
         row = [tx |-> t, height |-> HeightOf[b], hash |-> b, confirmed |-> TRUE]
  PROVE  row # NoRow /\ row.tx = t /\ row.confirmed
<1>1. HeightOf[b] \in Nat
  BY FeedAssumption
<1>2. row \in ContractRow /\ row.tx = t
  BY <1>1 DEF ContractRow
<1>3. row.confirmed = TRUE
  OBVIOUS
<1> QED BY <1>2, <1>3, NoContract

(* Recording a transaction: no confirmed row is lost, and unless there is  *)
(* an error the transaction's own is confirmed.                            *)
LEMMA RecordKeeps ==
  ASSUME TablesDefined, NEW t \in Txs, NEW b \in Blocks, NEW a, NEW ok, RecordTx(a, t, b, ok)
  PROVE  AllStay /\ (ok /\ a \in Kinds => Confirmed(t)')
<1> DEFINE Goal == AllStay /\ Confirmed(t)'
           row == [tx |-> t, height |-> HeightOf[b], hash |-> b, confirmed |-> TRUE]
           fund == NewRow(t, HeightOf[b], TRUE)
<1>0. /\ HeightOf[b] \in Nat /\ LokOf[t] \in Loks
      /\ row # NoRow /\ row.tx = t /\ row.confirmed
      /\ fund # NoRow /\ fund.tx = t /\ fund.confirmed
  <2>1. HeightOf[b] \in Nat /\ LokOf[t] \in Loks
    BY FeedAssumption, DatabaseAssumption
  <2>2. row # NoRow /\ row.tx = t /\ row.confirmed
    BY ContractConfirmed
  <2>3. fund # NoRow /\ fund.tx = t /\ fund.confirmed
    BY <2>1, NewRowConfirmed
  <2> QED BY <2>1, <2>2, <2>3
<1>1. Confirmed(t)' <=> \/ ConfirmedIn(contract', t) \/ ConfirmedIn(mintTx', t)
                        \/ ConfirmedIn(redeemTx', t)
                        \/ \E r \in fundingTx' : r.tx = t /\ r.confirmed
  BY DEF Confirmed, ConfirmedIn
<1> HIDE DEF row, fund
<1>2. CASE UNCHANGED lokTables /\ (ok /\ a \in Kinds => Known(a, t) /\ ~Unconfirmed(a, t))
  <2>1. \A u : Confirmed(u)' <=> Confirmed(u)
    BY <1>2 DEF Confirmed, lokTables
  <2>2. CASE Known(a, t) /\ ~Unconfirmed(a, t) /\ a \in Kinds
    <3>1. Confirmed(t)
      BY <2>2
         DEF Kinds, Known, Unconfirmed, CheckGenesisTxExists, CheckMintTxExists,
             CheckFundingTxExists, CheckRedeemTxExists, CheckGenesisTxExistsAndUnconfirmed,
             CheckMintTxExistsAndUnconfirmed, CheckFundingTxExistsAndUnconfirmed,
             CheckRedeemTxExistsAndUnconfirmed, Confirmed
    <3> QED BY <2>1, <3>1 DEF AllStay
  <2> QED BY <1>2, <2>1, <2>2 DEF AllStay
<1>3. CASE Known(a, t) /\ Unconfirmed(a, t) /\ CanConfirm(a, t) /\ Confirm(a, t, b)
  <2>1. CASE a = "genesis"
    <3>1. PICK c \in Loks : contract[c] # NoRow /\ contract[c].tx = t /\ ~contract[c].confirmed
      BY <1>3, <2>1 DEF Unconfirmed, CheckGenesisTxExistsAndUnconfirmed
    <3>2. /\ \A k \in Loks : contract'[k] = IF contract[k] # NoRow /\ contract[k].tx = t
                                                 /\ ~contract[k].confirmed
                                            THEN row ELSE contract[k]
          /\ UNCHANGED <<mintTx, redeemTx, fundingTx>>
      BY <1>3, <2>1 DEF Confirm, UpdateGenesisTxToConfirmed, row
    <3>3. Keeps(contract', contract) /\ ConfirmedIn(contract', t)
      BY <1>0, <3>1, <3>2 DEF Keeps, ConfirmedIn
    <3> QED BY <1>1, <3>2, <3>3, KeepAll, SameKeeps
  <2>2. CASE a = "mint"
    <3>1. /\ mintTx' = ConfirmIn(mintTx, t, HeightOf[b])
          /\ UNCHANGED <<contract, redeemTx, fundingTx>>
          /\ \E c \in Loks : mintTx[c] # NoRow /\ mintTx[c].tx = t /\ ~mintTx[c].confirmed
      BY <1>3, <2>2
         DEF Unconfirmed, CheckMintTxExistsAndUnconfirmed, Confirm, UpdateMintTxToConfirmed
    <3>2. Keeps(mintTx', mintTx) /\ ConfirmedIn(mintTx', t)
      BY <1>0, <3>1, ConfirmKeeps, ConfirmConfirms
    <3> QED BY <1>1, <3>1, <3>2, KeepAll, SameKeeps
  <2>3. CASE a = "redeem"
    <3>1. /\ redeemTx' = ConfirmIn(redeemTx, t, HeightOf[b])
          /\ UNCHANGED <<contract, mintTx, fundingTx>>
          /\ \E c \in Loks : redeemTx[c] # NoRow /\ redeemTx[c].tx = t /\ ~redeemTx[c].confirmed
      BY <1>3, <2>3
         DEF Unconfirmed, CheckRedeemTxExistsAndUnconfirmed, Confirm, UpdateRedeemTxToConfirmed
    <3>2. Keeps(redeemTx', redeemTx) /\ ConfirmedIn(redeemTx', t)
      BY <1>0, <3>1, ConfirmKeeps, ConfirmConfirms
    <3> QED BY <1>1, <3>1, <3>2, KeepAll, SameKeeps
  <2>4. CASE a = "fund"
    <3>1. /\ fundingTx' = {IF r.tx = t /\ ~r.confirmed THEN fund ELSE r : r \in fundingTx}
          /\ UNCHANGED <<contract, mintTx, redeemTx>>
          /\ \E r \in fundingTx : r.tx = t /\ ~r.confirmed
      BY <1>3, <2>4
         DEF CanConfirm, CanConfirmFunding, Confirm, UpdateFundingTxToConfirmed, fund
    <3>2. \A r \in fundingTx : r.confirmed => r \in fundingTx'
      BY <3>1
    <3>3. fund \in fundingTx'
      BY <3>1
    <3>4. Keeps(contract', contract) /\ Keeps(mintTx', mintTx) /\ Keeps(redeemTx', redeemTx)
      BY <3>1, SameKeeps
    <3> QED BY <1>0, <1>1, <3>2, <3>3, <3>4, KeepAll
  <2> QED BY <1>3, <2>1, <2>2, <2>3, <2>4 DEF Confirm
<1>4. CASE ~Known(a, t) /\ CanWrite(a, t) /\ Write(a, t, b)
  <2>1. CASE a = "genesis"
    <3>1. /\ contract[LokOf[t]] = NoRow /\ contract' = [contract EXCEPT ![LokOf[t]] = row]
          /\ UNCHANGED <<mintTx, redeemTx, fundingTx>>
      BY <1>4, <2>1 DEF CanWrite, CanCreateContract, Write, WriteGenesisTx, row
    <3>2. Keeps(contract', contract) /\ ConfirmedIn(contract', t)
      BY <1>0, <3>1, WriteKeeps DEF TablesDefined, ConfirmedIn
    <3> QED BY <1>1, <3>1, <3>2, KeepAll, SameKeeps
  <2>2. CASE a = "mint"
    <3>1. /\ mintTx[LokOf[t]] = NoRow
          /\ mintTx' = [mintTx EXCEPT ![LokOf[t]] = fund]
          /\ UNCHANGED <<contract, redeemTx, fundingTx>>
      BY <1>4, <2>2 DEF CanWrite, CanMint, Write, WriteCreateTokenLokAction, fund
    <3>2. Keeps(mintTx', mintTx) /\ ConfirmedIn(mintTx', t)
      BY <1>0, <3>1, WriteKeeps DEF TablesDefined, ConfirmedIn
    <3> QED BY <1>1, <3>1, <3>2, KeepAll, SameKeeps
  <2>3. CASE a = "redeem"
    <3>1. /\ redeemTx[LokOf[t]] = NoRow
          /\ redeemTx' = [redeemTx EXCEPT ![LokOf[t]] = fund]
          /\ UNCHANGED <<contract, mintTx, fundingTx>>
      BY <1>4, <2>3 DEF CanWrite, CanRedeem, Write, WriteRedeemTx, fund
    <3>2. Keeps(redeemTx', redeemTx) /\ ConfirmedIn(redeemTx', t)
      BY <1>0, <3>1, WriteKeeps DEF TablesDefined, ConfirmedIn
    <3> QED BY <1>1, <3>1, <3>2, KeepAll, SameKeeps
  <2>4. CASE a = "fund"
    <3>1. fundingTx' = fundingTx \cup {fund} /\ UNCHANGED <<contract, mintTx, redeemTx>>
      BY <1>4, <2>4 DEF Write, WriteFundingTx, fund
    <3>2. Keeps(contract', contract) /\ Keeps(mintTx', mintTx) /\ Keeps(redeemTx', redeemTx)
      BY <3>1, SameKeeps
    <3> QED BY <1>0, <1>1, <3>1, <3>2, KeepAll
  <2> QED BY <1>4, <2>1, <2>2, <2>3, <2>4 DEF Write
<1> QED BY <1>2, <1>3, <1>4 DEF RecordTx

LEMMA EvictKeeps ==
  ASSUME TablesDefined, NEW t \in Txs, NEW a \in Kinds, ~Superseded(a, t), Evict(a, t)
  PROVE  AllStay
<1>0. LokOf[t] \in Loks
  BY DatabaseAssumption
<1>1. RowOf(a, LokOf[t]) = NoRow \/ ~RowOf(a, LokOf[t]).confirmed
  BY DEF Superseded
<1>2. Keeps(contract', contract)
  BY <1>0, <1>1, WriteKeeps, SameKeeps DEF Evict, RowOf, TablesDefined
<1>3. Keeps(mintTx', mintTx)
  <2>1. CASE a = "mint"
    BY <1>0, <1>1, <2>1, WriteKeeps DEF Evict, RowOf, TablesDefined
  <2>2. CASE a # "mint"
    BY <2>2, SameKeeps DEF Evict
  <2> QED BY <2>1, <2>2
<1>4. Keeps(redeemTx', redeemTx)
  <2>1. CASE a = "redeem"
    BY <1>0, <1>1, <2>1, WriteKeeps DEF Evict, RowOf, TablesDefined
  <2>2. CASE a # "redeem"
    BY <2>2, SameKeeps DEF Evict
  <2> QED BY <2>1, <2>2
<1>5. fundingTx' = fundingTx
  BY DEF Evict
<1> QED BY <1>2, <1>3, <1>4, <1>5, KeepAll

LEMMA RecordMempoolKeeps ==
  ASSUME TablesDefined, NEW t \in Txs, NEW a, RecordMempoolTx(a, t)
  PROVE  AllStay
<1>0. LokOf[t] \in Loks
  BY DatabaseAssumption
<1>1. CASE UNCHANGED lokTables
  BY <1>1 DEF AllStay, Confirmed, lokTables
<1>2. CASE ~Superseded(a, t) /\ Evict(a, t)
  <2>1. a \in Kinds
    BY <1>2 DEF Superseded
  <2> QED BY <1>2, <2>1, EvictKeeps
<1>3. CASE ~Superseded(a, t) /\ WriteMempool(a, t)
  <2>1. RowOf(a, LokOf[t]) = NoRow \/ ~RowOf(a, LokOf[t]).confirmed
    BY <1>3 DEF Superseded
  <2>2. CASE a = "genesis" /\ WriteGenesisTxMempool(t)
    <3>1. Keeps(contract', contract) /\ UNCHANGED <<mintTx, redeemTx, fundingTx>>
      BY <1>0, <2>1, <2>2, WriteKeeps DEF WriteGenesisTxMempool, RowOf, TablesDefined
    <3> QED BY <3>1, KeepAll, SameKeeps
  <2>3. CASE a = "mint" /\ WriteCreateTokenLokMempool(t)
    <3>1. Keeps(mintTx', mintTx) /\ UNCHANGED <<contract, redeemTx, fundingTx>>
      BY <1>0, <2>1, <2>3, WriteKeeps DEF WriteCreateTokenLokMempool, RowOf, TablesDefined
    <3> QED BY <3>1, KeepAll, SameKeeps
  <2>4. CASE a = "redeem" /\ WriteRedeemTxMempool(t)
    <3>1. Keeps(redeemTx', redeemTx) /\ UNCHANGED <<contract, mintTx, fundingTx>>
      BY <1>0, <2>1, <2>4, WriteKeeps DEF WriteRedeemTxMempool, RowOf, TablesDefined
    <3> QED BY <3>1, KeepAll, SameKeeps
  <2>5. CASE WriteFundingTxMempool(t)
    <3>1. Keeps(contract', contract) /\ Keeps(mintTx', mintTx) /\ Keeps(redeemTx', redeemTx)
          /\ fundingTx \subseteq fundingTx'
      BY <2>5, SameKeeps DEF WriteFundingTxMempool
    <3> QED BY <3>1, KeepAll
  <2> QED BY <1>3, <2>2, <2>3, <2>4, <2>5 DEF WriteMempool
<1> QED BY <1>1, <1>2, <1>3 DEF RecordMempoolTx

-------------------------------------------------------------------------------
(* On a chain that never forks, what the stream passes over is below the   *)
(* first height that counts: a height is only completed when no message    *)
(* of its block is left.                                                   *)

TxsDistinct ==
  \A b \in Blocks : \A m, n \in 1..NumTxs(b) : TxsOf[b][m] = TxsOf[b][n] => m = n

(* Cursor is well defined, wherever the stream starts.                     *)
Counted(d) ==
  \A s \in 0..MaxHeight : \E k \in s..(MaxHeight + 1) : (s + 1)..k \subseteq d /\ k + 1 \notin d

HasHeight(h) == \E b \in chain : HeightOf[b] = h
Passed(h) == \A o \in 1..Len(txLog) : o >= txPos => HeightOf[txLog[o].block] # h

DoneInv ==
  /\ Counted(done)
  /\ \A h \in done : HasHeight(h) /\ Passed(h)
  /\ cursorLoaded =>
       /\ start \in 0..MaxHeight /\ HasHeight(start)
       /\ \A o \in 1..Len(txLog) : o >= txPos => HeightOf[txLog[o].block] > start

(* A block whose message has been read was sent, dropped, or is not above  *)
(* the point the stream started behind.                                    *)
SentInv ==
  /\ \A i, j \in 1..Len(blockLog) :
       i <= j => HeightOf[blockLog[i].block] <= HeightOf[blockLog[j].block]
  /\ \A i \in 1..(blockPos - 1) :
       LET b == blockLog[i].block
       IN b \in emitted \cup dropped \/ (cursorLoaded /\ HeightOf[b] <= start)

LEMMA CountedNothing == Counted({})
<1> SUFFICES ASSUME NEW s \in 0..MaxHeight
             PROVE  \E k \in s..(MaxHeight + 1) : (s + 1)..k \subseteq {} /\ k + 1 \notin {}
  BY DEF Counted
<1>1. s \in s..(MaxHeight + 1) /\ (s + 1)..s = {}
  BY FeedAssumption
<1> QED BY <1>1

LEMMA CountedAdd ==
  ASSUME NEW d \in SUBSET (0..MaxHeight), Counted(d), NEW x \in 0..MaxHeight
  PROVE  Counted(d \cup {x})
<1> SUFFICES ASSUME NEW s \in 0..MaxHeight
             PROVE  \E k \in s..(MaxHeight + 1) :
                      (s + 1)..k \subseteq d \cup {x} /\ k + 1 \notin d \cup {x}
  BY DEF Counted
<1>0. MaxHeight \in Nat
  BY FeedAssumption
<1>1. PICK k \in s..(MaxHeight + 1) : (s + 1)..k \subseteq d /\ k + 1 \notin d
  BY DEF Counted
<1>2. CASE k + 1 # x
  BY <1>1, <1>2
<1>3. CASE k + 1 = x
  <2>1. PICK j \in x..(MaxHeight + 1) : (x + 1)..j \subseteq d /\ j + 1 \notin d
    BY DEF Counted
  <2>2. j \in s..(MaxHeight + 1) /\ j + 1 # x
    BY <1>0, <1>3, <2>1
  <2>3. \A i \in (s + 1)..j : i \in (s + 1)..k \/ i = x \/ i \in (x + 1)..j
    BY <1>0, <1>3
  <2> QED BY <1>1, <2>1, <2>2, <2>3
<1> QED BY <1>2, <1>3

LEMMA CountedRemove ==
  ASSUME NEW d \in SUBSET (0..MaxHeight), Counted(d), NEW x \in 0..MaxHeight
  PROVE  Counted(d \ {x})
<1> SUFFICES ASSUME NEW s \in 0..MaxHeight
             PROVE  \E k \in s..(MaxHeight + 1) :
                      (s + 1)..k \subseteq d \ {x} /\ k + 1 \notin d \ {x}
  BY DEF Counted
<1>0. MaxHeight \in Nat
  BY FeedAssumption
<1>1. PICK k \in s..(MaxHeight + 1) : (s + 1)..k \subseteq d /\ k + 1 \notin d
  BY DEF Counted
<1>2. CASE x \notin (s + 1)..k
  BY <1>1, <1>2
<1>3. CASE x \in (s + 1)..k
  <2>1. x - 1 \in s..(MaxHeight + 1) /\ (x - 1) + 1 = x
    BY <1>0, <1>3
  <2>2. \A i \in (s + 1)..(x - 1) : i \in (s + 1)..k /\ i # x
    BY <1>0, <1>3
  <2> QED BY <1>1, <2>1, <2>2
<1> QED BY <1>2, <1>3

LEMMA CursorCounts ==
  ASSUME DoneInv, start \in 0..MaxHeight
  PROVE  Cursor \in start..(MaxHeight + 1) /\ (start + 1)..Cursor \subseteq done
<1>1. \E k \in start..(MaxHeight + 1) : (start + 1)..k \subseteq done /\ k + 1 \notin done
  BY DEF DoneInv, Counted
<1> QED BY <1>1 DEF Cursor

(* What the steps rely on.                                                 *)
LineInv == ExactInv /\ StraightInv

LEMMA LineFacts ==
  ASSUME LineInv
  PROVE  /\ Len(txLog) \in Nat /\ txPos \in 1..(Len(txLog) + 1) /\ done \subseteq 0..MaxHeight
         /\ \A b \in Blocks : HeightOf[b] \in 0..MaxHeight
         /\ \A o \in 1..Len(txLog) : txLog[o].block \in chain /\ txLog[o].block \in Blocks
                                     /\ txLog[o].kind = "applied"
         /\ \A b, c \in chain : HeightOf[b] = HeightOf[c] => b = c
         /\ chain \subseteq Blocks
BY FeedAssumption
   DEF LineInv, ExactInv, TruthInv, StoreTyping, FeedTypeOK, ReaderTypeOK, StraightInv, TopicInv,
       ChainInv

LEMMA DonePublish ==
  ASSUME MaxUnapplies = 0, LineInv, DoneInv, NEW b \in Blocks, Publish(b)
  PROVE  DoneInv'
<1>1. /\ StraightInv' /\ chain \subseteq chain' /\ IsGrownFrom(txLog', txLog)
      /\ \A c \in chain : HeightOf[c] < HeightOf[b]
      /\ \A o \in 1..Len(txLog') : o > Len(txLog) => txLog'[o].block = b
  BY StraightStep, FeedTyping
     DEF LineInv, ExactInv, TruthInv, TopicInv, Publish, FeedNext
<1>2. UNCHANGED <<done, start, cursorLoaded, txPos>>
  BY DEF Publish, streamVars
<1>3. \A h : HasHeight(h) => HasHeight(h)'
  BY <1>1 DEF HasHeight
<1>4. ASSUME NEW o \in 1..Len(txLog')
      PROVE  \/ o \in 1..Len(txLog) /\ txLog'[o] = txLog[o]
             \/ txLog'[o].block = b
  BY <1>1, LineFacts DEF IsGrownFrom
<1>5. ASSUME NEW h, HasHeight(h)
      PROVE  HeightOf[b] > h
  BY <1>1, <1>5, LineFacts DEF HasHeight
<1>6. ASSUME NEW h, HasHeight(h), Passed(h)
      PROVE  Passed(h)'
  <2>1. h \in Int /\ HeightOf[b] \in Int /\ HeightOf[b] > h
    BY <1>5, <1>6, LineFacts DEF HasHeight
  <2> QED BY <1>2, <1>4, <1>6, <2>1 DEF Passed
<1> QED BY <1>2, <1>3, <1>4, <1>5, <1>6 DEF DoneInv

(* A height is completed by its only block.                                *)
LEMMA OnlyBlock ==
  ASSUME LineInv, NEW b \in chain, NEW s \in 0..Len(txLog), RunAt(b, s),
         NEW o \in 1..Len(txLog), HeightOf[txLog[o].block] = HeightOf[b]
  PROVE  o \in (s + 1)..(s + NumTxs(b)) /\ txLog[o].tx = TxsOf[b][o - s]
<1>1. txLog[o].block = b /\ b \in Blocks
  BY LineFacts
<1> QED BY <1>1, RunHolds DEF LineInv, ExactInv, TruthInv, StoreTyping

LEMMA DoneBlock ==
  ASSUME LineInv, DoneInv, NEW b \in Blocks, SendBlock(b)
  PROVE  DoneInv'
<1> DEFINE h == HeightOf[b]
<1>1. /\ UNCHANGED <<chain, txLog, txPos, start, cursorLoaded>>
      /\ done' = IF NumTxs(b) = 0 THEN done \cup {h}
                 ELSE IF h > Cursor THEN done \ {h} ELSE done
      /\ blockPos <= Len(blockLog) /\ blockLog[blockPos].block = b
  BY DEF SendBlock, NextIs, feedVars
<1>2. h \in 0..MaxHeight /\ done \subseteq 0..MaxHeight
  BY LineFacts
<1>3. b \in chain
  BY <1>1 DEF LineInv, StraightInv, ExactInv, ReaderTypeOK
<1>4. NumTxs(b) = 0 => Passed(h)
  <2> SUFFICES ASSUME NumTxs(b) = 0, NEW o \in 1..Len(txLog), HeightOf[txLog[o].block] = h
               PROVE  FALSE
    BY DEF Passed
  <2>1. PICK s \in 0..Len(txLog) : RunAt(b, s)
    BY <1>3 DEF LineInv, StraightInv
  <2>2. o \in (s + 1)..(s + 0)
    BY <1>3, <2>1, OnlyBlock
  <2> QED BY <2>2
<1>5. Counted(done')
  BY <1>1, <1>2, CountedAdd, CountedRemove DEF DoneInv
<1>6. \A g \in done' : HasHeight(g) /\ Passed(g)
  BY <1>1, <1>3, <1>4 DEF DoneInv, HasHeight
<1>7. \A g : (HasHeight(g)' <=> HasHeight(g)) /\ (Passed(g)' <=> Passed(g))
  BY <1>1 DEF HasHeight, Passed
<1> QED BY <1>1, <1>5, <1>6, <1>7 DEF DoneInv

LEMMA DoneMoves ==
  ASSUME LineInv, DoneInv, UNCHANGED <<chain, txLog, start, cursorLoaded>>,
         txPos' = txPos + 1, NEW h \in 0..MaxHeight,
         done' = done \/ (done' = done \cup {h} /\ HasHeight(h) /\ Passed(h)')
  PROVE  DoneInv'
<1>1. Counted(done')
  BY CountedAdd, LineFacts DEF DoneInv
<1>2. \A g : HasHeight(g)' <=> HasHeight(g)
  BY DEF HasHeight
<1>3. \A o \in 1..Len(txLog) : o >= txPos' => o >= txPos
  BY LineFacts
<1>4. \A g \in done : Passed(g)'
  BY <1>3 DEF DoneInv, Passed
<1>5. \A g \in done' : HasHeight(g)' /\ Passed(g)'
  BY <1>2, <1>4 DEF DoneInv
<1> QED BY <1>1, <1>2, <1>3, <1>5 DEF DoneInv

LEMMA DoneTx ==
  ASSUME TxsDistinct, LineInv, DoneInv, NEW o \in 1..Len(txLog), SendTx(o)
  PROVE  DoneInv'
<1>1. /\ o = txPos /\ txPos' = txPos + 1 /\ UNCHANGED <<chain, txLog, start, cursorLoaded>>
      /\ done' = IF LastOfBlock(o) THEN done \cup {HeightOf[txLog[o].block]} ELSE done
  BY DEF SendTx, TxIsNext, feedVars
<1>2. PICK b \in chain : b = txLog[o].block
  BY LineFacts
<1>3. b \in Blocks /\ HeightOf[b] \in 0..MaxHeight
  BY LineFacts
<1>4. HasHeight(HeightOf[b])
  BY DEF HasHeight
<1>5. ASSUME LastOfBlock(o)
      PROVE  Passed(HeightOf[b])'
  <2>1. PICK s \in 0..Len(txLog) : RunAt(b, s)
    BY DEF LineInv, StraightInv
  <2>2. PICK n \in Nat : n = NumTxs(b)
    BY <1>3, TxsTyping
  <2>3. o \in (s + 1)..(s + n) /\ txLog[o].tx = TxsOf[b][o - s]
    BY <1>2, <2>1, <2>2, OnlyBlock
  <2>4. txLog[o].tx = TxsOf[b][n]
    BY <1>2, <1>5, <2>2 DEF LastOfBlock
  <2>5. o - s \in 1..n /\ n \in 1..n
    BY <2>2, <2>3
  <2>6. o - s = n
    BY <1>3, <2>2, <2>3, <2>4, <2>5 DEF TxsDistinct
  <2>7. ASSUME NEW q \in 1..Len(txLog), q >= txPos + 1, HeightOf[txLog[q].block] = HeightOf[b]
        PROVE  FALSE
    <3>1. q \in (s + 1)..(s + n)
      BY <2>1, <2>2, <2>7, OnlyBlock
    <3> QED BY <1>1, <2>3, <2>6, <2>7, <3>1
  <2> QED BY <1>1, <2>7 DEF Passed
<1> QED BY <1>1, <1>2, <1>3, <1>4, <1>5, DoneMoves

LEMMA SentPublish ==
  ASSUME MaxUnapplies = 0, LineInv, SentInv, NEW b \in Blocks, Publish(b)
  PROVE  SentInv'
<1>1. /\ FeedNext /\ (PublishApply(b) \/ PublishUnapply(b))
      /\ UNCHANGED <<blockPos, emitted, dropped, cursorLoaded, start>>
  BY DEF Publish, FeedNext, streamVars, lossVars
<1>2. /\ IsGrownFrom(blockLog', blockLog) /\ \A c \in chain : HeightOf[c] < HeightOf[b]
      /\ FeedTypeOK /\ FeedTypeOK'
  BY <1>1, FeedTyping, StraightStep DEF LineInv, ExactInv, TruthInv, StoreTyping, TopicInv
<1>3. PICK m : blockLog' = Append(blockLog, m) /\ m.block = b
  BY <1>1 DEF PublishApply, PublishUnapply
<1>4. Len(blockLog') = Len(blockLog) + 1 /\ Len(blockLog) \in Nat
      /\ blockLog'[Len(blockLog) + 1] = m
  BY <1>2, <1>3 DEF FeedTypeOK
<1>5. \A i \in 1..Len(blockLog) : blockLog'[i] = blockLog[i]
  BY <1>2, <1>4 DEF IsGrownFrom
<1>6. \A i \in 1..Len(blockLog) : blockLog[i].block \in chain
  BY DEF LineInv, StraightInv
<1>7. HeightOf[b] \in Int /\ \A c \in chain : HeightOf[c] \in Int
  BY LineFacts
<1>8. ASSUME NEW i \in 1..Len(blockLog'), NEW j \in 1..Len(blockLog'), i <= j
      PROVE  HeightOf[blockLog'[i].block] <= HeightOf[blockLog'[j].block]
  <2>1. CASE j \in 1..Len(blockLog)
    BY <1>4, <1>5, <1>8, <2>1 DEF SentInv
  <2>2. CASE j = Len(blockLog) + 1
    <3>1. blockLog'[j].block = b
      BY <1>3, <1>4, <2>2
    <3>2. CASE i \in 1..Len(blockLog)
      <4>1. blockLog'[i].block \in chain
        BY <1>5, <1>6, <3>2
      <4> QED BY <1>2, <1>7, <3>1, <4>1
    <3>3. CASE i = j
      BY <1>7, <3>1, <3>3
    <3> QED BY <1>4, <1>8, <2>2, <3>2, <3>3
  <2> QED BY <1>4, <2>1, <2>2
<1>9. \A i \in 1..(blockPos - 1) : i \in 1..Len(blockLog)
  BY <1>4 DEF LineInv, ExactInv, TruthInv, StoreTyping
<1> QED BY <1>1, <1>5, <1>8, <1>9 DEF SentInv

LEMMA SentReads ==
  ASSUME LineInv, SentInv, NEW b \in Blocks, UNCHANGED <<blockLog, start, cursorLoaded>>,
         \/ UNCHANGED <<blockPos, emitted, dropped>>
         \/ /\ NextIs("apply", b) /\ blockPos' = blockPos + 1
            /\ emitted \cup dropped \cup {b} \subseteq emitted' \cup dropped'
  PROVE  SentInv'
<1>1. blockPos \in Int
  BY DEF LineInv, ExactInv, TruthInv, StoreTyping
<1>2. CASE UNCHANGED <<blockPos, emitted, dropped>>
  BY <1>2 DEF SentInv
<1>3. CASE /\ NextIs("apply", b) /\ blockPos' = blockPos + 1
           /\ emitted \cup dropped \cup {b} \subseteq emitted' \cup dropped'
  <2>1. \A i \in 1..(blockPos' - 1) : i \in 1..(blockPos - 1) \/ i = blockPos
    BY <1>1, <1>3
  <2>2. blockLog[blockPos].block = b
    BY <1>3 DEF NextIs
  <2> QED BY <1>3, <2>1, <2>2 DEF SentInv
<1> QED BY <1>2, <1>3

LEMMA SentRestart ==
  ASSUME LineInv, SentInv, RestartWith
  PROVE  SentInv'
<1>1. UNCHANGED blockLog
  BY DEF RestartWith, Restart, feedVars
<1>2. CASE RestartFromBeginning
  BY <1>1, <1>2 DEF RestartFromBeginning, SentInv
<1>3. ASSUME NEW p \in cursor, RestartAt(p)
      PROVE  SentInv'
  <2>1. /\ p.blockOffset \in 1..Len(blockLog) /\ blockLog[p.blockOffset].block = p.block
    BY DEF LineInv, ExactInv, PointsInv, TruthInv, StoreTyping
  <2>2. blockPos' - 1 = p.blockOffset /\ start' = HeightOf[p.block] /\ cursorLoaded'
    BY <1>3, <2>1 DEF RestartAt
  <2>3. \A i \in 1..(blockPos' - 1) : HeightOf[blockLog[i].block] <= start'
    BY <2>1, <2>2 DEF SentInv
  <2> QED BY <1>1, <2>2, <2>3 DEF SentInv
<1> QED BY <1>2, <1>3 DEF RestartWith, Restart

(* Without a fork only messages below the first height, and those of       *)
(* dropped blocks, are passed over.                                        *)
LEMMA DoneSkip ==
  ASSUME LineInv, DoneInv, SentInv, SkipTx \/ SkipUnappliedTx
  PROVE  /\ DoneInv' /\ txPos \in 1..Len(txLog) /\ txPos' = txPos + 1
         /\ \/ HeightOf[txLog[txPos].block] < InterceptHeight
            \/ txLog[txPos].block \in dropped
<1>1. txPos \in 1..Len(txLog) /\ txPos' = txPos + 1
      /\ UNCHANGED <<chain, txLog, start, cursorLoaded>>
  BY LineFacts DEF SkipTx, SkipUnappliedTx, feedVars
<1>2. SkipTx
  BY <1>1, LineFacts DEF SkipUnappliedTx
<1>3. PICK h \in 0..MaxHeight : h = HeightOf[txLog[txPos].block]
  BY <1>1, LineFacts
<1>4. TooLow(h) \/ txLog[txPos].block \in dropped
  <2> SUFFICES ASSUME ~TooLow(h), txLog[txPos].block \notin dropped PROVE FALSE
    OBVIOUS
  <2>1. PICK i \in 1..(blockPos - 1) : blockLog[i].block = txLog[txPos].block
    BY <1>2, <1>3 DEF SkipTx
  <2>2. cursorLoaded /\ h <= start
    BY <1>2, <1>3, <2>1 DEF SkipTx, SentInv
  <2> QED BY <1>1, <1>3, <2>2 DEF DoneInv
<1>5. ASSUME cursorLoaded, TooLow(h) PROVE FALSE
  <2>1. h > start /\ start \in 0..MaxHeight
    BY <1>1, <1>3, <1>5 DEF DoneInv
  <2>2. h <= Cursor /\ Cursor \in start..(MaxHeight + 1) /\ (start + 1)..Cursor \subseteq done
    BY <1>5, <2>1, CursorCounts DEF TooLow
  <2>3. h \in done
    BY <2>1, <2>2
  <2> QED BY <1>1, <1>3, <2>3 DEF DoneInv, Passed
<1>6. h < InterceptHeight \/ txLog[txPos].block \in dropped
  BY <1>4, <1>5 DEF TooLow
<1>7. DoneInv'
  BY <1>1, <1>2, DoneMoves DEF SkipTx
<1> QED BY <1>1, <1>3, <1>6, <1>7

LEMMA DoneRestart ==
  ASSUME LineInv, DoneInv, RestartWith
  PROVE  DoneInv'
<1>1. UNCHANGED <<chain, txLog>> /\ done' = {}
  BY DEF RestartWith, Restart, RestartAt, RestartFromBeginning, feedVars
<1>2. Counted(done')
  BY <1>1, CountedNothing
<1>3. ASSUME NEW p \in cursor, RestartAt(p)
      PROVE  /\ start' \in 0..MaxHeight /\ HasHeight(start')
             /\ \A o \in 1..Len(txLog) : o >= txPos' => HeightOf[txLog[o].block] > start'
  <2>1. /\ txPos' = p.txOffset + 1 /\ start' = HeightOf[p.block]
    BY <1>3 DEF RestartAt
  <2>2. PICK b \in Blocks, s \in 0..Len(txLog) :
          b = p.block /\ RunAt(b, s) /\ NumTxs(b) > 0 /\ p.txOffset = s + NumTxs(b)
    BY DEF LineInv, ExactInv, PointsInv
  <2>3. PICK n \in Nat : n = NumTxs(b) /\ n > 0
    BY <2>2, TxsTyping
  <2>4. PICK q \in 1..Len(txLog) : q = p.txOffset
    BY DEF LineInv, ExactInv, PointsInv
  <2>5. q \in (s + 1)..(s + n) /\ q = s + n
    BY <2>2, <2>3, <2>4
  <2>6. txLog[q].block = b
    BY <2>2, <2>3, <2>5 DEF RunAt
  <2>7. b \in chain /\ HeightOf[b] \in 0..MaxHeight
    BY <2>4, <2>6, LineFacts
  <2>8. ASSUME NEW o \in 1..Len(txLog), o >= q + 1
        PROVE  HeightOf[txLog[o].block] > HeightOf[b]
    <3>1. HeightOf[b] <= HeightOf[txLog[o].block]
      BY <2>4, <2>6, <2>8 DEF LineInv, StraightInv
    <3>2. HeightOf[txLog[o].block] # HeightOf[b]
      <4> SUFFICES ASSUME HeightOf[txLog[o].block] = HeightOf[b] PROVE FALSE
        OBVIOUS
      <4>1. o \in (s + 1)..(s + n)
        BY <2>2, <2>3, <2>7, OnlyBlock
      <4> QED BY <2>5, <2>8, <4>1
    <3>3. HeightOf[txLog[o].block] \in 0..MaxHeight
      BY LineFacts
    <3> QED BY <2>7, <3>1, <3>2, <3>3
  <2> QED BY <2>1, <2>2, <2>4, <2>7, <2>8 DEF HasHeight
<1>4. cursorLoaded' =>
        /\ start' \in 0..MaxHeight /\ HasHeight(start')
        /\ \A o \in 1..Len(txLog) : o >= txPos' => HeightOf[txLog[o].block] > start'
  BY <1>3 DEF RestartWith, Restart, RestartFromBeginning
<1> QED BY <1>1, <1>2, <1>4 DEF DoneInv, HasHeight

-------------------------------------------------------------------------------
(* Everything before the reader, and everything behind a cursor point, is  *)
(* recorded.                                                               *)

LokMessage(o) ==
  /\ KindOf[txLog[o].tx] \in Kinds /\ HeightOf[txLog[o].block] >= InterceptHeight
  /\ txLog[o].block \notin dropped
Recorded(n) == \A o \in 1..Len(txLog) : o <= n /\ LokMessage(o) => Confirmed(txLog[o].tx)

AnswersInv ==
  /\ lookupErrors \in Nat
  /\ lookupErrors = 0 => \A t \in Txs : cache[t] \in {KindOf[t], NoRow}

KeptInv ==
  lookupErrors = 0 /\ ~cleared =>
    /\ ~failed => Recorded(txPos - 1)
    /\ \A p \in cursor : Recorded(p.txOffset)

ResumeInv == LineInv /\ DoneInv /\ SentInv /\ CacheInv /\ AnswersInv /\ KeptInv

LEMMA Answered ==
  ASSUME AnswersInv, NEW t \in Txs, NEW a,
         ConfirmedAction(t, a) \/ AskNode(t, a), lookupErrors' = 0
  PROVE  a \in {KindOf[t], NoRow} /\ lookupErrors = 0
         /\ (ConfirmedAction(t, a) => a = KindOf[t])
BY DEF ConfirmedAction, AskNode, AnswersInv

LEMMA AnswersStep ==
  ASSUME CacheInv, AnswersInv, [Next]_vars
  PROVE  AnswersInv'
<1>1. CASE UNCHANGED <<lookupErrors, cache>>
  BY <1>1 DEF AnswersInv
<1>2. ASSUME NEW t, NEW a, AskNode(t, a) \/ ConfirmedAction(t, a)
      PROVE  lookupErrors' \in Nat /\ lookupErrors' >= lookupErrors
  BY <1>2 DEF AskNode, ConfirmedAction, AnswersInv
<1>3. ASSUME NEW o \in 1..Len(txLog), HandleTx(o)
      PROVE  AnswersInv'
  <2>1. PICK ok \in BOOLEAN : ProcessTx(o, ok)
    BY <1>3 DEF HandleTx
  <2>2. cache' = cache \/ cache' = [cache EXCEPT ![txLog[o].tx] = NoRow]
    BY <2>1 DEF ProcessTx
  <2>3. lookupErrors' \in Nat /\ lookupErrors' >= lookupErrors
    BY <1>2, <2>1 DEF ProcessTx, AnswersInv
  <2> QED BY <2>2, <2>3 DEF AnswersInv, CacheInv
<1>4. ASSUME NEW t \in MempoolTxs, HandleMempoolAccepted(t)
      PROVE  AnswersInv'
  <2>1. PICK a \in Kinds \cup {"unknown"} : AskNode(t, a) /\ cache' = [cache EXCEPT ![t] = a]
    BY <1>4 DEF HandleMempoolAccepted
  <2>2. t \in Txs
    BY FeedAssumption
  <2> QED BY <2>1, <2>2 DEF AskNode, AnswersInv, CacheInv
<1>5. ASSUME cache' = EmptyCache, lookupErrors' \in Nat
      PROVE  AnswersInv'
  BY <1>5 DEF AnswersInv, EmptyCache
<1>6. CASE PanicOnWithdrawn
  BY <1>5, <1>6 DEF PanicOnWithdrawn, AnswersInv
<1>7. CASE CrashAndRestart \/ CrashBeforeCursorPoint \/ CrashInRollback \/ CrashAfterEvict
  BY <1>2, <1>5, <1>7
     DEF CrashAndRestart, CrashBeforeCursorPoint, CrashInRollback, CrashAfterEvict, Restart,
         AnswersInv
<1> QED
  BY <1>1, <1>3, <1>4, <1>6, <1>7
  DEF Next, HandleTopics, Publish, HandleBlock, HandleRollback, DropTxAfterFailure, PassOverTx,
      ReadSilently, vars, volatileVars, boundVars

(* Nothing confirmed is lost: what was recorded is.                        *)
LEMMA RecordedStays ==
  ASSUME FeedTypeOK, UNCHANGED txLog, dropped \subseteq dropped', AllStay
  PROVE  \A n : Recorded(n) => Recorded(n)'
BY DEF Recorded, LokMessage, AllStay

LEMMA KeptStays ==
  ASSUME FeedTypeOK, KeptInv, UNCHANGED <<txLog, txPos>>, AllStay, cursor' \subseteq cursor,
         dropped \subseteq dropped', lookupErrors' = 0 => lookupErrors = 0,
         ~cleared' => ~cleared, ~cleared' /\ ~failed' => ~failed
  PROVE  KeptInv'
BY RecordedStays DEF KeptInv

LEMMA KeptPublish ==
  ASSUME LineInv, KeptInv, NEW b \in Blocks, Publish(b)
  PROVE  KeptInv'
<1>1. /\ FeedNext /\ UNCHANGED <<txPos, dropped, cursor, failed, cleared, lookupErrors>>
      /\ \A t : Confirmed(t)' <=> Confirmed(t)
  BY DEF Publish, FeedNext, streamVars, lossVars, dbVars, lokTables, volatileVars, boundVars, panicVars,
         Confirmed
<1>2. IsGrownFrom(txLog', txLog)
  BY <1>1, FeedTyping DEF LineInv, ExactInv, TruthInv, StoreTyping
<1>3. FeedTypeOK'
  BY <1>1, FeedTyping DEF LineInv, ExactInv, TruthInv, StoreTyping
<1>4. Len(txLog') \in Nat
  BY <1>3 DEF FeedTypeOK
<1>5. ASSUME NEW n \in Int, n <= Len(txLog), Recorded(n)
      PROVE  Recorded(n)'
  <2>1. ASSUME NEW o \in 1..Len(txLog'), o <= n
        PROVE  o \in 1..Len(txLog) /\ txLog'[o] = txLog[o]
    BY <1>2, <1>4, <1>5, <2>1, LineFacts DEF IsGrownFrom
  <2> QED BY <1>1, <1>5, <2>1 DEF Recorded, LokMessage
<1>6. txPos - 1 \in Int /\ txPos - 1 <= Len(txLog)
  BY LineFacts
<1>7. \A p \in cursor : p.txOffset \in Int /\ p.txOffset <= Len(txLog)
  BY LineFacts DEF LineInv, ExactInv, PointsInv
<1> QED BY <1>1, <1>5, <1>6, <1>7 DEF KeptInv

LEMMA KeptTables == LineInv => TablesDefined
BY DEF LineInv, ExactInv, TruthInv, RowsTell, TableTells, ContractTells, TablesDefined

(* A transaction that was handled without an error is recorded.            *)
LEMMA TxRecords ==
  ASSUME LineInv, NEW o \in 1..Len(txLog), TxIsNext(o), NEW a, NEW ok, NEW t, t = txLog[o].tx,
         info[HeightOf[txLog[o].block]] # NoRow,
         RecordTx(a, txLog[o].tx, info[HeightOf[txLog[o].block]].block, ok)
  PROVE  AllStay /\ (ok /\ a \in Kinds => Confirmed(t)')
<1>1. t \in Txs /\ HeightOf[txLog[o].block] \in 0..MaxHeight
  BY NextMessage DEF LineInv, ExactInv, TruthInv
<1>2. PICK b \in Blocks : b = info[HeightOf[txLog[o].block]].block
  BY <1>1 DEF LineInv, ExactInv, TruthInv, StoreTyping, LooseInfo
<1>3. RecordTx(a, t, b, ok)
  BY <1>2
<1> QED BY <1>1, <1>3, KeptTables, RecordKeeps

(* Only a transaction without an error leaves a point, its own.            *)
LEMMA PointsOfTx ==
  ASSUME ExactInv, NEW o \in 1..Len(txLog), HandleTx(o)
  PROVE  \A p \in cursor' : p \in cursor \/ (p.txOffset = o /\ ~failed')
<1>1. ~failed /\ TxIsNext(o) /\ o = txPos /\ HeightOf[txLog[o].block] \in 0..MaxHeight
  BY NextMessage DEF HandleTx, SendTx, TxIsNext, ExactInv, TruthInv
<1>2. PICK h \in 0..MaxHeight : h = HeightOf[txLog[o].block]
  BY <1>1
<1>3. PICK ok \in BOOLEAN :
        /\ failed' = ~ok
        /\ info' = IF ok /\ info[h] # NoRow THEN [info EXCEPT ![h].count = @ - 1] ELSE info
  BY <1>2 DEF HandleTx
<1>4. CASE UNCHANGED cursor
  BY <1>4
<1>5. CASE info'[h] # NoRow /\ info'[h].count = 0
           /\ AddCursorPoint(info[h].block, info[h].offset, o)
  <2>1. ASSUME ~ok PROVE FALSE
    <3>1. info[h] # NoRow /\ info[h].count = 0
      BY <1>3, <1>5, <2>1
    <3>2. PICK b \in Blocks, s \in 0..Len(txLog) :
            /\ txLog[o].block = b /\ info[h].block = b
            /\ RunAt(b, s) /\ o \in (s + 1)..(s + NumTxs(b))
      BY <1>1, <1>2, <3>1, NextTxRun
    <3>3. PICK n \in Nat : n = NumTxs(b)
      BY TxsTyping
    <3>4. info[h].count >= s + NumTxs(b) + 1 - o
      BY <1>1, <3>1, <3>2 DEF ExactInv, CountsInv
    <3> QED BY <3>1, <3>2, <3>3, <3>4
  <2>2. ok /\ ~failed'
    BY <1>3, <2>1
  <2>3. \A p \in cursor' : p \in cursor \/ p.txOffset = o
    BY <1>5, AddedPointAt
  <2> QED BY <2>2, <2>3
<1> QED BY <1>2, <1>4, <1>5 DEF HandleTx, CursorPointAt

LEMMA KeptTx ==
  ASSUME LineInv, AnswersInv, KeptInv, NEW o \in 1..Len(txLog), HandleTx(o)
  PROVE  KeptInv'
<1>1. /\ ~failed /\ TxIsNext(o) /\ o = txPos /\ txPos' = txPos + 1
      /\ UNCHANGED <<txLog, cleared, dropped>>
  BY DEF HandleTx, SendTx, TxIsNext, feedVars, lossVars, panicVars
<1>2. PICK ok \in BOOLEAN : ProcessTx(o, ok) /\ failed' = ~ok
  BY DEF HandleTx
<1>3. PICK t \in Txs : t = txLog[o].tx
  BY <1>1, NextMessage DEF LineInv, ExactInv, TruthInv
<1>4. AllStay /\ (lookupErrors' = 0 => lookupErrors = 0)
      /\ (lookupErrors' = 0 /\ ok /\ LokMessage(o) => Confirmed(t)')
  <2>1. CASE info[HeightOf[txLog[o].block]] = NoRow
    BY <1>2, <2>1 DEF ProcessTx, AllStay, Confirmed, lokTables
  <2>2. CASE info[HeightOf[txLog[o].block]] # NoRow
    <3>1. PICK a : /\ ConfirmedAction(t, a)
                   /\ RecordTx(a, txLog[o].tx, info[HeightOf[txLog[o].block]].block, ok)
      BY <1>2, <1>3, <2>2 DEF ProcessTx
    <3>2. AllStay /\ (ok /\ a \in Kinds => Confirmed(t)')
      BY <1>1, <1>3, <2>2, <3>1, TxRecords
    <3>3. lookupErrors' = 0 => lookupErrors = 0 /\ a = KindOf[t]
      BY <3>1, Answered
    <3> QED BY <1>3, <3>2, <3>3 DEF LokMessage
  <2> QED BY <2>1, <2>2
<1>5. ASSUME lookupErrors' = 0, ~cleared'
      PROVE  (~failed => Recorded(txPos - 1))' /\ \A p \in cursor' : Recorded(p.txOffset)'
  <2>1. Recorded(txPos - 1) /\ \A p \in cursor : Recorded(p.txOffset)
    BY <1>1, <1>4, <1>5 DEF KeptInv
  <2>2. \A p \in cursor : Recorded(p.txOffset)'
    <3>1. FeedTypeOK
      BY DEF LineInv, ExactInv, TruthInv, StoreTyping
    <3> QED BY <1>1, <1>4, <2>1, <3>1, RecordedStays
  <2>3. ~failed' => Recorded(o)'
    <3>1. \A q \in 1..Len(txLog) : q <= o => q <= txPos - 1 \/ q = o
      BY <1>1
    <3> QED BY <1>1, <1>2, <1>3, <1>4, <1>5, <2>1, <3>1 DEF Recorded, LokMessage, AllStay
  <2>4. (~failed => Recorded(txPos - 1))'
    <3>1. txPos' - 1 = o
      BY <1>1
    <3> QED BY <2>3, <3>1 DEF Recorded
  <2>5. \A p \in cursor' : p \in cursor \/ (p.txOffset = o /\ ~failed')
    BY PointsOfTx DEF LineInv
  <2> QED BY <2>2, <2>3, <2>4, <2>5
<1> QED BY <1>5 DEF KeptInv

LEMMA KeptSkip ==
  ASSUME LineInv, DoneInv, SentInv, KeptInv, PassOverTx
  PROVE  KeptInv'
<1>1. /\ txPos \in 1..Len(txLog) /\ txPos' = txPos + 1
      /\ \/ HeightOf[txLog[txPos].block] < InterceptHeight
         \/ txLog[txPos].block \in dropped
  BY DoneSkip DEF PassOverTx
<1>2. /\ UNCHANGED <<txLog, dropped, cursor, failed, cleared, lookupErrors>> /\ AllStay
  BY DEF PassOverTx, SkipTx, SkipUnappliedTx, feedVars, lossVars, dbVars, lokTables, volatileVars,
         boundVars, panicVars, AllStay, Confirmed
<1>3. FeedTypeOK /\ InterceptHeight \in Nat
  BY StreamAssumption DEF LineInv, ExactInv, TruthInv, StoreTyping
<1>4. ~LokMessage(txPos)
  <2>1. HeightOf[txLog[txPos].block] \in 0..MaxHeight
    BY <1>1, LineFacts
  <2> QED BY <1>1, <1>3, <2>1 DEF LokMessage
<1>5. Recorded(txPos - 1) => Recorded(txPos)
  <2>1. \A q \in 1..Len(txLog) : q <= txPos => q <= txPos - 1 \/ q = txPos
    BY <1>1
  <2> QED BY <1>4, <2>1 DEF Recorded
<1>6. txPos' - 1 = txPos
  BY <1>1
<1>7. Recorded(txPos) => Recorded(txPos - 1)'
  BY <1>2, <1>6 DEF Recorded, LokMessage, AllStay
<1>8. \A p \in cursor : Recorded(p.txOffset) => Recorded(p.txOffset)'
  BY <1>2, <1>3, RecordedStays
<1> QED BY <1>2, <1>5, <1>7, <1>8 DEF KeptInv

LEMMA KeptRestart ==
  ASSUME LineInv, KeptInv, RestartWith, AllStay, lookupErrors' = 0 => lookupErrors = 0
  PROVE  KeptInv'
<1>1. UNCHANGED <<txLog, dropped, cleared>> /\ cursor' \subseteq cursor
  BY DEF RestartWith, Restart, RestartAt, RestartFromBeginning, feedVars, lossVars, panicVars
<1>2. FeedTypeOK
  BY DEF LineInv, ExactInv, TruthInv, StoreTyping
<1>3. \A n : Recorded(n) => Recorded(n)'
  BY <1>1, <1>2, RecordedStays
<1>4. CASE RestartFromBeginning
  <2>1. txPos' - 1 = 0
    BY <1>4 DEF RestartFromBeginning
  <2>2. Recorded(txPos - 1)'
    BY <2>1 DEF Recorded
  <2> QED BY <1>1, <1>3, <2>2 DEF KeptInv
<1>5. ASSUME NEW p \in cursor, RestartAt(p)
      PROVE  KeptInv'
  <2>1. txPos' - 1 = p.txOffset
    <3>1. p.txOffset \in Int
      BY DEF LineInv, ExactInv, PointsInv
    <3> QED BY <1>5, <3>1 DEF RestartAt
  <2>2. Recorded(p.txOffset)' => Recorded(txPos - 1)'
    BY <2>1 DEF Recorded
  <2> QED BY <1>1, <1>3, <2>2 DEF KeptInv
<1> QED BY <1>4, <1>5 DEF RestartWith, Restart

LEMMA ResumeInit == Init => ResumeInv
<1> SUFFICES ASSUME Init PROVE ResumeInv
  OBVIOUS
<1>1. ExactInv /\ StraightInv /\ CacheInv
  BY ExactInit, StraightInit, TokensInit DEF Init
<1>2. DoneInv
  BY CountedNothing DEF Init, StreamInit, DoneInv
<1>3. AnswersInv
  BY DEF Init, AnswersInv, EmptyCache
<1>4. KeptInv
  <2>1. Len(txLog) = 0 /\ cursor = {}
    BY DEF Init, FeedInit, DatabaseInit
  <2> QED BY <2>1 DEF KeptInv, Recorded
<1>5. SentInv
  <2>1. Len(blockLog) = 0 /\ blockPos = 1
    BY DEF Init, FeedInit, StreamInit
  <2> QED BY <2>1 DEF SentInv
<1> QED BY <1>1, <1>2, <1>3, <1>4, <1>5 DEF ResumeInv, LineInv

LEMMA StraightStays == StraightInv /\ UNCHANGED feedVars => StraightInv'
<1> SUFFICES ASSUME StraightInv, UNCHANGED feedVars PROVE StraightInv'
  OBVIOUS
<1>1. UNCHANGED <<chain, blockLog, txLog>>
  BY DEF feedVars
<1>2. \A b, s : RunAt(b, s) <=> RunAt(b, s)'
  BY <1>1 DEF RunAt, NumTxs
<1> QED BY <1>1, <1>2 DEF StraightInv

LEMMA DoneStays ==
  DoneInv /\ UNCHANGED feedVars /\ UNCHANGED <<txPos, done, start, cursorLoaded>> => DoneInv'
BY DEF DoneInv, HasHeight, Passed, feedVars

LEMMA SentStays ==
  SentInv /\ UNCHANGED <<blockLog, blockPos, emitted, dropped, start, cursorLoaded>> => SentInv'
BY DEF SentInv

LEMMA SentStep ==
  ASSUME MaxUnapplies = 0, LineInv, SentInv, [Next]_vars
  PROVE  SentInv'
<1>1. ASSUME NEW b \in Blocks, Publish(b)
      PROVE  SentInv'
  BY <1>1, SentPublish
<1>2. ASSUME NEW b \in Blocks, SendBlock(b) \/ DropBlock(b)
      PROVE  SentInv'
  <2>1. /\ NextIs("apply", b) /\ blockPos' = blockPos + 1
        /\ UNCHANGED <<blockLog, start, cursorLoaded>>
        /\ emitted \cup dropped \cup {b} \subseteq emitted' \cup dropped'
    BY <1>2 DEF SendBlock, DropBlock, feedVars, lossVars
  <2> QED BY <2>1, SentReads
<1>3. ASSUME NEW b \in Blocks, HandleRollback(b)
      PROVE  FALSE
  <2>1. blockPos \in 1..Len(blockLog) /\ blockLog[blockPos].kind = "unapply"
    BY <1>3, RollbackStep DEF LineInv, ExactInv, TruthInv
  <2> QED BY <2>1 DEF LineInv, StraightInv
<1>4. ASSUME UNCHANGED <<blockLog, blockPos, emitted, dropped, start, cursorLoaded>>
      PROVE  SentInv'
  BY <1>4, SentStays
<1>5. ASSUME NEW o \in 1..Len(txLog), SendTx(o) \/ BufferTx(o)
      PROVE  SentInv'
  BY <1>4, <1>5 DEF SendTx, BufferTx, feedVars, lossVars
<1>6. CASE PassOverTx
  BY <1>4, <1>6 DEF PassOverTx, SkipTx, SkipUnappliedTx, feedVars, lossVars
<1>7. ASSUME RestartWith
      PROVE  SentInv'
  BY <1>7, SentRestart
<1>8. ASSUME NEW t \in MempoolTxs, HandleMempoolAccepted(t)
      PROVE  SentInv'
  BY <1>4, <1>8 DEF HandleMempoolAccepted, feedVars, streamVars, lossVars
<1>9. CASE PanicOnWithdrawn
  BY <1>4, <1>9 DEF PanicOnWithdrawn, feedVars, streamVars, lossVars
<1>10. CASE UNCHANGED vars
  BY <1>4, <1>10 DEF vars, feedVars, streamVars, lossVars
<1> QED
  BY <1>1, <1>2, <1>3, <1>5, <1>6, <1>7, <1>8, <1>9, <1>10, CrashStep
  DEF Next, HandleTopics, HandleBlock, HandleTx, DropTxAfterFailure, ReadSilently

LEMMA ResumeStep ==
  ASSUME MaxUnapplies = 0, TxsDistinct, ResumeInv, [Next]_vars
  PROVE  ResumeInv'
<1> USE DEF ResumeInv
<1>0. ExactInv' /\ CacheInv' /\ AnswersInv' /\ SentInv' /\ FeedTypeOK /\ TablesDefined
  BY ExactStep, CacheStep, AnswersStep, SentStep, KeptTables
     DEF AppliedOnce, LineInv, ExactInv, TruthInv, StoreTyping
<1>a. UNCHANGED feedVars => LineInv'
  BY <1>0, StraightStays DEF LineInv
<1>b. UNCHANGED feedVars => UNCHANGED txLog
  BY DEF feedVars
<1>c. UNCHANGED lokTables => AllStay
  BY DEF lokTables, AllStay, Confirmed
<1>1. ASSUME NEW b \in Blocks, Publish(b)
      PROVE  ResumeInv'
  <2>1. StraightInv'
    BY <1>1, StraightStep DEF Publish, LineInv, ExactInv, TruthInv, TopicInv
  <2> QED BY <1>0, <1>1, <2>1, DonePublish, KeptPublish DEF LineInv
<1>2. ASSUME NEW b \in Blocks, HandleBlock(b)
      PROVE  ResumeInv'
  <2>1. UNCHANGED <<feedVars, txPos, dropped, cursor, failed, cleared, lookupErrors, lokTables>>
    BY <1>2 DEF HandleBlock, SendBlock, NextIs, lossVars, dbVars, boundVars, panicVars
  <2>2. KeptInv'
    BY <1>0, <1>b, <1>c, <2>1, KeptStays
  <2> QED BY <1>0, <1>a, <1>2, <2>1, <2>2, DoneBlock DEF HandleBlock
<1>3. ASSUME NEW b \in Blocks, HandleRollback(b)
      PROVE  FALSE
  <2>1. blockPos \in 1..Len(blockLog) /\ blockLog[blockPos].kind = "unapply"
    BY <1>3, RollbackStep DEF LineInv, ExactInv, TruthInv
  <2> QED BY <2>1 DEF LineInv, StraightInv
<1>4. ASSUME NEW o \in 1..Len(txLog), HandleTx(o)
      PROVE  ResumeInv'
  <2>1. UNCHANGED feedVars /\ SendTx(o)
    BY <1>4 DEF HandleTx, SendTx
  <2> QED BY <1>0, <1>a, <1>4, <2>1, DoneTx, KeptTx
<1>5. ASSUME NEW o \in 1..Len(txLog), DropTxAfterFailure(o)
      PROVE  ResumeInv'
  <2>1. /\ UNCHANGED <<feedVars, dropped, cursor, failed, cleared, lookupErrors, lokTables>>
        /\ SendTx(o) /\ failed
    BY <1>5 DEF DropTxAfterFailure, SendTx, lossVars, dbVars, volatileVars, boundVars, panicVars
  <2>2. \A n : Recorded(n) => Recorded(n)'
    BY <1>0, <1>b, <1>c, <2>1, RecordedStays
  <2>3. KeptInv'
    BY <2>1, <2>2 DEF KeptInv
  <2> QED BY <1>0, <1>a, <2>1, <2>3, DoneTx
<1>6. CASE PassOverTx
  <2>1. UNCHANGED feedVars
    BY <1>6 DEF PassOverTx, SkipTx, SkipUnappliedTx
  <2> QED BY <1>0, <1>a, <1>6, <2>1, DoneSkip, KeptSkip DEF PassOverTx
<1>7. ASSUME NEW t \in MempoolTxs, HandleMempoolAccepted(t)
      PROVE  ResumeInv'
  <2>1. /\ UNCHANGED <<feedVars, txPos, done, start, cursorLoaded, dropped, cursor, failed, cleared>>
        /\ t \in Txs
    BY <1>7, FeedAssumption DEF HandleMempoolAccepted, streamVars, lossVars, panicVars
  <2>2. PICK a : AskNode(t, a) /\ RecordMempoolTx(a, t)
    BY <1>7 DEF HandleMempoolAccepted
  <2>3. AllStay /\ (lookupErrors' = 0 => lookupErrors = 0)
    BY <1>0, <2>1, <2>2, RecordMempoolKeeps, Answered
  <2>4. KeptInv'
    BY <1>0, <1>b, <2>1, <2>3, KeptStays
  <2> QED BY <1>0, <1>a, <2>1, <2>4, DoneStays
<1>8. CASE PanicOnWithdrawn
  <2>1. /\ UNCHANGED <<feedVars, txPos, done, start, cursorLoaded, dropped, cursor, lookupErrors,
                       lokTables>>
        /\ cleared' = (cleared \/ failed)
    BY <1>8 DEF PanicOnWithdrawn, streamVars, lossVars, dbVars
  <2>2. KeptInv'
    BY <1>0, <1>b, <1>c, <2>1, KeptStays
  <2> QED BY <1>0, <1>a, <2>1, <2>2, DoneStays
<1>9. ASSUME RestartWith, AllStay, lookupErrors' = 0 => lookupErrors = 0
      PROVE  ResumeInv'
  <2>1. UNCHANGED feedVars
    BY <1>9 DEF RestartWith, Restart
  <2> QED BY <1>0, <1>a, <1>9, <2>1, DoneRestart, KeptRestart
<1>10. CASE CrashAndRestart \/ CrashInRollback
  <2>1. UNCHANGED <<lokTables, lookupErrors>>
    BY <1>10 DEF CrashAndRestart, CrashInRollback, dbVars
  <2> QED BY <1>c, <1>9, <1>10, <2>1, CrashStep
<1>11. CASE CrashBeforeCursorPoint
  <2>1. PICK o \in 1..Len(txLog), ok \in BOOLEAN, a \in Kinds :
          /\ TxIsNext(o) /\ info[HeightOf[txLog[o].block]] # NoRow
          /\ ConfirmedAction(txLog[o].tx, a)
          /\ RecordTx(a, txLog[o].tx, info[HeightOf[txLog[o].block]].block, ok)
    BY <1>11 DEF CrashBeforeCursorPoint
  <2>2. PICK t \in Txs : t = txLog[o].tx
    BY <2>1, NextMessage DEF LineInv, ExactInv, TruthInv
  <2>3. AllStay
    BY <2>1, <2>2, TxRecords
  <2>4. lookupErrors' = 0 => lookupErrors = 0
    BY <2>1, <2>2, Answered
  <2> QED BY <1>9, <1>11, <2>3, <2>4, CrashStep
<1>12. CASE CrashAfterEvict
  <2>1. PICK t \in MempoolTxs : /\ KindOf[t] \in Kinds /\ ~Superseded(KindOf[t], t)
                                /\ Evict(KindOf[t], t) /\ UNCHANGED lookupErrors
    BY <1>12 DEF CrashAfterEvict
  <2>2. t \in Txs
    BY FeedAssumption
  <2>3. AllStay
    BY <1>0, <2>1, <2>2, EvictKeeps
  <2> QED BY <1>9, <1>12, <2>1, <2>3, CrashStep
<1>13. CASE UNCHANGED vars
  <2>1. UNCHANGED <<feedVars, txPos, done, start, cursorLoaded, dropped, cursor, lookupErrors,
                    lokTables, failed, cleared>>
    BY <1>13 DEF vars, streamVars, lossVars, dbVars, volatileVars, boundVars, panicVars
  <2>2. KeptInv'
    BY <1>0, <1>b, <1>c, <2>1, KeptStays
  <2> QED BY <1>0, <1>a, <2>1, <2>2, DoneStays
<1>14. CASE ReadSilently
  <2>1. /\ UNCHANGED <<feedVars, txPos, done, start, cursorLoaded, cursor, lookupErrors, lokTables,
                       failed, cleared>>
        /\ dropped \subseteq dropped'
    BY <1>14 DEF ReadSilently, DropBlock, BufferTx, lossVars, dbVars, volatileVars, boundVars,
                panicVars
  <2>2. KeptInv'
    BY <1>0, <1>b, <1>c, <2>1, KeptStays
  <2> QED BY <1>0, <1>a, <2>1, <2>2, DoneStays
<1> QED
  BY <1>1, <1>2, <1>3, <1>4, <1>5, <1>6, <1>7, <1>8, <1>10, <1>11, <1>12, <1>13, <1>14
  DEF Next, HandleTopics

(* The blocks a point stands for have no message behind it.                *)
LEMMA PointCovers ==
  ASSUME LineInv, NEW p \in cursor, NEW c \in blockLog[p.blockOffset].chain,
         NEW n \in 1..NumTxs(c)
  PROVE  \E o \in 1..Len(txLog) :
           o <= p.txOffset /\ txLog[o].block = c /\ txLog[o].tx = TxsOf[c][n]
<1>1. PICK b \in Blocks, s \in 0..Len(txLog) :
        b = p.block /\ RunAt(b, s) /\ NumTxs(b) > 0 /\ p.txOffset = s + NumTxs(b)
  BY DEF LineInv, ExactInv, PointsInv
<1>2. PICK q \in 1..Len(txLog) : q = p.txOffset
  BY DEF LineInv, ExactInv, PointsInv
<1>3. PICK k \in Nat : k = NumTxs(b) /\ k > 0
  BY <1>1, TxsTyping
<1>4. q \in (s + 1)..(s + k) /\ q = s + k /\ txLog[q].block = b
  <2>1. q \in (s + 1)..(s + k) /\ q = s + k
    BY <1>1, <1>2, <1>3
  <2> QED BY <1>1, <1>3, <2>1 DEF RunAt
<1>5. /\ p.blockOffset \in 1..Len(blockLog) /\ blockLog[p.blockOffset].block = b
  BY <1>1 DEF LineInv, ExactInv, PointsInv, TruthInv, StoreTyping
<1>6. c \in chain /\ HeightOf[c] <= HeightOf[b] /\ b \in chain
  BY <1>5 DEF LineInv, StraightInv
<1>7. c \in Blocks /\ HeightOf[c] \in Nat /\ HeightOf[b] \in Nat
  BY <1>6, LineFacts
<1>8. PICK z \in 0..Len(txLog) : RunAt(c, z)
  BY <1>6 DEF LineInv, StraightInv
<1>9. PICK m \in Nat : m = NumTxs(c)
  BY <1>7, TxsTyping
<1>10. PICK o \in (z + 1)..(z + m) : o = z + n
  BY <1>9
<1>11. txLog[o].block = c /\ txLog[o].tx = TxsOf[c][n] /\ o \in 1..Len(txLog)
  <2>1. txLog[o].block = c /\ txLog[o].tx = TxsOf[c][o - z]
    BY <1>8, <1>9 DEF RunAt
  <2>2. o - z = n
    BY <1>9, <1>10
  <2>3. z \in 0..(Len(txLog) - m)
    BY <1>8, <1>9 DEF RunAt
  <2>4. o \in 1..Len(txLog)
    BY <1>9, <2>3, LineFacts
  <2> QED BY <2>1, <2>2, <2>4
<1>12. o <= q
  <2> SUFFICES ASSUME o > q PROVE FALSE
    BY <1>9
  <2>1. HeightOf[b] <= HeightOf[c]
    BY <1>4, <1>11 DEF LineInv, StraightInv
  <2>2. HeightOf[c] = HeightOf[b]
    BY <1>6, <1>7, <2>1
  <2>3. o \in (s + 1)..(s + k)
    BY <1>1, <1>3, <1>6, <1>11, <2>2, OnlyBlock
  <2> QED BY <1>4, <2>3
<1> QED BY <1>2, <1>11, <1>12

(* On a chain that does not fork, resuming behind a cursor point loses     *)
(* nothing: whatever crashes, failed writes, panics and mempool takeovers  *)
(* there were, every lok transaction of the blocks up to the point is      *)
(* stored and confirmed (processTransactionEvent writes the point after    *)
(* the rows of the last transaction, startKafka seeks behind it), as long  *)
(* as the node answered every lookup and no panic wiped out a failure; but *)
(* for the transactions of a block that emitBlockApply dropped because     *)
(* GetNodeInfo failed (indexer.go:822-829): those are lost.                *)
THEOREM ResumingLosesNothing ==
  ASSUME MaxUnapplies = 0, TxsDistinct
  PROVE  Spec => []ResumeLosesNothing
<1>1. ResumeInv => ResumeLosesNothing
  <2> SUFFICES ASSUME ResumeInv, lookupErrors = 0, ~cleared, NEW p \in cursor,
                      NEW t \in LokTxsOf(blockLog[p.blockOffset].chain \ dropped)
               PROVE  Confirmed(t)
    BY DEF ResumeLosesNothing
  <2>0. PICK c \in blockLog[p.blockOffset].chain \ dropped :
          KindOf[t] \in Kinds /\ HeightOf[c] >= InterceptHeight /\ IsIn(t, c)
    BY DEF LokTxsOf
  <2>1. PICK n \in 1..NumTxs(c) : TxsOf[c][n] = t
    BY <2>0 DEF IsIn
  <2>2. PICK o \in 1..Len(txLog) :
          o <= p.txOffset /\ txLog[o].block = c /\ txLog[o].tx = TxsOf[c][n]
    BY PointCovers DEF ResumeInv
  <2> QED BY <2>0, <2>1, <2>2 DEF ResumeInv, KeptInv, Recorded, LokMessage
<1>2. ResumeInv /\ [Next]_vars => ResumeInv'
  BY ResumeStep
<1> QED BY ResumeInit, <1>1, <1>2, PTL DEF Spec
================================================================================
