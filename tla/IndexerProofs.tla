---------------------------- MODULE IndexerProofs ----------------------------
(***************************************************************************)
(* What IndexerActor guarantees for every chain, every interleaving of the *)
(* topics and every number of faults.                                      *)
(*                                                                         *)
(* Its types, and CursorTight: whatever completes a height also moves the  *)
(* cursor.                                                                 *)
(*                                                                         *)
(* TxWithinItsBlock, as long as the block reader itself is not restarted.  *)
(* The argument: the block topic describes one chain that grows and        *)
(* shrinks at its top (LogInv, ChainInv); the blocks emitted and not       *)
(* rolled back belong to the chain as it was at the reader's position      *)
(* (IndexInv), so a new block is higher than all of them and a rollback    *)
(* hits none but itself: all of them stay open downstream (OpenInv).       *)
(*                                                                         *)
(* And TxOffsetSentOnce, for every number of redelivered transaction       *)
(* messages, as long as processedTxOffsets stays within its limit (beyond  *)
(* it KeepNewest forgets offsets, and a redelivered message is sent        *)
(* again): every message that was sent or is buffered has its offset in    *)
(* the set, no message is in both places or twice in one, and only a       *)
(* message whose offset is not in the set gets into either (DedupInv).     *)
(***************************************************************************)
EXTENDS Indexer, FeedProofs

-------------------------------------------------------------------------------
(* Typing.                                                                 *)

(* A buffer of a block holds offsets of that block's own messages.         *)
HoldsOffsets(buffer, kind, log) ==
  \A b \in Blocks : \A i \in 1..Len(buffer[b]) :
    /\ buffer[b][i] \in 1..Len(log)
    /\ log[buffer[b][i]].kind = kind
    /\ log[buffer[b][i]].block = b

(* Once the downstream actor is known, nothing is held back from it.       *)
NothingHeldBack == downstreamSet => pendingDownstream = <<>>

TypeInv ==
  /\ TypeOK
  /\ HoldsOffsets(pendingApplied, "applied", txLog)
  /\ HoldsOffsets(pendingUnapplied, "unapplied", txLog)
  /\ NothingHeldBack

CompletedOK(comp) ==
  /\ DOMAIN comp \subseteq Heights
  /\ \A h \in DOMAIN comp : comp[h] \in BlockState

(* Sending appends to what has been produced, whether or not the           *)
(* downstream actor is known yet.                                          *)
LEMMA Sending ==
  ASSUME downstream \in Seq(DownstreamEvent),
         pendingDownstream \in Seq(DownstreamEvent),
         downstreamSet \in BOOLEAN,
         NothingHeldBack,
         NEW events \in Seq(DownstreamEvent),
         SendDownstream(events)
  PROVE  /\ downstream' \in Seq(DownstreamEvent)
         /\ pendingDownstream' \in Seq(DownstreamEvent)
         /\ downstreamSet' = downstreamSet
         /\ NothingHeldBack'
         /\ Produced' = Produced \o events
<1>1. CASE downstreamSet
  <2>1. pendingDownstream = <<>> /\ pendingDownstream' = <<>>
        /\ downstream' = downstream \o events
    BY <1>1 DEF NothingHeldBack, SendDownstream
  <2>2. downstreamSet' = downstreamSet
    BY DEF SendDownstream
  <2>3. Produced = downstream /\ Produced' = downstream'
    BY <2>1, ConcatEmptySeq DEF Produced
  <2> QED BY <2>1, <2>2, <2>3 DEF NothingHeldBack
<1>2. CASE ~downstreamSet
  <2>1. /\ pendingDownstream' = pendingDownstream \o events
        /\ downstream' = downstream
        /\ downstreamSet' = downstreamSet
    BY <1>2 DEF SendDownstream
  <2>2. Produced' = Produced \o events
    BY <2>1, ConcatAssociative DEF Produced
  <2> QED BY <1>2, <2>1, <2>2 DEF NothingHeldBack
<1> QED BY <1>1, <1>2

LEMMA SendingNothing ==
  ASSUME UNCHANGED sendVars
  PROVE  /\ Produced' = Produced
         /\ NothingHeldBack => NothingHeldBack'
BY DEF sendVars, Produced, NothingHeldBack

LEMMA SetStateTyping ==
  ASSUME NEW comp, CompletedOK(comp), NEW h \in Heights, NEW st \in BlockState
  PROVE  /\ CompletedOK(SetState(comp, h, st))
         /\ SetState(comp, h, st)[h] = st
BY DEF CompletedOK, SetState

LEMMA AdvanceTyping ==
  ASSUME NEW comp, CompletedOK(comp), lastProcessedHeight \in Heights,
         TryAdvanceCursor(comp)
  PROVE  /\ lastProcessedHeight' \in Heights
         /\ CompletedOK(Remaining(comp))
BY IndexerAssumption, FeedAssumption
   DEF TryAdvanceCursor, CompletedOK, Remaining, Heights

(* Pruning only forgets.                                                   *)
LEMMA Pruning ==
  ASSUME NEW applied \in [Blocks -> Seq(Nat)],
         NEW unapplied \in [Blocks -> Seq(Nat)],
         NEW emitted, NEW comp, CompletedOK(comp),
         PruneOldBuffers(applied, unapplied, emitted, comp)
  PROVE  /\ pendingApplied' \in [Blocks -> Seq(Nat)]
         /\ \A b \in Blocks : pendingApplied'[b] \in {applied[b], <<>>}
         /\ pendingUnapplied' \in [Blocks -> Seq(Nat)]
         /\ \A b \in Blocks : pendingUnapplied'[b] \in {unapplied[b], <<>>}
         /\ emittedBlocks' \subseteq emitted
         /\ CompletedOK(completed')
         /\ DOMAIN completed' \subseteq DOMAIN comp
         /\ \A h \in DOMAIN completed' : completed'[h] = comp[h]
         /\ processedTxOffsets' \subseteq processedTxOffsets
         /\ processedMempoolOffsets' \subseteq processedMempoolOffsets
<1>1. CASE lastProcessedHeight' < tipHeight'
  BY <1>1 DEF PruneOldBuffers, CompletedOK
<1>2. CASE ~(lastProcessedHeight' < tipHeight')
  <2>1. KeepNewest(processedTxOffsets) \subseteq processedTxOffsets
    BY DEF KeepNewest
  <2>2. KeepNewest(processedMempoolOffsets) \subseteq processedMempoolOffsets
    BY DEF KeepNewest
  <2>3. <<>> \in Seq(Nat)
    OBVIOUS
  <2> QED
    BY <1>2, <2>1, <2>2, <2>3 DEF PruneOldBuffers, CompletedOK
<1> QED BY <1>1, <1>2

LEMMA PruningShrinks ==
  ASSUME NEW applied, NEW unapplied, NEW emitted, NEW comp,
         PruneOldBuffers(applied, unapplied, emitted, comp)
  PROVE  /\ DOMAIN completed' \subseteq DOMAIN comp
         /\ \A k \in DOMAIN completed' : completed'[k] = comp[k]
BY DEF PruneOldBuffers

LEMMA HoldsAfterShrink ==
  ASSUME NEW old \in [Blocks -> Seq(Nat)], NEW new, NEW kind, NEW log,
         HoldsOffsets(old, kind, log),
         \A b \in Blocks : new[b] \in {old[b], <<>>}
  PROVE  HoldsOffsets(new, kind, log)
BY DEF HoldsOffsets

LEMMA HoldsAfterGrowth ==
  ASSUME NEW buffer \in [Blocks -> Seq(Nat)], NEW kind, NEW log, NEW grown,
         Len(log) \in Nat, Len(grown) \in Nat,
         HoldsOffsets(buffer, kind, log), IsGrownFrom(grown, log)
  PROVE  HoldsOffsets(buffer, kind, grown)
BY DEF HoldsOffsets, IsGrownFrom

(* The messages replayed from a buffer become events of the block.         *)
LEMMA ReplayTyping ==
  ASSUME FeedTypeOK, NEW buffer \in [Blocks -> Seq(Nat)], NEW b \in Blocks,
         NEW kind \in {"applied", "unapplied"}, HoldsOffsets(buffer, kind, txLog)
  PROVE  /\ [i \in 1..Len(buffer[b]) |-> TxEventAt(buffer[b][i])]
              \in Seq(DownstreamEvent)
         /\ [i \in 1..Len(buffer[b]) |-> UnappliedEventAt(buffer[b][i])]
              \in Seq(DownstreamEvent)
<1>1. ASSUME NEW i \in 1..Len(buffer[b])
      PROVE  /\ TxEventAt(buffer[b][i]) \in DownstreamEvent
             /\ UnappliedEventAt(buffer[b][i]) \in DownstreamEvent
  <2>1. buffer[b][i] \in 1..Len(txLog) /\ txLog[buffer[b][i]].kind = kind
    BY DEF HoldsOffsets
  <2>2. txLog[buffer[b][i]] \in TxMessage /\ buffer[b][i] \in Nat
    BY <2>1 DEF FeedTypeOK
  <2>3. txLog[buffer[b][i]].block \in Blocks /\ txLog[buffer[b][i]].tx \in Txs
    BY <2>1, <2>2 DEF TxMessage
  <2> QED
    BY <2>2, <2>3 DEF TxEventAt, UnappliedEventAt, Event, DownstreamEvent
<1>2. Len(buffer[b]) \in Nat
  OBVIOUS
<1> QED BY <1>1, <1>2

(* The message at the index of the block topic.                            *)
LEMMA NextBlockTyping ==
  ASSUME TypeOK, NEW kind \in {"apply", "unapply", "malformed"}, NextBlock(kind)
  PROVE  /\ blockIdx \in 1..Len(blockLog)
         /\ blockIdx' = blockIdx + 1
         /\ kind # "malformed" => blockLog[blockIdx].block \in Blocks
         /\ FeedTypeOK'
         /\ UNCHANGED <<txLog, blockLog, chain>>
<1>1. blockIdx \in 1..Len(blockLog) /\ blockLog \in Seq(BlockMessage)
  BY DEF TypeOK, FeedTypeOK, NextBlock
<1>2. blockLog[blockIdx] \in BlockMessage /\ blockLog[blockIdx].kind = kind
  BY <1>1 DEF NextBlock
<1>3. kind # "malformed" => blockLog[blockIdx].block \in Blocks
  BY <1>2 DEF BlockMessage
<1> QED
  BY <1>1, <1>3 DEF NextBlock, feedVars, TypeOK, FeedTypeOK

LEMMA NextTxTyping ==
  ASSUME TypeOK, NEW kind \in {"applied", "unapplied", "malformed"}, NextTx(kind)
  PROVE  /\ txIdx \in 1..Len(txLog)
         /\ txIdx' = txIdx + 1
         /\ txLog[txIdx].kind = kind
         /\ kind # "malformed" =>
              txLog[txIdx].block \in Blocks /\ txLog[txIdx].tx \in Txs
         /\ FeedTypeOK'
         /\ UNCHANGED <<txLog, blockLog, chain>>
<1>1. txIdx \in 1..Len(txLog) /\ txLog \in Seq(TxMessage)
  BY DEF TypeOK, FeedTypeOK, NextTx
<1>2. txLog[txIdx] \in TxMessage /\ txLog[txIdx].kind = kind
  BY <1>1 DEF NextTx
<1>3. kind # "malformed" =>
        txLog[txIdx].block \in Blocks /\ txLog[txIdx].tx \in Txs
  BY <1>2 DEF TxMessage
<1> QED
  BY <1>1, <1>2, <1>3 DEF NextTx, feedVars, TypeOK, FeedTypeOK

LEMMA HeightTyping ==
  ASSUME NEW b \in Blocks
  PROVE  HeightOf[b] \in Heights /\ NumTxs(b) \in Nat
BY FeedAssumption DEF Heights, NumTxs

(* What EmitBlockApply does, as far as its types and its events go.        *)
LEMMA EmitBlockApplyStep ==
  ASSUME TypeInv, EmitBlockApply,
         NEW b, b = blockLog[blockIdx].block
  PROVE  /\ TypeInv'
         /\ b \in Blocks
         /\ emittedBlocks' \subseteq emittedBlocks \cup {b}
         /\ Produced' = Produced \o
              (<<Event("block", b, Root, blockIdx, tipHeight' = HeightOf[b])>>
               \o [i \in 1..Len(pendingApplied[b]) |-> TxEventAt(pendingApplied[b][i])]
               \o [i \in 1..Len(pendingUnapplied[b]) |->
                     UnappliedEventAt(pendingUnapplied[b][i])])
<1> DEFINE h == HeightOf[b]
           st == StateAfterReplay(b)
           comp == SetState(completed, h, st)
           pa == [pendingApplied EXCEPT ![b] = <<>>]
           pu == [pendingUnapplied EXCEPT ![b] = <<>>]
           block == <<Event("block", b, Root, blockIdx, tipHeight' = h)>>
           txs == [i \in 1..Len(pendingApplied[b]) |-> TxEventAt(pendingApplied[b][i])]
           untxs == [i \in 1..Len(pendingUnapplied[b]) |->
                       UnappliedEventAt(pendingUnapplied[b][i])]
<1>1. TypeOK /\ NextBlock("apply")
  BY DEF TypeInv, EmitBlockApply
<1>2. /\ b \in Blocks
      /\ blockIdx \in 1..Len(blockLog) /\ blockIdx' = blockIdx + 1
      /\ FeedTypeOK' /\ UNCHANGED <<txLog, blockLog, chain>>
  BY <1>1, NextBlockTyping
<1>3. /\ tipHeight' = (IF h >= tipHeight THEN NodeHeight ELSE tipHeight)
      /\ (IF NumTxs(b) = 0 \/ pendingApplied[b] # <<>> \/ pendingUnapplied[b] # <<>>
           THEN TryAdvanceCursor(comp) ELSE UNCHANGED lastProcessedHeight)
      /\ SendDownstream(block \o txs \o untxs)
      /\ PruneOldBuffers(pa, pu, emittedBlocks \cup {b}, Remaining(comp))
  BY DEF EmitBlockApply
<1>4. pa \in [Blocks -> Seq(Nat)] /\ pu \in [Blocks -> Seq(Nat)]
  BY <1>1, <1>2 DEF TypeOK
<1>5. tipHeight' \in Int
  BY <1>1, <1>3, NodeHeightTyping DEF TypeOK
<1>6. CompletedOK(comp)
  <2>1. st \in BlockState
    BY <1>1, <1>2, HeightTyping DEF StateAfterReplay, BlockState, TypeOK
  <2> QED
    BY <1>1, <1>2, <2>1, HeightTyping, SetStateTyping DEF TypeOK, CompletedOK
<1>7. lastProcessedHeight' \in Heights /\ CompletedOK(Remaining(comp))
  <2>1. CASE TryAdvanceCursor(comp)
    BY <1>1, <1>6, <2>1, AdvanceTyping DEF TypeOK
  <2>2. CASE UNCHANGED lastProcessedHeight
    BY <1>1, <1>6, <2>2 DEF TypeOK, CompletedOK, Remaining, Heights
  <2> QED BY <1>3, <2>1, <2>2
<1>8. /\ pendingApplied' \in [Blocks -> Seq(Nat)]
      /\ \A c \in Blocks : pendingApplied'[c] \in {pa[c], <<>>}
      /\ pendingUnapplied' \in [Blocks -> Seq(Nat)]
      /\ \A c \in Blocks : pendingUnapplied'[c] \in {pu[c], <<>>}
      /\ emittedBlocks' \subseteq emittedBlocks \cup {b}
      /\ CompletedOK(completed')
      /\ processedTxOffsets' \subseteq processedTxOffsets
      /\ processedMempoolOffsets' \subseteq processedMempoolOffsets
  <2> DEFINE rem == Remaining(comp)
  <2> HIDE DEF comp, pa, pu, rem
  <2>1. PruneOldBuffers(pa, pu, emittedBlocks \cup {b}, rem) /\ CompletedOK(rem)
    BY <1>3, <1>7 DEF rem
  <2> QED BY <1>4, <2>1, Pruning
<1>9. /\ HoldsOffsets(pendingApplied', "applied", txLog)
      /\ HoldsOffsets(pendingUnapplied', "unapplied", txLog)
  <2>1. /\ \A c \in Blocks : pendingApplied'[c] \in {pendingApplied[c], <<>>}
        /\ \A c \in Blocks : pendingUnapplied'[c] \in {pendingUnapplied[c], <<>>}
    BY <1>1, <1>8 DEF TypeOK
  <2> HIDE DEF pa, pu
  <2> QED BY <1>1, <2>1, HoldsAfterShrink DEF TypeInv, TypeOK
<1>10. block \in Seq(DownstreamEvent) /\ txs \in Seq(DownstreamEvent)
       /\ untxs \in Seq(DownstreamEvent)
  <2>1. Event("block", b, Root, blockIdx, tipHeight' = h) \in DownstreamEvent
    BY <1>1, <1>2 DEF Event, DownstreamEvent, TypeOK
  <2>2. txs \in Seq(DownstreamEvent) /\ untxs \in Seq(DownstreamEvent)
    BY <1>1, <1>2, ReplayTyping DEF TypeInv, TypeOK
  <2> QED BY <2>1, <2>2
<1>11. /\ downstream' \in Seq(DownstreamEvent)
       /\ pendingDownstream' \in Seq(DownstreamEvent)
       /\ downstreamSet' = downstreamSet
       /\ NothingHeldBack'
       /\ Produced' = Produced \o (block \o txs \o untxs)
  <2>1. block \o txs \o untxs \in Seq(DownstreamEvent)
    BY <1>10
  <2> HIDE DEF block, txs, untxs
  <2> QED BY <1>1, <1>3, <2>1, Sending DEF TypeInv, TypeOK
<1>12. TypeOK'
  <2>1. UNCHANGED <<running, txIdx, mempoolIdx, lastBlockOffset, lastTxOffset,
                    cursorLoaded>>
    BY <1>1 DEF NextBlock
  <2>2. blockIdx' \in Nat \ {0}
    BY <1>1, <1>2 DEF TypeOK
  <2> QED
    BY <1>1, <1>2, <1>5, <1>7, <1>8, <1>11, <2>1, <2>2 DEF TypeOK, CompletedOK
<1> QED
  BY <1>2, <1>8, <1>9, <1>11, <1>12 DEF TypeInv

LEMMA EmitBlockUnapplyStep ==
  ASSUME TypeInv, EmitBlockUnapply,
         NEW b, b = blockLog[blockIdx].block
  PROVE  /\ TypeInv'
         /\ b \in Blocks
         /\ emittedBlocks' \subseteq emittedBlocks \ {b}
         /\ Produced' = Produced \o
              (<<Event("rollback", b, Root, blockIdx, FALSE)>>
               \o [i \in 1..Len(pendingUnapplied[b]) |->
                     UnappliedEventAt(pendingUnapplied[b][i])])
<1> DEFINE h == HeightOf[b]
           st == IF h \in DOMAIN completed
                 THEN [completed[h] EXCEPT !.rollback = TRUE]
                 ELSE [expected |-> NumTxs(b), seen |-> 0, rollback |-> TRUE]
           comp == SetState(completed, h, st)
           pu == [pendingUnapplied EXCEPT ![b] = <<>>]
           event == Event("rollback", b, Root, blockIdx, FALSE)
           rollback == <<event>>
           untxs == [i \in 1..Len(pendingUnapplied[b]) |->
                       UnappliedEventAt(pendingUnapplied[b][i])]
<1>1. TypeOK /\ NextBlock("unapply")
  BY DEF TypeInv, EmitBlockUnapply
<1>2. /\ b \in Blocks
      /\ blockIdx \in 1..Len(blockLog) /\ blockIdx' = blockIdx + 1
      /\ FeedTypeOK' /\ UNCHANGED <<txLog, blockLog, chain>>
  BY <1>1, NextBlockTyping
<1>3. /\ TryAdvanceCursor(comp)
      /\ UNCHANGED tipHeight
      /\ SendDownstream(rollback \o untxs)
      /\ PruneOldBuffers(pendingApplied, pu, emittedBlocks \ {b}, Remaining(comp))
  BY DEF EmitBlockUnapply, EmittedAfterUnapply
<1>4. pendingApplied \in [Blocks -> Seq(Nat)] /\ pu \in [Blocks -> Seq(Nat)]
  BY <1>1, <1>2 DEF TypeOK
<1>6. CompletedOK(comp)
  <2>1. st \in BlockState
    BY <1>1, <1>2, HeightTyping DEF BlockState, TypeOK
  <2> HIDE DEF st
  <2> QED
    BY <1>1, <1>2, <2>1, HeightTyping, SetStateTyping DEF TypeOK, CompletedOK
<1>7. lastProcessedHeight' \in Heights /\ CompletedOK(Remaining(comp))
  <2> HIDE DEF comp
  <2> QED BY <1>1, <1>3, <1>6, AdvanceTyping DEF TypeOK
<1>8. /\ pendingApplied' \in [Blocks -> Seq(Nat)]
      /\ \A c \in Blocks : pendingApplied'[c] \in {pendingApplied[c], <<>>}
      /\ pendingUnapplied' \in [Blocks -> Seq(Nat)]
      /\ \A c \in Blocks : pendingUnapplied'[c] \in {pu[c], <<>>}
      /\ emittedBlocks' \subseteq emittedBlocks \ {b}
      /\ CompletedOK(completed')
      /\ processedTxOffsets' \subseteq processedTxOffsets
      /\ processedMempoolOffsets' \subseteq processedMempoolOffsets
  <2> DEFINE rem == Remaining(comp)
  <2> HIDE DEF comp, pu, rem
  <2>1. PruneOldBuffers(pendingApplied, pu, emittedBlocks \ {b}, rem) /\ CompletedOK(rem)
    BY <1>3, <1>7 DEF rem
  <2> QED BY <1>4, <2>1, Pruning
<1>9. /\ HoldsOffsets(pendingApplied', "applied", txLog)
      /\ HoldsOffsets(pendingUnapplied', "unapplied", txLog)
  <2>1. \A c \in Blocks : pendingUnapplied'[c] \in {pendingUnapplied[c], <<>>}
    BY <1>1, <1>8 DEF TypeOK
  <2> HIDE DEF pu
  <2> QED BY <1>1, <1>8, <2>1, HoldsAfterShrink DEF TypeInv, TypeOK
<1>10. rollback \in Seq(DownstreamEvent) /\ untxs \in Seq(DownstreamEvent)
  <2>1. event \in DownstreamEvent
    BY <1>1, <1>2 DEF Event, DownstreamEvent, TypeOK
  <2>2. untxs \in Seq(DownstreamEvent)
    BY <1>1, <1>2, ReplayTyping DEF TypeInv, TypeOK
  <2> HIDE DEF untxs, event
  <2> QED BY <2>1, <2>2
<1>11. /\ downstream' \in Seq(DownstreamEvent)
       /\ pendingDownstream' \in Seq(DownstreamEvent)
       /\ downstreamSet' = downstreamSet
       /\ NothingHeldBack'
       /\ Produced' = Produced \o (rollback \o untxs)
  <2>1. rollback \o untxs \in Seq(DownstreamEvent)
    <3> HIDE DEF rollback, untxs
    <3> QED BY <1>10
  <2> HIDE DEF rollback, untxs
  <2> QED BY <1>1, <1>3, <2>1, Sending DEF TypeInv, TypeOK
<1>12. TypeOK'
  <2>1. UNCHANGED <<running, txIdx, mempoolIdx, lastBlockOffset, lastTxOffset,
                    cursorLoaded>>
    BY <1>1 DEF NextBlock
  <2>2. blockIdx' \in Nat \ {0}
    BY <1>1, <1>2 DEF TypeOK
  <2> QED
    BY <1>1, <1>2, <1>3, <1>7, <1>8, <1>11, <2>1, <2>2 DEF TypeOK, CompletedOK
<1> QED
  BY <1>2, <1>8, <1>9, <1>11, <1>12 DEF TypeInv

(* A transaction message that is handled at once sends one event of the    *)
(* block it belongs to.                                                    *)
LEMMA TxTyping ==
  ASSUME TypeOK, NEW kind \in {"applied", "unapplied"}, FreshTx(kind)
  PROVE  /\ txLog[txIdx].kind = kind
         /\ txLog[txIdx].block \in Blocks
         /\ txIdx \in 1..Len(txLog)
         /\ FeedTypeOK'
         /\ UNCHANGED <<txLog, blockLog, chain, running, blockIdx, mempoolIdx,
                        lastBlockOffset, lastTxOffset, tipHeight, cursorLoaded,
                        emittedBlocks, processedMempoolOffsets>>
         /\ txIdx' \in Nat \ {0}
         /\ processedTxOffsets' \subseteq Nat
         /\ <<TxEventAt(txIdx)>> \in Seq(DownstreamEvent)
         /\ <<UnappliedEventAt(txIdx)>> \in Seq(DownstreamEvent)
<1>1. NextTx(kind) /\ processedTxOffsets' = processedTxOffsets \cup {txIdx}
  BY DEF FreshTx
<1>2. /\ txIdx \in 1..Len(txLog) /\ txIdx' = txIdx + 1
      /\ txLog[txIdx].kind = kind
      /\ txLog[txIdx].block \in Blocks /\ txLog[txIdx].tx \in Txs
      /\ FeedTypeOK' /\ UNCHANGED <<txLog, blockLog, chain>>
  BY <1>1, NextTxTyping
<1>3. txIdx \in Nat \ {0} /\ processedTxOffsets \subseteq Nat
  BY DEF TypeOK
<1>4. TxEventAt(txIdx) \in DownstreamEvent /\ UnappliedEventAt(txIdx) \in DownstreamEvent
  BY <1>2, <1>3 DEF TxEventAt, UnappliedEventAt, Event, DownstreamEvent
<1>5. UNCHANGED <<running, blockIdx, mempoolIdx, lastBlockOffset, lastTxOffset,
                  tipHeight, cursorLoaded, emittedBlocks, processedMempoolOffsets>>
  BY <1>1 DEF NextTx
<1> HIDE DEF TxEventAt, UnappliedEventAt
<1> QED BY <1>1, <1>2, <1>3, <1>4, <1>5

(* The steps of the transaction topic that send nothing.                   *)
QuietTxStep ==
  \/ SkipMalformedTx \/ SkipDuplicateTx \/ SkipAppliedTx \/ BufferAppliedTx
  \/ SkipUnparsableUnapplied \/ BufferUnappliedTx

LEMMA QuietTxTyping ==
  ASSUME TypeInv, QuietTxStep
  PROVE  /\ TypeInv'
         /\ UNCHANGED <<sendVars, emittedBlocks, blockIdx, blockLog, chain,
                        lastProcessedHeight, completed>>
<1> DEFINE P == /\ TypeInv'
                /\ UNCHANGED <<sendVars, emittedBlocks, blockIdx, blockLog, chain,
                               lastProcessedHeight, completed>>
<1>1. TypeOK /\ UNCHANGED sendVars
  BY DEF TypeInv, QuietTxStep, SkipMalformedTx, SkipDuplicateTx, SkipAppliedTx,
         BufferAppliedTx, SkipUnparsableUnapplied, BufferUnappliedTx
<1>2. NothingHeldBack'
  BY <1>1, SendingNothing DEF TypeInv
<1>3. ASSUME NEW kind \in {"applied", "unapplied", "malformed"}, NextTx(kind),
             UNCHANGED <<lastProcessedHeight, completed, pendingApplied,
                         pendingUnapplied, processedTxOffsets>>
      PROVE  P
  <2>1. /\ txIdx' = txIdx + 1 /\ FeedTypeOK'
        /\ UNCHANGED <<txLog, blockLog, chain>>
    BY <1>1, <1>3, NextTxTyping
  <2> QED
    BY <1>1, <1>2, <1>3, <2>1 DEF TypeInv, TypeOK, NextTx, sendVars
<1>4. ASSUME NEW kind \in {"applied", "unapplied"}, FreshTx(kind),
             UNCHANGED <<lastProcessedHeight, completed, pendingApplied,
                         pendingUnapplied>>
      PROVE  P
  BY <1>1, <1>2, <1>4, TxTyping DEF TypeInv, TypeOK, sendVars
<1>5. CASE SkipMalformedTx
  BY <1>3, <1>5 DEF SkipMalformedTx
<1>6. CASE SkipDuplicateTx
  BY <1>3, <1>6 DEF SkipDuplicateTx
<1>7. CASE SkipAppliedTx
  BY <1>4, <1>7 DEF SkipAppliedTx
<1>8. CASE SkipUnparsableUnapplied
  BY <1>4, <1>8 DEF SkipUnparsableUnapplied
<1>9. CASE BufferAppliedTx
  <2> DEFINE b == txLog[txIdx].block
  <2>1. FreshTx("applied") /\ pendingApplied' = [pendingApplied EXCEPT ![b] = Append(@, txIdx)]
        /\ UNCHANGED <<lastProcessedHeight, completed, pendingUnapplied>>
    BY <1>9 DEF BufferAppliedTx
  <2>2. /\ txLog[txIdx].kind = "applied" /\ b \in Blocks /\ txIdx \in 1..Len(txLog)
        /\ UNCHANGED txLog
    BY <1>1, <2>1, TxTyping
  <2>3. pendingApplied \in [Blocks -> Seq(Nat)] /\ txIdx \in Nat
    BY <1>1 DEF TypeOK
  <2>4. pendingApplied' \in [Blocks -> Seq(Nat)]
    BY <2>1, <2>2, <2>3
  <2>5. HoldsOffsets(pendingApplied', "applied", txLog')
    BY <2>1, <2>2, <2>3 DEF TypeInv, HoldsOffsets
  <2> HIDE DEF b
  <2> QED
    BY <1>1, <1>2, <2>1, <2>2, <2>4, <2>5, TxTyping DEF TypeInv, TypeOK, sendVars
<1>10. CASE BufferUnappliedTx
  <2> DEFINE b == txLog[txIdx].block
  <2>1. FreshTx("unapplied") /\ pendingUnapplied' = [pendingUnapplied EXCEPT ![b] = Append(@, txIdx)]
        /\ UNCHANGED <<lastProcessedHeight, completed, pendingApplied>>
    BY <1>10 DEF BufferUnappliedTx
  <2>2. /\ txLog[txIdx].kind = "unapplied" /\ b \in Blocks /\ txIdx \in 1..Len(txLog)
        /\ UNCHANGED txLog
    BY <1>1, <2>1, TxTyping
  <2>3. pendingUnapplied \in [Blocks -> Seq(Nat)] /\ txIdx \in Nat
    BY <1>1 DEF TypeOK
  <2>4. pendingUnapplied' \in [Blocks -> Seq(Nat)]
    BY <2>1, <2>2, <2>3
  <2>5. HoldsOffsets(pendingUnapplied', "unapplied", txLog')
    BY <2>1, <2>2, <2>3 DEF TypeInv, HoldsOffsets
  <2> HIDE DEF b
  <2> QED
    BY <1>1, <1>2, <2>1, <2>2, <2>4, <2>5, TxTyping DEF TypeInv, TypeOK, sendVars
<1> QED
  BY <1>5, <1>6, <1>7, <1>8, <1>9, <1>10 DEF QuietTxStep

(* The steps of the transaction topic that send an event.                  *)
LEMMA SendingTxTyping ==
  ASSUME TypeInv, ProcessAppliedTx \/ ProcessUnappliedTx
  PROVE  /\ TypeInv'
         /\ UNCHANGED <<emittedBlocks, blockIdx, blockLog, chain>>
         /\ txLog[txIdx].block \in emittedBlocks
         /\ Produced' = Produced \o <<IF ProcessAppliedTx THEN TxEventAt(txIdx)
                                      ELSE UnappliedEventAt(txIdx)>>
<1> DEFINE b == txLog[txIdx].block
           h == HeightOf[b]
           st == IF ProcessAppliedTx THEN [completed[h] EXCEPT !.seen = @ + 1]
                 ELSE [completed[h] EXCEPT !.rollback = TRUE]
           e == IF ProcessAppliedTx THEN TxEventAt(txIdx) ELSE UnappliedEventAt(txIdx)
<1>1. TypeOK
  BY DEF TypeInv
<1>2. PICK kind \in {"applied", "unapplied"} : FreshTx(kind)
  BY DEF ProcessAppliedTx, ProcessUnappliedTx
<1>3. /\ b \in emittedBlocks
      /\ UNCHANGED <<pendingApplied, pendingUnapplied>>
      /\ SendDownstream(<<e>>)
      /\ IF h \in DOMAIN completed
         THEN /\ TryAdvanceCursor(SetState(completed, h, st))
              /\ completed' = Remaining(SetState(completed, h, st))
         ELSE UNCHANGED <<lastProcessedHeight, completed>>
  <2>1. CASE ProcessAppliedTx
    BY <2>1 DEF ProcessAppliedTx
  <2>2. CASE ~ProcessAppliedTx
    <3>1. ProcessUnappliedTx
      BY <2>2
    <3> QED BY <2>2, <3>1 DEF ProcessUnappliedTx
  <2> QED BY <2>1, <2>2
<1>4. /\ b \in Blocks /\ FeedTypeOK'
      /\ UNCHANGED <<txLog, blockLog, chain, running, blockIdx, mempoolIdx,
                     lastBlockOffset, lastTxOffset, tipHeight, cursorLoaded,
                     emittedBlocks, processedMempoolOffsets>>
      /\ txIdx' \in Nat \ {0}
      /\ processedTxOffsets' \subseteq Nat
      /\ <<e>> \in Seq(DownstreamEvent)
  BY <1>1, <1>2, TxTyping
<1>5. lastProcessedHeight' \in Heights /\ CompletedOK(completed')
  <2>1. CompletedOK(completed) /\ h \in Heights
    BY <1>1, <1>4, HeightTyping DEF TypeOK, CompletedOK
  <2>2. CASE h \in DOMAIN completed
    <3>1. st \in BlockState
      <4>1. completed[h] \in BlockState
        BY <2>1, <2>2 DEF CompletedOK
      <4>2. CASE ProcessAppliedTx
        BY <4>1, <4>2 DEF BlockState
      <4>3. CASE ~ProcessAppliedTx
        BY <4>1, <4>3 DEF BlockState
      <4> QED BY <4>2, <4>3
    <3>2. CompletedOK(SetState(completed, h, st))
      <4> HIDE DEF st, h
      <4> QED BY <2>1, <3>1, SetStateTyping
    <3> HIDE DEF st, h
    <3> QED
      BY <1>1, <1>3, <2>2, <3>2, AdvanceTyping DEF TypeOK
  <2>3. CASE h \notin DOMAIN completed
    BY <1>1, <1>3, <2>1, <2>3 DEF TypeOK
  <2> QED BY <2>2, <2>3
<1>6. /\ downstream' \in Seq(DownstreamEvent)
      /\ pendingDownstream' \in Seq(DownstreamEvent)
      /\ downstreamSet' = downstreamSet
      /\ NothingHeldBack'
      /\ Produced' = Produced \o <<e>>
  <2> HIDE DEF e
  <2> QED BY <1>1, <1>3, <1>4, Sending DEF TypeInv, TypeOK
<1>7. TypeOK'
  <2> HIDE DEF b, h, st, e
  <2> QED BY <1>1, <1>3, <1>4, <1>5, <1>6 DEF TypeOK, CompletedOK
<1>8. /\ HoldsOffsets(pendingApplied', "applied", txLog')
      /\ HoldsOffsets(pendingUnapplied', "unapplied", txLog')
  BY <1>3, <1>4 DEF TypeInv
<1> QED
  BY <1>3, <1>4, <1>6, <1>7, <1>8 DEF TypeInv

(* The block messages that change nothing but the read index.              *)
QuietBlockStep == SkipMalformedBlock \/ SkipDuplicateApply \/ DropApplyOnNodeError

LEMMA QuietBlockTyping ==
  ASSUME TypeInv, QuietBlockStep
  PROVE  /\ TypeInv'
         /\ UNCHANGED <<sendVars, emittedBlocks, blockLog, chain,
                        lastProcessedHeight, completed>>
         /\ blockIdx' = blockIdx + 1
         /\ blockIdx \in 1..Len(blockLog)
         /\ blockLog[blockIdx].kind \in {"apply", "malformed"}
<1>1. PICK kind \in {"apply", "malformed"} : NextBlock(kind)
  BY DEF QuietBlockStep, SkipMalformedBlock, SkipDuplicateApply, DropApplyOnNodeError
<1>2. UNCHANGED <<lastProcessedHeight, tipHeight, completed, bufferVars, sendVars>>
  BY DEF QuietBlockStep, SkipMalformedBlock, SkipDuplicateApply, DropApplyOnNodeError
<1>3. TypeOK
  BY DEF TypeInv
<1>4. /\ blockIdx \in 1..Len(blockLog) /\ blockIdx' = blockIdx + 1
      /\ FeedTypeOK' /\ UNCHANGED <<txLog, blockLog, chain>>
  BY <1>1, <1>3, NextBlockTyping
<1>5. UNCHANGED <<running, txIdx, mempoolIdx, lastBlockOffset, lastTxOffset,
                  cursorLoaded>>
      /\ blockLog[blockIdx].kind \in {"apply", "malformed"}
  BY <1>1 DEF NextBlock
<1>6. TypeOK'
  BY <1>2, <1>3, <1>4, <1>5 DEF TypeOK, bufferVars, sendVars
<1>7. NothingHeldBack'
  BY <1>2, SendingNothing DEF TypeInv
<1> QED
  BY <1>2, <1>4, <1>5, <1>6, <1>7 DEF TypeInv, bufferVars

LEMMA MempoolTyping ==
  ASSUME TypeInv, HandleMempoolMessage
  PROVE  /\ TypeInv'
         /\ UNCHANGED <<emittedBlocks, blockIdx, blockLog, chain,
                        lastProcessedHeight, completed>>
         /\ \/ Produced' = Produced
            \/ \E e \in DownstreamEvent :
                 /\ e.type \in {"accepted", "withdrawn"}
                 /\ Produced' = Produced \o <<e>>
<1>1. TypeOK /\ NextMempool
  BY DEF TypeInv, HandleMempoolMessage, DropMempoolMessage, ForwardMempoolMessage
<1>2. /\ mempoolIdx \in 1..Len(mempoolLog) /\ mempoolIdx' = mempoolIdx + 1
      /\ FeedTypeOK'
      /\ UNCHANGED <<txLog, blockLog, chain, running, blockIdx, txIdx,
                     lastBlockOffset, lastTxOffset, lastProcessedHeight, tipHeight,
                     cursorLoaded, completed, pendingApplied, pendingUnapplied,
                     emittedBlocks, processedTxOffsets>>
  BY <1>1 DEF NextMempool, TypeOK, FeedTypeOK, feedVars, cursorVars
<1>3. CASE DropMempoolMessage
  <2>1. UNCHANGED <<processedMempoolOffsets, sendVars>>
    BY <1>3 DEF DropMempoolMessage
  <2>2. Produced' = Produced /\ NothingHeldBack'
    BY <2>1, SendingNothing DEF TypeInv
  <2>3. TypeOK'
    BY <1>1, <1>2, <2>1 DEF TypeOK, sendVars
  <2> QED BY <1>2, <2>2, <2>3 DEF TypeInv
<1>4. CASE ForwardMempoolMessage
  <2> DEFINE m == mempoolLog[mempoolIdx]
             e == Event(m.kind, Root, m.tx, mempoolIdx, FALSE)
  <2>1. /\ m.kind # "malformed"
        /\ processedMempoolOffsets' = processedMempoolOffsets \cup {mempoolIdx}
        /\ SendDownstream(<<e>>)
    BY <1>4 DEF ForwardMempoolMessage
  <2>2. m \in MempoolMessage /\ mempoolIdx \in Nat
    BY <1>1, <1>2 DEF TypeOK, FeedTypeOK
  <2>3. e \in DownstreamEvent /\ e.type \in {"accepted", "withdrawn"}
    BY <2>1, <2>2 DEF MempoolMessage, Event, DownstreamEvent
  <2> HIDE DEF m, e
  <2>4. /\ downstream' \in Seq(DownstreamEvent)
        /\ pendingDownstream' \in Seq(DownstreamEvent)
        /\ downstreamSet' = downstreamSet
        /\ NothingHeldBack'
        /\ Produced' = Produced \o <<e>>
    <3>1. <<e>> \in Seq(DownstreamEvent)
      BY <2>3
    <3> QED BY <1>1, <2>1, <3>1, Sending DEF TypeInv, TypeOK
  <2>5. TypeOK'
    BY <1>1, <1>2, <2>1, <2>2, <2>4 DEF TypeOK
  <2> QED BY <1>2, <2>3, <2>4, <2>5 DEF TypeInv
<1> QED
  BY <1>3, <1>4 DEF HandleMempoolMessage

(* Starting, SetDownstream, a reader restart and the feed change neither   *)
(* what has been produced nor the cursor.                                  *)
ControlStep ==
  \/ StartKafka \/ SetDownstream
  \/ \E topic \in RestartTopics : RestartReader(topic)

LEMMA ControlTyping ==
  ASSUME TypeInv, ControlStep
  PROVE  /\ TypeInv'
         /\ Produced' = Produced
         /\ UNCHANGED <<emittedBlocks, blockLog, chain, lastProcessedHeight, completed>>
         /\ "block" \notin RestartTopics => UNCHANGED blockIdx
<1>1. TypeOK /\ NothingHeldBack
  BY DEF TypeInv
<1>2. CASE StartKafka
  <2>1. mempoolIdx' \in Nat \ {0}
    BY <1>1, <1>2 DEF StartKafka, TypeOK, FeedTypeOK
  <2>2. tipHeight' \in Int
    BY <1>1, <1>2, NodeHeightTyping DEF StartKafka, TypeOK
  <2> QED
    BY <1>1, <1>2, <2>1, <2>2, SendingNothing
       DEF StartKafka, TypeInv, TypeOK, FeedTypeOK, feedVars, bufferVars, sendVars
<1>3. CASE SetDownstream
  <2>1. Produced' = Produced
    BY <1>1, <1>3, ConcatEmptySeq DEF SetDownstream, Produced, TypeOK
  <2> QED
    BY <1>1, <1>3, <2>1
       DEF SetDownstream, TypeInv, TypeOK, FeedTypeOK, NothingHeldBack,
           feedVars, readerVars, cursorVars, bufferVars
<1>4. ASSUME NEW topic \in RestartTopics, RestartReader(topic)
      PROVE  /\ TypeInv'
             /\ Produced' = Produced
             /\ UNCHANGED <<emittedBlocks, blockLog, chain, lastProcessedHeight, completed>>
             /\ "block" \notin RestartTopics => UNCHANGED blockIdx
  <2>1. /\ blockIdx' \in Nat \ {0} /\ txIdx' \in Nat \ {0}
        /\ mempoolIdx' \in Nat \ {0}
    BY <1>1, <1>4 DEF RestartReader, ResumeOffset, TypeOK, FeedTypeOK
  <2> QED
    BY <1>1, <1>4, <2>1, SendingNothing
       DEF RestartReader, TypeInv, TypeOK, FeedTypeOK, feedVars, cursorVars,
           bufferVars, sendVars
<1> QED
  BY <1>2, <1>3, <1>4 DEF ControlStep

LEMMA FeedStepTyping ==
  ASSUME TypeInv, FeedNext, UNCHANGED indexerVars
  PROVE  TypeInv' /\ Produced' = Produced
<1>1. FeedTypeOK' /\ IsGrownFrom(txLog', txLog)
  BY FeedTyping DEF TypeInv, TypeOK
<1>2. TypeOK'
  BY <1>1 DEF TypeInv, TypeOK, indexerVars, readerVars, cursorVars, bufferVars, sendVars
<1>3. /\ HoldsOffsets(pendingApplied, "applied", txLog')
      /\ HoldsOffsets(pendingUnapplied, "unapplied", txLog')
  <2>1. Len(txLog) \in Nat /\ Len(txLog') \in Nat
    BY <1>1 DEF TypeInv, TypeOK, FeedTypeOK
  <2> QED
    BY <1>1, <2>1, HoldsAfterGrowth DEF TypeInv, TypeOK
<1>4. UNCHANGED <<pendingApplied, pendingUnapplied, sendVars>>
  BY DEF indexerVars, bufferVars
<1> QED
  BY <1>2, <1>3, <1>4, SendingNothing DEF TypeInv

LEMMA TypeInvInit == Init => TypeInv
<1> SUFFICES ASSUME Init PROVE TypeInv
  OBVIOUS
<1>1. FeedTypeOK
  BY DEF Init, FeedInit, FeedTypeOK
<1>2. lastProcessedHeight \in Heights
  BY IndexerAssumption, FeedAssumption DEF Init, Heights
<1>3. DOMAIN completed = {}
  BY DEF Init
<1>4. /\ pendingApplied \in [Blocks -> Seq(Nat)]
      /\ pendingUnapplied \in [Blocks -> Seq(Nat)]
  BY DEF Init
<1>5. pendingDownstream \in Seq(DownstreamEvent) /\ downstream \in Seq(DownstreamEvent)
  BY DEF Init
<1>6. TypeOK
  <2>4. running \in BOOLEAN /\ cursorLoaded \in BOOLEAN /\ downstreamSet \in BOOLEAN
    BY Zenon DEF Init
  <2>1. /\ blockIdx \in Nat \ {0} /\ txIdx \in Nat \ {0} /\ mempoolIdx \in Nat \ {0}
        /\ lastBlockOffset \in Nat /\ lastTxOffset \in Nat /\ tipHeight \in Int
    BY DEF Init
  <2>2. /\ emittedBlocks \subseteq Blocks
        /\ processedTxOffsets \subseteq Nat /\ processedMempoolOffsets \subseteq Nat
    BY DEF Init
  <2>3. /\ DOMAIN completed \subseteq Heights
        /\ \A h \in DOMAIN completed : completed[h] \in BlockState
    BY <1>3
  <2> QED BY <1>1, <1>2, <1>4, <1>5, <2>1, <2>2, <2>3, <2>4 DEF TypeOK
<1> QED
  BY <1>6 DEF Init, TypeInv, HoldsOffsets, NothingHeldBack

(* Every step is one of those above.                                       *)
LEMMA StepCases ==
  ASSUME Next
  PROVE  \/ FeedNext /\ UNCHANGED indexerVars
         \/ ControlStep
         \/ QuietBlockStep \/ EmitBlockApply \/ EmitBlockUnapply
         \/ QuietTxStep \/ ProcessAppliedTx \/ ProcessUnappliedTx
         \/ HandleMempoolMessage
BY DEF Next, HandleBlockMessage, HandleTxMessage, ControlStep, QuietBlockStep,
       QuietTxStep

LEMMA TypeInvStep == TypeInv /\ [Next]_vars => TypeInv'
<1> SUFFICES ASSUME TypeInv, [Next]_vars PROVE TypeInv'
  OBVIOUS
<1>1. CASE UNCHANGED vars
  BY <1>1 DEF TypeInv, TypeOK, FeedTypeOK, NothingHeldBack, vars, feedVars,
              indexerVars, readerVars, cursorVars, bufferVars, sendVars
<1>2. CASE Next
  BY <1>2, StepCases, FeedStepTyping, ControlTyping, QuietBlockTyping,
     EmitBlockApplyStep, EmitBlockUnapplyStep, QuietTxTyping, SendingTxTyping,
     MempoolTyping
<1> QED BY <1>1, <1>2

LEMMA TypeInvariant == Spec => []TypeInv
<1>1. Init => TypeInv
  BY TypeInvInit
<1>2. TypeInv /\ [Next]_vars => TypeInv'
  BY TypeInvStep
<1> QED BY <1>1, <1>2, PTL DEF Spec

(* The topics and the actor's state keep their types: the cursor stays     *)
(* among the known heights and every buffered offset is one of its topic.  *)
THEOREM TypeCorrect == Spec => []TypeOK
<1>1. TypeInv => TypeOK
  BY DEF TypeInv
<1> QED BY <1>1, TypeInvariant, PTL

-------------------------------------------------------------------------------
(* The cursor.                                                             *)

CursorInv == TypeInv /\ CursorTight

(* Wherever tryAdvanceCursor stops, the next height is not done.           *)
LEMMA AdvanceIsTight ==
  ASSUME NEW comp, CompletedOK(comp), lastProcessedHeight \in Heights,
         TryAdvanceCursor(comp)
  PROVE  ~DoneAt(Remaining(comp), lastProcessedHeight' + 1)
<1>1. PICK k \in lastProcessedHeight..MaxHeight :
        CursorStopsAt(comp, k) /\ lastProcessedHeight' = k
  BY DEF TryAdvanceCursor
<1>2. k \in Int /\ lastProcessedHeight \in Int
  BY FeedAssumption DEF Heights
<1>3. ~DoneAt(comp, k + 1)
  BY <1>1 DEF CursorStopsAt
<1> QED
  BY <1>1, <1>2, <1>3 DEF DoneAt, Remaining

LEMMA PruningKeepsTight ==
  ASSUME NEW comp, NEW h, ~DoneAt(comp, h),
         DOMAIN completed' \subseteq DOMAIN comp,
         \A k \in DOMAIN completed' : completed'[k] = comp[k]
  PROVE  ~DoneAt(completed', h)
BY DEF DoneAt

LEMMA BlockStateUpdates ==
  ASSUME NEW st \in BlockState
  PROVE  /\ [st EXCEPT !.seen = @ + 1] \in BlockState
         /\ [st EXCEPT !.rollback = TRUE] \in BlockState
<1>1. st.seen + 1 \in Nat
  BY DEF BlockState
<1>2. [st EXCEPT !.seen = @ + 1] \in BlockState
  BY <1>1 DEF BlockState
<1>3. [st EXCEPT !.rollback = TRUE] \in BlockState
  BY Zenon DEF BlockState
<1> QED BY <1>2, <1>3

LEMMA CursorTightStep ==
  ASSUME TypeInv, CursorTight, Next
  PROVE  CursorTight'
<1>1. TypeOK /\ lastProcessedHeight \in Heights /\ CompletedOK(completed)
  BY DEF TypeInv, TypeOK, CompletedOK
<1>2. ASSUME UNCHANGED <<lastProcessedHeight, completed>>
      PROVE  CursorTight'
  BY <1>2 DEF CursorTight
<1>3. CASE EmitBlockApply
  <2> DEFINE b == blockLog[blockIdx].block
             h == HeightOf[b]
             st == StateAfterReplay(b)
             comp == SetState(completed, h, st)
             pa == [pendingApplied EXCEPT ![b] = <<>>]
             pu == [pendingUnapplied EXCEPT ![b] = <<>>]
  <2>1. b \in Blocks
    BY <1>3, EmitBlockApplyStep
  <2>2. /\ (IF NumTxs(b) = 0 \/ pendingApplied[b] # <<>> \/ pendingUnapplied[b] # <<>>
             THEN TryAdvanceCursor(comp) ELSE UNCHANGED lastProcessedHeight)
        /\ PruneOldBuffers(pa, pu, emittedBlocks \cup {b}, Remaining(comp))
    BY <1>3 DEF EmitBlockApply
  <2>3. CompletedOK(comp)
    <3>1. st \in BlockState
      BY <1>1, <2>1, HeightTyping DEF StateAfterReplay, BlockState, TypeOK
    <3> QED
      BY <1>1, <2>1, <3>1, HeightTyping, SetStateTyping
  <2>4. CompletedOK(Remaining(comp)) /\ ~DoneAt(Remaining(comp), lastProcessedHeight' + 1)
    <3>1. CASE TryAdvanceCursor(comp)
      <4> HIDE DEF comp
      <4> QED BY <1>1, <2>3, <3>1, AdvanceTyping, AdvanceIsTight
    <3>2. CASE /\ NumTxs(b) # 0 /\ pendingApplied[b] = <<>> /\ pendingUnapplied[b] = <<>>
               /\ UNCHANGED lastProcessedHeight
      <4>1. st.seen = 0 /\ st.expected = NumTxs(b) /\ ~st.rollback
        <5>1. Len(pendingApplied[b]) = 0 /\ NumTxs(b) \in Nat
          BY <2>1, <3>2, HeightTyping
        <5>2. ~(1 <= NumTxs(b) /\ NumTxs(b) <= Len(pendingApplied[b]))
          BY <5>1
        <5>3. st = [expected |-> NumTxs(b), seen |-> Len(pendingApplied[b]),
                    rollback |-> pendingUnapplied[b] # <<>>]
          BY <5>2, Zenon DEF StateAfterReplay
        <5> HIDE DEF st, pa, pu, comp
        <5> QED BY <3>2, <5>1, <5>3
      <4>2. ~Done(st)
        <5> HIDE DEF st, pa, pu, comp
        <5> QED BY <3>2, <4>1 DEF Done
      <4>3. ~DoneAt(comp, lastProcessedHeight + 1)
        BY <4>2 DEF DoneAt, SetState, CursorTight
      <4> HIDE DEF comp
      <4> QED
        BY <1>1, <2>3, <3>2, <4>3 DEF DoneAt, Remaining, CompletedOK, Heights
    <3> QED BY <2>2, <3>1, <3>2
  <2> DEFINE rem == Remaining(comp)
  <2>5. DOMAIN completed' \subseteq DOMAIN rem
        /\ \A k \in DOMAIN completed' : completed'[k] = rem[k]
    <3> DEFINE em == emittedBlocks \cup {b}
    <3> HIDE DEF rem, comp, pa, pu, em
    <3>1. PruneOldBuffers(pa, pu, em, rem)
      BY <2>2 DEF rem, em
    <3> QED BY <3>1, PruningShrinks
  <2> HIDE DEF comp
  <2> QED
    BY <2>4, <2>5, PruningKeepsTight DEF CursorTight
<1>4. CASE EmitBlockUnapply
  <2> DEFINE b == blockLog[blockIdx].block
             h == HeightOf[b]
             st == IF h \in DOMAIN completed
                   THEN [completed[h] EXCEPT !.rollback = TRUE]
                   ELSE [expected |-> NumTxs(b), seen |-> 0, rollback |-> TRUE]
             comp == SetState(completed, h, st)
             pu == [pendingUnapplied EXCEPT ![b] = <<>>]
  <2>1. b \in Blocks
    BY <1>4, EmitBlockUnapplyStep
  <2>2. /\ TryAdvanceCursor(comp)
        /\ PruneOldBuffers(pendingApplied, pu, emittedBlocks \ {b}, Remaining(comp))
    BY <1>4 DEF EmitBlockUnapply, EmittedAfterUnapply
  <2>3. CompletedOK(comp)
    <3>1. st \in BlockState
      BY <1>1, <2>1, HeightTyping DEF BlockState, CompletedOK
    <3> HIDE DEF st
    <3> QED BY <1>1, <2>1, <3>1, HeightTyping, SetStateTyping
  <2> DEFINE rem == Remaining(comp)
  <2>4. CompletedOK(rem) /\ ~DoneAt(rem, lastProcessedHeight' + 1)
    <3> HIDE DEF comp
    <3> QED BY <1>1, <2>2, <2>3, AdvanceTyping, AdvanceIsTight
  <2>5. DOMAIN completed' \subseteq DOMAIN rem
        /\ \A k \in DOMAIN completed' : completed'[k] = rem[k]
    <3> DEFINE em == emittedBlocks \ {b}
    <3>1. PruneOldBuffers(pendingApplied, pu, em, rem)
      BY <2>2
    <3> HIDE DEF rem, comp, pu, em
    <3> QED BY <3>1, PruningShrinks
  <2> HIDE DEF rem
  <2> QED BY <2>4, <2>5, PruningKeepsTight DEF CursorTight
<1>5. CASE ProcessAppliedTx \/ ProcessUnappliedTx
  <2> DEFINE h == HeightOf[txLog[txIdx].block]
  <2>1. \/ UNCHANGED <<lastProcessedHeight, completed>>
        \/ \E st : /\ h \in DOMAIN completed
                   /\ st \in BlockState
                   /\ TryAdvanceCursor(SetState(completed, h, st))
                   /\ completed' = Remaining(SetState(completed, h, st))
    <3>1. CASE h \notin DOMAIN completed
      BY <1>5, <3>1 DEF ProcessAppliedTx, ProcessUnappliedTx
    <3>2. CASE h \in DOMAIN completed
      <4>1. completed[h] \in BlockState
        BY <1>1, <3>2 DEF CompletedOK
      <4>2. /\ [completed[h] EXCEPT !.seen = @ + 1] \in BlockState
            /\ [completed[h] EXCEPT !.rollback = TRUE] \in BlockState
        BY <4>1, BlockStateUpdates
      <4>3. CASE ProcessAppliedTx
        <5> DEFINE st == [completed[h] EXCEPT !.seen = @ + 1]
        <5>1. /\ TryAdvanceCursor(SetState(completed, h, st))
              /\ completed' = Remaining(SetState(completed, h, st))
          BY <3>2, <4>3 DEF ProcessAppliedTx
        <5> HIDE DEF st
        <5> QED BY <3>2, <4>2, <5>1 DEF st
      <4>4. CASE ProcessUnappliedTx
        <5> DEFINE st == [completed[h] EXCEPT !.rollback = TRUE]
        <5>1. /\ TryAdvanceCursor(SetState(completed, h, st))
              /\ completed' = Remaining(SetState(completed, h, st))
          BY <3>2, <4>4 DEF ProcessUnappliedTx
        <5> HIDE DEF st
        <5> QED BY <3>2, <4>2, <5>1 DEF st
      <4> QED BY <1>5, <4>3, <4>4
    <3> QED BY <3>1, <3>2
  <2>2. ASSUME NEW st \in BlockState, h \in DOMAIN completed,
               TryAdvanceCursor(SetState(completed, h, st)),
               completed' = Remaining(SetState(completed, h, st))
        PROVE  CursorTight'
    <3>1. CompletedOK(SetState(completed, h, st))
      BY <1>1, <2>2, SetStateTyping DEF CompletedOK
    <3> QED
      BY <1>1, <2>2, <3>1, AdvanceIsTight DEF CursorTight
  <2> QED BY <1>2, <2>1, <2>2
<1>6. CASE \/ ControlStep \/ QuietBlockStep \/ QuietTxStep \/ HandleMempoolMessage
           \/ FeedNext /\ UNCHANGED indexerVars
  <2>1. UNCHANGED <<lastProcessedHeight, completed>>
    BY <1>6, ControlTyping, QuietBlockTyping, QuietTxTyping, MempoolTyping
       DEF indexerVars, cursorVars
  <2> QED BY <1>2, <2>1
<1> QED
  BY <1>3, <1>4, <1>5, <1>6, StepCases

(* No wake-up of the cursor is missed: whatever completes the next height, *)
(* a block, a replayed or live transaction or a rollback, also moves the   *)
(* cursor past it, for every interleaving of the topics.                   *)
THEOREM CursorIsTight == Spec => []CursorTight
<1>1. Init => CursorTight
  BY DEF Init, CursorTight, DoneAt
<1>2. TypeInv /\ CursorTight /\ [Next]_vars => CursorTight'
  <2>1. CASE UNCHANGED vars
    BY <2>1 DEF CursorTight, vars, indexerVars, cursorVars
  <2>2. CASE Next
    BY <2>2, CursorTightStep
  <2> QED BY <2>1, <2>2
<1> QED BY <1>1, <1>2, TypeInvariant, PTL DEF Spec

-------------------------------------------------------------------------------
(* TxWithinItsBlock: the inductive invariant.                              *)

(* What is emitted and not rolled back is on the chain the reader is at.   *)
IndexInv ==
  /\ blockIdx \in 1..(Len(blockLog) + 1)
  /\ emittedBlocks \subseteq Before(blockIdx)

(* What is emitted and not rolled back is open for the strategies.         *)
OpenInv == \A b \in emittedBlocks : OpenAt(Produced, Len(Produced), b)

(* TxWithinItsBlock, of everything produced so far.                        *)
TxInv ==
  \A i \in 1..Len(Produced) :
    Produced[i].type = "tx" => OpenAt(Produced, i, Produced[i].block)

OrderInv == ChainInv /\ LogInv /\ IndexInv /\ OpenInv /\ TxInv

-------------------------------------------------------------------------------
(* Open blocks.                                                            *)

(* What is open after s stays open while nothing that follows closes it.   *)
LEMMA OpenExtends ==
  ASSUME NEW s \in Seq(DownstreamEvent), NEW t \in Seq(DownstreamEvent), NEW b,
         OpenAt(s, Len(s), b),
         NEW n \in 0..Len(t),
         \A k \in 1..n : ~Closes(t[k], b)
  PROVE  OpenAt(s \o t, Len(s) + n, b)
<1>1. PICK j \in 1..Len(s) : /\ s[j].type = "block" /\ s[j].block = b
                             /\ \A k \in (j + 1)..Len(s) : ~Closes(s[k], b)
  BY DEF OpenAt
<1>2. /\ \A k \in 1..Len(s) : (s \o t)[k] = s[k]
      /\ \A k \in 1..n : (s \o t)[Len(s) + k] = t[k]
      /\ Len(s) \in Nat /\ n \in Nat /\ j \in Nat
  OBVIOUS
<1>3. ASSUME NEW k \in (j + 1)..(Len(s) + n)
      PROVE  ~Closes((s \o t)[k], b)
  <2>1. CASE k <= Len(s)
    BY <1>1, <1>2, <2>1
  <2>2. CASE k > Len(s)
    <3>1. k - Len(s) \in 1..n /\ k = Len(s) + (k - Len(s))
      BY <1>2, <2>2
    <3>2. (s \o t)[k] = t[k - Len(s)]
      BY <1>2, <3>1
    <3> QED BY <3>1, <3>2
  <2> QED BY <1>2, <2>1, <2>2
<1>4. j \in 1..(Len(s) + n) /\ (s \o t)[j] = s[j]
  BY <1>2
<1> HIDE DEF OpenAt
<1> QED BY <1>1, <1>3, <1>4 DEF OpenAt

LEMMA OpenKept ==
  ASSUME NEW s \in Seq(DownstreamEvent), NEW t \in Seq(DownstreamEvent), NEW b,
         NEW i \in 1..Len(s)
  PROVE  OpenAt(s \o t, i, b) <=> OpenAt(s, i, b)
<1>1. \A k \in 1..i : (s \o t)[k] = s[k]
  OBVIOUS
<1>2. \A j \in 1..i : j + 1 \in 1..(i + 1) /\ \A k \in (j + 1)..i : k \in 1..i
  OBVIOUS
<1> QED BY <1>1, <1>2 DEF OpenAt

(* Events that close nothing preserve the invariants.                      *)
LEMMA TxInvExtends ==
  ASSUME NEW t \in Seq(DownstreamEvent), Produced \in Seq(DownstreamEvent),
         TxInv, Produced' = Produced \o t,
         \A n \in 1..Len(t) :
           t[n].type = "tx" => OpenAt(Produced', Len(Produced) + n, t[n].block)
  PROVE  TxInv'
<1>1. /\ \A k \in 1..Len(Produced) : Produced'[k] = Produced[k]
      /\ \A k \in 1..Len(t) : Produced'[Len(Produced) + k] = t[k]
      /\ Len(Produced') = Len(Produced) + Len(t)
      /\ Len(Produced) \in Nat /\ Len(t) \in Nat
  OBVIOUS
<1>2. ASSUME NEW i \in 1..Len(Produced'), Produced'[i].type = "tx"
      PROVE  OpenAt(Produced', i, Produced'[i].block)
  <2>1. CASE i <= Len(Produced)
    <3>1. i \in 1..Len(Produced) /\ Produced'[i] = Produced[i]
      BY <1>1, <2>1
    <3>2. OpenAt(Produced, i, Produced[i].block)
      BY <1>2, <3>1 DEF TxInv
    <3> QED BY <3>1, <3>2, OpenKept
  <2>2. CASE i > Len(Produced)
    <3> DEFINE n == i - Len(Produced)
    <3>1. n \in 1..Len(t) /\ i = Len(Produced) + n
      BY <1>1, <2>2
    <3> QED BY <1>1, <1>2, <3>1
  <2> QED BY <1>1, <2>1, <2>2
<1> QED BY <1>2 DEF TxInv

(* A header followed by two sequences of events that close nothing.        *)
LEMMA HeadedEvents ==
  ASSUME NEW Q, NEW e, NEW y \in Seq(Q), NEW z \in Seq(Q)
  PROVE  /\ Len(<<e>> \o y \o z) \in Nat \ {0}
         /\ (<<e>> \o y \o z)[1] = e
         /\ \A k \in 2..Len(<<e>> \o y \o z) : (<<e>> \o y \o z)[k] \in Q
<1> DEFINE t == y \o z
<1>1. t \in Seq(Q) /\ Len(t) \in Nat
  OBVIOUS
<1>2. <<e>> \o y \o z = <<e>> \o t
  <2> DEFINE U == Q \cup {e}
  <2>1. <<e>> \in Seq(U) /\ y \in Seq(U) /\ z \in Seq(U)
    OBVIOUS
  <2> HIDE DEF U
  <2> QED BY <2>1, ConcatAssociative
<1> HIDE DEF t
<1>3. Len(<<e>> \o t) = Len(t) + 1
  BY <1>1
<1>4. (<<e>> \o t)[1] = e
  BY <1>1
<1>5. ASSUME NEW k \in 2..Len(<<e>> \o t)
      PROVE  (<<e>> \o t)[k] \in Q
  <2>1. k - 1 \in 1..Len(t) /\ (<<e>> \o t)[k] = t[k - 1]
    BY <1>1, <1>3
  <2> QED BY <1>1, <2>1
<1> QED BY <1>1, <1>2, <1>3, <1>4, <1>5

TxEventsOf(b) ==
  {e \in DownstreamEvent : e.type \in {"tx", "unappliedTx"} /\ e.block = b}

(* What is replayed from a block's buffers are events of that block.       *)
LEMMA ReplayedEvents ==
  ASSUME TypeInv, NEW b \in Blocks
  PROVE  /\ [i \in 1..Len(pendingApplied[b]) |-> TxEventAt(pendingApplied[b][i])]
              \in Seq(TxEventsOf(b))
         /\ [i \in 1..Len(pendingUnapplied[b]) |->
               UnappliedEventAt(pendingUnapplied[b][i])] \in Seq(TxEventsOf(b))
<1>1. ASSUME NEW o \in 1..Len(txLog), txLog[o].block = b, txLog[o].kind # "malformed"
      PROVE  TxEventAt(o) \in TxEventsOf(b) /\ UnappliedEventAt(o) \in TxEventsOf(b)
  <2>1. txLog[o] \in TxMessage
    BY DEF TypeInv, TypeOK, FeedTypeOK
  <2>2. txLog[o].tx \in Txs
    BY <1>1, <2>1 DEF TxMessage
  <2>3. o \in Nat
    BY DEF TypeInv, TypeOK, FeedTypeOK
  <2> QED
    BY <1>1, <2>2, <2>3
       DEF TxEventAt, UnappliedEventAt, Event, DownstreamEvent, TxEventsOf
<1>2. ASSUME NEW i \in 1..Len(pendingApplied[b])
      PROVE  TxEventAt(pendingApplied[b][i]) \in TxEventsOf(b)
  BY <1>1 DEF TypeInv, HoldsOffsets
<1>3. ASSUME NEW i \in 1..Len(pendingUnapplied[b])
      PROVE  UnappliedEventAt(pendingUnapplied[b][i]) \in TxEventsOf(b)
  BY <1>1 DEF TypeInv, HoldsOffsets
<1>4. Len(pendingApplied[b]) \in Nat /\ Len(pendingUnapplied[b]) \in Nat
  BY DEF TypeInv, TypeOK
<1> QED
  BY <1>2, <1>3, <1>4

LEMMA ProducedTyping ==
  ASSUME TypeInv
  PROVE  Produced \in Seq(DownstreamEvent) /\ Len(Produced) \in Nat
BY DEF TypeInv, TypeOK, Produced

LEMMA SeqOfSubset ==
  ASSUME NEW S, NEW T, S \subseteq T, NEW s \in Seq(S)
  PROVE  s \in Seq(T)
OBVIOUS

LEMMA TxEventsCloseNothing ==
  ASSUME NEW e, NEW b, e \in TxEventsOf(b), NEW c
  PROVE  ~Closes(e, c) /\ e \in DownstreamEvent /\ e.block = b
BY DEF Closes, TxEventsOf

-------------------------------------------------------------------------------
(* The steps that send.                                                    *)

(* The chain just after the block message the reader is at.                *)
LEMMA NextBefore ==
  ASSUME TypeInv, LogInv, NEW kind \in {"apply", "unapply", "malformed"},
         NextBlock(kind)
  PROVE  /\ Before(blockIdx)' = blockLog[blockIdx].chain
         /\ blockLog[blockIdx].kind = kind
         /\ LinkOK(blockIdx)
         /\ blockIdx' \in 1..(Len(blockLog') + 1)
<1>1. /\ blockIdx \in 1..Len(blockLog) /\ blockIdx' = blockIdx + 1
      /\ blockLog' = blockLog /\ Len(blockLog) \in Nat
  BY NextBlockTyping DEF TypeInv, TypeOK, FeedTypeOK
<1>2. Before(blockIdx)' = blockLog[blockIdx].chain
  BY <1>1 DEF Before
<1>3. blockLog[blockIdx].kind = kind
  BY DEF NextBlock
<1> QED BY <1>1, <1>2, <1>3 DEF LogInv

LEMMA BlockApplyOrder ==
  ASSUME TypeInv, OrderInv, EmitBlockApply
  PROVE  IndexInv' /\ OpenInv' /\ TxInv'
<1> DEFINE b == blockLog[blockIdx].block
           e == Event("block", b, Root, blockIdx, tipHeight' = HeightOf[b])
           txs == [i \in 1..Len(pendingApplied[b]) |-> TxEventAt(pendingApplied[b][i])]
           untxs == [i \in 1..Len(pendingUnapplied[b]) |->
                       UnappliedEventAt(pendingUnapplied[b][i])]
           t == <<e>> \o txs \o untxs
<1>1. /\ b \in Blocks
      /\ emittedBlocks' \subseteq emittedBlocks \cup {b}
      /\ Produced' = Produced \o t
  BY EmitBlockApplyStep
<1>2. NextBlock("apply")
  BY DEF EmitBlockApply
<1>3. /\ Before(blockIdx)' = Before(blockIdx) \cup {b}
      /\ Higher(b, Before(blockIdx))
      /\ blockIdx' \in 1..(Len(blockLog') + 1)
  BY <1>2, NextBefore DEF OrderInv, LinkOK
<1>4. IndexInv'
  BY <1>1, <1>3 DEF OrderInv, IndexInv
<1>5. txs \in Seq(TxEventsOf(b)) /\ untxs \in Seq(TxEventsOf(b))
  BY <1>1, ReplayedEvents
<1>6. e.type = "block" /\ e.block = b /\ e \in DownstreamEvent
  <2>1. blockIdx \in Nat
    BY DEF TypeInv, TypeOK
  <2> QED BY <1>1, <2>1 DEF Event, DownstreamEvent
<1> HIDE DEF b, e, txs, untxs
<1>7. /\ Len(t) \in Nat \ {0} /\ t[1] = e
      /\ \A k \in 2..Len(t) : t[k] \in TxEventsOf(b)
  BY <1>5, HeadedEvents
<1>8. t \in Seq(DownstreamEvent)
  <2>1. TxEventsOf(b) \subseteq DownstreamEvent
    BY DEF TxEventsOf
  <2>2. txs \in Seq(DownstreamEvent) /\ untxs \in Seq(DownstreamEvent)
    BY <1>5, <2>1, SeqOfSubset
  <2> QED BY <1>6, <2>2
<1>9. Produced \in Seq(DownstreamEvent) /\ Len(Produced) \in Nat
  BY ProducedTyping
<1> HIDE DEF t
<1>10. ASSUME NEW n \in 1..Len(t)
       PROVE  OpenAt(Produced', Len(Produced) + n, b)
  <2> DEFINE j == Len(Produced) + 1
  <2>1. j \in 1..(Len(Produced) + n) /\ Produced'[j] = e
    BY <1>1, <1>7, <1>8, <1>9
  <2>2. ASSUME NEW k \in (j + 1)..(Len(Produced) + n)
        PROVE  ~Closes(Produced'[k], b)
    <3>1. /\ k - Len(Produced) \in 2..Len(t)
          /\ Produced'[k] = t[k - Len(Produced)]
      BY <1>1, <1>7, <1>8, <1>9
    <3> QED BY <1>7, <3>1, TxEventsCloseNothing
  <2> HIDE DEF j
  <2> QED BY <1>6, <2>1, <2>2 DEF OpenAt
<1>11. ASSUME NEW c \in emittedBlocks, c # b
       PROVE  OpenAt(Produced', Len(Produced) + Len(t), c)
  <2>1. HeightOf[c] < HeightOf[b] /\ c \in Blocks
    BY <1>3, <1>11 DEF OrderInv, IndexInv, Higher, TypeInv, TypeOK
  <2>2. HeightOf[c] \in Int /\ HeightOf[b] \in Int
    BY <1>1, <2>1, HeightTyping DEF Heights
  <2>3. ~Closes(e, c)
    BY <1>6, <2>1, <2>2 DEF Closes
  <2>4. \A k \in 1..Len(t) : ~Closes(t[k], c)
    BY <1>7, <2>3, TxEventsCloseNothing
  <2>5. OpenAt(Produced, Len(Produced), c)
    BY <1>11 DEF OrderInv, OpenInv
  <2>6. Len(t) \in 0..Len(t)
    BY <1>7
  <2> QED BY <1>1, <1>8, <1>9, <2>4, <2>5, <2>6, OpenExtends
<1>12. OpenInv'
  <2>1. Len(Produced') = Len(Produced) + Len(t)
    BY <1>1, <1>8, <1>9
  <2>2. Len(t) \in 1..Len(t)
    BY <1>7
  <2> QED BY <1>1, <1>10, <1>11, <2>1, <2>2 DEF OpenInv
<1>13. TxInv'
  <2>1. ASSUME NEW n \in 1..Len(t), t[n].type = "tx"
        PROVE  t[n].block = b
    <3>1. CASE n = 1
      BY <1>6, <1>7, <3>1
    <3>2. CASE n # 1
      <4>1. n \in 2..Len(t)
        BY <1>7, <3>2
      <4> QED BY <1>7, <4>1 DEF TxEventsOf
    <3> QED BY <3>1, <3>2
  <2> QED
    BY <1>1, <1>8, <1>9, <1>10, <2>1, TxInvExtends DEF OrderInv
<1> QED BY <1>4, <1>12, <1>13

LEMMA BlockUnapplyOrder ==
  ASSUME TypeInv, OrderInv, EmitBlockUnapply
  PROVE  IndexInv' /\ OpenInv' /\ TxInv'
<1> DEFINE b == blockLog[blockIdx].block
           e == Event("rollback", b, Root, blockIdx, FALSE)
           untxs == [i \in 1..Len(pendingUnapplied[b]) |->
                       UnappliedEventAt(pendingUnapplied[b][i])]
           t == <<e>> \o untxs
<1>1. /\ b \in Blocks
      /\ emittedBlocks' \subseteq emittedBlocks \ {b}
      /\ Produced' = Produced \o t
  BY EmitBlockUnapplyStep
<1>2. NextBlock("unapply")
  BY DEF EmitBlockUnapply
<1>3. /\ Before(blockIdx)' = Before(blockIdx) \ {b}
      /\ Higher(b, Before(blockIdx) \ {b})
      /\ blockIdx' \in 1..(Len(blockLog') + 1)
  BY <1>2, NextBefore DEF OrderInv, LinkOK
<1>4. IndexInv'
  BY <1>1, <1>3 DEF OrderInv, IndexInv
<1>5. untxs \in Seq(TxEventsOf(b))
  BY <1>1, ReplayedEvents
<1>6. e.type = "rollback" /\ e.block = b /\ e \in DownstreamEvent
  <2>1. blockIdx \in Nat
    BY DEF TypeInv, TypeOK
  <2> QED BY <1>1, <2>1 DEF Event, DownstreamEvent
<1>7. \A i \in 1..Len(untxs) : untxs[i].type = "unappliedTx"
  <2>1. \A o : UnappliedEventAt(o).type = "unappliedTx"
    BY DEF UnappliedEventAt, Event
  <2> QED BY <2>1
<1> HIDE DEF b, e, untxs
<1>8. /\ Len(t) = Len(untxs) + 1 /\ Len(untxs) \in Nat
      /\ t[1] = e
      /\ \A k \in 2..Len(t) : t[k] = untxs[k - 1]
  BY <1>5
<1>9. t \in Seq(DownstreamEvent)
  <2>1. TxEventsOf(b) \subseteq DownstreamEvent
    BY DEF TxEventsOf
  <2>2. untxs \in Seq(DownstreamEvent)
    BY <1>5, <2>1, SeqOfSubset
  <2> QED BY <1>6, <2>2
<1>10. Produced \in Seq(DownstreamEvent) /\ Len(Produced) \in Nat
  BY ProducedTyping
<1> HIDE DEF t
<1>11. \A k \in 2..Len(t) : t[k].type = "unappliedTx"
  BY <1>7, <1>8
<1>12. ASSUME NEW c \in emittedBlocks'
       PROVE  OpenAt(Produced', Len(Produced) + Len(t), c)
  <2>1. HeightOf[c] < HeightOf[b] /\ c \in Blocks /\ c \in emittedBlocks
    BY <1>1, <1>3 DEF OrderInv, IndexInv, Higher, TypeInv, TypeOK
  <2>2. HeightOf[c] \in Int /\ HeightOf[b] \in Int
    BY <1>1, <2>1, HeightTyping DEF Heights
  <2>3. ~Closes(e, c)
    BY <1>6, <2>1, <2>2 DEF Closes
  <2>4. \A k \in 1..Len(t) : ~Closes(t[k], c)
    <3>1. ASSUME NEW k \in 1..Len(t), k # 1
          PROVE  ~Closes(t[k], c)
      <4>1. k \in 2..Len(t)
        BY <1>8, <3>1
      <4> QED BY <1>11, <4>1 DEF Closes
    <3> QED BY <1>8, <2>3, <3>1
  <2>5. OpenAt(Produced, Len(Produced), c)
    BY <2>1 DEF OrderInv, OpenInv
  <2>6. Len(t) \in 0..Len(t)
    BY <1>8
  <2> QED BY <1>1, <1>9, <1>10, <2>4, <2>5, <2>6, OpenExtends
<1>13. OpenInv'
  <2>1. Len(Produced') = Len(Produced) + Len(t)
    BY <1>1, <1>9, <1>10
  <2> QED BY <1>12, <2>1 DEF OpenInv
<1>14. TxInv'
  <2>1. \A n \in 1..Len(t) : t[n].type # "tx"
    <3>1. ASSUME NEW n \in 1..Len(t), n # 1
          PROVE  t[n].type # "tx"
      <4>1. n \in 2..Len(t)
        BY <1>8, <3>1
      <4> QED BY <1>11, <4>1
    <3> QED BY <1>6, <1>8, <3>1
  <2> QED
    BY <1>1, <1>9, <1>10, <2>1, TxInvExtends DEF OrderInv
<1> QED BY <1>4, <1>13, <1>14

(* One more event that closes nothing, of an open block if it is a         *)
(* transaction.                                                            *)
LEMMA OneEventOrder ==
  ASSUME TypeInv, OrderInv, NEW e \in DownstreamEvent,
         Produced' = Produced \o <<e>>, UNCHANGED emittedBlocks,
         e.type \notin {"block", "rollback"},
         e.type = "tx" => e.block \in emittedBlocks
  PROVE  OpenInv' /\ TxInv'
<1>1. Produced \in Seq(DownstreamEvent) /\ Len(Produced) \in Nat
  BY ProducedTyping
<1> DEFINE t == <<e>>
<1>2. t \in Seq(DownstreamEvent) /\ Len(t) = 1 /\ t[1] = e
  OBVIOUS
<1>3. Produced' = Produced \o t
  OBVIOUS
<1> HIDE DEF t
<1>4. ASSUME NEW c \in emittedBlocks
      PROVE  OpenAt(Produced', Len(Produced) + 1, c)
  <2>1. \A k \in 1..1 : ~Closes(t[k], c)
    BY <1>2 DEF Closes
  <2>2. OpenAt(Produced, Len(Produced), c)
    BY DEF OrderInv, OpenInv
  <2> QED BY <1>1, <1>2, <1>3, <2>1, <2>2, OpenExtends
<1>5. OpenInv'
  <2>1. Len(Produced') = Len(Produced) + 1
    BY <1>1, <1>2, <1>3
  <2> QED BY <1>4, <2>1 DEF OpenInv
<1>6. TxInv'
  BY <1>1, <1>2, <1>3, <1>4, TxInvExtends DEF OrderInv
<1> QED BY <1>5, <1>6

LEMMA SendingTxOrder ==
  ASSUME TypeInv, OrderInv, ProcessAppliedTx \/ ProcessUnappliedTx
  PROVE  OrderInv'
<1> DEFINE e == IF ProcessAppliedTx THEN TxEventAt(txIdx) ELSE UnappliedEventAt(txIdx)
<1>1. /\ UNCHANGED <<emittedBlocks, blockIdx, blockLog, chain>>
      /\ txLog[txIdx].block \in emittedBlocks
      /\ Produced' = Produced \o <<e>>
  BY SendingTxTyping
<1>2. <<TxEventAt(txIdx)>> \in Seq(DownstreamEvent)
      /\ <<UnappliedEventAt(txIdx)>> \in Seq(DownstreamEvent)
  BY TxTyping DEF TypeInv, ProcessAppliedTx, ProcessUnappliedTx
<1>3. TxEventAt(txIdx) \in DownstreamEvent /\ UnappliedEventAt(txIdx) \in DownstreamEvent
  <2> DEFINE p == TxEventAt(txIdx)
             q == UnappliedEventAt(txIdx)
  <2>1. <<p>>[1] = p /\ <<q>>[1] = q /\ 1 \in 1..Len(<<p>>) /\ 1 \in 1..Len(<<q>>)
    OBVIOUS
  <2> HIDE DEF p, q
  <2> QED BY <1>2, <2>1 DEF p, q
<1>4. /\ e \in DownstreamEvent
      /\ e.type \in {"tx", "unappliedTx"} /\ e.block = txLog[txIdx].block
  BY <1>3 DEF TxEventAt, UnappliedEventAt, Event
<1> HIDE DEF e
<1>5. OpenInv' /\ TxInv'
  BY <1>1, <1>4, OneEventOrder
<1> QED
  BY <1>1, <1>5 DEF OrderInv, ChainInv, NodeHeight, LogInv, LinkOK, IndexInv, Before

-------------------------------------------------------------------------------
(* The other steps, and the theorem.                                       *)

(* What neither sends nor touches the blocks only has to keep the index in *)
(* place.                                                                  *)
LEMMA UnsentOrder ==
  ASSUME TypeInv, OrderInv, Produced' = Produced, UNCHANGED emittedBlocks,
         ChainInv', LogInv', IndexInv'
  PROVE  OrderInv'
BY DEF OrderInv, OpenInv, TxInv

LEMMA SameChainOrder ==
  ASSUME TypeInv, OrderInv, UNCHANGED <<chain, blockLog>>
  PROVE  /\ ChainInv' /\ LogInv'
         /\ UNCHANGED <<blockIdx, emittedBlocks>> => IndexInv'
BY DEF OrderInv, ChainInv, NodeHeight, LogInv, LinkOK, IndexInv, Before

LEMMA QuietBlockOrder ==
  ASSUME TypeInv, OrderInv, QuietBlockStep
  PROVE  OrderInv'
<1>1. /\ UNCHANGED <<sendVars, emittedBlocks, blockLog, chain>>
      /\ blockLog[blockIdx].kind \in {"apply", "malformed"}
  BY QuietBlockTyping
<1>2. PICK kind \in {"apply", "malformed"} : NextBlock(kind)
  BY DEF QuietBlockStep, SkipMalformedBlock, SkipDuplicateApply, DropApplyOnNodeError
<1>3. /\ Before(blockIdx) \subseteq Before(blockIdx)'
      /\ blockIdx' \in 1..(Len(blockLog') + 1)
  BY <1>2, NextBefore DEF OrderInv, LinkOK
<1>4. IndexInv'
  BY <1>1, <1>3 DEF OrderInv, IndexInv
<1> QED
  BY <1>1, <1>4, SendingNothing, SameChainOrder, UnsentOrder

LEMMA FeedOrder ==
  ASSUME TypeInv, OrderInv, FeedNext, UNCHANGED indexerVars
  PROVE  OrderInv'
<1>1. TypeInv' /\ Produced' = Produced
  BY FeedStepTyping
<1>2. FeedTypeOK /\ FeedTypeOK' /\ IsGrownFrom(blockLog', blockLog)
  BY <1>1, FeedTyping DEF TypeInv, TypeOK
<1>3. ChainInv' /\ LogInv'
  BY <1>2, ChainStep DEF OrderInv
<1>4. UNCHANGED <<blockIdx, emittedBlocks>>
  BY DEF indexerVars, readerVars, bufferVars
<1>5. IndexInv'
  <2>1. PICK i \in 1..(Len(blockLog) + 1) : i = blockIdx
    BY DEF OrderInv, IndexInv
  <2>2. Before(i)' = Before(i)
    BY <1>2, BeforeKept
  <2>3. Before(blockIdx)' = Before(blockIdx)
    BY <1>4, <2>1, <2>2 DEF Before
  <2>4. Len(blockLog) \in Nat /\ Len(blockLog') \in Nat /\ Len(blockLog) <= Len(blockLog')
    BY <1>2 DEF FeedTypeOK, IsGrownFrom
  <2> QED BY <1>4, <2>3, <2>4 DEF OrderInv, IndexInv
<1> QED BY <1>1, <1>3, <1>4, <1>5, UnsentOrder

LEMMA MempoolOrder ==
  ASSUME TypeInv, OrderInv, HandleMempoolMessage
  PROVE  OrderInv'
<1>1. /\ UNCHANGED <<emittedBlocks, blockIdx, blockLog, chain>>
      /\ \/ Produced' = Produced
         \/ \E e \in DownstreamEvent : /\ e.type \in {"accepted", "withdrawn"}
                                       /\ Produced' = Produced \o <<e>>
  BY MempoolTyping
<1>2. ChainInv' /\ LogInv' /\ IndexInv'
  BY <1>1, SameChainOrder
<1>3. OpenInv' /\ TxInv'
  <2>1. CASE Produced' = Produced
    BY <1>1, <1>2, <2>1, UnsentOrder DEF OrderInv
  <2>2. ASSUME NEW e \in DownstreamEvent, e.type \in {"accepted", "withdrawn"},
               Produced' = Produced \o <<e>>
        PROVE  OpenInv' /\ TxInv'
    BY <1>1, <2>2, OneEventOrder
  <2> QED BY <1>1, <2>1, <2>2
<1> QED BY <1>2, <1>3 DEF OrderInv

LEMMA OrderStep ==
  ASSUME "block" \notin RestartTopics, TypeInv, OrderInv, [Next]_vars
  PROVE  OrderInv'
<1>1. ASSUME UNCHANGED <<sendVars, emittedBlocks, blockIdx, blockLog, chain>>
      PROVE  OrderInv'
  BY <1>1, SendingNothing, SameChainOrder, UnsentOrder
<1>2. CASE UNCHANGED vars
  BY <1>1, <1>2 DEF vars, feedVars, indexerVars, readerVars, bufferVars
<1>3. CASE EmitBlockApply \/ EmitBlockUnapply
  <2>1. UNCHANGED <<chain, blockLog>>
    BY <1>3 DEF EmitBlockApply, EmitBlockUnapply, NextBlock, feedVars
  <2> QED
    BY <1>3, <2>1, BlockApplyOrder, BlockUnapplyOrder, SameChainOrder DEF OrderInv
<1>4. CASE ControlStep
  BY <1>4, ControlTyping, SameChainOrder, UnsentOrder
<1>5. CASE QuietTxStep
  BY <1>1, <1>5, QuietTxTyping
<1> QED
  BY <1>2, <1>3, <1>4, <1>5, StepCases, FeedOrder, QuietBlockOrder,
     SendingTxOrder, MempoolOrder

(* What has been sent is a prefix of what has been produced.               *)
LEMMA OrderImplies ==
  ASSUME TypeInv, OrderInv
  PROVE  TxWithinItsBlock
<1>1. /\ downstream \in Seq(DownstreamEvent)
      /\ pendingDownstream \in Seq(DownstreamEvent)
  BY DEF TypeInv, TypeOK
<1>2. ASSUME NEW i \in 1..Len(downstream), downstream[i].type = "tx"
      PROVE  OpenAt(downstream, i, downstream[i].block)
  <2>1. i \in 1..Len(Produced) /\ Produced[i] = downstream[i]
    BY <1>1 DEF Produced
  <2>2. OpenAt(Produced, i, downstream[i].block)
    BY <1>2, <2>1 DEF OrderInv, TxInv
  <2> QED BY <1>1, <2>2, OpenKept DEF Produced
<1> QED BY <1>2 DEF TxWithinItsBlock

LEMMA OrderInit == Init => OrderInv
<1> SUFFICES ASSUME Init PROVE OrderInv
  OBVIOUS
<1>1. IndexInv
  BY DEF Init, FeedInit, IndexInv, Before
<1>2. OpenInv /\ TxInv
  <2>1. emittedBlocks = {} /\ Produced = <<>>
    BY DEF Init, Produced
  <2> QED BY <2>1 DEF OpenInv, TxInv
<1> QED BY <1>1, <1>2, ChainInit DEF OrderInv, Init

(* For every tree of blocks, every order of fork switches and every        *)
(* interleaving of the topics, with restarted transaction and mempool      *)
(* readers and a node that may not answer: emitBlockApply, emitBlockUnapply*)
(* and bufferOrProcessTx send a transaction only while the strategies      *)
(* know its block.  A restart of the block reader is excluded because it   *)
(* really breaks this (see BlockOffsetSentOnce).                           *)
THEOREM TxInOrder ==
  ASSUME "block" \notin RestartTopics
  PROVE  Spec => []TxWithinItsBlock
<1>1. Init => OrderInv
  BY OrderInit
<1>2. TypeInv /\ TypeInv' /\ OrderInv /\ [Next]_vars => OrderInv'
  BY OrderStep
<1>3. TypeInv /\ OrderInv => TxWithinItsBlock
  BY OrderImplies
<1> QED BY <1>1, <1>2, <1>3, TypeInvariant, PTL DEF Spec

-------------------------------------------------------------------------------
(* The inductive invariant, for one type of event s holds, the buffer pend *)
(* it is replayed from and the set offs of processed offsets.              *)

Offsets(type, s) == {s[i].offset : i \in {j \in 1..Len(s) : s[j].type = type}}

SentOnce(type, s) ==
  \A i, j \in 1..Len(s) :
    s[i].type = type /\ s[j].type = type /\ s[i].offset = s[j].offset => i = j

BufferedOnce(pend) ==
  \A b, c \in Blocks : \A n \in 1..Len(pend[b]), m \in 1..Len(pend[c]) :
    pend[b][n] = pend[c][m] => b = c /\ n = m

BufferedIn(pend, offs) == \A b \in Blocks : \A n \in 1..Len(pend[b]) : pend[b][n] \in offs

Dedup(type, s, pend, offs) ==
  /\ SentOnce(type, s)
  /\ BufferedOnce(pend)
  /\ Offsets(type, s) \subseteq offs
  /\ BufferedIn(pend, offs \ Offsets(type, s))

DedupInv ==
  /\ Dedup("tx", Produced, pendingApplied, processedTxOffsets)
  /\ Dedup("unappliedTx", Produced, pendingUnapplied, processedTxOffsets)

(* The condition: no offset is ever forgotten.                             *)
WithinLimit == Cardinality(processedTxOffsets) <= MaxOffsetEntries

-------------------------------------------------------------------------------
(* What sending, buffering and pruning do to it.                           *)

LEMMA OffsetsConcat ==
  ASSUME NEW type, NEW s \in Seq(DownstreamEvent), NEW t \in Seq(DownstreamEvent)
  PROVE  Offsets(type, s \o t) = Offsets(type, s) \cup Offsets(type, t)
<1>1. /\ Len(s) \in Nat /\ Len(t) \in Nat /\ Len(s \o t) = Len(s) + Len(t)
      /\ \A k \in 1..Len(s) : (s \o t)[k] = s[k] /\ k \in 1..Len(s \o t)
      /\ \A k \in 1..Len(t) : (s \o t)[Len(s) + k] = t[k]
                              /\ Len(s) + k \in 1..Len(s \o t)
  OBVIOUS
<1>2. ASSUME NEW k \in 1..Len(s \o t)
      PROVE  \/ k \in 1..Len(s) /\ (s \o t)[k] = s[k]
             \/ k - Len(s) \in 1..Len(t) /\ (s \o t)[k] = t[k - Len(s)]
  OBVIOUS
<1>3. ASSUME NEW o \in Offsets(type, s \o t)
      PROVE  o \in Offsets(type, s) \cup Offsets(type, t)
  <2>1. PICK k \in 1..Len(s \o t) : (s \o t)[k].type = type /\ (s \o t)[k].offset = o
    BY DEF Offsets
  <2> QED BY <1>2, <2>1 DEF Offsets
<1>4. ASSUME NEW o \in Offsets(type, s)
      PROVE  o \in Offsets(type, s \o t)
  <2>1. PICK k \in 1..Len(s) : s[k].type = type /\ s[k].offset = o
    BY DEF Offsets
  <2> QED BY <1>1, <2>1 DEF Offsets
<1>5. ASSUME NEW o \in Offsets(type, t)
      PROVE  o \in Offsets(type, s \o t)
  <2>1. PICK k \in 1..Len(t) : t[k].type = type /\ t[k].offset = o
    BY DEF Offsets
  <2> QED BY <1>1, <2>1 DEF Offsets
<1> QED BY <1>3, <1>4, <1>5

(* New events of messages that had not been sent, each once.               *)
LEMMA SendOnce ==
  ASSUME NEW type, NEW s \in Seq(DownstreamEvent), NEW t \in Seq(DownstreamEvent),
         SentOnce(type, s), SentOnce(type, t),
         Offsets(type, s) \cap Offsets(type, t) = {}
  PROVE  SentOnce(type, s \o t)
<1>1. Len(s) \in Nat /\ Len(t) \in Nat /\ Len(s \o t) = Len(s) + Len(t)
  OBVIOUS
<1>2. ASSUME NEW k \in 1..Len(s \o t)
      PROVE  \/ k \in 1..Len(s) /\ (s \o t)[k] = s[k]
             \/ k - Len(s) \in 1..Len(t) /\ (s \o t)[k] = t[k - Len(s)]
  OBVIOUS
<1>3. /\ \A i \in 1..Len(s) : s[i].type = type => s[i].offset \in Offsets(type, s)
      /\ \A i \in 1..Len(t) : t[i].type = type => t[i].offset \in Offsets(type, t)
  BY DEF Offsets
<1>4. ASSUME NEW i \in 1..Len(s \o t), NEW j \in 1..Len(s \o t),
             (s \o t)[i].type = type, (s \o t)[j].type = type,
             (s \o t)[i].offset = (s \o t)[j].offset
      PROVE  i = j
  <2>1. CASE i \in 1..Len(s) /\ (s \o t)[i] = s[i]
    <3>1. j \in 1..Len(s) /\ (s \o t)[j] = s[j]
      BY <1>2, <1>3, <1>4, <2>1
    <3> QED BY <1>4, <2>1, <3>1 DEF SentOnce
  <2>2. CASE i - Len(s) \in 1..Len(t) /\ (s \o t)[i] = t[i - Len(s)]
    <3>1. j - Len(s) \in 1..Len(t) /\ (s \o t)[j] = t[j - Len(s)]
      BY <1>2, <1>3, <1>4, <2>2
    <3>2. i - Len(s) = j - Len(s)
      BY <1>4, <2>2, <3>1 DEF SentOnce
    <3> QED BY <1>1, <3>2
  <2> QED BY <1>2, <2>1, <2>2
<1> QED BY <1>4 DEF SentOnce

(* Nothing of this type is sent, and what is buffered may be pruned.       *)
LEMMA DedupQuiet ==
  ASSUME NEW type, NEW s \in Seq(DownstreamEvent), NEW t \in Seq(DownstreamEvent),
         NEW old, NEW new, NEW offs, NEW more, offs \subseteq more,
         \A b \in Blocks : new[b] \in {old[b], <<>>},
         \A k \in 1..Len(t) : t[k].type # type,
         Dedup(type, s, old, offs)
  PROVE  Dedup(type, s \o t, new, more)
<1>1. Offsets(type, t) = {} /\ SentOnce(type, t)
  BY DEF Offsets, SentOnce
<1>2. Offsets(type, s \o t) = Offsets(type, s)
  <2>1. Offsets(type, s \o t) = Offsets(type, s) \cup Offsets(type, t)
    BY OffsetsConcat
  <2> QED BY <1>1, <2>1
<1>3. SentOnce(type, s \o t)
  BY <1>1, SendOnce DEF Dedup
<1>4. ASSUME NEW b \in Blocks, NEW n \in 1..Len(new[b])
      PROVE  n \in 1..Len(old[b]) /\ new[b][n] = old[b][n]
  <2>1. new[b] = old[b] \/ new[b] = <<>>
    OBVIOUS
  <2>2. new[b] # <<>>
    <3>1. Len(<<>>) = 0 /\ ~ \E k \in 1..0 : TRUE
      OBVIOUS
    <3> QED BY <1>4, <3>1
  <2> QED BY <1>4, <2>1, <2>2
<1> QED
  BY <1>2, <1>3, <1>4 DEF Dedup, BufferedOnce, BufferedIn

(* A message is sent when it is read.                                      *)
LEMMA DedupSend ==
  ASSUME NEW type, NEW s \in Seq(DownstreamEvent), NEW e \in DownstreamEvent,
         e.type = type,
         NEW pend, NEW offs, e.offset \notin offs,
         Dedup(type, s, pend, offs)
  PROVE  Dedup(type, s \o <<e>>, pend, offs \cup {e.offset})
<1> DEFINE t == <<e>>
<1>1. t \in Seq(DownstreamEvent) /\ Len(t) = 1 /\ t[1] = e
  OBVIOUS
<1> HIDE DEF t
<1>2. Offsets(type, t) = {e.offset} /\ SentOnce(type, t)
  BY <1>1 DEF Offsets, SentOnce
<1>3. Offsets(type, s \o t) = Offsets(type, s) \cup {e.offset}
  <2>1. Offsets(type, s \o t) = Offsets(type, s) \cup Offsets(type, t)
    BY <1>1, OffsetsConcat
  <2> QED BY <1>2, <2>1
<1>4. SentOnce(type, s \o t)
  BY <1>1, <1>2, SendOnce DEF Dedup
<1>5. BufferedIn(pend, (offs \cup {e.offset}) \ Offsets(type, s \o t))
  BY <1>3 DEF Dedup, BufferedIn
<1>6. Dedup(type, s \o t, pend, offs \cup {e.offset})
  BY <1>3, <1>4, <1>5 DEF Dedup
<1> QED BY <1>6 DEF t

(* A message is buffered when it is read.                                  *)
LEMMA DedupBuffer ==
  ASSUME NEW type, NEW s, NEW pend \in [Blocks -> Seq(Nat)], NEW offs,
         NEW b \in Blocks, NEW o \in Nat, o \notin offs,
         Dedup(type, s, pend, offs)
  PROVE  Dedup(type, s, [pend EXCEPT ![b] = Append(@, o)], offs \cup {o})
<1> DEFINE new == [pend EXCEPT ![b] = Append(@, o)]
<1>1. ASSUME NEW c \in Blocks, NEW n \in 1..Len(new[c])
      PROVE  \/ n \in 1..Len(pend[c]) /\ new[c][n] = pend[c][n]
             \/ c = b /\ n = Len(pend[b]) + 1 /\ new[c][n] = o
  <2>1. CASE c = b
    <3>1. new[c] = Append(pend[b], o) /\ pend[b] \in Seq(Nat)
      BY <2>1
    <3> HIDE DEF new
    <3> QED BY <1>1, <2>1, <3>1
  <2>2. CASE c # b
    BY <1>1, <2>2
  <2> QED BY <2>1, <2>2
<1> HIDE DEF new
<1>2. BufferedOnce(new)
  <2> SUFFICES ASSUME NEW c \in Blocks, NEW k \in Blocks,
                      NEW n \in 1..Len(new[c]), NEW m \in 1..Len(new[k]),
                      new[c][n] = new[k][m]
               PROVE  c = k /\ n = m
    BY DEF BufferedOnce
  <2>1. \A x \in Blocks : \A y \in 1..Len(pend[x]) : pend[x][y] # o
    BY DEF Dedup, BufferedIn
  <2>2. CASE n \in 1..Len(pend[c]) /\ new[c][n] = pend[c][n]
    <3>1. m \in 1..Len(pend[k]) /\ new[k][m] = pend[k][m]
      BY <1>1, <2>1, <2>2
    <3>2. pend[c][n] = pend[k][m]
      BY <2>2, <3>1
    <3> QED BY <2>2, <3>1, <3>2 DEF Dedup, BufferedOnce
  <2>3. CASE c = b /\ n = Len(pend[b]) + 1 /\ new[c][n] = o
    BY <1>1, <2>1, <2>3
  <2> QED BY <1>1, <2>2, <2>3
<1>3. BufferedIn(new, (offs \cup {o}) \ Offsets(type, s))
  BY <1>1 DEF Dedup, BufferedIn
<1>4. Dedup(type, s, new, offs \cup {o})
  BY <1>2, <1>3 DEF Dedup
<1> QED BY <1>4 DEF new

(* The buffer of block b is replayed: the events of this type are those of *)
(* its messages, shifted by d positions, and the buffer is dropped.        *)
LEMMA DedupReplay ==
  ASSUME NEW type, NEW s \in Seq(DownstreamEvent), NEW t \in Seq(DownstreamEvent),
         NEW old, NEW new, NEW offs, NEW b \in Blocks, NEW d \in Nat,
         \A k \in 1..Len(t) : t[k].type = type =>
           k - d \in 1..Len(old[b]) /\ t[k].offset = old[b][k - d],
         \A c \in Blocks : new[c] \in {old[c], <<>>},
         new[b] = <<>>,
         Dedup(type, s, old, offs)
  PROVE  Dedup(type, s \o t, new, offs)
<1>1. \A o \in Offsets(type, t) : \E n \in 1..Len(old[b]) : o = old[b][n]
  BY DEF Offsets
<1>2. SentOnce(type, t)
  <2>1. ASSUME NEW i \in 1..Len(t), NEW j \in 1..Len(t),
               t[i].type = type, t[j].type = type, t[i].offset = t[j].offset
        PROVE  i = j
    <3>1. i - d \in 1..Len(old[b]) /\ j - d \in 1..Len(old[b])
      BY <2>1
    <3>2. old[b][i - d] = old[b][j - d]
      BY <2>1
    <3>3. i - d = j - d
      BY <3>1, <3>2 DEF Dedup, BufferedOnce
    <3> QED BY <3>3
  <2> QED BY <2>1 DEF SentOnce
<1>3. Offsets(type, t) \subseteq offs \ Offsets(type, s)
  BY <1>1 DEF Dedup, BufferedIn
<1>4. Offsets(type, s \o t) = Offsets(type, s) \cup Offsets(type, t)
  BY OffsetsConcat
<1>5. SentOnce(type, s \o t)
  BY <1>2, <1>3, SendOnce DEF Dedup
<1>6. ASSUME NEW c \in Blocks, NEW n \in 1..Len(new[c])
      PROVE  c # b /\ n \in 1..Len(old[c]) /\ new[c][n] = old[c][n]
  <2>1. new[c] = old[c] \/ new[c] = <<>>
    OBVIOUS
  <2>2. new[c] # <<>>
    <3>1. Len(<<>>) = 0 /\ ~ \E k \in 1..0 : TRUE
      OBVIOUS
    <3> QED BY <1>6, <3>1
  <2> QED BY <1>6, <2>1, <2>2
<1>7. BufferedOnce(new)
  BY <1>6 DEF Dedup, BufferedOnce
<1>8. BufferedIn(new, offs \ Offsets(type, s \o t))
  <2>1. ASSUME NEW c \in Blocks, NEW n \in 1..Len(new[c])
        PROVE  new[c][n] \in offs /\ new[c][n] \notin Offsets(type, s \o t)
    <3>1. c # b /\ n \in 1..Len(old[c]) /\ new[c][n] = old[c][n]
      BY <1>6, <2>1
    <3>2. old[c][n] \in offs \ Offsets(type, s)
      BY <3>1 DEF Dedup, BufferedIn
    <3>3. old[c][n] \notin Offsets(type, t)
      BY <1>1, <3>1 DEF Dedup, BufferedOnce
    <3> QED BY <1>4, <3>1, <3>2, <3>3
  <2> QED BY <2>1 DEF BufferedIn
<1> QED BY <1>3, <1>4, <1>5, <1>7, <1>8 DEF Dedup

-------------------------------------------------------------------------------
(* The steps.                                                              *)

(* Pruning forgets no offset within the limit.                             *)
LEMMA PruningKeepsOffsets ==
  ASSUME WithinLimit, NEW applied, NEW unapplied, NEW emitted, NEW comp,
         PruneOldBuffers(applied, unapplied, emitted, comp)
  PROVE  processedTxOffsets' = processedTxOffsets
BY DEF WithinLimit, PruneOldBuffers, KeepNewest

(* The transactions of x and y have their events in t, in this order and   *)
(* after one other event.                                                  *)
EventsOf(t, x, y) ==
  \A k \in 1..Len(t) :
    /\ t[k].type = "tx" => k - 1 \in 1..Len(x) /\ t[k].offset = x[k - 1]
    /\ t[k].type = "unappliedTx" =>
         k - (Len(x) + 1) \in 1..Len(y) /\ t[k].offset = y[k - (Len(x) + 1)]

(* The events of a block: its own, the buffered applied transactions, the  *)
(* buffered unapplied ones.                                                *)
LEMMA ReplayPositions ==
  ASSUME NEW e \in DownstreamEvent, NEW x \in Seq(Nat), NEW y \in Seq(Nat),
         NEW p \in Seq(DownstreamEvent), NEW q \in Seq(DownstreamEvent),
         NEW t, t = <<e>> \o p \o q,
         Len(p) = Len(x), \A i \in 1..Len(x) : p[i] = TxEventAt(x[i]),
         Len(q) = Len(y), \A i \in 1..Len(y) : q[i] = UnappliedEventAt(y[i]),
         e.type \notin {"tx", "unappliedTx"}
  PROVE  t \in Seq(DownstreamEvent) /\ EventsOf(t, x, y)
<1> DEFINE s == <<e>> \o p
<1>1. <<e>> \in Seq(DownstreamEvent) /\ <<e>>[1] = e /\ Len(<<e>>) = 1
  OBVIOUS
<1>2. /\ Len(p) = Len(x) /\ Len(q) = Len(y) /\ Len(x) \in Nat /\ Len(y) \in Nat
      /\ \A i \in 1..Len(x) : p[i].type = "tx" /\ p[i].offset = x[i]
      /\ \A i \in 1..Len(y) : q[i].type = "unappliedTx" /\ q[i].offset = y[i]
  <2>1. \A o : TxEventAt(o).type = "tx" /\ TxEventAt(o).offset = o
    BY DEF TxEventAt, Event
  <2>2. \A o : /\ UnappliedEventAt(o).type = "unappliedTx"
               /\ UnappliedEventAt(o).offset = o
    BY DEF UnappliedEventAt, Event
  <2> QED BY <2>1, <2>2
<1>3. /\ s \in Seq(DownstreamEvent) /\ Len(s) = Len(x) + 1
      /\ s[1] = e
      /\ \A k \in 2..Len(s) : k - 1 \in 1..Len(x) /\ s[k] = p[k - 1]
  BY <1>1, <1>2
<1> HIDE DEF s
<1>4. /\ t \in Seq(DownstreamEvent)
      /\ \A k \in 1..Len(t) :
           \/ k \in 1..Len(s) /\ t[k] = s[k]
           \/ k - Len(s) \in 1..Len(y) /\ t[k] = q[k - Len(s)]
  BY <1>2, <1>3
<1>5. ASSUME NEW k \in 1..Len(t)
      PROVE  /\ t[k].type = "tx" => k - 1 \in 1..Len(x) /\ t[k].offset = x[k - 1]
             /\ t[k].type = "unappliedTx" =>
                  /\ k - (Len(x) + 1) \in 1..Len(y)
                  /\ t[k].offset = y[k - (Len(x) + 1)]
  <2>1. CASE k \in 1..Len(s) /\ t[k] = s[k]
    <3>1. CASE k = 1
      BY <1>3, <2>1, <3>1
    <3>2. CASE k \in 2..Len(s)
      <4>1. k - 1 \in 1..Len(x) /\ t[k] = p[k - 1]
        BY <1>3, <2>1, <3>2
      <4>2. t[k].type = "tx" /\ t[k].offset = x[k - 1]
        BY <1>2, <4>1
      <4> QED BY <4>1, <4>2
    <3> QED BY <1>2, <1>3, <2>1, <3>1, <3>2
  <2>2. CASE k - Len(s) \in 1..Len(y) /\ t[k] = q[k - Len(s)]
    <3>1. k - Len(s) = k - (Len(x) + 1)
      BY <1>3
    <3>2. t[k].type = "unappliedTx" /\ t[k].offset = y[k - (Len(x) + 1)]
      BY <1>2, <2>2, <3>1
    <3> QED BY <2>2, <3>1, <3>2
  <2> QED BY <1>4, <2>1, <2>2
<1> QED BY <1>4, <1>5 DEF EventsOf

(* What is left of the buffers after those of block b were replayed.       *)
LEMMA PruningOfBuffers ==
  ASSUME NEW b \in Blocks, NEW applied, NEW unapplied, NEW emitted, NEW comp,
         \A c \in Blocks : applied[c] \in {pendingApplied[c], <<>>},
         \A c \in Blocks : unapplied[c] \in {pendingUnapplied[c], <<>>},
         unapplied[b] = <<>>,
         PruneOldBuffers(applied, unapplied, emitted, comp)
  PROVE  /\ \A c \in Blocks : pendingApplied'[c] \in {pendingApplied[c], <<>>}
         /\ \A c \in Blocks : pendingUnapplied'[c] \in {pendingUnapplied[c], <<>>}
         /\ applied[b] = <<>> => pendingApplied'[b] = <<>>
         /\ pendingUnapplied'[b] = <<>>
<1>1. /\ \A c \in Blocks : pendingApplied'[c] \in {applied[c], <<>>}
      /\ \A c \in Blocks : pendingUnapplied'[c] \in {unapplied[c], <<>>}
  BY DEF PruneOldBuffers
<1> QED BY <1>1

LEMMA BlockApplyDedup ==
  ASSUME TypeInv, DedupInv, WithinLimit, EmitBlockApply
  PROVE  DedupInv'
<1> DEFINE b == blockLog[blockIdx].block
           e == Event("block", b, Root, blockIdx, tipHeight' = HeightOf[b])
           x == pendingApplied[b]
           y == pendingUnapplied[b]
           p == [i \in 1..Len(x) |-> TxEventAt(x[i])]
           q == [i \in 1..Len(y) |-> UnappliedEventAt(y[i])]
           t == <<e>> \o p \o q
           comp == Remaining(SetState(completed, HeightOf[b], StateAfterReplay(b)))
<1>1. b \in Blocks /\ Produced' = Produced \o t
  BY EmitBlockApplyStep
<1>2. /\ pendingApplied \in [Blocks -> Seq(Nat)]
      /\ pendingUnapplied \in [Blocks -> Seq(Nat)]
      /\ Produced \in Seq(DownstreamEvent)
      /\ blockIdx \in Nat
  BY DEF TypeInv, TypeOK, Produced
<1>3. e \in DownstreamEvent /\ e.type = "block"
  BY <1>1, <1>2 DEF Event, DownstreamEvent
<1>4. p \in Seq(DownstreamEvent) /\ q \in Seq(DownstreamEvent)
  BY <1>1, <1>2, ReplayTyping DEF TypeInv, TypeOK
<1>5. PruneOldBuffers([pendingApplied EXCEPT ![b] = <<>>],
                      [pendingUnapplied EXCEPT ![b] = <<>>], emittedBlocks \cup {b}, comp)
  BY DEF EmitBlockApply
<1> HIDE DEF comp
<1>6. processedTxOffsets' = processedTxOffsets
  BY <1>5, PruningKeepsOffsets
<1>7. /\ \A c \in Blocks : pendingApplied'[c] \in {pendingApplied[c], <<>>}
      /\ \A c \in Blocks : pendingUnapplied'[c] \in {pendingUnapplied[c], <<>>}
      /\ pendingApplied'[b] = <<>> /\ pendingUnapplied'[b] = <<>>
  <2> DEFINE pa == [pendingApplied EXCEPT ![b] = <<>>]
             pu == [pendingUnapplied EXCEPT ![b] = <<>>]
             em == emittedBlocks \cup {b}
  <2>1. /\ pa[b] = <<>> /\ \A c \in Blocks : pa[c] \in {pendingApplied[c], <<>>}
        /\ pu[b] = <<>> /\ \A c \in Blocks : pu[c] \in {pendingUnapplied[c], <<>>}
    BY <1>1, <1>2
  <2>2. PruneOldBuffers(pa, pu, em, comp)
    BY <1>5
  <2> HIDE DEF b, pa, pu, em
  <2> QED BY <1>1, <2>1, <2>2, PruningOfBuffers
<1>8. /\ t \in Seq(DownstreamEvent)
      /\ \A k \in 1..Len(t) :
           /\ t[k].type = "tx" => k - 1 \in 1..Len(x) /\ t[k].offset = x[k - 1]
           /\ t[k].type = "unappliedTx" =>
                k - (Len(x) + 1) \in 1..Len(y) /\ t[k].offset = y[k - (Len(x) + 1)]
  <2>1. x \in Seq(Nat) /\ y \in Seq(Nat)
    BY <1>1, <1>2
  <2>2. /\ Len(p) = Len(x) /\ \A i \in 1..Len(x) : p[i] = TxEventAt(x[i])
        /\ Len(q) = Len(y) /\ \A i \in 1..Len(y) : q[i] = UnappliedEventAt(y[i])
        /\ e.type \notin {"tx", "unappliedTx"}
    BY <1>3, <2>1
  <2>3. t = <<e>> \o p \o q
    OBVIOUS
  <2> HIDE DEF b, e, x, y, p, q, t
  <2>4. t \in Seq(DownstreamEvent) /\ EventsOf(t, x, y)
    BY <1>3, <1>4, <2>1, <2>2, <2>3, ReplayPositions
  <2> QED BY <2>4 DEF EventsOf
<1>9. Len(x) + 1 \in Nat
  <2>1. x \in Seq(Nat)
    BY <1>1, <1>2
  <2> HIDE DEF x
  <2> QED BY <2>1
<1> HIDE DEF e, p, q, t
<1>10. Dedup("tx", Produced', pendingApplied', processedTxOffsets')
  <2>1. Dedup("tx", Produced, pendingApplied, processedTxOffsets)
    BY DEF DedupInv
  <2>2. /\ 1 \in Nat
        /\ \A k \in 1..Len(t) : t[k].type = "tx" =>
             k - 1 \in 1..Len(pendingApplied[b]) /\ t[k].offset = pendingApplied[b][k - 1]
    BY <1>8
  <2> HIDE DEF b
  <2> QED BY <1>1, <1>2, <1>6, <1>7, <1>8, <2>1, <2>2, DedupReplay
<1>11. Dedup("unappliedTx", Produced', pendingUnapplied', processedTxOffsets')
  <2> DEFINE d == Len(x) + 1
  <2>1. Dedup("unappliedTx", Produced, pendingUnapplied, processedTxOffsets)
    BY DEF DedupInv
  <2>2. /\ d \in Nat
        /\ \A k \in 1..Len(t) : t[k].type = "unappliedTx" =>
             k - d \in 1..Len(pendingUnapplied[b])
             /\ t[k].offset = pendingUnapplied[b][k - d]
    BY <1>8, <1>9
  <2> HIDE DEF b, d
  <2> QED BY <1>1, <1>2, <1>6, <1>7, <1>8, <2>1, <2>2, DedupReplay
<1> QED BY <1>10, <1>11 DEF DedupInv

LEMMA BlockUnapplyDedup ==
  ASSUME TypeInv, DedupInv, WithinLimit, EmitBlockUnapply
  PROVE  DedupInv'
<1> DEFINE b == blockLog[blockIdx].block
           e == Event("rollback", b, Root, blockIdx, FALSE)
           x == <<>>
           y == pendingUnapplied[b]
           p == <<>>
           q == [i \in 1..Len(y) |-> UnappliedEventAt(y[i])]
           t == <<e>> \o q
           comp == Remaining(SetState(completed, HeightOf[b],
                     IF HeightOf[b] \in DOMAIN completed
                     THEN [completed[HeightOf[b]] EXCEPT !.rollback = TRUE]
                     ELSE [expected |-> NumTxs(b), seen |-> 0, rollback |-> TRUE]))
           pu == [pendingUnapplied EXCEPT ![b] = <<>>]
           em == emittedBlocks \ {b}
<1>1. b \in Blocks /\ Produced' = Produced \o t
  BY EmitBlockUnapplyStep
<1>2. /\ pendingApplied \in [Blocks -> Seq(Nat)]
      /\ pendingUnapplied \in [Blocks -> Seq(Nat)]
      /\ Produced \in Seq(DownstreamEvent)
      /\ blockIdx \in Nat
  BY DEF TypeInv, TypeOK, Produced
<1>3. e \in DownstreamEvent /\ e.type = "rollback"
  BY <1>1, <1>2 DEF Event, DownstreamEvent
<1>4. q \in Seq(DownstreamEvent)
  BY <1>1, <1>2, ReplayTyping DEF TypeInv, TypeOK
<1>5. PruneOldBuffers(pendingApplied, pu, em, comp)
  BY DEF EmitBlockUnapply, EmittedAfterUnapply
<1> HIDE DEF comp, em
<1>6. processedTxOffsets' = processedTxOffsets
  BY <1>5, PruningKeepsOffsets
<1>7. /\ \A c \in Blocks : pendingApplied'[c] \in {pendingApplied[c], <<>>}
      /\ \A c \in Blocks : pendingUnapplied'[c] \in {pendingUnapplied[c], <<>>}
      /\ pendingUnapplied'[b] = <<>>
  <2>1. /\ pu[b] = <<>> /\ \A c \in Blocks : pu[c] \in {pendingUnapplied[c], <<>>}
        /\ \A c \in Blocks : pendingApplied[c] \in {pendingApplied[c], <<>>}
    BY <1>1, <1>2
  <2> HIDE DEF b, pu
  <2> QED BY <1>1, <1>5, <2>1, PruningOfBuffers
<1>8. t \in Seq(DownstreamEvent) /\ EventsOf(t, x, y)
  <2>1. x \in Seq(Nat) /\ y \in Seq(Nat) /\ p \in Seq(DownstreamEvent)
    BY <1>1, <1>2
  <2>2. /\ Len(p) = Len(x) /\ \A i \in 1..Len(x) : p[i] = TxEventAt(x[i])
        /\ Len(q) = Len(y) /\ \A i \in 1..Len(y) : q[i] = UnappliedEventAt(y[i])
        /\ e.type \notin {"tx", "unappliedTx"}
    <3>1. Len(p) = Len(x) /\ \A i \in 1..Len(x) : p[i] = TxEventAt(x[i])
      OBVIOUS
    <3>2. Len(q) = Len(y) /\ \A i \in 1..Len(y) : q[i] = UnappliedEventAt(y[i])
      <4> HIDE DEF y
      <4> QED BY <2>1
    <3> QED BY <1>3, <3>1, <3>2
  <2>3. t = <<e>> \o p \o q
    <3> HIDE DEF e, q
    <3>1. <<e>> \in Seq(DownstreamEvent)
      BY <1>3
    <3> QED BY <3>1, ConcatEmptySeq
  <2> HIDE DEF b, e, x, y, p, q, t
  <2> QED BY <1>3, <1>4, <2>1, <2>2, <2>3, ReplayPositions
<1>9. \A k \in 1..Len(t) :
        /\ t[k].type # "tx"
        /\ t[k].type = "unappliedTx" =>
             k - 1 \in 1..Len(y) /\ t[k].offset = y[k - 1]
  <2>1. Len(x) = 0 /\ (\A k \in 1..Len(x) : FALSE) /\ Len(x) + 1 = 1
    OBVIOUS
  <2> HIDE DEF x, y, t
  <2> QED BY <1>8, <2>1 DEF EventsOf
<1> HIDE DEF e, q, t
<1>10. Dedup("tx", Produced', pendingApplied', processedTxOffsets')
  <2>1. Dedup("tx", Produced, pendingApplied, processedTxOffsets)
    BY DEF DedupInv
  <2>2. \A k \in 1..Len(t) : t[k].type # "tx"
    BY <1>9
  <2>3. processedTxOffsets \subseteq processedTxOffsets'
    BY <1>6
  <2> QED BY <1>1, <1>2, <1>7, <1>8, <2>1, <2>2, <2>3, DedupQuiet
<1>11. Dedup("unappliedTx", Produced', pendingUnapplied', processedTxOffsets')
  <2>1. Dedup("unappliedTx", Produced, pendingUnapplied, processedTxOffsets)
    BY DEF DedupInv
  <2>2. /\ 1 \in Nat
        /\ \A k \in 1..Len(t) : t[k].type = "unappliedTx" =>
             k - 1 \in 1..Len(pendingUnapplied[b])
             /\ t[k].offset = pendingUnapplied[b][k - 1]
    BY <1>9
  <2> HIDE DEF b
  <2> QED BY <1>1, <1>2, <1>6, <1>7, <1>8, <2>1, <2>2, DedupReplay
<1> QED BY <1>10, <1>11 DEF DedupInv

(* More offsets in the set do no harm.                                     *)
LEMMA DedupMore ==
  ASSUME NEW type, NEW s, NEW pend, NEW offs, NEW more, offs \subseteq more,
         Dedup(type, s, pend, offs)
  PROVE  Dedup(type, s, pend, more)
BY DEF Dedup, BufferedIn

LEMMA SendingTxDedup ==
  ASSUME TypeInv, DedupInv, ProcessAppliedTx \/ ProcessUnappliedTx
  PROVE  DedupInv'
<1> DEFINE e == IF ProcessAppliedTx THEN TxEventAt(txIdx) ELSE UnappliedEventAt(txIdx)
<1>1. PICK kind \in {"applied", "unapplied"} : FreshTx(kind)
  BY DEF ProcessAppliedTx, ProcessUnappliedTx
<1>2. /\ txIdx \notin processedTxOffsets
      /\ processedTxOffsets' = processedTxOffsets \cup {txIdx}
      /\ UNCHANGED <<pendingApplied, pendingUnapplied>>
  BY <1>1 DEF FreshTx, ProcessAppliedTx, ProcessUnappliedTx
<1>3. Produced' = Produced \o <<e>> /\ Produced \in Seq(DownstreamEvent)
  <2>1. Produced \in Seq(DownstreamEvent)
    BY DEF TypeInv, TypeOK, Produced
  <2> QED BY <2>1, SendingTxTyping
<1>4. TxEventAt(txIdx) \in DownstreamEvent /\ UnappliedEventAt(txIdx) \in DownstreamEvent
  <2>1. /\ <<TxEventAt(txIdx)>> \in Seq(DownstreamEvent)
        /\ <<UnappliedEventAt(txIdx)>> \in Seq(DownstreamEvent)
    BY <1>1, TxTyping DEF TypeInv
  <2> HIDE DEF TxEventAt, UnappliedEventAt
  <2>2. /\ <<TxEventAt(txIdx)>>[1] \in DownstreamEvent
        /\ <<UnappliedEventAt(txIdx)>>[1] \in DownstreamEvent
    BY <2>1
  <2> QED BY <2>2
<1>5. /\ e \in DownstreamEvent /\ e.offset = txIdx
      /\ e.type \in {"tx", "unappliedTx"}
  BY <1>4 DEF TxEventAt, UnappliedEventAt, Event
<1> HIDE DEF e
<1>6. ASSUME NEW type, e.type = type, NEW pend, Dedup(type, Produced, pend, processedTxOffsets)
      PROVE  Dedup(type, Produced', pend, processedTxOffsets')
  BY <1>2, <1>3, <1>5, <1>6, DedupSend
<1>7. ASSUME NEW type, e.type # type, NEW pend, Dedup(type, Produced, pend, processedTxOffsets)
      PROVE  Dedup(type, Produced', pend, processedTxOffsets')
  <2> DEFINE t == <<e>>
  <2>1. t \in Seq(DownstreamEvent) /\ \A k \in 1..Len(t) : t[k].type # type
    BY <1>5, <1>7
  <2> HIDE DEF t
  <2>2. Produced' = Produced \o t
    BY <1>3 DEF t
  <2>3. /\ processedTxOffsets \subseteq processedTxOffsets'
        /\ \A b \in Blocks : pend[b] \in {pend[b], <<>>}
    BY <1>2
  <2> QED BY <1>3, <1>7, <2>1, <2>2, <2>3, DedupQuiet
<1>8. Dedup("tx", Produced', pendingApplied, processedTxOffsets')
  BY <1>6, <1>7 DEF DedupInv
<1>9. Dedup("unappliedTx", Produced', pendingUnapplied, processedTxOffsets')
  BY <1>6, <1>7 DEF DedupInv
<1> QED BY <1>2, <1>8, <1>9 DEF DedupInv

LEMMA QuietTxDedup ==
  ASSUME TypeInv, DedupInv, QuietTxStep
  PROVE  DedupInv'
<1>1. /\ TypeOK /\ Produced' = Produced
      /\ Dedup("tx", Produced, pendingApplied, processedTxOffsets)
      /\ Dedup("unappliedTx", Produced, pendingUnapplied, processedTxOffsets)
  BY QuietTxTyping DEF TypeInv, Produced, sendVars, DedupInv
<1>2. /\ pendingApplied \in [Blocks -> Seq(Nat)]
      /\ pendingUnapplied \in [Blocks -> Seq(Nat)] /\ txIdx \in Nat
  BY <1>1 DEF TypeOK
<1>3. ASSUME UNCHANGED <<pendingApplied, pendingUnapplied>>,
             processedTxOffsets \subseteq processedTxOffsets'
      PROVE  DedupInv'
  BY <1>1, <1>3, DedupMore DEF DedupInv
<1>4. CASE SkipMalformedTx \/ SkipDuplicateTx
  BY <1>3, <1>4 DEF SkipMalformedTx, SkipDuplicateTx
<1>5. CASE SkipAppliedTx \/ SkipUnparsableUnapplied
  BY <1>3, <1>5 DEF SkipAppliedTx, SkipUnparsableUnapplied, FreshTx
<1>6. CASE BufferAppliedTx
  <2> DEFINE b == txLog[txIdx].block
  <2>1. /\ FreshTx("applied") /\ txIdx \notin processedTxOffsets
        /\ processedTxOffsets' = processedTxOffsets \cup {txIdx}
        /\ pendingApplied' = [pendingApplied EXCEPT ![b] = Append(@, txIdx)]
        /\ UNCHANGED pendingUnapplied
    BY <1>6 DEF BufferAppliedTx, FreshTx
  <2>2. b \in Blocks
    BY <1>1, <2>1, TxTyping
  <2> HIDE DEF b
  <2>3. Dedup("tx", Produced, pendingApplied', processedTxOffsets')
    BY <1>1, <1>2, <2>1, <2>2, DedupBuffer
  <2>4. Dedup("unappliedTx", Produced, pendingUnapplied, processedTxOffsets')
    BY <1>1, <2>1, DedupMore
  <2> QED BY <1>1, <2>1, <2>3, <2>4 DEF DedupInv
<1>7. CASE BufferUnappliedTx
  <2> DEFINE b == txLog[txIdx].block
  <2>1. /\ FreshTx("unapplied") /\ txIdx \notin processedTxOffsets
        /\ processedTxOffsets' = processedTxOffsets \cup {txIdx}
        /\ pendingUnapplied' = [pendingUnapplied EXCEPT ![b] = Append(@, txIdx)]
        /\ UNCHANGED pendingApplied
    BY <1>7 DEF BufferUnappliedTx, FreshTx
  <2>2. b \in Blocks
    BY <1>1, <2>1, TxTyping
  <2> HIDE DEF b
  <2>3. Dedup("unappliedTx", Produced, pendingUnapplied', processedTxOffsets')
    BY <1>1, <1>2, <2>1, <2>2, DedupBuffer
  <2>4. Dedup("tx", Produced, pendingApplied, processedTxOffsets')
    BY <1>1, <2>1, DedupMore
  <2> QED BY <1>1, <2>1, <2>3, <2>4 DEF DedupInv
<1> QED BY <1>4, <1>5, <1>6, <1>7 DEF QuietTxStep

LEMMA MempoolDedup ==
  ASSUME TypeInv, DedupInv, HandleMempoolMessage
  PROVE  DedupInv'
<1>1. /\ UNCHANGED <<pendingApplied, pendingUnapplied, processedTxOffsets>>
      /\ Produced \in Seq(DownstreamEvent)
  BY DEF HandleMempoolMessage, DropMempoolMessage, ForwardMempoolMessage,
         NextMempool, TypeInv, TypeOK, Produced
<1>2. CASE Produced' = Produced
  BY <1>1, <1>2 DEF DedupInv
<1>3. ASSUME NEW e \in DownstreamEvent, e.type \in {"accepted", "withdrawn"},
             Produced' = Produced \o <<e>>
      PROVE  DedupInv'
  <2> DEFINE t == <<e>>
  <2>1. /\ t \in Seq(DownstreamEvent)
        /\ \A k \in 1..Len(t) : t[k].type # "tx" /\ t[k].type # "unappliedTx"
    BY <1>3
  <2> HIDE DEF t
  <2>2. Produced' = Produced \o t
    BY <1>3 DEF t
  <2>3. ASSUME NEW type, \A k \in 1..Len(t) : t[k].type # type, NEW pend,
               Dedup(type, Produced, pend, processedTxOffsets)
        PROVE  Dedup(type, Produced', pend, processedTxOffsets)
    <3>1. /\ processedTxOffsets \subseteq processedTxOffsets
          /\ \A b \in Blocks : pend[b] \in {pend[b], <<>>}
      OBVIOUS
    <3> QED BY <1>1, <2>1, <2>2, <2>3, <3>1, DedupQuiet
  <2> QED BY <1>1, <2>1, <2>3 DEF DedupInv
<1> QED BY <1>2, <1>3, MempoolTyping

LEMMA DedupStep ==
  ASSUME TypeInv, DedupInv, WithinLimit, [Next]_vars
  PROVE  DedupInv'
<1>1. ASSUME UNCHANGED <<pendingApplied, pendingUnapplied, processedTxOffsets>>,
             Produced' = Produced
      PROVE  DedupInv'
  BY <1>1 DEF DedupInv
<1>2. CASE UNCHANGED vars
  BY <1>1, <1>2 DEF vars, indexerVars, bufferVars, sendVars, Produced
<1>3. CASE FeedNext /\ UNCHANGED indexerVars
  BY <1>1, <1>3 DEF indexerVars, bufferVars, sendVars, Produced
<1>4. CASE ControlStep
  <2>1. UNCHANGED <<pendingApplied, pendingUnapplied, processedTxOffsets>>
    BY <1>4 DEF ControlStep, StartKafka, SetDownstream, RestartReader, bufferVars
  <2> QED BY <1>1, <1>4, <2>1, ControlTyping
<1>5. CASE QuietBlockStep
  BY <1>1, <1>5
  DEF QuietBlockStep, SkipMalformedBlock, SkipDuplicateApply, DropApplyOnNodeError,
      bufferVars, sendVars, Produced
<1> QED
  BY <1>2, <1>3, <1>4, <1>5, StepCases, BlockApplyDedup, BlockUnapplyDedup,
     QuietTxDedup, SendingTxDedup, MempoolDedup

LEMMA DedupInit == Init => DedupInv
<1> SUFFICES ASSUME Init PROVE DedupInv
  OBVIOUS
<1>1. /\ Produced = <<>> /\ Len(Produced) = 0 /\ \A k \in 1..0 : FALSE
      /\ \A b \in Blocks : pendingApplied[b] = <<>> /\ pendingUnapplied[b] = <<>>
  BY DEF Init, Produced
<1>2. ASSUME NEW type, NEW pend, \A b \in Blocks : pend[b] = <<>>
      PROVE  Dedup(type, Produced, pend, processedTxOffsets)
  <2>1. \A b \in Blocks : Len(pend[b]) = 0
    BY <1>2
  <2> QED BY <1>1, <2>1 DEF Dedup, SentOnce, Offsets, BufferedOnce, BufferedIn
<1> QED BY <1>1, <1>2 DEF DedupInv

(* What has been sent is a prefix of what has been produced.               *)
LEMMA DedupImplies ==
  ASSUME TypeInv, DedupInv
  PROVE  TxOffsetSentOnce
<1>1. \A i \in 1..Len(downstream) : i \in 1..Len(Produced) /\ Produced[i] = downstream[i]
  <2>1. /\ downstream \in Seq(DownstreamEvent)
        /\ pendingDownstream \in Seq(DownstreamEvent)
    BY DEF TypeInv, TypeOK
  <2> QED BY <2>1 DEF Produced
<1>2. SentOnce("tx", Produced) /\ SentOnce("unappliedTx", Produced)
  BY DEF DedupInv, Dedup
<1> QED BY <1>1, <1>2 DEF SentOnce, TxOffsetSentOnce

(* While processedTxOffsets never exceeds its limit, no transaction        *)
(* message goes downstream twice: for every chain, every interleaving and  *)
(* every number of restarts of every reader.                               *)
THEOREM TxSentOnceWithinLimit == Spec /\ []WithinLimit => []TxOffsetSentOnce
<1>1. Init => DedupInv
  BY DedupInit
<1>2. TypeInv /\ WithinLimit /\ DedupInv /\ [Next]_vars => DedupInv'
  BY DedupStep
<1>3. TypeInv /\ DedupInv => TxOffsetSentOnce
  BY DedupImplies
<1> QED BY <1>1, <1>2, <1>3, TypeInvariant, PTL DEF Spec
==============================================================================
