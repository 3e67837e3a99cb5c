------------------------------- MODULE Indexer -------------------------------
(***************************************************************************)
(* IndexerActor (internal/actors/indexer.go): the actor that merges the    *)
(* block and the transaction topic into one ordered stream of events for   *)
(* the strategies downstream, and keeps the cursor that says up to which   *)
(* height everything has been seen.                                        *)
(*                                                                         *)
(* A handler of the actor runs alone, so each is one action.  The reader   *)
(* goroutine of a topic (consumeReader) and the part of the actor's        *)
(* mailbox it fills are folded into the topic's read index: both are FIFO, *)
(* so the next message of a topic the actor handles is the one at the      *)
(* index, and how the topics interleave in the mailbox is the order in     *)
(* which the actions are taken.                                            *)
(***************************************************************************)
EXTENDS ChainFeed

CONSTANTS
  InterceptHeight,  \* cfg.Indexer.InterceptHeight
  Lookback,         \* cfg.Kafka.MaxStragglersLookback (100 when it is 0)
  MaxOffsetEntries, \* the limit of the deduplication sets
  Unparsable,       \* transactions whose CBOR does not parse
  RestartTopics,    \* the topics whose reader may fail for long
  MaxRestarts,      \* bound: reader restarts
  MaxNodeErrors     \* bound: failed GetNodeInfo calls

ASSUME IndexerAssumption ==
  /\ InterceptHeight \in Nat /\ InterceptHeight <= MaxHeight + 1
  /\ Lookback \in Nat \ {0}
  /\ MaxOffsetEntries \in Nat
  /\ Unparsable \subseteq Txs
  /\ RestartTopics \subseteq {"block", "tx", "mempool"}
  /\ MaxRestarts \in Nat /\ MaxNodeErrors \in Nat

VARIABLES
  running,                   \* startKafka has run
  blockIdx, txIdx, mempoolIdx, \* the next position of each reader
  lastBlockOffset, lastTxOffset, \* where a restarted reader begins; 0 = start
  lastProcessedHeight,       \* the cursor
  tipHeight,                 \* the node's height as last asked
  cursorLoaded,              \* the actor resumed from a cursor point
  completed,                 \* blockState of the heights being counted
  pendingApplied,            \* per block: offsets of transactions read early
  pendingUnapplied,
  emittedBlocks,             \* blocks whose BlockApply went downstream
  processedTxOffsets, processedMempoolOffsets,
  downstreamSet,             \* SetDownstream has been handled
  pendingDownstream,         \* events produced before that
  downstream,                \* history: everything sent to the strategies
  restarts, nodeErrors       \* counters for the bounds

readerVars == <<running, blockIdx, txIdx, mempoolIdx, lastBlockOffset, lastTxOffset>>
cursorVars == <<lastProcessedHeight, tipHeight, cursorLoaded, completed>>
bufferVars == <<pendingApplied, pendingUnapplied, emittedBlocks,
                processedTxOffsets, processedMempoolOffsets>>
sendVars == <<downstreamSet, pendingDownstream, downstream>>
boundVars == <<restarts, nodeErrors>>
indexerVars == <<readerVars, cursorVars, bufferVars, sendVars, boundVars>>
vars == <<feedVars, indexerVars>>

BlockState == [expected : Nat, seen : Nat, rollback : BOOLEAN]

-------------------------------------------------------------------------------
(* Events sent downstream.  An IndexerTransactionEvent carries its height  *)
(* but not its block; the field block is kept for the properties only.     *)

Event(type, b, t, offset, tip) ==
  [type |-> type, block |-> b, tx |-> t, offset |-> offset, tipReached |-> tip]
TxEventAt(o) == Event("tx", txLog[o].block, txLog[o].tx, o, FALSE)
UnappliedEventAt(o) ==
  Event("unappliedTx", txLog[o].block, txLog[o].tx, o, FALSE)

SendDownstream(events) ==
  /\ IF downstreamSet
     THEN /\ downstream' = downstream \o events
          /\ UNCHANGED pendingDownstream
     ELSE /\ pendingDownstream' = pendingDownstream \o events
          /\ UNCHANGED downstream
  /\ UNCHANGED downstreamSet

(* Everything produced so far, in the order it was produced.               *)
Produced == downstream \o pendingDownstream

-------------------------------------------------------------------------------
(* The cursor.                                                             *)

DoneOneShort(st) == st.rollback \/ st.seen + 1 >= st.expected  \* mutant
Done(st) == st.rollback \/ st.seen = st.expected
DoneAt(comp, h) == h \in DOMAIN comp /\ Done(comp[h])
SetState(comp, h, st) ==
  [k \in DOMAIN comp \cup {h} |-> IF k = h THEN st ELSE comp[k]]

(* tryAdvanceCursor: over every done height next to the cursor.            *)
CursorStopsAt(comp, k) ==
  /\ \A h \in (lastProcessedHeight + 1)..k : DoneAt(comp, h)
  /\ ~DoneAt(comp, k + 1)
AdvanceOneHeight(comp) ==  \* mutant: does not look past the next height
  lastProcessedHeight' = IF DoneAt(comp, lastProcessedHeight + 1)
                         THEN lastProcessedHeight + 1 ELSE lastProcessedHeight
TryAdvanceCursor(comp) ==
  \E k \in lastProcessedHeight..MaxHeight :
    CursorStopsAt(comp, k) /\ lastProcessedHeight' = k

(* The heights the cursor passed are deleted from completed.               *)
Remaining(comp) ==
  [h \in DOMAIN comp \ ((lastProcessedHeight + 1)..lastProcessedHeight')
     |-> comp[h]]

-------------------------------------------------------------------------------
(* pruneOldBuffers, with the cursor and the tip the handler leaves.        *)

Straggler(h) == h > 0 /\ lastProcessedHeight' > h + Lookback

(* A deduplication set over its limit loses its oldest half.               *)
KeepNewest(offsets) ==
  IF Cardinality(offsets) <= MaxOffsetEntries THEN offsets
  ELSE {o \in offsets : Cardinality({p \in offsets : p < o})
                          >= Cardinality(offsets) \div 2}

PruneOldBuffers(applied, unapplied, emitted, comp) ==
  IF lastProcessedHeight' < tipHeight'
  THEN /\ pendingApplied' = applied
       /\ pendingUnapplied' = unapplied
       /\ emittedBlocks' = emitted
       /\ completed' = comp
       /\ UNCHANGED <<processedTxOffsets, processedMempoolOffsets>>
  ELSE /\ pendingApplied' =
            [b \in Blocks |-> IF Straggler(HeightOf[b]) THEN <<>> ELSE applied[b]]
       /\ pendingUnapplied' =
            [b \in Blocks |-> IF Straggler(HeightOf[b]) THEN <<>> ELSE unapplied[b]]
       /\ emittedBlocks' = {b \in emitted : ~Straggler(HeightOf[b])}
       /\ completed' = [h \in {k \in DOMAIN comp : ~Straggler(k)} |-> comp[h]]
       /\ processedTxOffsets' = KeepNewest(processedTxOffsets)
       /\ processedMempoolOffsets' = KeepNewest(processedMempoolOffsets)

-------------------------------------------------------------------------------
Init ==
  /\ FeedInit
  /\ running = FALSE
  /\ blockIdx = 1 /\ txIdx = 1 /\ mempoolIdx = 1
  /\ lastBlockOffset = 0 /\ lastTxOffset = 0
  /\ lastProcessedHeight = IF InterceptHeight > 0 THEN InterceptHeight - 1 ELSE 0
  /\ tipHeight = 0
  /\ cursorLoaded = FALSE
  /\ completed = [h \in {} |-> h]
  /\ pendingApplied = [b \in Blocks |-> <<>>]
  /\ pendingUnapplied = [b \in Blocks |-> <<>>]
  /\ emittedBlocks = {}
  /\ processedTxOffsets = {} /\ processedMempoolOffsets = {}
  /\ downstreamSet = FALSE
  /\ pendingDownstream = <<>> /\ downstream = <<>>
  /\ restarts = 0 /\ nodeErrors = 0

(* main asks the node for its height, the actor is spawned and startKafka  *)
(* finds no cursor point: block and transaction readers at the start of    *)
(* their topics, the mempool reader at the end of its own.                 *)
StartKafka ==
  /\ ~running
  /\ running' = TRUE
  /\ tipHeight' = NodeHeight
  /\ mempoolIdx' = Len(mempoolLog) + 1
  /\ UNCHANGED <<feedVars, blockIdx, txIdx, lastBlockOffset, lastTxOffset,
                 lastProcessedHeight, cursorLoaded, completed, bufferVars,
                 sendVars, boundVars>>

SetDownstreamNoFlush ==  \* mutant: forgets what was produced before
  /\ running
  /\ ~downstreamSet
  /\ downstreamSet' = TRUE
  /\ pendingDownstream' = <<>>
  /\ UNCHANGED <<feedVars, readerVars, cursorVars, bufferVars, boundVars, downstream>>

(* The StrategyManager's SetDownstream message: what was produced before   *)
(* it arrived is flushed first.                                            *)
SetDownstream ==
  /\ running
  /\ ~downstreamSet
  /\ downstreamSet' = TRUE
  /\ downstream' = downstream \o pendingDownstream
  /\ pendingDownstream' = <<>>
  /\ UNCHANGED <<feedVars, readerVars, cursorVars, bufferVars, boundVars>>

-------------------------------------------------------------------------------
(* The block topic.                                                        *)

NextBlock(kind) ==
  /\ running
  /\ blockIdx <= Len(blockLog)
  /\ blockLog[blockIdx].kind = kind
  /\ blockIdx' = blockIdx + 1
  /\ UNCHANGED <<feedVars, running, txIdx, mempoolIdx, lastBlockOffset,
                 lastTxOffset, cursorLoaded, restarts>>

SkipMalformedBlock ==
  /\ NextBlock("malformed")
  /\ UNCHANGED <<lastProcessedHeight, tipHeight, completed, bufferVars,
                 sendVars, nodeErrors>>

SkipDuplicateApply ==
  /\ NextBlock("apply")
  /\ blockLog[blockIdx].block \in emittedBlocks
  /\ UNCHANGED <<lastProcessedHeight, tipHeight, completed, bufferVars,
                 sendVars, nodeErrors>>

(* At the tip the node is asked for its height; when it does not answer,   *)
(* emitBlockApply returns before the block is emitted.                     *)
DropApplyOnNodeError ==
  /\ NextBlock("apply")
  /\ blockLog[blockIdx].block \notin emittedBlocks
  /\ HeightOf[blockLog[blockIdx].block] >= tipHeight
  /\ nodeErrors < MaxNodeErrors
  /\ nodeErrors' = nodeErrors + 1
  /\ UNCHANGED <<lastProcessedHeight, tipHeight, completed, bufferVars, sendVars>>

(* The state of a new block's height after the transactions that were read *)
(* before the block have been replayed.  At the cursor's next height the   *)
(* block is passed as soon as the expected number has been seen, and what  *)
(* is replayed after that no longer finds its state.                       *)
StateWithoutReplay(b) ==  \* mutant: replayed transactions are not counted
  [expected |-> NumTxs(b), seen |-> 0, rollback |-> FALSE]
StateAfterReplay(b) ==
  LET early == Len(pendingApplied[b])
  IN IF /\ HeightOf[b] = lastProcessedHeight + 1
        /\ 1 <= NumTxs(b) /\ NumTxs(b) <= early
     THEN [expected |-> NumTxs(b), seen |-> NumTxs(b), rollback |-> FALSE]
     ELSE [expected |-> NumTxs(b), seen |-> early,
           rollback |-> pendingUnapplied[b] # <<>>]

EmitBlockApply ==
  /\ NextBlock("apply")
  /\ LET b == blockLog[blockIdx].block
         h == HeightOf[b]
         applied == pendingApplied[b]
         unapplied == pendingUnapplied[b]
         comp == SetState(completed, h, StateAfterReplay(b))
     IN /\ b \notin emittedBlocks
        /\ tipHeight' = IF h >= tipHeight THEN NodeHeight ELSE tipHeight
        /\ IF NumTxs(b) = 0 \/ applied # <<>> \/ unapplied # <<>>
           THEN TryAdvanceCursor(comp)
           ELSE UNCHANGED lastProcessedHeight
        /\ SendDownstream(
             <<Event("block", b, Root, blockIdx, tipHeight' = h)>>
             \o [i \in 1..Len(applied) |-> TxEventAt(applied[i])]
             \o [i \in 1..Len(unapplied) |-> UnappliedEventAt(unapplied[i])])
        /\ PruneOldBuffers([pendingApplied EXCEPT ![b] = <<>>],
                           [pendingUnapplied EXCEPT ![b] = <<>>],
                           emittedBlocks \cup {b}, Remaining(comp))
  /\ UNCHANGED nodeErrors

EmittedStays(b) == emittedBlocks  \* mutant
EmittedAfterUnapply(b) == emittedBlocks \ {b}

(* The height counts as done whatever has been seen of it.  A height that  *)
(* is no longer tracked gets a new state.                                  *)
EmitBlockUnapply ==
  /\ NextBlock("unapply")
  /\ LET b == blockLog[blockIdx].block
         h == HeightOf[b]
         unapplied == pendingUnapplied[b]
         comp == SetState(completed, h,
                   IF h \in DOMAIN completed
                   THEN [completed[h] EXCEPT !.rollback = TRUE]
                   ELSE [expected |-> NumTxs(b), seen |-> 0, rollback |-> TRUE])
     IN /\ TryAdvanceCursor(comp)
        /\ UNCHANGED tipHeight
        /\ SendDownstream(
             <<Event("rollback", b, Root, blockIdx, FALSE)>>
             \o [i \in 1..Len(unapplied) |-> UnappliedEventAt(unapplied[i])])
        /\ PruneOldBuffers(pendingApplied, [pendingUnapplied EXCEPT ![b] = <<>>],
                           EmittedAfterUnapply(b), Remaining(comp))
  /\ UNCHANGED nodeErrors

-------------------------------------------------------------------------------
(* The transaction topic.                                                  *)

NextTx(kind) ==
  /\ running
  /\ txIdx <= Len(txLog)
  /\ txLog[txIdx].kind = kind
  /\ txIdx' = txIdx + 1
  /\ UNCHANGED <<feedVars, running, blockIdx, mempoolIdx, lastBlockOffset,
                 lastTxOffset, tipHeight, cursorLoaded, emittedBlocks,
                 processedMempoolOffsets, boundVars>>

SkipMalformedTx ==
  /\ NextTx("malformed")
  /\ UNCHANGED <<lastProcessedHeight, completed, pendingApplied,
                 pendingUnapplied, processedTxOffsets, sendVars>>

SkipDuplicateTx ==
  /\ \E kind \in {"applied", "unapplied"} : NextTx(kind)
  /\ txIdx \in processedTxOffsets
  /\ UNCHANGED <<lastProcessedHeight, completed, pendingApplied,
                 pendingUnapplied, processedTxOffsets, sendVars>>

AnyTx(kind) ==  \* mutant: no deduplication
  /\ NextTx(kind)
  /\ processedTxOffsets' = processedTxOffsets \cup {txIdx}
FreshTx(kind) ==
  /\ NextTx(kind)
  /\ txIdx \notin processedTxOffsets
  /\ processedTxOffsets' = processedTxOffsets \cup {txIdx}

(* Below the start of the index or, after a resume, at or below the cursor *)
SkippedIntercept(h) ==  \* mutant: off by one at the intercept height
  IF cursorLoaded THEN h <= lastProcessedHeight ELSE h <= InterceptHeight
SkippedHeight(h) ==
  IF cursorLoaded THEN h <= lastProcessedHeight ELSE h < InterceptHeight

SkipAppliedTx ==
  /\ FreshTx("applied")
  /\ SkippedHeight(HeightOf[txLog[txIdx].block])
  /\ UNCHANGED <<lastProcessedHeight, completed, pendingApplied,
                 pendingUnapplied, sendVars>>

BufferAppliedTx ==
  /\ FreshTx("applied")
  /\ LET b == txLog[txIdx].block
     IN /\ ~SkippedHeight(HeightOf[b])
        /\ b \notin emittedBlocks
        /\ pendingApplied' = [pendingApplied EXCEPT ![b] = Append(@, txIdx)]
  /\ UNCHANGED <<lastProcessedHeight, completed, pendingUnapplied, sendVars>>

ProcessAppliedTx ==
  /\ FreshTx("applied")
  /\ LET b == txLog[txIdx].block
         h == HeightOf[b]
     IN /\ ~SkippedHeight(h)
        /\ b \in emittedBlocks
        /\ IF h \in DOMAIN completed
           THEN LET comp == SetState(completed, h,
                              [completed[h] EXCEPT !.seen = @ + 1])
                IN TryAdvanceCursor(comp) /\ completed' = Remaining(comp)
           ELSE UNCHANGED <<lastProcessedHeight, completed>>
        /\ SendDownstream(<<TxEventAt(txIdx)>>)
  /\ UNCHANGED <<pendingApplied, pendingUnapplied>>

SkipUnparsableUnapplied ==
  /\ FreshTx("unapplied")
  /\ txLog[txIdx].tx \in Unparsable
  /\ UNCHANGED <<lastProcessedHeight, completed, pendingApplied,
                 pendingUnapplied, sendVars>>

BufferUnappliedTx ==
  /\ FreshTx("unapplied")
  /\ txLog[txIdx].tx \notin Unparsable
  /\ LET b == txLog[txIdx].block
     IN /\ b \notin emittedBlocks
        /\ pendingUnapplied' = [pendingUnapplied EXCEPT ![b] = Append(@, txIdx)]
  /\ UNCHANGED <<lastProcessedHeight, completed, pendingApplied, sendVars>>

ProcessUnappliedTx ==
  /\ FreshTx("unapplied")
  /\ txLog[txIdx].tx \notin Unparsable
  /\ LET b == txLog[txIdx].block
         h == HeightOf[b]
     IN /\ b \in emittedBlocks
        /\ IF h \in DOMAIN completed
           THEN LET comp == SetState(completed, h,
                              [completed[h] EXCEPT !.rollback = TRUE])
                IN TryAdvanceCursor(comp) /\ completed' = Remaining(comp)
           ELSE UNCHANGED <<lastProcessedHeight, completed>>
        /\ SendDownstream(<<UnappliedEventAt(txIdx)>>)
  /\ UNCHANGED <<pendingApplied, pendingUnapplied>>

-------------------------------------------------------------------------------
(* The mempool topic.                                                      *)

NextMempool ==
  /\ running
  /\ mempoolIdx <= Len(mempoolLog)
  /\ mempoolIdx' = mempoolIdx + 1
  /\ UNCHANGED <<feedVars, running, blockIdx, txIdx, lastBlockOffset,
                 lastTxOffset, cursorVars, pendingApplied, pendingUnapplied,
                 emittedBlocks, processedTxOffsets, boundVars>>

(* Not at the tip yet, already processed, or not decodable: dropped.       *)
DropMempoolMessage ==
  /\ NextMempool
  /\ \/ lastProcessedHeight < tipHeight
     \/ mempoolIdx \in processedMempoolOffsets
     \/ mempoolLog[mempoolIdx].kind = "malformed"
  /\ UNCHANGED <<processedMempoolOffsets, sendVars>>

ForwardMempoolMessage ==
  /\ NextMempool
  /\ lastProcessedHeight >= tipHeight
  /\ mempoolIdx \notin processedMempoolOffsets
  /\ mempoolLog[mempoolIdx].kind # "malformed"
  /\ processedMempoolOffsets' = processedMempoolOffsets \cup {mempoolIdx}
  /\ SendDownstream(<<Event(mempoolLog[mempoolIdx].kind, Root,
                            mempoolLog[mempoolIdx].tx, mempoolIdx, FALSE)>>)

-------------------------------------------------------------------------------
(* A reader that keeps failing is replaced (CriticalErrorThreshold errors, *)
(* then the actor's own RestartReader message).  The block and transaction *)
(* readers go back to the offset remembered when the actor resumed, or to  *)
(* the start of the topic; the mempool reader goes to the end of its own.  *)
StoredOffset(o) == o  \* mutant
ResumeOffset(o) == IF o > 0 THEN o ELSE 1

RestartReader(topic) ==
  /\ running
  /\ restarts < MaxRestarts
  /\ restarts' = restarts + 1
  /\ blockIdx' = IF topic = "block" THEN ResumeOffset(lastBlockOffset) ELSE blockIdx
  /\ txIdx' = IF topic = "tx" THEN ResumeOffset(lastTxOffset) ELSE txIdx
  /\ mempoolIdx' = IF topic = "mempool" THEN Len(mempoolLog) + 1 ELSE mempoolIdx
  /\ UNCHANGED <<feedVars, running, lastBlockOffset, lastTxOffset, cursorVars,
                 bufferVars, sendVars, nodeErrors>>

-------------------------------------------------------------------------------
HandleBlockMessage ==
  \/ SkipMalformedBlock \/ SkipDuplicateApply \/ DropApplyOnNodeError
  \/ EmitBlockApply \/ EmitBlockUnapply
HandleTxMessage ==
  \/ SkipMalformedTx \/ SkipDuplicateTx \/ SkipAppliedTx
  \/ BufferAppliedTx \/ ProcessAppliedTx
  \/ SkipUnparsableUnapplied \/ BufferUnappliedTx \/ ProcessUnappliedTx
HandleMempoolMessage == DropMempoolMessage \/ ForwardMempoolMessage

Next ==
  \/ FeedNext /\ UNCHANGED indexerVars
  \/ StartKafka
  \/ SetDownstream
  \/ HandleBlockMessage
  \/ HandleTxMessage
  \/ HandleMempoolMessage
  \/ \E topic \in RestartTopics : RestartReader(topic)

Spec == Init /\ [][Next]_vars

-------------------------------------------------------------------------------
(* Properties.                                                             *)

Heights == 0..MaxHeight

DownstreamEvent ==
  [type : {"block", "rollback", "tx", "unappliedTx", "accepted", "withdrawn",
           "malformed"},
   block : Blocks \cup {Root}, tx : Txs \cup {Root}, offset : Nat,
   tipReached : BOOLEAN]

(* Types of the topics and of the actor's own state.                       *)
TypeOK ==
  /\ FeedTypeOK
  /\ running \in BOOLEAN /\ cursorLoaded \in BOOLEAN /\ downstreamSet \in BOOLEAN
  /\ blockIdx \in Nat \ {0} /\ txIdx \in Nat \ {0} /\ mempoolIdx \in Nat \ {0}
  /\ lastBlockOffset \in Nat /\ lastTxOffset \in Nat
  /\ lastProcessedHeight \in Heights
  /\ tipHeight \in Int
  /\ DOMAIN completed \subseteq Heights
  /\ \A h \in DOMAIN completed : completed[h] \in BlockState
  /\ pendingApplied \in [Blocks -> Seq(Nat)]
  /\ pendingUnapplied \in [Blocks -> Seq(Nat)]
  /\ emittedBlocks \subseteq Blocks
  /\ processedTxOffsets \subseteq Nat /\ processedMempoolOffsets \subseteq Nat
  /\ pendingDownstream \in Seq(DownstreamEvent)
  /\ downstream \in Seq(DownstreamEvent)

(* e ends the time during which the strategies know block b: a rollback    *)
(* removes every height from its own on (processRollbackEvent), another    *)
(* block at b's height replaces b.                                         *)
Closes(e, b) ==
  \/ e.type = "rollback" /\ HeightOf[e.block] <= HeightOf[b]
  \/ e.type = "block" /\ e.block # b /\ HeightOf[e.block] = HeightOf[b]
OpenAt(s, i, b) ==
  \E j \in 1..i : /\ s[j].type = "block" /\ s[j].block = b
                  /\ \A k \in (j + 1)..i : ~Closes(s[k], b)

(* A transaction goes downstream only while its own block is the one the   *)
(* strategies know at its height: after the block's event, with no rollback*)
(* of that height or a lower one in between.  (ChainEventProcessor fails   *)
(* for good on a transaction whose height it has no block for.)            *)
TxWithinItsBlock ==
  \A i \in 1..Len(downstream) :
    downstream[i].type = "tx" => OpenAt(downstream, i, downstream[i].block)

(* However often the transaction topic is redelivered, no transaction      *)
(* message goes downstream twice (processedTxOffsets, indexer.go:151-155). *)
TxOffsetSentOnce ==
  \A i, j \in 1..Len(downstream) :
    /\ downstream[i].type \in {"tx", "unappliedTx"}
    /\ downstream[j].type = downstream[i].type
    /\ downstream[j].offset = downstream[i].offset
    => i = j

(* The cursor never rests below a height that is already done: whatever    *)
(* completes a height (the block, a replayed or a live transaction, a      *)
(* rollback) also moves the cursor.                                        *)
CursorTight == ~DoneAt(completed, lastProcessedHeight + 1)

SentTxs(b) ==
  {downstream[i].offset : i \in {j \in 1..Len(downstream) :
     downstream[j].type = "tx" /\ downstream[j].block = b}}
RolledBack(h) ==
  \E i \in 1..Len(downstream) :
    /\ downstream[i].type \in {"rollback", "unappliedTx"}
    /\ HeightOf[downstream[i].block] = h

(* The cursor passes a height only when the strategies were told of it in  *)
(* full: a block there with as many transactions as it announced, or that  *)
(* the height was rolled back.                                             *)
CursorBacked ==
  downstreamSet =>
    \A h \in InterceptHeight..lastProcessedHeight :
      \/ RolledBack(h)
      \/ \E b \in Blocks : HeightOf[b] = h /\ Cardinality(SentTxs(b)) = NumTxs(b)

CaughtUp ==
  /\ running /\ downstreamSet
  /\ blockIdx > Len(blockLog) /\ txIdx > Len(txLog)

(* Transaction t of block b was sent ...                                   *)
TxWasSent(b, t) ==
  \E i \in 1..Len(downstream) :
    /\ downstream[i].type = "tx" /\ downstream[i].block = b /\ downstream[i].tx = t

(* ... after the last event of b, and nothing since then has made the      *)
(* strategies forget it.                                                   *)
SentToLastOf(b, t) ==
  \E i \in 1..Len(downstream) :
    /\ downstream[i].type = "tx" /\ downstream[i].block = b /\ downstream[i].tx = t
    /\ \E j \in 1..i : /\ downstream[j].type = "block" /\ downstream[j].block = b
                      /\ \A k \in (j + 1)..Len(downstream) :
                           /\ ~Closes(downstream[k], b)
                           /\ ~(downstream[k].type = "block" /\ downstream[k].block = b)

(* When both topics have been read to the end, the strategies know exactly *)
(* the blocks of the node's best chain; and of each of them, from the      *)
(* intercept height on, every transaction was sent: after the block's last *)
(* event, with no rollback since, if the block joined the chain once.  Of  *)
(* one that joined it twice the second transactions may be sent to the     *)
(* first event and be lost with it, when the transaction reader is ahead   *)
(* (indexer.go:949-950).  Not when GetNodeInfo failed.                     *)
MirrorsChain ==
  CaughtUp /\ nodeErrors = 0 =>
    \A b \in Blocks :
      /\ OpenAt(downstream, Len(downstream), b) <=> b \in chain
      /\ b \in chain /\ HeightOf[b] >= InterceptHeight =>
           \A n \in 1..NumTxs(b) :
             /\ TxWasSent(b, TxsOf[b][n])
             /\ applies[b] = 1 => SentToLastOf(b, TxsOf[b][n])

(* A block message is applied downstream once, however often the topic is  *)
(* redelivered: emitBlockApply returns early on "a duplicate".             *)
BlockOffsetSentOnce ==
  \A i, j \in 1..Len(downstream) :
    /\ downstream[i].type = "block" /\ downstream[j].type = "block"
    /\ downstream[i].offset = downstream[j].offset
    => i = j
==============================================================================
