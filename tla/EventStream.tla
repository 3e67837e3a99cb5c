----------------------------- MODULE EventStream -----------------------------
(***************************************************************************)
(* What a strategy sees of the IndexerActor: block, rollback and           *)
(* transaction events in an order it can rely on.  The event of a block    *)
(* comes before the events of its transactions, a rollback ends them       *)
(* (Indexer proves both: TxWithinItsBlock), and after a restart of the     *)
(* process the stream starts again behind a stored cursor point            *)
(* (startKafka, seekToLiveCursor).                                         *)
(*                                                                         *)
(* A transaction whose block has not been emitted waits at the head of its *)
(* topic.  Of the actor's buffers only what decides something is left: a   *)
(* resumed actor compares a transaction with its cursor when it reads it,  *)
(* and one read early may find the cursor past it when its block comes.    *)
(* An actor's mailbox is FIFO and the strategy has no other sender, so     *)
(* sending an event and handling it is one step (see ChainEventProcessor). *)
(***************************************************************************)
EXTENDS ChainFeed

CONSTANTS
  InterceptHeight,  \* cfg.Indexer.InterceptHeight
  MaxNodeErrors     \* bound: failed GetNodeInfo calls
ASSUME StreamAssumption == InterceptHeight \in Nat /\ MaxNodeErrors \in Nat

VARIABLES
  blockPos, txPos,   \* next position in the block and the transaction topic
  emitted,           \* blocks whose event was sent since the start
  done,              \* heights completed or rolled back since the start
  start,             \* lastProcessedHeight at the start
  cursorLoaded,      \* the start was a stored cursor point
  early,             \* pendingApplied: transactions read before their block
  dropped,           \* history: blocks that were read and not sent
  nodeErrors         \* counter for the bound

lossVars == <<dropped, nodeErrors>>
streamVars == <<blockPos, txPos, emitted, done, start, cursorLoaded, early, lossVars>>

(* lastProcessedHeight: every height up to it has been completed.          *)
Cursor ==
  CHOOSE k \in start..(MaxHeight + 1) :
    (start + 1)..k \subseteq done /\ k + 1 \notin done

ReaderTypeOK ==
  /\ blockPos \in 1..(Len(blockLog) + 1)
  /\ txPos \in 1..(Len(txLog) + 1)
  /\ emitted \subseteq Blocks
  /\ done \subseteq 0..MaxHeight
  /\ start \in Nat
  /\ cursorLoaded \in BOOLEAN

StreamTypeOK ==
  /\ ReaderTypeOK
  /\ early \subseteq txPos..Len(txLog)
  /\ dropped \subseteq Blocks /\ nodeErrors \in Nat

StreamInit ==
  /\ blockPos = 1 /\ txPos = 1
  /\ emitted = {} /\ done = {}
  /\ start = IF InterceptHeight > 0 THEN InterceptHeight - 1 ELSE 0
  /\ cursorLoaded = FALSE
  /\ early = {} /\ dropped = {} /\ nodeErrors = 0

(* The next block message.  What was waiting for the last one was sent     *)
(* within the handler of that one.                                         *)
NextIs(kind, b) ==
  /\ blockPos <= Len(blockLog)
  /\ blockLog[blockPos].kind = kind /\ blockLog[blockPos].block = b
  /\ \A o \in early : txLog[o].block \notin emitted

(* emitBlockApply.  A height the cursor has not passed is counted afresh.  *)
SendBlock(b) ==
  /\ NextIs("apply", b)
  /\ blockPos' = blockPos + 1
  /\ emitted' = emitted \cup {b}
  /\ done' = IF NumTxs(b) = 0 THEN done \cup {HeightOf[b]}
             ELSE IF HeightOf[b] > Cursor THEN done \ {HeightOf[b]} ELSE done
  /\ UNCHANGED <<feedVars, txPos, start, cursorLoaded, early, lossVars>>

(* GetNodeInfo fails: emitBlockApply returns, and the message is not read  *)
(* again by this process.  Only a block that is not below tipHeight makes  *)
(* it ask; which tip the actor knows is not kept, so it may be any block.  *)
DropBlock(b) ==
  /\ NextIs("apply", b)
  /\ nodeErrors < MaxNodeErrors
  /\ nodeErrors' = nodeErrors + 1
  /\ dropped' = dropped \cup {b}
  /\ blockPos' = blockPos + 1
  /\ UNCHANGED <<feedVars, txPos, emitted, done, start, cursorLoaded, early>>

(* emitBlockUnapply.                                                       *)
SendRollback(b) ==
  /\ NextIs("unapply", b)
  /\ blockPos' = blockPos + 1
  /\ emitted' = emitted \ {b}
  /\ done' = done \cup {HeightOf[b]}
  /\ UNCHANGED <<feedVars, txPos, start, cursorLoaded, early, lossVars>>

(* bufferOrProcessTx: the early returns, and the transaction of an emitted *)
(* block; o is its offset.                                                 *)
TooLow(h) == IF cursorLoaded THEN h <= Cursor ELSE h < InterceptHeight

LastOfBlock(o) ==
  LET b == txLog[o].block IN txLog[o].tx = TxsOf[b][NumTxs(b)]

(* A transaction is read, and found high enough, before its block.  The    *)
(* step is only needed where the test may have another outcome later: in a *)
(* process that has resumed, at a height that the cursor can pass with     *)
(* another block.                                                          *)
Contested(b) == \E c \in Blocks \ {b} : HeightOf[c] = HeightOf[b]

BufferTx(o) ==
  /\ cursorLoaded
  /\ o \in (txPos..Len(txLog)) \ early
  /\ txLog[o].kind = "applied" /\ ~TooLow(HeightOf[txLog[o].block])
  /\ txLog[o].block \notin emitted /\ Contested(txLog[o].block)
  /\ \A p \in txPos..(o - 1) :  \* those before it have been read
       LET b == txLog[p].block
       IN \/ p \in early
          \/ txLog[p].kind = "applied" /\ TooLow(HeightOf[b])
          \/ b \notin emitted /\ (txLog[p].kind = "unapplied" \/ ~Contested(b))
  /\ early' = early \cup {o}
  /\ UNCHANGED <<feedVars, blockPos, txPos, emitted, done, start, cursorLoaded, lossVars>>

TxIsNextUnbuffered(o) ==  \* mutant: sent as soon as it is read
  /\ txPos <= Len(txLog) /\ o = txPos
  /\ txLog[o].kind = "applied"
  /\ o \in early \/ ~TooLow(HeightOf[txLog[o].block])
TxIsNext(o) ==
  /\ txPos <= Len(txLog) /\ o = txPos
  /\ txLog[o].kind = "applied"
  /\ o \in early \/ ~TooLow(HeightOf[txLog[o].block])
  /\ txLog[o].block \in emitted

SendTx(o) ==
  /\ TxIsNext(o)
  /\ done' = IF LastOfBlock(o) THEN done \cup {HeightOf[txLog[o].block]} ELSE done
  /\ txPos' = txPos + 1
  /\ early' = early \ {o}
  /\ UNCHANGED <<feedVars, blockPos, emitted, start, cursorLoaded, lossVars>>

(* Below the start or the cursor, or of a block whose message has been     *)
(* read and which was rolled back since, or dropped.                       *)
SkipTx ==
  /\ txPos <= Len(txLog)
  /\ txLog[txPos].kind = "applied"
  /\ LET b == txLog[txPos].block
     IN \/ txPos \notin early /\ TooLow(HeightOf[b])
        \/ /\ b \notin emitted
           /\ \E i \in 1..(blockPos - 1) :
                blockLog[i].kind = "apply" /\ blockLog[i].block = b
  /\ txPos' = txPos + 1
  /\ early' = early \ {txPos}
  /\ UNCHANGED <<feedVars, blockPos, emitted, done, start, cursorLoaded, lossVars>>

(* The strategy only logs an unapplied transaction; the cursor takes its   *)
(* height as rolled back.                                                  *)
SkipUnappliedTx ==
  /\ txPos <= Len(txLog)
  /\ txLog[txPos].kind = "unapplied"
  /\ LET b == txLog[txPos].block
     IN done' = IF b \in emitted THEN done \cup {HeightOf[b]} ELSE done
  /\ txPos' = txPos + 1
  /\ UNCHANGED <<feedVars, blockPos, emitted, start, cursorLoaded, early, lossVars>>

(* The process starts again, behind a cursor point or from the beginning.  *)
RestartPastNext(point) ==  \* mutant: the message behind the point is lost
  /\ blockPos' = point.blockOffset + 1
  /\ txPos' = point.txOffset + 2
  /\ start' = HeightOf[point.block]
  /\ cursorLoaded' = TRUE
  /\ emitted' = {} /\ done' = {} /\ early' = {}
  /\ UNCHANGED lossVars
RestartAt(point) ==
  /\ blockPos' = point.blockOffset + 1
  /\ txPos' = point.txOffset + 1
  /\ start' = HeightOf[point.block]
  /\ cursorLoaded' = TRUE
  /\ emitted' = {} /\ done' = {} /\ early' = {}
  /\ UNCHANGED lossVars
RestartFromBeginning ==
  /\ blockPos' = 1 /\ txPos' = 1
  /\ start' = IF InterceptHeight > 0 THEN InterceptHeight - 1 ELSE 0
  /\ cursorLoaded' = FALSE
  /\ emitted' = {} /\ done' = {} /\ early' = {}
  /\ UNCHANGED lossVars
==============================================================================
