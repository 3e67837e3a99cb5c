-------------------------------- MODULE Resume --------------------------------
(***************************************************************************)
(* The IndexerActor across restarts of the process: startKafka with the    *)
(* cursor points of the database, seekToLiveCursor and its two ways to     *)
(* find a point in the block topic, and what a crash leaves of them.       *)
(*                                                                         *)
(* startKafka is one handler, but it reads the topics while it runs, and   *)
(* the node and the topics go on meanwhile: each attempt at a cursor point *)
(* is an action.  seek says what is tried next for the newest of points.   *)
(*                                                                         *)
(* The strategy is there only as far as its cursor table goes: a point for *)
(* every block whose transactions it was sent in full (ChainEventProcessor *)
(* says when, and that it is exact).  That it may lag behind the stream    *)
(* when the process dies needs no step of its own: it is a crash at an     *)
(* earlier point of the stream over topics that are as long.               *)
(***************************************************************************)
EXTENDS Indexer

CONSTANTS
  MaxCrashes,    \* bound: crashes of the process
  MaxSeekErrors  \* bound: ReadMessage calls of a seek that fail

ASSUME ResumeAssumption == MaxCrashes \in Nat /\ MaxSeekErrors \in Nat

VARIABLES
  cursor,     \* table cursor
  seek,       \* "none", or what is tried next: "stored" offsets or a "scan"
  points,     \* the points seekToLiveCursor has not given up yet
  lives,      \* history: how each start of the process ended its seek
  crashes, seekErrors  \* counters for the bounds

seekVars == <<cursor, seek, points, lives, crashes, seekErrors>>
resumeVars == <<vars, seekVars>>

(* The id of a row grows with every row that is added: the place in the    *)
(* stream at which the strategy added it.                                  *)
CursorPoint ==
  [id : Nat, block : Blocks, tx : Txs, blockOffset : Nat, txOffset : Nat]
Life == [from : Nat, loaded : BOOLEAN, atStart : BOOLEAN, ahead : BOOLEAN]

-------------------------------------------------------------------------------
(* The cursor table.                                                       *)

(* Where the events of the running process begin in downstream.            *)
LifeFrom == IF lives = <<>> THEN 0 ELSE lives[Len(lives)].from

(* A transaction that does not parse latches the strategy's                *)
(* processingFailed: from its event on, this life's transactions and       *)
(* rollbacks are dropped.                                                  *)
Handled(i) ==
  \A k \in (LifeFrom + 1)..i :
    ~(downstream[k].type = "tx" /\ downstream[k].tx \in Unparsable)

(* The transactions handled since the last event of block b, if the        *)
(* strategy still knows b.                                                 *)
SentSince(b) ==
  {i \in (LifeFrom + 1)..Len(downstream) :
     /\ downstream[i].type = "tx" /\ downstream[i].block = b /\ Handled(i)
     /\ \E j \in (LifeFrom + 1)..i :
          /\ downstream[j].type = "block" /\ downstream[j].block = b
          /\ \A k \in (j + 1)..Len(downstream) : Handled(k) =>
               ~Closes(downstream[k], b) /\ ~(downstream[k].type = "block"
                                              /\ downstream[k].block = b)}

Complete ==
  {b \in Blocks : NumTxs(b) > 0 /\ Cardinality(SentSince(b)) = NumTxs(b)}

PointOf(b) ==
  LET last == CHOOSE i \in SentSince(b) : \A k \in SentSince(b) : k <= i
      announced == CHOOSE j \in (LifeFrom + 1)..last :
                     /\ downstream[j].type = "block" /\ downstream[j].block = b
                     /\ \A k \in (j + 1)..last : downstream[k].type = "block"
                                                 => downstream[k].block # b
  IN [id |-> last, block |-> b, tx |-> downstream[last].tx,
      blockOffset |-> downstream[announced].offset,
      txOffset |-> downstream[last].offset]

RolledBackNow(p) ==
  \E i \in (LifeFrom + 1)..Len(downstream) :
    /\ downstream[i].type = "rollback" /\ Handled(i)
    /\ HeightOf[downstream[i].block] <= HeightOf[p.block]

CursorTable ==
  {PointOf(b) : b \in Complete} \cup {p \in cursor : ~RolledBackNow(p)}

(* GetCursorPoints: newest row first (ORDER BY id DESC).                   *)
Newest(rows) == CHOOSE p \in rows : \A q \in rows : q.id <= p.id

-------------------------------------------------------------------------------
ResumeInit ==
  /\ Init
  /\ cursor = {} /\ seek = "none" /\ points = {} /\ lives = <<>>
  /\ crashes = 0 /\ seekErrors = 0

(* The process dies and main starts it again: everything in memory is      *)
(* gone, the node is asked for its height.                                 *)
Crash ==
  /\ running
  /\ crashes < MaxCrashes /\ crashes' = crashes + 1
  /\ cursor' = CursorTable
  /\ points' = cursor'
  /\ seek' = IF cursor' = {} THEN "none" ELSE "stored"
  /\ running' = FALSE
  /\ blockIdx' = 1 /\ txIdx' = 1 /\ mempoolIdx' = 1
  /\ lastBlockOffset' = 0 /\ lastTxOffset' = 0
  /\ lastProcessedHeight' = IF InterceptHeight > 0 THEN InterceptHeight - 1 ELSE 0
  /\ tipHeight' = NodeHeight
  /\ cursorLoaded' = FALSE
  /\ completed' = [h \in {} |-> h]
  /\ pendingApplied' = [b \in Blocks |-> <<>>]
  /\ pendingUnapplied' = [b \in Blocks |-> <<>>]
  /\ emittedBlocks' = {}
  /\ processedTxOffsets' = {} /\ processedMempoolOffsets' = {}
  /\ downstreamSet' = FALSE /\ pendingDownstream' = <<>>
  /\ UNCHANGED <<feedVars, downstream, boundVars, lives, seekErrors>>

-------------------------------------------------------------------------------
(* seekToLiveCursor.                                                       *)

(* The readers start: what the seek has left is where they are.            *)
Run ==
  /\ running' = TRUE
  /\ mempoolIdx' = Len(mempoolLog) + 1
  /\ lives' = Append(lives, [from |-> Len(downstream), loaded |-> cursorLoaded',
                             atStart |-> blockIdx' = 1 /\ txIdx' = 1,
                             ahead |-> /\ cursorLoaded'
                                       /\ txIdx' > Newest(points).txOffset + 1])
  /\ seek' = "none" /\ points' = {}

(* No cursor point in the table.                                           *)
StartFresh ==
  /\ seek = "none"
  /\ StartKafka
  /\ lives' = Append(lives, [from |-> Len(downstream), loaded |-> FALSE,
                             atStart |-> TRUE, ahead |-> FALSE])
  /\ UNCHANGED <<cursor, seek, points, crashes, seekErrors>>

Trying(how) == seek = how /\ points # {}
SeekUnchanged ==
  UNCHANGED <<feedVars, completed, bufferVars, sendVars, boundVars, cursor, crashes>>

CallFails ==
  /\ seekErrors < MaxSeekErrors /\ seekErrors' = seekErrors + 1
  /\ SeekUnchanged

(* blockExistsOnNode: the node knows every header it ever had on its chain,*)
(* but it may not answer.                                                  *)
SkipPoint ==
  /\ Trying("stored")
  /\ CallFails
  /\ points' = points \ {Newest(points)}
  /\ UNCHANGED <<readerVars, lastProcessedHeight, tipHeight, cursorLoaded,
                 seek, lives>>

(* What is verified there: the block, and a transaction that parses and    *)
(* has the point's hash.                                                   *)
StoredPlace(p) ==
  /\ blockLog[p.blockOffset].kind = "apply"
  /\ blockLog[p.blockOffset].block = p.block
  /\ txLog[p.txOffset].kind = "applied"
  /\ txLog[p.txOffset].tx \notin Unparsable
  /\ txLog[p.txOffset].tx = p.tx

(* seekUsingStoredOffsets.  The node may not answer for its height at the   *)
(* end: the one main asked for stays.                                      *)
SeekPastNext(p) ==  \* mutant: moves the reader on after it was read
  blockIdx' = p.blockOffset + 2 /\ txIdx' = p.txOffset + 1
SeekBehind(p) == blockIdx' = p.blockOffset + 1 /\ txIdx' = p.txOffset + 1

SeekUsingStoredOffsets ==
  LET p == Newest(points)
  IN /\ Trying("stored")
     /\ StoredPlace(p)
     /\ SeekBehind(p)
     /\ lastBlockOffset' = p.blockOffset /\ lastTxOffset' = p.txOffset + 1
     /\ lastProcessedHeight' = HeightOf[p.block]
     /\ cursorLoaded' = TRUE
     /\ \/ tipHeight' = NodeHeight /\ UNCHANGED seekErrors
        \/ /\ seekErrors < MaxSeekErrors /\ seekErrors' = seekErrors + 1
           /\ UNCHANGED tipHeight
     /\ Run
     /\ SeekUnchanged

(* The block message, or after it the transaction message, cannot be read. *)
(* (Both are what the point says: ResumeTypeOK.)                           *)
StoredOffsetsFail ==
  LET p == Newest(points)
  IN /\ Trying("stored")
     /\ CallFails
     /\ \/ /\ blockIdx' = p.blockOffset
           /\ UNCHANGED <<lastBlockOffset, txIdx>>
        \/ /\ StoredPlace(p)
           /\ blockIdx' = p.blockOffset + 1
           /\ lastBlockOffset' = p.blockOffset
           /\ txIdx' = p.txOffset
     /\ seek' = "scan"
     /\ UNCHANGED <<running, mempoolIdx, lastTxOffset, lastProcessedHeight,
                    tipHeight, cursorLoaded, points, lives>>

(* seekToCursorPoints for one point: the first message that applied it.    *)
FirstApply(b) ==
  CHOOSE i \in 1..Len(blockLog) :
    /\ blockLog[i].kind = "apply" /\ blockLog[i].block = b
    /\ \A k \in 1..(i - 1) : ~(blockLog[k].kind = "apply" /\ blockLog[k].block = b)

ScanFinds ==
  LET p == Newest(points)
  IN /\ Trying("scan")
     /\ blockIdx' = FirstApply(p.block) + 1
     /\ lastProcessedHeight' = HeightOf[p.block]
     /\ cursorLoaded' = TRUE
     /\ UNCHANGED <<txIdx, lastBlockOffset, lastTxOffset, tipHeight, seekErrors>>
     /\ Run
     /\ SeekUnchanged

(* A read that times out ends the scan: no error is returned, so the seek  *)
(* is over, and the block reader stays where the scan was.                 *)
ScanGivesUp ==
  /\ Trying("scan")
  /\ CallFails
  /\ blockIdx' \in 1..FirstApply(Newest(points).block)
  /\ UNCHANGED <<txIdx, lastBlockOffset, lastTxOffset, lastProcessedHeight,
                 tipHeight, cursorLoaded>>
  /\ Run

(* Any other error: the next point is tried.                               *)
ScanFails ==
  /\ Trying("scan")
  /\ CallFails
  /\ blockIdx' \in 1..FirstApply(Newest(points).block)
  /\ seek' = "stored" /\ points' = points \ {Newest(points)}
  /\ UNCHANGED <<running, txIdx, mempoolIdx, lastBlockOffset, lastTxOffset,
                 lastProcessedHeight, tipHeight, cursorLoaded, lives>>

(* "all cursor points failed": the readers stay where the seeks left them. *)
NoValidPoint ==
  /\ seek = "stored" /\ points = {}
  /\ UNCHANGED <<blockIdx, txIdx, lastBlockOffset, lastTxOffset,
                 lastProcessedHeight, tipHeight, cursorLoaded>>
  /\ Run
  /\ SeekUnchanged
  /\ UNCHANGED seekErrors

SeekStep ==
  \/ SeekUsingStoredOffsets \/ ScanFinds \/ NoValidPoint
  \/ SkipPoint \/ StoredOffsetsFail \/ ScanGivesUp \/ ScanFails

-------------------------------------------------------------------------------
HandleMessage ==
  SetDownstream \/ HandleBlockMessage \/ HandleTxMessage \/ HandleMempoolMessage

Work ==
  \/ StartFresh
  \/ SeekStep
  \/ HandleMessage /\ UNCHANGED seekVars

ResumeNext ==
  \/ FeedNext /\ UNCHANGED <<indexerVars, seekVars>>
  \/ Work
  \/ \E topic \in RestartTopics : RestartReader(topic) /\ UNCHANGED seekVars
  \/ Crash

ResumeSpec == ResumeInit /\ [][ResumeNext]_resumeVars

(* The process does not stop while there is a read to finish or a message  *)
(* to handle; which of them is next is nobody's promise.                   *)
ResumeFairSpec == ResumeSpec /\ WF_resumeVars(Work)

-------------------------------------------------------------------------------
(* Properties.                                                             *)

(* Types of what Resume adds to the actor; and every point, of whichever   *)
(* life, can be verified where it says, so that a seek is given up only    *)
(* for a call that fails.                                                  *)
ResumeTypeOK ==
  /\ TypeOK
  /\ cursor \subseteq CursorPoint /\ points \subseteq CursorPoint
  /\ seek \in {"none", "stored", "scan"}
  /\ running => seek = "none"
  /\ lives \in Seq(Life)
  /\ \A p \in cursor \cup points :
       /\ p.blockOffset \in 1..Len(blockLog) /\ p.txOffset \in 1..Len(txLog)
       /\ StoredPlace(p)

(* A transaction is sent only after its block was announced by the same    *)
(* process: a strategy that starts empty has a block for every transaction *)
(* it gets, wherever the two readers were put (indexer.go:549-551).        *)
TxKnownSinceStart ==
  \A i \in (LifeFrom + 1)..Len(downstream) :
    downstream[i].type = "tx" =>
      \E j \in (LifeFrom + 1)..i :
        /\ downstream[j].type = "block" /\ downstream[j].block = downstream[i].block
        /\ \A k \in (j + 1)..i : ~Closes(downstream[k], downstream[j].block)

(* A start that reached no cursor point and yet did not begin with the     *)
(* first message of either topic.                                          *)
Gap == \E k \in 1..Len(lives) : ~lives[k].loaded /\ ~lives[k].atStart

LifeEnd(k) == IF k = Len(lives) THEN Len(downstream) ELSE lives[k + 1].from
ForkAfterResume ==
  \E k \in 1..Len(lives) : /\ lives[k].loaded
    /\ \E i \in (lives[k].from + 1)..LifeEnd(k) : downstream[i].type = "rollback"

(* Over all its lives the indexer has sent every transaction of the node's *)
(* chain once it has caught up, whichever points were tried, however they  *)
(* were found, and whatever forked before it resumed for the first time.   *)
(* Not when a start reached no point, when a process that had resumed      *)
(* rolled a block back (SkippedWasProcessed of ChainEventProcessor shows   *)
(* why), or when GetNodeInfo failed.                                       *)
LivesMirrorChain ==
  CaughtUp /\ nodeErrors = 0 /\ ~Gap /\ ~ForkAfterResume =>
    \A b \in chain : HeightOf[b] >= InterceptHeight =>
      \A n \in 1..NumTxs(b) : \E i \in 1..Len(downstream) :
        /\ downstream[i].type = "tx"
        /\ downstream[i].block = b /\ downstream[i].tx = TxsOf[b][n]

(* The scan found the point of the last start while the transaction reader *)
(* stood at a newer one, whose stored offsets had failed: what lies between*)
(* them is not read in this life.                                          *)
TxReaderAhead == lives # <<>> /\ lives[Len(lives)].ahead

(* After any number of restarts the cursor reaches the node's height,      *)
(* unless a start reached no point or left the transaction reader ahead of *)
(* the one it reached, or the node did not answer.                         *)
CursorReachesTipAgain ==
  <>[](Gap \/ TxReaderAhead \/ nodeErrors > 0 \/ lastProcessedHeight >= NodeHeight)

(* When no cursor point is usable the actor starts from the configured     *)
(* intercept height (indexer.go:292-293 and 581-583): from the first       *)
(* message of the block topic.                                             *)
FallbackStartsOver ==
  \A k \in 1..Len(lives) : ~lives[k].loaded => lives[k].atStart
==============================================================================
