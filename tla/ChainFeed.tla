------------------------------ MODULE ChainFeed ------------------------------
(***************************************************************************)
(* The outside world the indexer reads: an Ergo node with its best chain,  *)
(* and the streaming service that publishes what happens to that chain to  *)
(* three Kafka topics.  Both live outside src/, so the module is external: *)
(* it is what internal/actors/indexer.go decodes (KafkaBlockEvent,         *)
(* KafkaTransactionEvent, KafkaMempoolEvent) and asks (GetNodeInfo).       *)
(*                                                                         *)
(* A topic is one partition, an append-only sequence whose positions are   *)
(* the offsets.  The topics are independent: only the order within one of  *)
(* them is meaningful to a reader, so the two appends of a block may be    *)
(* one step; a reader lags behind each of them by as much as it likes.     *)
(***************************************************************************)
EXTENDS Integers, Sequences, FiniteSets

CONSTANTS
  Blocks,        \* block identifiers (a hash determines its block)
  HeightOf,      \* the height of each block
  ParentOf,      \* its parent; Root for the first block of the topic
  Root,          \* the parent of the first block, which is not in the topic
  Txs,           \* transaction identifiers
  TxsOf,         \* the transactions of each block, in order
  MempoolTxs,    \* transactions the node may announce before they are mined
  FirstHeight,   \* the height of the first block in the topic
  MaxHeight,     \* bound: the greatest height of a block
  MaxApplies,    \* bound: how often one block may join the best chain
  MaxUnapplies,  \* bound: how many blocks the node takes off its best chain
  MaxMempool,    \* bound: how many mempool messages are published
  MaxMalformed   \* bound: how many messages that do not decode are published

ASSUME FeedAssumption ==
  /\ IsFiniteSet(Blocks)
  /\ FirstHeight \in Nat
  /\ MaxHeight \in Nat
  /\ HeightOf \in [Blocks -> FirstHeight..MaxHeight]
  /\ Root \notin Blocks
  /\ ParentOf \in [Blocks -> Blocks \cup {Root}]
  /\ TxsOf \in [Blocks -> Seq(Txs)]
  /\ MempoolTxs \subseteq Txs
  /\ MaxApplies \in Nat /\ MaxUnapplies \in Nat
  /\ MaxMempool \in Nat /\ MaxMalformed \in Nat

VARIABLES
  chain,        \* the node's best chain, from FirstHeight, as a set of blocks
  blockLog,     \* the block topic
  txLog,        \* the transaction topic
  mempoolLog,   \* the mempool topic
  applies,      \* how often each block was applied (for MaxApplies)
  unapplies,    \* how many blocks were unapplied (for MaxUnapplies)
  malformed     \* how many malformed messages were published

feedVars == <<chain, blockLog, txLog, mempoolLog, applies, unapplies, malformed>>

NumTxs(b) == Len(TxsOf[b])

(* The messages.  The field chain of a block message is a history field:   *)
(* the best chain right after the event; no reader looks at it.            *)
BlockMessage ==
  [kind : {"apply", "unapply"}, block : Blocks, chain : SUBSET Blocks]
    \cup [kind : {"malformed"}, block : {Root}, chain : SUBSET Blocks]
TxMessage ==
  [kind : {"applied", "unapplied"}, block : Blocks, tx : Txs]
    \cup [kind : {"malformed"}, block : {Root}, tx : {Root}]
MempoolMessage ==
  [kind : {"accepted", "withdrawn", "malformed"}, tx : Txs \cup {Root}]

Heads(c) == {b \in c : \A o \in c : HeightOf[o] <= HeightOf[b]}

(* The best chain has one block per height.                                *)
NodeHeight == FirstHeight + Cardinality(chain) - 1

TxMessages(kind, b) ==
  [i \in 1..NumTxs(b) |-> [kind |-> kind, block |-> b, tx |-> TxsOf[b][i]]]

FeedTypeOK ==
  /\ chain \subseteq Blocks
  /\ blockLog \in Seq(BlockMessage)
  /\ txLog \in Seq(TxMessage)
  /\ mempoolLog \in Seq(MempoolMessage)

FeedInit ==
  /\ chain = {}
  /\ blockLog = <<>> /\ txLog = <<>> /\ mempoolLog = <<>>
  /\ applies = [b \in Blocks |-> 0]
  /\ unapplies = 0 /\ malformed = 0

(* The node extends its best chain with b: a BlockApply message and one    *)
(* AppliedEvent per transaction.                                           *)
PublishApply(b) ==
  /\ b \notin chain
  /\ IF chain = {} THEN ParentOf[b] = Root ELSE ParentOf[b] \in Heads(chain)
  /\ HeightOf[b] = NodeHeight + 1
  /\ applies[b] < MaxApplies
  /\ applies' = [applies EXCEPT ![b] = @ + 1]
  /\ chain' = chain \cup {b}
  /\ blockLog' = Append(blockLog,
                        [kind |-> "apply", block |-> b, chain |-> chain'])
  /\ txLog' = txLog \o TxMessages("applied", b)
  /\ UNCHANGED <<mempoolLog, unapplies, malformed>>

(* The node takes its best block off the chain, the first step of a fork   *)
(* switch.                                                                 *)
PublishUnapply(b) ==
  /\ b \in Heads(chain)
  /\ unapplies < MaxUnapplies
  /\ unapplies' = unapplies + 1
  /\ chain' = chain \ {b}
  /\ blockLog' = Append(blockLog,
                        [kind |-> "unapply", block |-> b, chain |-> chain'])
  /\ txLog' = txLog \o TxMessages("unapplied", b)
  /\ UNCHANGED <<mempoolLog, applies, malformed>>

PublishMempool(t, kind) ==
  /\ Len(mempoolLog) < MaxMempool
  /\ mempoolLog' = Append(mempoolLog, [kind |-> kind, tx |-> t])
  /\ UNCHANGED <<chain, blockLog, txLog, applies, unapplies, malformed>>

PublishMalformedBlock ==
  /\ malformed < MaxMalformed
  /\ malformed' = malformed + 1
  /\ blockLog' = Append(blockLog,
                        [kind |-> "malformed", block |-> Root, chain |-> chain])
  /\ UNCHANGED <<chain, txLog, mempoolLog, applies, unapplies>>

PublishMalformedTx ==
  /\ malformed < MaxMalformed
  /\ malformed' = malformed + 1
  /\ txLog' = Append(txLog, [kind |-> "malformed", block |-> Root, tx |-> Root])
  /\ UNCHANGED <<chain, blockLog, mempoolLog, applies, unapplies>>

PublishMalformedMempool ==
  /\ malformed < MaxMalformed
  /\ malformed' = malformed + 1
  /\ mempoolLog' = Append(mempoolLog, [kind |-> "malformed", tx |-> Root])
  /\ UNCHANGED <<chain, blockLog, txLog, applies, unapplies>>

FeedNext ==
  \/ \E b \in Blocks : PublishApply(b) \/ PublishUnapply(b)
  \/ \E t \in MempoolTxs, kind \in {"accepted", "withdrawn"} :
       PublishMempool(t, kind)
  \/ PublishMalformedBlock
  \/ PublishMalformedTx
  \/ PublishMalformedMempool
==============================================================================
