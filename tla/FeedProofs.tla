------------------------------ MODULE FeedProofs ------------------------------
(***************************************************************************)
(* What holds of the node's chain and its topics, whoever reads them: the  *)
(* topics keep their types and only grow, and the block topic describes    *)
(* one chain that changes at its top.  With every block applied once, the  *)
(* entries of a block also say when it is on the chain, and its            *)
(* transactions stand in one piece, in the order of their blocks.          *)
(***************************************************************************)
EXTENDS ChainFeed, SequenceTheorems, FiniteSetTheorems, TLAPS

(* A log only grows: what has an offset keeps it.                          *)
IsGrownFrom(new, old) ==
  /\ Len(old) <= Len(new)
  /\ \A i \in 1..Len(old) : new[i] = old[i]

(* Appending to a log, or concatenating to it, grows it.                   *)
LEMMA AppendGrows ==
  ASSUME NEW S, NEW s \in Seq(S), NEW e \in S
  PROVE  Append(s, e) \in Seq(S) /\ IsGrownFrom(Append(s, e), s)
BY DEF IsGrownFrom

LEMMA ConcatGrows ==
  ASSUME NEW S, NEW s \in Seq(S), NEW t \in Seq(S)
  PROVE  s \o t \in Seq(S) /\ IsGrownFrom(s \o t, s)
BY DEF IsGrownFrom

(* The topics keep their type and every message its offset.                *)
LEMMA FeedTyping ==
  ASSUME FeedTypeOK, FeedNext
  PROVE  /\ FeedTypeOK'
         /\ IsGrownFrom(txLog', txLog)
         /\ IsGrownFrom(blockLog', blockLog)
<1> DEFINE G == /\ FeedTypeOK'
                /\ IsGrownFrom(txLog', txLog)
                /\ IsGrownFrom(blockLog', blockLog)
<1> USE FeedAssumption DEF FeedTypeOK
<1>1. IsGrownFrom(txLog, txLog) /\ IsGrownFrom(blockLog, blockLog)
  BY DEF IsGrownFrom
<1>2. ASSUME NEW b \in Blocks, NEW kind \in {"applied", "unapplied"}
      PROVE  TxMessages(kind, b) \in Seq(TxMessage)
  BY DEF TxMessages, NumTxs, TxMessage
<1>3. ASSUME NEW b \in Blocks, PublishApply(b)
      PROVE  G
  <2>1. chain' \subseteq Blocks /\ mempoolLog' = mempoolLog
    BY <1>3 DEF PublishApply
  <2>2. [kind |-> "apply", block |-> b, chain |-> chain'] \in BlockMessage
    BY <2>1 DEF BlockMessage
  <2> QED
    BY <1>2, <1>3, <2>1, <2>2, AppendGrows, ConcatGrows DEF PublishApply
<1>4. ASSUME NEW b \in Blocks, PublishUnapply(b)
      PROVE  G
  <2>1. chain' \subseteq Blocks /\ mempoolLog' = mempoolLog
    BY <1>4 DEF PublishUnapply
  <2>2. [kind |-> "unapply", block |-> b, chain |-> chain'] \in BlockMessage
    BY <2>1 DEF BlockMessage
  <2> QED
    BY <1>2, <1>4, <2>1, <2>2, AppendGrows, ConcatGrows DEF PublishUnapply
<1>5. ASSUME NEW t \in MempoolTxs, NEW kind \in {"accepted", "withdrawn"},
             PublishMempool(t, kind)
      PROVE  G
  BY <1>1, <1>5 DEF PublishMempool, MempoolMessage
<1>6. ASSUME PublishMalformedBlock
      PROVE  G
  <2>1. [kind |-> "malformed", block |-> Root, chain |-> chain] \in BlockMessage
    BY DEF BlockMessage
  <2> QED BY <1>1, <1>6, <2>1, AppendGrows DEF PublishMalformedBlock
<1>7. ASSUME PublishMalformedTx
      PROVE  G
  <2>1. [kind |-> "malformed", block |-> Root, tx |-> Root] \in TxMessage
    BY DEF TxMessage
  <2> QED BY <1>1, <1>7, <2>1, AppendGrows DEF PublishMalformedTx
<1>8. ASSUME PublishMalformedMempool
      PROVE  G
  BY <1>1, <1>8 DEF PublishMalformedMempool, MempoolMessage
<1> QED
  BY <1>3, <1>4, <1>5, <1>6, <1>7, <1>8 DEF FeedNext

LEMMA NodeHeightTyping ==
  ASSUME FeedTypeOK
  PROVE  IsFiniteSet(chain) /\ Cardinality(chain) \in Nat /\ NodeHeight \in Int
BY FeedAssumption, FS_Subset, FS_CardinalityType DEF FeedTypeOK, NodeHeight

-------------------------------------------------------------------------------
(* The best chain just before the block message at position i.             *)
Before(i) == IF i = 1 THEN {} ELSE blockLog[i - 1].chain

Higher(b, c) == \A d \in c : HeightOf[d] < HeightOf[b]

(* One block per height, and the number of blocks gives the height.        *)
ChainInv ==
  /\ \A c \in chain : HeightOf[c] <= NodeHeight
  /\ \A c, d \in chain : HeightOf[c] = HeightOf[d] => c = d

LinkOK(i) ==
  LET b == blockLog[i].block
      c == blockLog[i].chain
  IN CASE blockLog[i].kind = "apply"   -> c = Before(i) \cup {b} /\ Higher(b, Before(i))
       [] blockLog[i].kind = "unapply" -> c = Before(i) \ {b} /\ Higher(b, c)
       [] OTHER                        -> c = Before(i)

(* Every message moves the top of the chain by one block.                  *)
LogInv ==
  /\ \A i \in 1..Len(blockLog) : LinkOK(i)
  /\ chain = Before(Len(blockLog) + 1)

-------------------------------------------------------------------------------
(* The chain and the block topic.                                          *)

LEMMA ChainInit == FeedInit => ChainInv /\ LogInv
BY DEF FeedInit, ChainInv, LogInv, Before

(* The feed only appends: the chain before an old position is the same.    *)
LEMMA BeforeKept ==
  ASSUME FeedTypeOK, FeedTypeOK', IsGrownFrom(blockLog', blockLog),
         NEW i \in 1..(Len(blockLog) + 1)
  PROVE  /\ Before(i)' = Before(i)
         /\ i \in 1..Len(blockLog) => (LinkOK(i) <=> LinkOK(i)')
<1>1. Len(blockLog) \in Nat /\ Len(blockLog') \in Nat
  BY DEF FeedTypeOK
<1>2. Before(i)' = Before(i)
  BY <1>1 DEF Before, IsGrownFrom
<1>3. ASSUME i \in 1..Len(blockLog)
      PROVE  blockLog'[i] = blockLog[i]
  BY <1>3 DEF IsGrownFrom
<1> QED
  BY <1>2, <1>3 DEF LinkOK

(* One message is appended: the log stays linked if that message is.       *)
LEMMA LogAppend ==
  ASSUME FeedTypeOK, FeedTypeOK', LogInv, NEW m \in BlockMessage,
         blockLog' = Append(blockLog, m), m.chain = chain',
         \/ m.kind = "apply" /\ chain' = chain \cup {m.block} /\ Higher(m.block, chain)
         \/ m.kind = "unapply" /\ chain' = chain \ {m.block} /\ Higher(m.block, chain')
         \/ m.kind = "malformed" /\ chain' = chain
  PROVE  LogInv'
<1>0. PICK n \in Nat \ {0} : n = Len(blockLog) + 1
  BY DEF FeedTypeOK
<1>1. /\ blockLog \in Seq(BlockMessage)
      /\ Len(blockLog') = n /\ blockLog'[n] = m
      /\ IsGrownFrom(blockLog', blockLog)
  BY <1>0, AppendGrows DEF FeedTypeOK
<1>2. Before(n)' = chain
  BY <1>0, <1>1, BeforeKept DEF LogInv
<1>3. LinkOK(n)'
  BY <1>1, <1>2 DEF LinkOK, Higher
<1>4. ASSUME NEW i \in 1..Len(blockLog)
      PROVE  LinkOK(i)'
  BY <1>1, <1>4, BeforeKept DEF LogInv
<1>5. chain' = Before(Len(blockLog) + 1)'
  BY <1>1 DEF Before
<1> QED
  BY <1>0, <1>1, <1>3, <1>4, <1>5 DEF LogInv

(* Whatever the node publishes, the topic stays a description of one chain *)
(* that changes at its top, with one block per height.                     *)
LEMMA ChainStep ==
  ASSUME FeedTypeOK, FeedTypeOK', ChainInv, LogInv, FeedNext
  PROVE  ChainInv' /\ LogInv'
<1> USE FeedAssumption
<1>1. IsFiniteSet(chain) /\ Cardinality(chain) \in Nat /\ NodeHeight \in Int
  BY NodeHeightTyping
<1>2. chain \subseteq Blocks /\ \A b \in Blocks : HeightOf[b] \in Int
  BY DEF FeedTypeOK
<1>3. ASSUME NEW b \in Blocks, PublishApply(b)
      PROVE  ChainInv' /\ LogInv'
  <2>1. /\ b \notin chain /\ chain' = chain \cup {b}
        /\ HeightOf[b] = NodeHeight + 1
        /\ blockLog' = Append(blockLog, [kind |-> "apply", block |-> b, chain |-> chain'])
    BY <1>3 DEF PublishApply
  <2>2. NodeHeight' = NodeHeight + 1
    <3>1. Cardinality(chain') = Cardinality(chain) + 1
      BY <1>1, <2>1, FS_AddElement
    <3> QED BY <1>1, <3>1 DEF NodeHeight
  <2>3. Higher(b, chain)
    BY <1>1, <1>2, <2>1 DEF ChainInv, Higher
  <2>4. ChainInv'
    BY <1>1, <1>2, <2>1, <2>2, <2>3 DEF ChainInv, Higher
  <2>5. [kind |-> "apply", block |-> b, chain |-> chain'] \in BlockMessage
    BY <1>2, <2>1 DEF BlockMessage
  <2> QED BY <2>1, <2>3, <2>4, <2>5, LogAppend
<1>4. ASSUME NEW b \in Blocks, PublishUnapply(b)
      PROVE  ChainInv' /\ LogInv'
  <2>1. /\ b \in chain /\ \A c \in chain : HeightOf[c] <= HeightOf[b]
        /\ chain' = chain \ {b}
        /\ blockLog' = Append(blockLog, [kind |-> "unapply", block |-> b, chain |-> chain'])
    BY <1>4 DEF PublishUnapply, Heads
  <2>2. NodeHeight' = NodeHeight - 1
    <3>1. Cardinality(chain') = Cardinality(chain) - 1
      BY <1>1, <2>1, FS_RemoveElement
    <3> QED BY <1>1, <3>1 DEF NodeHeight
  <2>3. Higher(b, chain')
    BY <1>2, <2>1 DEF ChainInv, Higher
  <2>4. ChainInv'
    BY <1>1, <1>2, <2>1, <2>2, <2>3 DEF ChainInv, Higher
  <2>5. [kind |-> "unapply", block |-> b, chain |-> chain'] \in BlockMessage
    BY <1>2, <2>1 DEF BlockMessage
  <2> QED BY <2>1, <2>3, <2>4, <2>5, LogAppend
<1>5. ASSUME PublishMalformedBlock
      PROVE  ChainInv' /\ LogInv'
  <2>1. /\ chain' = chain
        /\ blockLog' = Append(blockLog, [kind |-> "malformed", block |-> Root, chain |-> chain])
    BY <1>5 DEF PublishMalformedBlock
  <2>2. [kind |-> "malformed", block |-> Root, chain |-> chain] \in BlockMessage
    BY <1>2 DEF BlockMessage
  <2>3. ChainInv'
    BY <2>1 DEF ChainInv, NodeHeight
  <2> QED BY <2>1, <2>2, <2>3, LogAppend
<1>6. ASSUME UNCHANGED <<chain, blockLog>>
      PROVE  ChainInv' /\ LogInv'
  BY <1>6 DEF ChainInv, NodeHeight, LogInv, LinkOK, Before
<1> QED
  BY <1>3, <1>4, <1>5, <1>6
     DEF FeedNext, PublishMempool, PublishMalformedTx, PublishMalformedMempool

-------------------------------------------------------------------------------
(* The transaction topic, as long as no block joins the best chain twice.  *)

AppliedOnce == MaxApplies <= 1 \/ MaxUnapplies = 0

(* The messages that apply the transactions of b, one behind the other     *)
(* after offset s.                                                         *)
RunAt(b, s) ==
  /\ s \in 0..(Len(txLog) - NumTxs(b))
  /\ \A o \in (s + 1)..(s + NumTxs(b)) :
       txLog[o].kind = "applied" /\ txLog[o].block = b /\ txLog[o].tx = TxsOf[b][o - s]

(* Every such message lies in a run, and a block has one run.              *)
RunsInv ==
  /\ \A i \in 1..Len(blockLog) :
       blockLog[i].kind = "apply" => applies[blockLog[i].block] > 0
  /\ applies \in [Blocks -> Nat] /\ unapplies \in Nat
  /\ \A b \in Blocks : applies[b] > 0 /\ MaxUnapplies = 0 => b \in chain
  /\ \A b \in Blocks : \A o \in 1..Len(txLog) :
       txLog[o].kind = "applied" /\ txLog[o].block = b =>
         /\ applies[b] > 0
         /\ \E s \in 0..(o - 1) : RunAt(b, s) /\ o <= s + NumTxs(b)
  /\ \A b \in Blocks : NumTxs(b) > 0 =>
       \A s, z \in 0..Len(txLog) : RunAt(b, s) /\ RunAt(b, z) => s = z

LEMMA TxsTyping ==
  ASSUME NEW b \in Blocks
  PROVE  /\ NumTxs(b) \in Nat
         /\ \A kind \in {"applied", "unapplied"} :
              /\ TxMessages(kind, b) \in Seq(TxMessage)
              /\ Len(TxMessages(kind, b)) = NumTxs(b)
              /\ \A i \in 1..NumTxs(b) :
                   /\ TxMessages(kind, b)[i].kind = kind
                   /\ TxMessages(kind, b)[i].block = b
                   /\ TxMessages(kind, b)[i].tx = TxsOf[b][i]
BY FeedAssumption DEF NumTxs, TxMessages, TxMessage

LEMMA RunKept ==
  ASSUME FeedTypeOK, FeedTypeOK', IsGrownFrom(txLog', txLog),
         NEW b \in Blocks, NEW s, RunAt(b, s)
  PROVE  RunAt(b, s)'
<1>1. Len(txLog) \in Nat /\ Len(txLog') \in Nat /\ NumTxs(b) \in Nat
  BY TxsTyping DEF FeedTypeOK
<1>2. s \in 0..(Len(txLog') - NumTxs(b))
  BY <1>1 DEF RunAt, IsGrownFrom
<1>3. ASSUME NEW o \in (s + 1)..(s + NumTxs(b))
      PROVE  txLog'[o] = txLog[o]
  <2>1. o \in 1..Len(txLog)
    BY <1>1 DEF RunAt
  <2> QED BY <2>1 DEF IsGrownFrom
<1>4. \A o \in (s + 1)..(s + NumTxs(b)) :
        txLog'[o].kind = "applied" /\ txLog'[o].block = b /\ txLog'[o].tx = TxsOf[b][o - s]
  BY <1>3 DEF RunAt
<1> QED BY <1>2, <1>4 DEF RunAt, NumTxs

(* Messages of other blocks make no new run.                               *)
LEMMA NoNewRun ==
  ASSUME FeedTypeOK, NEW ms \in Seq(TxMessage), txLog' = txLog \o ms,
         NEW b \in Blocks, NumTxs(b) > 0, NEW s, RunAt(b, s)',
         \A i \in 1..Len(ms) : ~(ms[i].kind = "applied" /\ ms[i].block = b)
  PROVE  RunAt(b, s)
<1> DEFINE n == NumTxs(b)
<1>1. /\ Len(txLog) \in Nat /\ n \in Nat /\ Len(ms) \in Nat
      /\ Len(txLog') = Len(txLog) + Len(ms)
      /\ \A o \in 1..Len(txLog) : txLog'[o] = txLog[o]
      /\ \A i \in 1..Len(ms) : txLog'[Len(txLog) + i] = ms[i]
  BY TxsTyping DEF FeedTypeOK
<1>2. /\ s \in 0..(Len(txLog') - n)
      /\ \A o \in (s + 1)..(s + n) :
           txLog'[o].kind = "applied" /\ txLog'[o].block = b /\ txLog'[o].tx = TxsOf[b][o - s]
  BY DEF RunAt, NumTxs
<1>3. s + n <= Len(txLog)
  <2> SUFFICES ASSUME s + n > Len(txLog) PROVE FALSE
    BY <1>1, <1>2
  <2>1. s + n - Len(txLog) \in 1..Len(ms) /\ s + n \in (s + 1)..(s + n)
    BY <1>1, <1>2
  <2>2. PICK i \in 1..Len(ms) : i = s + n - Len(txLog)
    BY <2>1
  <2>3. s + n = Len(txLog) + i
    BY <1>1, <1>2, <2>2
  <2>4. txLog'[s + n] = ms[i]
    BY <1>1, <2>3
  <2> QED BY <1>2, <2>1, <2>4
<1>4. ASSUME NEW o \in (s + 1)..(s + n)
      PROVE  txLog[o].kind = "applied" /\ txLog[o].block = b /\ txLog[o].tx = TxsOf[b][o - s]
  <2>1. o \in 1..Len(txLog)
    BY <1>1, <1>2, <1>3
  <2> QED BY <1>1, <1>2, <2>1
<1>5. s \in 0..(Len(txLog) - n)
  BY <1>1, <1>2, <1>3
<1> QED BY <1>4, <1>5 DEF RunAt

LEMMA RunsInit == FeedInit => RunsInv
<1> SUFFICES ASSUME FeedInit PROVE RunsInv
  OBVIOUS
<1>1. Len(txLog) = 0 /\ Len(blockLog) = 0 /\ 1..0 = {} /\ 0..0 = {0}
  BY DEF FeedInit
<1> QED BY <1>1 DEF FeedInit, RunsInv

(* The block topic names no block the node has not applied.                *)
LEMMA AppliesNamed ==
  ASSUME FeedTypeOK, RunsInv, FeedNext
  PROVE  \A i \in 1..Len(blockLog') :
           blockLog'[i].kind = "apply" => applies'[blockLog'[i].block] > 0
<1>1. blockLog \in Seq(BlockMessage) /\ Len(blockLog) \in Nat
  BY DEF FeedTypeOK
<1>2. ASSUME NEW i \in 1..Len(blockLog), blockLog[i].kind = "apply"
      PROVE  blockLog[i].block \in Blocks /\ applies[blockLog[i].block] > 0
  BY <1>1, <1>2 DEF BlockMessage, RunsInv
<1>3. ASSUME NEW m, blockLog' = Append(blockLog, m),
             UNCHANGED applies \/ \E b \in Blocks : applies' = [applies EXCEPT ![b] = @ + 1],
             m.kind = "apply" => m.block \in Blocks /\ applies' = [applies EXCEPT ![m.block] = @ + 1]
      PROVE  \A i \in 1..Len(blockLog') :
               blockLog'[i].kind = "apply" => applies'[blockLog'[i].block] > 0
  <2>0. /\ Len(blockLog') = Len(blockLog) + 1 /\ blockLog'[Len(blockLog) + 1] = m
        /\ \A i \in 1..Len(blockLog) : blockLog'[i] = blockLog[i]
    BY <1>1, <1>3
  <2>1. \A b \in Blocks : applies'[b] >= applies[b] /\ applies[b] \in Nat
    BY <1>3 DEF RunsInv
  <2>2. ASSUME NEW i \in 1..Len(blockLog'), blockLog'[i].kind = "apply"
        PROVE  applies'[blockLog'[i].block] > 0
    <3>1. CASE i = Len(blockLog) + 1
      <4>1. m.block \in Blocks /\ applies' = [applies EXCEPT ![m.block] = @ + 1]
            /\ blockLog'[i] = m
        BY <1>3, <2>0, <2>2, <3>1
      <4> QED BY <4>1 DEF RunsInv
    <3>2. CASE i # Len(blockLog) + 1
      <4>1. i \in 1..Len(blockLog) /\ blockLog'[i] = blockLog[i]
        BY <1>1, <2>0, <3>2
      <4>2. blockLog[i].block \in Blocks /\ applies[blockLog[i].block] > 0
        BY <1>2, <2>2, <4>1
      <4>3. applies'[blockLog[i].block] >= applies[blockLog[i].block]
            /\ applies[blockLog[i].block] \in Nat /\ applies' \in [Blocks -> Nat]
        BY <1>3, <2>1, <4>2 DEF RunsInv
      <4> QED BY <4>1, <4>2, <4>3
    <3> QED BY <3>1, <3>2
  <2> QED BY <2>2
<1>4. ASSUME UNCHANGED <<blockLog, applies>>
      PROVE  \A i \in 1..Len(blockLog') :
               blockLog'[i].kind = "apply" => applies'[blockLog'[i].block] > 0
  BY <1>2, <1>4
<1>5. ASSUME NEW b \in Blocks, PublishApply(b)
      PROVE  \A i \in 1..Len(blockLog') :
               blockLog'[i].kind = "apply" => applies'[blockLog'[i].block] > 0
  <2>1. PICK m : m = [kind |-> "apply", block |-> b, chain |-> chain']
    OBVIOUS
  <2> QED BY <1>3, <1>5, <2>1 DEF PublishApply
<1>6. ASSUME NEW b \in Blocks, PublishUnapply(b)
      PROVE  \A i \in 1..Len(blockLog') :
               blockLog'[i].kind = "apply" => applies'[blockLog'[i].block] > 0
  <2>1. PICK m : m = [kind |-> "unapply", block |-> b, chain |-> chain']
    OBVIOUS
  <2> QED BY <1>3, <1>6, <2>1 DEF PublishUnapply
<1>7. CASE PublishMalformedBlock
  <2>1. PICK m : m = [kind |-> "malformed", block |-> Root, chain |-> chain]
    OBVIOUS
  <2> QED BY <1>3, <1>7, <2>1 DEF PublishMalformedBlock
<1> QED
  BY <1>4, <1>5, <1>6, <1>7
     DEF FeedNext, PublishMempool, PublishMalformedTx, PublishMalformedMempool

(* Other messages than those of a new run: the runs stay.                  *)
LEMMA RunsQuiet ==
  ASSUME FeedTypeOK, FeedTypeOK', RunsInv,
         NEW ms \in Seq(TxMessage), txLog' = txLog \o ms,
         \A i \in 1..Len(ms) : ms[i].kind # "applied",
         UNCHANGED applies, unapplies' \in Nat,
         \A i \in 1..Len(blockLog') :
           blockLog'[i].kind = "apply" => applies'[blockLog'[i].block] > 0,
         MaxUnapplies = 0 => chain \subseteq chain'
  PROVE  RunsInv'
<1>1. /\ Len(txLog) \in Nat /\ Len(ms) \in Nat /\ Len(txLog') = Len(txLog) + Len(ms)
      /\ \A i \in 1..Len(ms) : txLog'[Len(txLog) + i] = ms[i]
      /\ IsGrownFrom(txLog', txLog)
  BY ConcatGrows DEF FeedTypeOK
<1>2. ASSUME NEW b \in Blocks, NEW o \in 1..Len(txLog'),
             txLog'[o].kind = "applied", txLog'[o].block = b
      PROVE  /\ applies'[b] > 0
             /\ \E s \in 0..(o - 1) : RunAt(b, s)' /\ o <= s + NumTxs(b)
  <2>1. o \in 1..Len(txLog) /\ txLog'[o] = txLog[o]
    <3>1. CASE o > Len(txLog)
      <4>1. o - Len(txLog) \in 1..Len(ms) /\ txLog'[o] = ms[o - Len(txLog)]
        BY <1>1, <3>1
      <4> QED BY <1>2, <4>1
    <3>2. CASE o <= Len(txLog)
      BY <1>1, <3>2 DEF IsGrownFrom
    <3> QED BY <1>1, <3>1, <3>2
  <2>2. applies[b] > 0 /\ \E s \in 0..(o - 1) : RunAt(b, s) /\ o <= s + NumTxs(b)
    BY <1>2, <2>1 DEF RunsInv
  <2> QED BY <1>1, <2>2, RunKept
<1>3. ASSUME NEW b \in Blocks, NumTxs(b) > 0, NEW s \in 0..Len(txLog'),
             NEW z \in 0..Len(txLog'), RunAt(b, s)', RunAt(b, z)'
      PROVE  s = z
  <2>1. RunAt(b, s) /\ RunAt(b, z)
    BY <1>3, NoNewRun
  <2>2. s \in 0..Len(txLog) /\ z \in 0..Len(txLog)
    BY <1>1, <2>1, TxsTyping DEF RunAt
  <2> QED BY <1>3, <2>1, <2>2 DEF RunsInv
<1>4. \A b \in Blocks : applies'[b] > 0 /\ MaxUnapplies = 0 => b \in chain'
  BY DEF RunsInv
<1>5. applies' \in [Blocks -> Nat] /\ unapplies' \in Nat
  BY DEF RunsInv
<1> HIDE DEF RunAt
<1> QED BY <1>2, <1>3, <1>4, <1>5 DEF RunsInv, NumTxs

LEMMA RunsStep ==
  ASSUME AppliedOnce, FeedTypeOK, FeedTypeOK', RunsInv, FeedNext
  PROVE  RunsInv'
<1>0. Len(txLog) \in Nat /\ <<>> \in Seq(TxMessage) /\ Len(<<>>) = 0 /\ 1..0 = {}
      /\ txLog \o <<>> = txLog
  BY DEF FeedTypeOK
<1>a. \A i \in 1..Len(blockLog') :
        blockLog'[i].kind = "apply" => applies'[blockLog'[i].block] > 0
  BY AppliesNamed
<1>1. ASSUME NEW b \in Blocks, PublishApply(b)
      PROVE  RunsInv'
  <2> DEFINE ms == TxMessages("applied", b)
             n == NumTxs(b)
  <2>1. /\ b \notin chain /\ applies[b] < MaxApplies
        /\ applies' = [applies EXCEPT ![b] = @ + 1]
        /\ chain' = chain \cup {b} /\ txLog' = txLog \o ms /\ unapplies' = unapplies
    BY <1>1 DEF PublishApply
  <2>2. applies[b] = 0
    BY <2>1, FeedAssumption DEF AppliedOnce, RunsInv
  <2>3. /\ ms \in Seq(TxMessage) /\ Len(ms) = n /\ n \in Nat
        /\ \A i \in 1..n : ms[i].kind = "applied" /\ ms[i].block = b /\ ms[i].tx = TxsOf[b][i]
    BY TxsTyping
  <2> HIDE DEF ms
  <2>a. PICK l \in Nat : l = Len(txLog)
    BY <1>0
  <2>4. /\ Len(txLog') = l + n /\ IsGrownFrom(txLog', txLog)
        /\ \A o \in (l + 1)..(l + n) : txLog'[o] = ms[o - l]
    <3>1. txLog \in Seq(TxMessage) /\ txLog' = txLog \o ms
      BY <2>1 DEF FeedTypeOK
    <3>2. IsGrownFrom(txLog', txLog)
      BY <2>3, <3>1, ConcatGrows
    <3>3. Len(txLog \o ms) = Len(txLog) + Len(ms)
      BY <2>3, <3>1
    <3>4. ASSUME NEW o \in (l + 1)..(l + n)
          PROVE  txLog'[o] = ms[o - l]
      BY <2>a, <2>3, <3>1
    <3> QED BY <2>a, <2>3, <3>1, <3>2, <3>3, <3>4
  <2>5. RunAt(b, l)'
    <3>1. l \in 0..(Len(txLog') - n)
      BY <2>3, <2>4
    <3>2. ASSUME NEW o \in (l + 1)..(l + n)
          PROVE  /\ txLog'[o].kind = "applied" /\ txLog'[o].block = b
                 /\ txLog'[o].tx = TxsOf[b][o - l]
      <4>1. o - l \in 1..n
        BY <2>3
      <4> QED BY <2>3, <2>4, <4>1
    <3> QED BY <3>1, <3>2 DEF RunAt, NumTxs
  <2>6. ASSUME NEW o \in 1..Len(txLog), txLog[o].kind = "applied"
        PROVE  txLog[o].block # b
    BY <2>2, <2>6 DEF RunsInv
  <2>7. ASSUME NEW c \in Blocks, NEW o \in 1..Len(txLog'),
               txLog'[o].kind = "applied", txLog'[o].block = c
        PROVE  /\ applies'[c] > 0
               /\ \E s \in 0..(o - 1) : RunAt(c, s)' /\ o <= s + NumTxs(c)
    <3>1. CASE o > l
      <4>1. o - l \in 1..n /\ txLog'[o] = ms[o - l]
        BY <1>0, <2>a, <2>3, <2>4, <3>1
      <4>2. c = b /\ l \in 0..(o - 1) /\ o <= l + n
        BY <1>0, <2>a, <2>3, <2>4, <2>7, <3>1, <4>1
      <4>3. applies'[b] > 0
        BY <2>1, <2>2 DEF RunsInv
      <4>4. o <= l + NumTxs(b)
        BY <4>2
      <4> QED BY <2>5, <4>2, <4>3, <4>4
    <3>2. CASE o <= l
      <4>1. o \in 1..Len(txLog) /\ txLog'[o] = txLog[o]
        BY <1>0, <2>a, <2>4, <3>2 DEF IsGrownFrom
      <4>2. c # b /\ applies[c] > 0
            /\ \E s \in 0..(o - 1) : RunAt(c, s) /\ o <= s + NumTxs(c)
        BY <2>6, <2>7, <4>1 DEF RunsInv
      <4> QED BY <2>1, <2>4, <4>2, RunKept DEF RunsInv
    <3> QED BY <1>0, <2>a, <3>1, <3>2
  <2>8. ASSUME NEW c \in Blocks, NumTxs(c) > 0, NEW s \in 0..Len(txLog'),
               NEW z \in 0..Len(txLog'), RunAt(c, s)', RunAt(c, z)'
        PROVE  s = z
    <3>1. CASE c = b
      <4>1. ASSUME NEW x \in 0..Len(txLog'), RunAt(b, x)'
            PROVE  x = l
        <5>1. /\ x \in 0..(Len(txLog') - n)
              /\ 1 \in 1..n /\ txLog'[x + 1].kind = "applied" /\ txLog'[x + 1].block = b
          <6>1. 1 \in 1..n /\ n = Len(TxsOf[b])
            BY <2>3, <2>8, <3>1 DEF NumTxs
          <6> QED BY <4>1, <6>1 DEF RunAt
        <5>2. x + 1 \notin 1..Len(txLog)
          BY <2>4, <2>6, <5>1 DEF IsGrownFrom
        <5> QED BY <1>0, <2>a, <2>3, <2>4, <5>1, <5>2
      <4> QED BY <2>8, <3>1, <4>1
    <3>2. CASE c # b
      <4>1. \A i \in 1..Len(ms) : ~(ms[i].kind = "applied" /\ ms[i].block = c)
        BY <2>3, <3>2
      <4>2. RunAt(c, s) /\ RunAt(c, z)
        BY <2>1, <2>3, <2>8, <4>1, NoNewRun
      <4>3. s \in 0..Len(txLog) /\ z \in 0..Len(txLog)
        BY <1>0, <4>2, TxsTyping DEF RunAt
      <4> QED BY <2>8, <4>2, <4>3 DEF RunsInv
    <3> QED BY <3>1, <3>2
  <2>9. /\ applies' \in [Blocks -> Nat] /\ unapplies' \in Nat
        /\ \A c \in Blocks : applies'[c] > 0 /\ MaxUnapplies = 0 => c \in chain'
    BY <2>1 DEF RunsInv
  <2> QED BY <1>a, <2>7, <2>8, <2>9 DEF RunsInv, NumTxs
<1>2. ASSUME NEW b \in Blocks, PublishUnapply(b)
      PROVE  RunsInv'
  <2>1. /\ unapplies < MaxUnapplies /\ unapplies' = unapplies + 1
        /\ txLog' = txLog \o TxMessages("unapplied", b) /\ UNCHANGED applies
    BY <1>2 DEF PublishUnapply
  <2>2. MaxUnapplies # 0 /\ unapplies' \in Nat
    BY <2>1, FeedAssumption DEF RunsInv
  <2>3. /\ TxMessages("unapplied", b) \in Seq(TxMessage)
        /\ \A i \in 1..Len(TxMessages("unapplied", b)) :
             TxMessages("unapplied", b)[i].kind # "applied"
    <3>1. "unapplied" \in {"applied", "unapplied"} /\ "unapplied" # "applied"
      OBVIOUS
    <3> QED BY <3>1, TxsTyping
  <2> QED BY <1>a, <2>1, <2>2, <2>3, RunsQuiet
<1>3. CASE PublishMalformedTx
  <2> DEFINE m == [kind |-> "malformed", block |-> Root, tx |-> Root]
  <2>1. m \in TxMessage /\ <<m>> \in Seq(TxMessage) /\ Len(<<m>>) = 1 /\ <<m>>[1] = m
    BY DEF TxMessage
  <2>2. txLog' = txLog \o <<m>>
    BY <1>3, <2>1 DEF PublishMalformedTx, FeedTypeOK
  <2>3. UNCHANGED <<applies, unapplies, chain>>
    BY <1>3 DEF PublishMalformedTx
  <2>4. \A i \in 1..Len(<<m>>) : <<m>>[i].kind # "applied"
    BY <2>1
  <2> QED BY <1>a, <2>1, <2>2, <2>3, <2>4, RunsQuiet DEF RunsInv
<1>4. ASSUME UNCHANGED <<txLog, applies, unapplies, chain>>
      PROVE  RunsInv'
  BY <1>0, <1>a, <1>4, RunsQuiet DEF RunsInv
<1> QED
  BY <1>1, <1>2, <1>3, <1>4
     DEF FeedNext, PublishMempool, PublishMalformedBlock, PublishMalformedMempool

(* A block that was applied before gets no second run.                     *)
LEMMA OldRuns ==
  ASSUME AppliedOnce, FeedTypeOK, RunsInv, FeedNext,
         NEW b \in Blocks, applies[b] > 0, NumTxs(b) > 0, NEW s, RunAt(b, s)'
  PROVE  RunAt(b, s)
<1>1. ASSUME NEW ms \in Seq(TxMessage), txLog' = txLog \o ms,
             \A i \in 1..Len(ms) : ~(ms[i].kind = "applied" /\ ms[i].block = b)
      PROVE  RunAt(b, s)
  BY <1>1, NoNewRun
<1>2. ASSUME NEW c \in Blocks, PublishApply(c)
      PROVE  RunAt(b, s)
  <2>1. c \notin chain /\ applies[c] < MaxApplies /\ txLog' = txLog \o TxMessages("applied", c)
    BY <1>2 DEF PublishApply
  <2>2. c # b
    BY <2>1, FeedAssumption DEF AppliedOnce, RunsInv
  <2>3. /\ TxMessages("applied", c) \in Seq(TxMessage)
        /\ \A i \in 1..Len(TxMessages("applied", c)) : TxMessages("applied", c)[i].block = c
    BY TxsTyping
  <2> QED BY <1>1, <2>1, <2>2, <2>3
<1>3. ASSUME NEW c \in Blocks, PublishUnapply(c)
      PROVE  RunAt(b, s)
  <2>1. txLog' = txLog \o TxMessages("unapplied", c)
    BY <1>3 DEF PublishUnapply
  <2>2. "unapplied" \in {"applied", "unapplied"} /\ "unapplied" # "applied"
    OBVIOUS
  <2> QED BY <1>1, <2>1, <2>2, TxsTyping
<1>4. CASE PublishMalformedTx
  <2> DEFINE m == [kind |-> "malformed", block |-> Root, tx |-> Root]
  <2>1. m \in TxMessage /\ <<m>> \in Seq(TxMessage) /\ Len(<<m>>) = 1 /\ <<m>>[1] = m
    BY DEF TxMessage
  <2>2. txLog' = txLog \o <<m>>
    BY <1>4, <2>1 DEF PublishMalformedTx, FeedTypeOK
  <2>3. \A i \in 1..Len(<<m>>) : <<m>>[i].kind # "applied"
    BY <2>1
  <2> QED BY <1>1, <2>1, <2>2, <2>3
<1>5. ASSUME UNCHANGED txLog
      PROVE  RunAt(b, s)
  BY <1>5 DEF RunAt, NumTxs
<1> QED
  BY <1>2, <1>3, <1>4, <1>5
     DEF FeedNext, PublishMempool, PublishMalformedBlock, PublishMalformedMempool

-------------------------------------------------------------------------------
(* A chain that never forks: the heights in the transaction topic only     *)
(* rise, and every block of the chain has its run there.                   *)

StraightInv ==
  /\ \A o \in 1..Len(txLog) : txLog[o].kind = "applied" /\ txLog[o].block \in chain
  /\ \A o, p \in 1..Len(txLog) :
       o <= p => HeightOf[txLog[o].block] <= HeightOf[txLog[p].block]
  /\ \A b \in chain : \E s \in 0..Len(txLog) : RunAt(b, s)
  /\ \A i \in 1..Len(blockLog) :
       /\ blockLog[i].kind = "apply"
       /\ blockLog[i].chain \subseteq chain /\ blockLog[i].block \in blockLog[i].chain
       /\ \A c \in blockLog[i].chain : HeightOf[c] <= HeightOf[blockLog[i].block]

LEMMA StraightInit == FeedInit => StraightInv
<1> SUFFICES ASSUME FeedInit PROVE StraightInv
  OBVIOUS
<1>1. Len(txLog) = 0 /\ Len(blockLog) = 0 /\ 1..0 = {} /\ chain = {}
  BY DEF FeedInit
<1> QED BY <1>1 DEF StraightInv

LEMMA StraightStep ==
  ASSUME MaxUnapplies = 0, FeedTypeOK, ChainInv, RunsInv, StraightInv,
         NEW b \in Blocks, PublishApply(b) \/ PublishUnapply(b)
  PROVE  /\ StraightInv' /\ chain \subseteq chain'
         /\ \A c \in chain : HeightOf[c] < HeightOf[b]
         /\ \A o \in 1..Len(txLog') : o > Len(txLog) => txLog'[o].block = b
<1>1. PublishApply(b)
  BY DEF PublishUnapply, RunsInv
<1> DEFINE ms == TxMessages("applied", b)
           n == NumTxs(b)
           m == [kind |-> "apply", block |-> b, chain |-> chain']
<1>2. /\ chain' = chain \cup {b} /\ txLog' = txLog \o ms /\ blockLog' = Append(blockLog, m)
      /\ HeightOf[b] = NodeHeight + 1
  BY <1>1 DEF PublishApply
<1>3. /\ ms \in Seq(TxMessage) /\ Len(ms) = n /\ n \in Nat
      /\ \A i \in 1..n : ms[i].kind = "applied" /\ ms[i].block = b /\ ms[i].tx = TxsOf[b][i]
  BY TxsTyping
<1> HIDE DEF ms
<1>4. \A c \in Blocks : HeightOf[c] \in Nat
  BY FeedAssumption
<1>5. \A c \in chain : HeightOf[c] < HeightOf[b]
  BY <1>2, <1>4, NodeHeightTyping DEF ChainInv, FeedTypeOK
<1>6. FeedNext /\ FeedTypeOK'
  BY <1>1, FeedTyping DEF FeedNext
<1>7. PICK l \in Nat : l = Len(txLog)
  BY DEF FeedTypeOK
<1>8. /\ Len(txLog') = l + n /\ IsGrownFrom(txLog', txLog)
      /\ \A o \in (l + 1)..(l + n) : txLog'[o] = ms[o - l]
  <2>1. txLog \in Seq(TxMessage)
    BY DEF FeedTypeOK
  <2>2. IsGrownFrom(txLog', txLog)
    BY <1>2, <1>3, <2>1, ConcatGrows
  <2>3. Len(txLog \o ms) = Len(txLog) + Len(ms)
    BY <1>3, <2>1
  <2>4. ASSUME NEW o \in (l + 1)..(l + n) PROVE txLog'[o] = ms[o - l]
    BY <1>2, <1>3, <1>7, <2>1
  <2> QED BY <1>2, <1>3, <1>7, <2>2, <2>3, <2>4
<1>9. ASSUME NEW o \in (l + 1)..(l + n)
      PROVE  /\ txLog'[o].kind = "applied" /\ txLog'[o].block = b
             /\ txLog'[o].tx = TxsOf[b][o - l]
  <2>1. o - l \in 1..n
    BY <1>3
  <2> QED BY <1>3, <1>8, <2>1
<1>10. ASSUME NEW o \in 1..Len(txLog')
       PROVE  \/ o \in 1..l /\ txLog'[o] = txLog[o] /\ txLog[o].block \in chain
                 /\ txLog[o].kind = "applied"
              \/ o \in (l + 1)..(l + n)
  <2>1. CASE o <= l
    BY <1>7, <1>8, <2>1 DEF IsGrownFrom, StraightInv
  <2>2. CASE o > l
    BY <1>3, <1>7, <1>8, <2>2
  <2> QED BY <1>7, <2>1, <2>2
<1>11. \A o \in 1..Len(txLog') : txLog'[o].kind = "applied" /\ txLog'[o].block \in chain'
  BY <1>2, <1>9, <1>10
<1>12. ASSUME NEW o \in 1..Len(txLog'), NEW p \in 1..Len(txLog'), o <= p
       PROVE  HeightOf[txLog'[o].block] <= HeightOf[txLog'[p].block]
  <2>1. CASE p \in (l + 1)..(l + n)
    <3>1. txLog'[p].block = b
      BY <1>9, <2>1
    <3>2. CASE o \in (l + 1)..(l + n)
      BY <1>4, <1>9, <3>1, <3>2
    <3>3. CASE o \notin (l + 1)..(l + n)
      <4>1. txLog'[o].block \in chain /\ HeightOf[txLog'[o].block] \in Nat /\ HeightOf[b] \in Nat
        BY <1>4, <1>10, <3>3 DEF FeedTypeOK
      <4> QED BY <1>5, <3>1, <4>1
    <3> QED BY <3>2, <3>3
  <2>2. CASE p \notin (l + 1)..(l + n)
    <3>1. p \in 1..l /\ txLog'[p] = txLog[p]
      BY <1>10, <2>2
    <3>2. o \in 1..l /\ txLog'[o] = txLog[o]
      BY <1>7, <1>8, <1>12, <3>1 DEF IsGrownFrom
    <3> QED BY <1>7, <1>12, <3>1, <3>2 DEF StraightInv
  <2> QED BY <2>1, <2>2
<1>13. ASSUME NEW c \in chain'
       PROVE  \E s \in 0..Len(txLog') : RunAt(c, s)'
  <2>1. CASE c = b
    <3>1. l \in 0..(Len(txLog') - n) /\ l \in 0..Len(txLog')
      BY <1>3, <1>7, <1>8
    <3>2. RunAt(b, l)'
      BY <1>9, <3>1 DEF RunAt, NumTxs
    <3> QED BY <2>1, <3>1, <3>2
  <2>2. CASE c # b
    <3>1. c \in chain /\ c \in Blocks
      BY <1>2, <2>2 DEF FeedTypeOK
    <3>2. PICK s \in 0..l : RunAt(c, s)
      BY <1>7, <3>1 DEF StraightInv
    <3>3. RunAt(c, s)'
      BY <1>6, <1>8, <3>1, <3>2, RunKept
    <3>4. s \in 0..Len(txLog')
      BY <1>3, <1>7, <1>8
    <3> QED BY <3>3, <3>4
  <2> QED BY <2>1, <2>2
<1>14. ASSUME NEW i \in 1..Len(blockLog')
       PROVE  /\ blockLog'[i].kind = "apply"
              /\ blockLog'[i].chain \subseteq chain' /\ blockLog'[i].block \in blockLog'[i].chain
              /\ \A c \in blockLog'[i].chain : HeightOf[c] <= HeightOf[blockLog'[i].block]
  <2>1. CASE i \in 1..Len(blockLog)
    <3>1. blockLog'[i] = blockLog[i]
      BY <1>2, <2>1 DEF FeedTypeOK
    <3> QED BY <1>2, <2>1, <3>1 DEF StraightInv
  <2>2. CASE i \notin 1..Len(blockLog)
    <3>1. blockLog'[i] = m
      BY <1>2, <1>14, <2>2 DEF FeedTypeOK
    <3>2. \A c \in chain' : HeightOf[c] <= HeightOf[b]
      BY <1>2, <1>4, <1>5 DEF FeedTypeOK
    <3> QED BY <1>2, <3>1, <3>2
  <2> QED BY <2>1, <2>2
<1>15. \A o \in 1..Len(txLog') : o > Len(txLog) => txLog'[o].block = b
  BY <1>3, <1>7, <1>8, <1>9
<1> QED BY <1>2, <1>5, <1>11, <1>12, <1>13, <1>14, <1>15 DEF StraightInv

(* A run is where the messages of its block are.                           *)
LEMMA RunHolds ==
  ASSUME FeedTypeOK, RunsInv, StraightInv, NEW b \in Blocks,
         NEW s \in 0..Len(txLog), RunAt(b, s), NEW o \in 1..Len(txLog), txLog[o].block = b
  PROVE  o \in (s + 1)..(s + NumTxs(b)) /\ txLog[o].tx = TxsOf[b][o - s]
<1>1. PICK z \in 0..(o - 1) : RunAt(b, z) /\ o <= z + NumTxs(b)
  BY DEF RunsInv, StraightInv
<1>2. NumTxs(b) \in Nat /\ Len(txLog) \in Nat
  BY TxsTyping DEF FeedTypeOK
<1>3. z \in 0..Len(txLog) /\ NumTxs(b) > 0
  BY <1>1, <1>2
<1>4. z = s
  BY <1>1, <1>3 DEF RunsInv
<1>5. o \in (s + 1)..(s + NumTxs(b))
  BY <1>1, <1>2, <1>4
<1> QED BY <1>5 DEF RunAt

-------------------------------------------------------------------------------
(* The history of the block topic, as long as no block joins twice.        *)

Applies(i, b) == blockLog[i].kind = "apply" /\ blockLog[i].block = b
Unapplies(i, b) == blockLog[i].kind = "unapply" /\ blockLog[i].block = b

BlockEntry(kind, b, c) == [kind |-> kind, block |-> b, chain |-> c]
MalformedTx == [kind |-> "malformed", block |-> Root, tx |-> Root]

(* What one step of the feed does to the chain and the two topics.         *)
Joins(b) ==
  /\ b \notin chain /\ Higher(b, chain) /\ chain' = chain \cup {b}
  /\ blockLog' = Append(blockLog, BlockEntry("apply", b, chain'))
  /\ txLog' = txLog \o TxMessages("applied", b)
Leaves(b) ==
  /\ b \in chain /\ chain' = chain \ {b} /\ Higher(b, chain')
  /\ blockLog' = Append(blockLog, BlockEntry("unapply", b, chain'))
  /\ txLog' = txLog \o TxMessages("unapplied", b)
BadBlock ==
  /\ UNCHANGED <<chain, txLog>>
  /\ blockLog' = Append(blockLog, BlockEntry("malformed", Root, chain'))
BadTx ==
  /\ UNCHANGED <<chain, blockLog>>
  /\ txLog' = Append(txLog, MalformedTx)

LEMMA FeedShape ==
  ASSUME AppliedOnce, FeedTypeOK, ChainInv, RunsInv, FeedNext
  PROVE  \/ \E b \in Blocks : Joins(b) /\ \A i \in 1..Len(blockLog) : ~Applies(i, b)
         \/ \E b \in Blocks : Leaves(b)
         \/ BadBlock
         \/ BadTx
         \/ UNCHANGED <<chain, blockLog, txLog>>
<1> USE FeedAssumption
<1>1. NodeHeight \in Int /\ chain \subseteq Blocks /\ \A b \in Blocks : HeightOf[b] \in Int
  BY NodeHeightTyping DEF FeedTypeOK
<1>2. ASSUME NEW b \in Blocks, PublishApply(b)
      PROVE  Joins(b) /\ \A i \in 1..Len(blockLog) : ~Applies(i, b)
  <2>1. /\ b \notin chain /\ chain' = chain \cup {b}
        /\ HeightOf[b] = NodeHeight + 1 /\ applies[b] < MaxApplies
        /\ blockLog' = Append(blockLog, BlockEntry("apply", b, chain'))
        /\ txLog' = txLog \o TxMessages("applied", b)
    BY <1>2 DEF PublishApply, BlockEntry
  <2>2. Higher(b, chain)
    BY <1>1, <2>1 DEF ChainInv, Higher
  <2>3. ~(applies[b] > 0)
    BY <2>1 DEF AppliedOnce, RunsInv
  <2>4. \A i \in 1..Len(blockLog) : ~Applies(i, b)
    BY <2>3 DEF RunsInv, Applies
  <2> QED BY <2>1, <2>2, <2>4 DEF Joins
<1>3. ASSUME NEW b \in Blocks, PublishUnapply(b)
      PROVE  Leaves(b)
  <2>1. /\ b \in chain /\ \A c \in chain : HeightOf[c] <= HeightOf[b]
        /\ chain' = chain \ {b}
        /\ blockLog' = Append(blockLog, BlockEntry("unapply", b, chain'))
        /\ txLog' = txLog \o TxMessages("unapplied", b)
    BY <1>3 DEF PublishUnapply, Heads, BlockEntry
  <2>2. Higher(b, chain')
    BY <1>1, <2>1 DEF ChainInv, Higher
  <2> QED BY <2>1, <2>2 DEF Leaves
<1>4. PublishMalformedBlock => BadBlock
  BY DEF PublishMalformedBlock, BadBlock, BlockEntry
<1>5. PublishMalformedTx => BadTx
  BY DEF PublishMalformedTx, BadTx, MalformedTx
<1>6. PublishMalformedMempool \/ (\E t \in MempoolTxs, kind \in {"accepted", "withdrawn"} :
        PublishMempool(t, kind)) => UNCHANGED <<chain, blockLog, txLog>>
  BY DEF PublishMalformedMempool, PublishMempool
<1> QED BY <1>2, <1>3, <1>4, <1>5, <1>6 DEF FeedNext

(* The topic and the chains in it after one more message.                  *)
LEMMA Appended ==
  ASSUME FeedTypeOK, LogInv, NEW m, blockLog' = Append(blockLog, m), m.chain = chain',
         NEW n \in Nat, n = Len(blockLog)
  PROVE  /\ Len(blockLog') = n + 1 /\ blockLog'[n + 1] = m
         /\ \A i \in 1..n : blockLog'[i] = blockLog[i]
         /\ \A i \in 1..(n + 1) : Before(i)' = Before(i)
         /\ Before(n + 1) = chain /\ Before(n + 2)' = chain'
<1>1. /\ Len(blockLog') = n + 1 /\ blockLog'[n + 1] = m
      /\ \A i \in 1..n : blockLog'[i] = blockLog[i]
  BY DEF FeedTypeOK
<1>2. \A i \in 1..(n + 1) : Before(i)' = Before(i)
  BY <1>1 DEF Before
<1>3. Before(n + 2)' = chain'
  <2>1. (n + 2) - 1 = n + 1 /\ n + 2 # 1
    OBVIOUS
  <2> QED BY <1>1, <2>1 DEF Before
<1> QED BY <1>1, <1>2, <1>3 DEF LogInv

(* A block is applied once; what is on the chain was applied before, what  *)
(* was applied is on it until it is unapplied, and never after that.       *)
HistoryInv ==
  /\ \A b \in Blocks : \A i, k \in 1..Len(blockLog) : Applies(i, b) /\ Applies(k, b) => i = k
  /\ \A k \in 1..(Len(blockLog) + 1) : \A b \in Before(k) : \E i \in 1..(k - 1) : Applies(i, b)
  /\ \A b \in Blocks : \A i \in 1..Len(blockLog) : Applies(i, b) =>
       \A k \in (i + 1)..(Len(blockLog) + 1) :
         b \in Before(k) \/ \E u \in (i + 1)..(k - 1) : Unapplies(u, b)
  /\ \A b \in Blocks : \A u \in 1..Len(blockLog) : Unapplies(u, b) =>
       /\ b \in Before(u)
       /\ \A k \in (u + 1)..(Len(blockLog) + 1) : b \notin Before(k)

(* Two chains that share a block share what is below it.                   *)
SharedInv ==
  \A i, k \in 1..(Len(blockLog) + 1) :
    \A b \in Before(i) \cap Before(k), c \in Before(i) :
      HeightOf[c] <= HeightOf[b] => c \in Before(k)

LEMMA HistoryAppend ==
  ASSUME FeedTypeOK, LogInv, HistoryInv, NEW m, blockLog' = Append(blockLog, m),
         m.chain = chain',
         \/ /\ m.kind = "apply" /\ chain' = chain \cup {m.block}
            /\ \A i \in 1..Len(blockLog) : ~Applies(i, m.block)
         \/ /\ m.kind = "unapply" /\ m.block \in chain /\ chain' = chain \ {m.block}
         \/ /\ m.kind = "malformed" /\ chain' = chain
  PROVE  HistoryInv'
<1> PICK n \in Nat : n = Len(blockLog)
  BY DEF FeedTypeOK
<1>1. /\ Len(blockLog) = n /\ Len(blockLog') = n + 1
      /\ blockLog'[n + 1] = m
      /\ \A i \in 1..n : blockLog'[i] = blockLog[i]
      /\ \A i \in 1..(n + 1) : Before(i)' = Before(i)
      /\ Before(n + 1) = chain /\ Before(n + 2)' = chain'
  BY Appended
<1>2. \A i \in 1..n : \A b : /\ Applies(i, b)' <=> Applies(i, b)
                             /\ Unapplies(i, b)' <=> Unapplies(i, b)
  BY <1>1 DEF Applies, Unapplies
<1>3. \A b : /\ Applies(n + 1, b)' <=> (m.kind = "apply" /\ m.block = b)
             /\ Unapplies(n + 1, b)' <=> (m.kind = "unapply" /\ m.block = b)
  BY <1>1 DEF Applies, Unapplies
<1>4. \A i \in 1..(n + 1) : i \in 1..n \/ i = n + 1
  OBVIOUS
<1>5. \A i \in 1..(n + 2) : i \in 1..(n + 1) \/ i = n + 2
  OBVIOUS
<1>6. ASSUME NEW b \in Blocks, NEW i \in 1..(n + 1), NEW k \in 1..(n + 1),
             Applies(i, b)', Applies(k, b)'
      PROVE  i = k
  BY <1>1, <1>2, <1>3, <1>4, <1>6 DEF HistoryInv
<1>7. ASSUME NEW k \in 1..(n + 2), NEW b \in Before(k)'
      PROVE  \E i \in 1..(k - 1) : Applies(i, b)'
  <2>1. CASE k \in 1..(n + 1)
    <3>1. PICK i \in 1..(k - 1) : Applies(i, b)
      BY <1>1, <1>7, <2>1 DEF HistoryInv
    <3>2. i \in 1..n
      BY <2>1
    <3> QED BY <1>2, <3>1, <3>2
  <2>2. CASE k = n + 2
    <3>1. b \in chain'
      BY <1>1, <1>7, <2>2
    <3>2. CASE b \in chain
      <4>1. PICK i \in 1..(n + 1 - 1) : Applies(i, b)
        <5>1. n + 1 \in 1..(n + 1) /\ b \in Before(n + 1)
          BY <1>1, <3>2
        <5> QED BY <1>1, <5>1 DEF HistoryInv
      <4>2. i \in 1..n /\ i \in 1..(k - 1)
        BY <2>2, <4>1
      <4> QED BY <1>2, <4>1, <4>2
    <3>3. CASE b \notin chain
      <4>1. m.kind = "apply" /\ m.block = b
        BY <3>1, <3>3
      <4>2. n + 1 \in 1..(k - 1)
        BY <2>2
      <4> QED BY <1>3, <4>1, <4>2
    <3> QED BY <3>2, <3>3
  <2> QED BY <1>5, <2>1, <2>2
<1>8. ASSUME NEW b \in Blocks, NEW i \in 1..(n + 1), Applies(i, b)',
             NEW k \in (i + 1)..(n + 2)
      PROVE  b \in Before(k)' \/ \E u \in (i + 1)..(k - 1) : Unapplies(u, b)'
  <2>1. CASE k \in 1..(n + 1)
    <3>1. i \in 1..n /\ Applies(i, b)
      <4>1. i \in 1..n
        BY <2>1
      <4> QED BY <1>2, <1>8, <4>1
    <3>2. b \in Before(k) \/ \E u \in (i + 1)..(k - 1) : Unapplies(u, b)
      <4>1. k \in (i + 1)..(n + 1)
        BY <2>1
      <4> QED BY <1>1, <3>1, <4>1 DEF HistoryInv
    <3>3. \A u \in (i + 1)..(k - 1) : u \in 1..n
      BY <2>1
    <3> QED BY <1>1, <1>2, <2>1, <3>2, <3>3
  <2>2. CASE k = n + 2 /\ i \in 1..n
    <3>1. b \in Before(n + 1) \/ \E u \in (i + 1)..n : Unapplies(u, b)
      <4>1. n + 1 \in (i + 1)..(n + 1) /\ n + 1 - 1 = n
        BY <2>2
      <4>2. Applies(i, b)
        BY <1>2, <1>8, <2>2
      <4>3. b \in Before(n + 1) \/ \E u \in (i + 1)..(n + 1 - 1) : Unapplies(u, b)
        BY <1>1, <2>2, <4>1, <4>2 DEF HistoryInv
      <4> QED BY <4>1, <4>3
    <3>2. \A u \in (i + 1)..n : u \in 1..n /\ u \in (i + 1)..(k - 1)
      BY <2>2
    <3>3. n + 1 \in (i + 1)..(k - 1)
      BY <2>2
    <3> QED BY <1>1, <1>2, <1>3, <2>2, <3>1, <3>2, <3>3
  <2>3. CASE k = n + 2 /\ i = n + 1
    BY <1>1, <1>3, <1>8, <2>3
  <2> QED BY <1>4, <1>5, <1>8, <2>1, <2>2, <2>3
<1>9. ASSUME NEW b \in Blocks, NEW u \in 1..(n + 1), Unapplies(u, b)'
      PROVE  /\ b \in Before(u)'
             /\ \A k \in (u + 1)..(n + 2) : b \notin Before(k)'
  <2>1. CASE u \in 1..n
    <3>1. b \in Before(u) /\ \A k \in (u + 1)..(n + 1) : b \notin Before(k)
      BY <1>1, <1>2, <1>9, <2>1 DEF HistoryInv
    <3>2. PICK i \in 1..n : Applies(i, b)
      <4>1. u \in 1..(n + 1)
        BY <2>1
      <4>2. PICK i \in 1..(u - 1) : Applies(i, b)
        BY <1>1, <3>1, <4>1 DEF HistoryInv
      <4>3. i \in 1..n
        BY <2>1
      <4> QED BY <4>2, <4>3
    <3>3. b \notin chain'
      <4>1. b \notin chain
        BY <1>1, <2>1, <3>1
      <4> QED BY <1>1, <3>2, <4>1
    <3> QED BY <1>1, <1>5, <2>1, <3>1, <3>3
  <2>2. CASE u = n + 1
    <3>1. m.kind = "unapply" /\ m.block = b
      BY <1>3, <1>9, <2>2
    <3>2. b \in chain /\ b \notin chain'
      BY <3>1
    <3>3. \A k \in (u + 1)..(n + 2) : k = n + 2
      BY <2>2
    <3>4. u \in 1..(n + 1)
      OBVIOUS
    <3> QED BY <1>1, <2>2, <3>2, <3>3, <3>4
  <2> QED BY <1>4, <2>1, <2>2
<1>10. (n + 1) + 1 = n + 2
  OBVIOUS
<1> QED BY <1>1, <1>6, <1>7, <1>8, <1>9, <1>10 DEF HistoryInv

LEMMA SharedAppend ==
  ASSUME FeedTypeOK, LogInv, HistoryInv, SharedInv, NEW m, blockLog' = Append(blockLog, m),
         m.chain = chain', m.block \in Blocks \cup {Root},
         \/ /\ m.kind = "apply" /\ chain' = chain \cup {m.block} /\ Higher(m.block, chain)
            /\ \A i \in 1..Len(blockLog) : ~Applies(i, m.block)
            /\ m.block \in Blocks
         \/ /\ m.kind = "unapply" /\ m.block \in chain /\ chain' = chain \ {m.block}
            /\ Higher(m.block, chain')
         \/ /\ m.kind = "malformed" /\ chain' = chain
  PROVE  SharedInv'
<1> PICK n \in Nat : n = Len(blockLog)
  BY DEF FeedTypeOK
<1>1. /\ Len(blockLog) = n /\ Len(blockLog') = n + 1
      /\ \A i \in 1..(n + 1) : Before(i)' = Before(i)
      /\ Before(n + 1) = chain /\ Before(n + 2)' = chain'
  BY Appended
<1>2. \A i \in 1..(n + 2) : i \in 1..(n + 1) \/ i = n + 2
  OBVIOUS
<1>3. chain \subseteq Blocks /\ \A b \in Blocks : HeightOf[b] \in Int
  BY FeedAssumption DEF FeedTypeOK
<1>4. \A i \in 1..(n + 1) : Before(i) \subseteq Blocks
  <2>1. \A i \in 1..n : blockLog[i].chain \subseteq Blocks
    BY <1>1 DEF FeedTypeOK, BlockMessage
  <2>2. \A i \in 1..(n + 1) : i = 1 \/ i - 1 \in 1..n
    OBVIOUS
  <2> QED BY <2>1, <2>2 DEF Before
<1>5. ASSUME m.kind = "apply", NEW i \in 1..(n + 1) PROVE m.block \notin Before(i)
  <2>1. m.block \in Before(i) => \E k \in 1..(i - 1) : Applies(k, m.block)
    BY <1>1 DEF HistoryInv
  <2>2. \A k \in 1..(i - 1) : k \in 1..n
    OBVIOUS
  <2> QED BY <1>1, <1>5, <2>1, <2>2
<1>6. ASSUME NEW i \in 1..(n + 1), NEW k \in 1..(n + 1), NEW b \in Before(i),
             b \in Before(k), NEW c \in Before(i), HeightOf[c] <= HeightOf[b]
      PROVE  c \in Before(k)
  BY <1>1, <1>6 DEF SharedInv
<1>7. n + 1 \in 1..(n + 1)
  OBVIOUS
<1>8. ASSUME NEW i \in 1..(n + 1), NEW b \in Before(i), b \in chain', NEW c \in Before(i),
             HeightOf[c] <= HeightOf[b]
      PROVE  c \in chain'
  <2>1. b \in chain
    BY <1>5, <1>8
  <2>2. c \in chain
    BY <1>1, <1>6, <1>7, <1>8, <2>1
  <2>3. CASE m.kind = "unapply"
    <3>1. HeightOf[b] < HeightOf[m.block]
      BY <1>8, <2>3 DEF Higher
    <3>2. HeightOf[b] \in Int /\ HeightOf[c] \in Int /\ HeightOf[m.block] \in Int
      BY <1>3, <2>1, <2>2, <2>3
    <3>3. c # m.block
      BY <1>8, <3>1, <3>2
    <3> QED BY <2>2, <2>3, <3>3
  <2> QED BY <2>2, <2>3
<1>9. ASSUME NEW k \in 1..(n + 1), NEW b \in chain', b \in Before(k), NEW c \in chain',
             HeightOf[c] <= HeightOf[b]
      PROVE  c \in Before(k)
  <2>1. b \in chain
    BY <1>5, <1>9
  <2>2. CASE c \in chain
    BY <1>1, <1>6, <1>7, <1>9, <2>1, <2>2
  <2>3. CASE c \notin chain
    <3>1. m.kind = "apply" /\ c = m.block
      BY <2>3
    <3>2. HeightOf[b] < HeightOf[c]
      BY <2>1, <3>1 DEF Higher
    <3>3. HeightOf[b] \in Int /\ HeightOf[c] \in Int
      BY <1>3, <2>1, <3>1
    <3> QED BY <1>9, <3>2, <3>3
  <2> QED BY <2>2, <2>3
<1>10. ASSUME NEW i \in 1..(n + 2), NEW k \in 1..(n + 2), NEW b \in Before(i)' \cap Before(k)',
              NEW c \in Before(i)', HeightOf[c] <= HeightOf[b]
       PROVE  c \in Before(k)'
  <2>1. CASE i \in 1..(n + 1) /\ k \in 1..(n + 1)
    BY <1>1, <1>6, <1>10, <2>1
  <2>2. CASE i \in 1..(n + 1) /\ k = n + 2
    BY <1>1, <1>8, <1>10, <2>2
  <2>3. CASE i = n + 2 /\ k \in 1..(n + 1)
    BY <1>1, <1>9, <1>10, <2>3
  <2>4. CASE i = n + 2 /\ k = n + 2
    BY <2>4
  <2> QED BY <1>2, <2>1, <2>2, <2>3, <2>4
<1>11. (n + 1) + 1 = n + 2
  OBVIOUS
<1> QED BY <1>1, <1>10, <1>11 DEF SharedInv

(* One block per height, in every chain there was.                         *)
OneEachInv ==
  \A i \in 1..(Len(blockLog) + 1) :
    \A b, c \in Before(i) : HeightOf[b] = HeightOf[c] => b = c

LEMMA OneEachAppend ==
  ASSUME FeedTypeOK, LogInv, OneEachInv, ChainInv', NEW m,
         blockLog' = Append(blockLog, m), m.chain = chain'
  PROVE  OneEachInv'
<1> PICK n \in Nat : n = Len(blockLog)
  BY DEF FeedTypeOK
<1>1. /\ Len(blockLog) = n /\ Len(blockLog') = n + 1
      /\ \A i \in 1..(n + 1) : Before(i)' = Before(i)
      /\ Before(n + 2)' = chain'
  BY Appended
<1>2. \A i \in 1..(n + 2) : i \in 1..(n + 1) \/ i = n + 2
  OBVIOUS
<1>3. (n + 1) + 1 = n + 2
  OBVIOUS
<1>4. \A b, c \in chain' : HeightOf[b] = HeightOf[c] => b = c
  BY DEF ChainInv
<1>5. ASSUME NEW i \in 1..(n + 2), NEW b \in Before(i)', NEW c \in Before(i)',
             HeightOf[b] = HeightOf[c]
      PROVE  b = c
  <2>1. CASE i \in 1..(n + 1)
    <3>1. b \in Before(i) /\ c \in Before(i)
      BY <1>1, <1>5, <2>1
    <3> QED BY <1>1, <1>5, <2>1, <3>1 DEF OneEachInv
  <2>2. CASE i = n + 2
    BY <1>1, <1>4, <1>5, <2>2
  <2> QED BY <1>2, <2>1, <2>2
<1> QED BY <1>1, <1>3, <1>5 DEF OneEachInv

(* Where the messages of a block that joined are.                          *)
Messages(b) == {o \in 1..Len(txLog) : txLog[o].kind = "applied" /\ txLog[o].block = b}

(* The transaction topic follows the block topic: a message belongs to a   *)
(* block that joined or left, the blocks come in the order in which they   *)
(* joined, each with its transactions one behind the other.                *)
RunOrderInv ==
  /\ \A o \in 1..Len(txLog) :
       /\ txLog[o].kind = "applied" => \E i \in 1..Len(blockLog) : Applies(i, txLog[o].block)
       /\ txLog[o].kind = "unapplied" => \E i \in 1..Len(blockLog) : Unapplies(i, txLog[o].block)
  /\ \A b, c \in Blocks : \A i, j \in 1..Len(blockLog) :
       i < j /\ Applies(i, b) /\ Applies(j, c) =>
         \A o \in Messages(b), q \in Messages(c) : o < q
  /\ \A b \in Blocks : \A i \in 1..Len(blockLog) : Applies(i, b) =>
       \E s \in 0..Len(txLog) :
         /\ Messages(b) = (s + 1)..(s + NumTxs(b))
         /\ \A o \in Messages(b) : txLog[o].tx = TxsOf[b][o - s]

(* The messages of the blocks after ms was appended.                       *)
LEMMA MessagesAfter ==
  ASSUME FeedTypeOK, NEW ms \in Seq(TxMessage), txLog' = txLog \o ms,
         NEW l \in Nat, l = Len(txLog)
  PROVE  /\ Len(txLog') = l + Len(ms)
         /\ \A o \in 1..l : txLog'[o] = txLog[o]
         /\ \A o \in (l + 1)..(l + Len(ms)) : txLog'[o] = ms[o - l]
         /\ \A b : (\A i \in 1..Len(ms) : ~(ms[i].kind = "applied" /\ ms[i].block = b))
                     => Messages(b)' = Messages(b)
<1>1. /\ Len(txLog') = l + Len(ms) /\ Len(ms) \in Nat
      /\ \A o \in 1..l : txLog'[o] = txLog[o]
  BY DEF FeedTypeOK
<1>2. ASSUME NEW o \in (l + 1)..(l + Len(ms)) PROVE txLog'[o] = ms[o - l]
  BY <1>1, <1>2 DEF FeedTypeOK
<1>3. ASSUME NEW b, \A i \in 1..Len(ms) : ~(ms[i].kind = "applied" /\ ms[i].block = b)
      PROVE  Messages(b)' = Messages(b)
  <2>1. ASSUME NEW o \in 1..Len(txLog')
        PROVE  \/ o \in 1..l /\ txLog'[o] = txLog[o]
               \/ o \notin 1..l /\ ~(txLog'[o].kind = "applied" /\ txLog'[o].block = b)
    <3>1. CASE o \in 1..l
      BY <1>1, <3>1
    <3>2. CASE o \notin 1..l
      <4>1. o \in (l + 1)..(l + Len(ms)) /\ o - l \in 1..Len(ms)
        BY <1>1, <3>2
      <4> QED BY <1>2, <1>3, <3>2, <4>1
    <3> QED BY <3>1, <3>2
  <2>2. 1..l \subseteq 1..Len(txLog')
    BY <1>1
  <2> QED BY <1>1, <2>1, <2>2 DEF Messages
<1> QED BY <1>1, <1>2, <1>3

(* The block topic as it was, or with one more message.                    *)
EntriesKept ==
  /\ Len(blockLog) <= Len(blockLog')
  /\ \A i \in 1..Len(blockLog) : blockLog'[i] = blockLog[i]

LEMMA TopicQuiet ==
  ASSUME FeedTypeOK, RunOrderInv, NEW ms \in Seq(TxMessage), txLog' = txLog \o ms,
         EntriesKept, Len(blockLog') \in Nat,
         \A i \in 1..Len(ms) : /\ ms[i].kind # "applied"
                               /\ ms[i].kind = "unapplied" =>
                                    \E k \in 1..Len(blockLog') : Unapplies(k, ms[i].block)',
         \A i \in 1..Len(blockLog') : i \notin 1..Len(blockLog) => blockLog'[i].kind # "apply"
  PROVE  RunOrderInv'
<1> PICK l \in Nat : l = Len(txLog)
  BY DEF FeedTypeOK
<1>1. /\ Len(txLog') = l + Len(ms) /\ Len(ms) \in Nat
      /\ \A o \in 1..l : txLog'[o] = txLog[o]
      /\ \A o \in (l + 1)..(l + Len(ms)) : txLog'[o] = ms[o - l]
      /\ \A b : Messages(b)' = Messages(b)
  <2>1. Len(ms) \in Nat /\ \A i \in 1..Len(ms) : ms[i].kind # "applied"
    OBVIOUS
  <2> QED BY <2>1, MessagesAfter
<1>2. \A i \in 1..Len(blockLog') : \A b : Applies(i, b)' => i \in 1..Len(blockLog) /\ Applies(i, b)
  BY DEF EntriesKept, Applies
<1>3. \A i \in 1..Len(blockLog) : \A b :
        /\ i \in 1..Len(blockLog')
        /\ Applies(i, b) => Applies(i, b)'
        /\ Unapplies(i, b) => Unapplies(i, b)'
  BY DEF EntriesKept, Applies, Unapplies, FeedTypeOK
<1>4. ASSUME NEW o \in 1..Len(txLog')
      PROVE  /\ txLog'[o].kind = "applied" =>
                  \E i \in 1..Len(blockLog') : Applies(i, txLog[o].block)'
             /\ txLog'[o].kind = "unapplied" =>
                  \E i \in 1..Len(blockLog') : Unapplies(i, txLog[o].block)'
  <2>1. CASE o \in 1..l
    <3>1. txLog'[o] = txLog[o]
      BY <1>1, <2>1
    <3>2. /\ txLog[o].kind = "applied" => \E i \in 1..Len(blockLog) : Applies(i, txLog[o].block)
          /\ txLog[o].kind = "unapplied" => \E i \in 1..Len(blockLog) : Unapplies(i, txLog[o].block)
      BY <2>1 DEF RunOrderInv
    <3>3. \A b : /\ (\E i \in 1..Len(blockLog) : Applies(i, b)) =>
                      \E i \in 1..Len(blockLog') : Applies(i, b)'
                 /\ (\E i \in 1..Len(blockLog) : Unapplies(i, b)) =>
                      \E i \in 1..Len(blockLog') : Unapplies(i, b)'
      BY <1>3, Zenon
    <3> QED BY <3>1, <3>2, <3>3, Zenon
  <2>2. CASE o \notin 1..l
    <3>1. o - l \in 1..Len(ms) /\ txLog'[o] = ms[o - l]
      BY <1>1, <2>2
    <3> QED BY <3>1 DEF Unapplies
  <2> QED BY <2>1, <2>2
<1>5. ASSUME NEW b \in Blocks, NEW c \in Blocks, NEW i \in 1..Len(blockLog'),
             NEW j \in 1..Len(blockLog'), i < j, Applies(i, b)', Applies(j, c)',
             NEW o \in Messages(b)', NEW q \in Messages(c)'
      PROVE  o < q
  BY <1>1, <1>2, <1>5 DEF RunOrderInv
<1>6. ASSUME NEW b \in Blocks, NEW i \in 1..Len(blockLog'), Applies(i, b)'
      PROVE  \E s \in 0..Len(txLog') :
               /\ Messages(b)' = (s + 1)..(s + NumTxs(b))
               /\ \A o \in Messages(b)' : txLog'[o].tx = TxsOf[b][o - s]
  <2>1. PICK s \in 0..l : /\ Messages(b) = (s + 1)..(s + NumTxs(b))
                          /\ \A o \in Messages(b) : txLog[o].tx = TxsOf[b][o - s]
    BY <1>2, <1>6 DEF RunOrderInv
  <2>2. \A o \in Messages(b) : txLog'[o] = txLog[o]
    BY <1>1 DEF Messages
  <2>3. s \in 0..Len(txLog')
    BY <1>1
  <2> QED BY <1>1, <2>1, <2>2, <2>3
<1> QED BY <1>4, <1>5, <1>6 DEF RunOrderInv, Applies, Unapplies, NumTxs

LEMMA TopicJoin ==
  ASSUME FeedTypeOK, LogInv, RunOrderInv, NEW b \in Blocks, Joins(b),
         \A i \in 1..Len(blockLog) : ~Applies(i, b)
  PROVE  RunOrderInv'
<1> DEFINE ms == TxMessages("applied", b)
<1> PICK k \in Nat : k = NumTxs(b)
  BY TxsTyping
<1> PICK l \in Nat : l = Len(txLog)
  BY DEF FeedTypeOK
<1> PICK n \in Nat : n = Len(blockLog)
  BY DEF FeedTypeOK
<1>1. /\ Len(blockLog') = n + 1
      /\ \A i \in 1..n : \A c : /\ Applies(i, c)' <=> Applies(i, c)
                                /\ Unapplies(i, c)' <=> Unapplies(i, c)
      /\ \A c : Applies(n + 1, c)' <=> c = b
      /\ \A c : ~Unapplies(n + 1, c)'
  BY DEF Joins, BlockEntry, Applies, Unapplies, FeedTypeOK
<1>2. /\ ms \in Seq(TxMessage) /\ Len(ms) = k
      /\ \A i \in 1..k : ms[i].kind = "applied" /\ ms[i].block = b /\ ms[i].tx = TxsOf[b][i]
  BY TxsTyping
<1>3. txLog' = txLog \o ms
  BY DEF Joins
<1> HIDE DEF ms
<1>4. /\ Len(txLog') = l + k
      /\ \A o \in 1..l : txLog'[o] = txLog[o]
      /\ \A o \in (l + 1)..(l + k) : txLog'[o] = ms[o - l]
      /\ \A c : c # b => Messages(c)' = Messages(c)
  <2>1. \A c : c # b => \A i \in 1..Len(ms) : ~(ms[i].kind = "applied" /\ ms[i].block = c)
    BY <1>2
  <2>2. /\ Len(txLog') = l + Len(ms)
        /\ \A o \in 1..l : txLog'[o] = txLog[o]
        /\ \A o \in (l + 1)..(l + Len(ms)) : txLog'[o] = ms[o - l]
        /\ \A c : (\A i \in 1..Len(ms) : ~(ms[i].kind = "applied" /\ ms[i].block = c))
                     => Messages(c)' = Messages(c)
    <3>1. ms \in Seq(TxMessage)
      BY <1>2
    <3> QED BY <1>3, <3>1, MessagesAfter
  <2>3. Len(ms) = k
    BY <1>2
  <2>4. \A c : c # b => Messages(c)' = Messages(c)
    BY <2>1, <2>2
  <2> QED BY <2>2, <2>3, <2>4
<1>5. \A o \in (l + 1)..(l + k) :
        /\ o - l \in 1..k /\ txLog'[o].kind = "applied" /\ txLog'[o].block = b
        /\ txLog'[o].tx = TxsOf[b][o - l]
  <2>1. \A o \in (l + 1)..(l + k) : o - l \in 1..k
    OBVIOUS
  <2> QED BY <1>2, <1>4, <2>1
<1>6. \A o \in 1..Len(txLog') : o \in 1..l \/ o \in (l + 1)..(l + k)
  BY <1>4
<1>7. \A o \in 1..l : ~(txLog[o].kind = "applied" /\ txLog[o].block = b)
  BY DEF RunOrderInv
<1>8. Messages(b)' = (l + 1)..(l + k)
  <2>1. \A o : o \in (l + 1)..(l + k) => o \in 1..Len(txLog')
    BY <1>4
  <2>2. \A o \in 1..Len(txLog') : (txLog'[o].kind = "applied" /\ txLog'[o].block = b)
                                 <=> o \in (l + 1)..(l + k)
    BY <1>4, <1>5, <1>6, <1>7
  <2> QED BY <2>1, <2>2 DEF Messages
<1>9. \A c : Messages(c) \subseteq 1..l
  BY DEF Messages
<1>10. \A i \in 1..(n + 1) : i \in 1..n \/ i = n + 1
  OBVIOUS
<1>11. 1..n \subseteq 1..(n + 1) /\ n + 1 \in 1..(n + 1)
  OBVIOUS
<1>12. ASSUME NEW o \in 1..Len(txLog')
       PROVE  /\ txLog'[o].kind = "applied" => \E i \in 1..(n + 1) : Applies(i, txLog[o].block)'
              /\ txLog'[o].kind = "unapplied" => \E i \in 1..(n + 1) : Unapplies(i, txLog[o].block)'
  <2>1. CASE o \in 1..l
    <3>1. txLog'[o] = txLog[o]
      BY <1>4, <2>1
    <3>2. /\ txLog[o].kind = "applied" => \E i \in 1..n : Applies(i, txLog[o].block)
          /\ txLog[o].kind = "unapplied" => \E i \in 1..n : Unapplies(i, txLog[o].block)
      BY <2>1 DEF RunOrderInv
    <3>3. \A i \in 1..n : blockLog'[i] = blockLog[i]
      BY DEF Joins, FeedTypeOK
    <3> QED BY <1>11, <3>1, <3>2, <3>3 DEF Applies, Unapplies
  <2>2. CASE o \in (l + 1)..(l + k)
    <3>1. Applies(n + 1, b)' /\ txLog'[o].block = b /\ txLog'[o].kind = "applied"
      BY <1>1, <1>5, <2>2
    <3> QED BY <1>11, <3>1 DEF Applies
  <2> QED BY <1>6, <2>1, <2>2
<1>13. ASSUME NEW c \in Blocks, NEW d \in Blocks, NEW i \in 1..(n + 1), NEW j \in 1..(n + 1),
              i < j, Applies(i, c)', Applies(j, d)',
              NEW o \in Messages(c)', NEW q \in Messages(d)'
       PROVE  o < q
  <2>1. i \in 1..n /\ Applies(i, c) /\ c # b
    <3>1. i \in 1..n
      BY <1>13
    <3> QED BY <1>1, <1>13, <3>1
  <2>2. o \in Messages(c)
    BY <1>4, <1>13, <2>1
  <2>3. CASE j \in 1..n
    <3>1. Applies(j, d) /\ d # b
      BY <1>1, <1>13, <2>3
    <3>2. q \in Messages(d)
      BY <1>4, <1>13, <3>1
    <3> QED BY <1>13, <2>1, <2>2, <2>3, <3>1, <3>2 DEF RunOrderInv
  <2>4. CASE j = n + 1
    <3>1. q \in (l + 1)..(l + k)
      BY <1>1, <1>8, <1>13, <2>4
    <3>2. o \in 1..l
      BY <1>9, <2>2
    <3> QED BY <3>1, <3>2
  <2> QED BY <1>10, <2>3, <2>4
<1>14. ASSUME NEW c \in Blocks, NEW i \in 1..(n + 1), Applies(i, c)'
       PROVE  \E s \in 0..Len(txLog') :
                /\ Messages(c)' = (s + 1)..(s + NumTxs(c))
                /\ \A o \in Messages(c)' : txLog'[o].tx = TxsOf[c][o - s]
  <2>1. CASE c = b
    <3>1. l \in 0..Len(txLog')
      BY <1>4
    <3> QED BY <1>5, <1>8, <2>1, <3>1
  <2>2. CASE c # b
    <3>1. i \in 1..n /\ Applies(i, c)
      BY <1>1, <1>10, <1>14, <2>2
    <3>2. PICK s \in 0..l : /\ Messages(c) = (s + 1)..(s + NumTxs(c))
                            /\ \A o \in Messages(c) : txLog[o].tx = TxsOf[c][o - s]
      BY <3>1 DEF RunOrderInv
    <3>3. Messages(c)' = Messages(c) /\ \A o \in Messages(c) : txLog'[o] = txLog[o]
      BY <1>4, <1>9, <2>2
    <3>4. s \in 0..Len(txLog')
      BY <1>4
    <3> QED BY <3>2, <3>3, <3>4
  <2> QED BY <2>1, <2>2
<1>15. Len(blockLog') = n + 1
  BY <1>1
<1>16. \A o \in 1..Len(txLog') :
         /\ txLog'[o].kind = "applied" =>
              \E i \in 1..Len(blockLog') : Applies(i, txLog[o].block)'
         /\ txLog'[o].kind = "unapplied" =>
              \E i \in 1..Len(blockLog') : Unapplies(i, txLog[o].block)'
  BY <1>12, <1>15
<1>17. \A c, d \in Blocks : \A i, j \in 1..Len(blockLog') :
         i < j /\ Applies(i, c)' /\ Applies(j, d)' =>
           \A o \in Messages(c)', q \in Messages(d)' : o < q
  BY <1>13, <1>15
<1>18. \A c \in Blocks : \A i \in 1..Len(blockLog') : Applies(i, c)' =>
         \E s \in 0..Len(txLog') :
           /\ Messages(c)' = (s + 1)..(s + NumTxs(c))
           /\ \A o \in Messages(c)' : txLog'[o].tx = TxsOf[c][o - s]
  BY <1>14, <1>15
<1> QED BY <1>16, <1>17, <1>18 DEF RunOrderInv, NumTxs, Applies, Unapplies

(* The topics keep describing one history, whatever the node publishes.    *)
HistoryOK == HistoryInv /\ SharedInv /\ OneEachInv /\ RunOrderInv

LEMMA HistoryInit == FeedInit => HistoryOK
<1> SUFFICES ASSUME FeedInit PROVE HistoryOK
  OBVIOUS
<1>1. Len(blockLog) = 0 /\ Len(txLog) = 0 /\ 1..0 = {}
  BY DEF FeedInit
<1>2. \A i \in 1..(Len(blockLog) + 1) : Before(i) = {}
  BY <1>1 DEF Before
<1> QED BY <1>1, <1>2 DEF HistoryOK, HistoryInv, SharedInv, OneEachInv, RunOrderInv

LEMMA HistoryQuiet ==
  ASSUME HistoryInv, SharedInv, OneEachInv, UNCHANGED blockLog
  PROVE  HistoryInv' /\ SharedInv' /\ OneEachInv'
BY DEF HistoryInv, SharedInv, OneEachInv, Before, Applies, Unapplies

LEMMA HistoryStep ==
  ASSUME AppliedOnce, FeedTypeOK, FeedTypeOK', ChainInv, ChainInv', LogInv, RunsInv,
         HistoryOK, FeedNext
  PROVE  HistoryOK'
<1>0. HistoryInv /\ SharedInv /\ OneEachInv /\ RunOrderInv
  BY DEF HistoryOK
<1>a. Len(blockLog') \in Nat /\ Len(blockLog) \in Nat
      /\ txLog \in Seq(TxMessage) /\ blockLog \in Seq(BlockMessage)
  BY DEF FeedTypeOK
<1>1. ASSUME NEW b \in Blocks, Joins(b), \A i \in 1..Len(blockLog) : ~Applies(i, b)
      PROVE  HistoryOK'
  <2> DEFINE m == BlockEntry("apply", b, chain')
  <2>1. /\ blockLog' = Append(blockLog, m) /\ m.chain = chain' /\ m.kind = "apply"
        /\ m.block = b /\ chain' = chain \cup {b} /\ Higher(b, chain)
    BY <1>1 DEF Joins, BlockEntry
  <2> HIDE DEF m
  <2>2. HistoryInv'
    BY <1>0, <1>1, <2>1, HistoryAppend
  <2>3. SharedInv'
    BY <1>0, <1>1, <2>1, SharedAppend
  <2>4. OneEachInv'
    BY <1>0, <2>1, OneEachAppend
  <2>5. RunOrderInv'
    BY <1>0, <1>1, TopicJoin
  <2> QED BY <2>2, <2>3, <2>4, <2>5 DEF HistoryOK
<1>2. ASSUME NEW b \in Blocks, Leaves(b)
      PROVE  HistoryOK'
  <2> DEFINE m == BlockEntry("unapply", b, chain')
             ms == TxMessages("unapplied", b)
  <2>1. /\ blockLog' = Append(blockLog, m) /\ m.chain = chain' /\ m.kind = "unapply"
        /\ m.block = b /\ b \in chain /\ chain' = chain \ {b} /\ Higher(b, chain')
        /\ txLog' = txLog \o ms
    BY <1>2 DEF Leaves, BlockEntry
  <2>2. /\ ms \in Seq(TxMessage)
        /\ \A i \in 1..Len(ms) : ms[i].kind = "unapplied" /\ ms[i].block = b
    BY TxsTyping
  <2> HIDE DEF m, ms
  <2>3. HistoryInv'
    BY <1>0, <2>1, HistoryAppend
  <2>4. SharedInv'
    BY <1>0, <2>1, SharedAppend
  <2>5. OneEachInv'
    BY <1>0, <2>1, OneEachAppend
  <2>6. /\ EntriesKept /\ Len(blockLog) + 1 \in 1..Len(blockLog')
        /\ blockLog'[Len(blockLog) + 1] = m
        /\ \A i \in 1..Len(blockLog') : i \notin 1..Len(blockLog) => blockLog'[i] = m
    BY <1>a, <2>1 DEF EntriesKept
  <2>7. ASSUME NEW i \in 1..Len(ms)
        PROVE  /\ ms[i].kind # "applied"
               /\ ms[i].kind = "unapplied" => \E k \in 1..Len(blockLog') : Unapplies(k, ms[i].block)'
    <3>1. ms[i].kind = "unapplied" /\ ms[i].block = b
      BY <2>2
    <3>2. blockLog'[Len(blockLog) + 1].kind = "unapply" /\ blockLog'[Len(blockLog) + 1].block = b
      BY <2>1, <2>6
    <3> QED BY <2>6, <3>1, <3>2 DEF Unapplies
  <2>8. RunOrderInv'
    BY <1>0, <1>a, <2>1, <2>2, <2>6, <2>7, TopicQuiet
  <2> QED BY <2>3, <2>4, <2>5, <2>8 DEF HistoryOK
<1>3. CASE BadBlock
  <2> DEFINE m == BlockEntry("malformed", Root, chain')
  <2>1. /\ blockLog' = Append(blockLog, m) /\ m.chain = chain' /\ m.kind = "malformed"
        /\ m.block = Root /\ chain' = chain /\ txLog' = txLog
    BY <1>3 DEF BadBlock, BlockEntry
  <2> HIDE DEF m
  <2>2. HistoryInv'
    BY <1>0, <2>1, HistoryAppend
  <2>3. SharedInv'
    BY <1>0, <2>1, SharedAppend
  <2>4. OneEachInv'
    BY <1>0, <2>1, OneEachAppend
  <2>5. /\ EntriesKept
        /\ \A i \in 1..Len(blockLog') : i \notin 1..Len(blockLog) => blockLog'[i] = m
    BY <1>a, <2>1 DEF EntriesKept
  <2>6. PICK ms \in Seq(TxMessage) : txLog' = txLog \o ms /\ Len(ms) = 0
    <3>1. <<>> \in Seq(TxMessage) /\ txLog' = txLog \o <<>> /\ Len(<<>>) = 0
      BY <1>a, <2>1
    <3> QED BY <3>1
  <2>7. \A i \in 1..Len(ms) : FALSE
    BY <2>6
  <2>8. \A i \in 1..Len(blockLog') : i \notin 1..Len(blockLog) => blockLog'[i].kind # "apply"
    BY <2>1, <2>5
  <2>9. RunOrderInv'
    BY <1>0, <1>a, <2>5, <2>6, <2>7, <2>8, TopicQuiet
  <2> QED BY <2>2, <2>3, <2>4, <2>9 DEF HistoryOK
<1>4. CASE BadTx
  <2>1. txLog' = txLog \o <<MalformedTx>> /\ UNCHANGED <<chain, blockLog>>
    BY <1>4, <1>a DEF BadTx
  <2>2. <<MalformedTx>> \in Seq(TxMessage)
        /\ \A i \in 1..Len(<<MalformedTx>>) : <<MalformedTx>>[i].kind = "malformed"
    BY DEF MalformedTx, TxMessage
  <2>3. EntriesKept
    BY <1>a, <2>1 DEF EntriesKept
  <2>4. RunOrderInv'
    BY <1>0, <1>a, <2>1, <2>2, <2>3, TopicQuiet
  <2> QED BY <1>0, <2>1, <2>4, HistoryQuiet DEF HistoryOK
<1>5. CASE UNCHANGED <<chain, blockLog, txLog>>
  BY <1>0, <1>5, HistoryQuiet
     DEF HistoryOK, RunOrderInv, Messages, Applies, Unapplies
<1> QED BY <1>1, <1>2, <1>3, <1>4, <1>5, FeedShape

-------------------------------------------------------------------------------
(* What a reader of the topics may conclude.                               *)

(* Before the message that applies it, a block is on no chain.             *)
LEMMA NotYet ==
  ASSUME HistoryOK, Len(blockLog) \in Nat, NEW c \in Blocks, NEW i \in 1..Len(blockLog), Applies(i, c),
         NEW k \in 1..i
  PROVE  c \notin Before(k)
<1>1. SUFFICES ASSUME c \in Before(k) PROVE FALSE
  OBVIOUS
<1>2. k \in 1..(Len(blockLog) + 1)
  OBVIOUS
<1>3. PICK j \in 1..(k - 1) : Applies(j, c)
  BY <1>1, <1>2 DEF HistoryOK, HistoryInv
<1>4. j \in 1..Len(blockLog) /\ j # i
  OBVIOUS
<1> QED BY <1>3, <1>4 DEF HistoryOK, HistoryInv

(* A block of the node's chain was applied by one message, and is on every *)
(* chain after it.                                                         *)
LEMMA OnChain ==
  ASSUME FeedTypeOK, LogInv, HistoryOK, NEW c \in chain
  PROVE  /\ \E i \in 1..Len(blockLog) : Applies(i, c)
         /\ \A i \in 1..Len(blockLog) : ~Unapplies(i, c)
         /\ \A i \in 1..Len(blockLog) : Applies(i, c) =>
              \A k \in 1..(Len(blockLog) + 1) : c \in Before(k) <=> i < k
<1>0. c \in Blocks /\ Len(blockLog) \in Nat
  BY DEF FeedTypeOK
<1> PICK n \in Nat : n = Len(blockLog)
  BY <1>0
<1>1. c \in Before(n + 1)
  BY DEF LogInv
<1>2. n + 1 \in 1..(n + 1) /\ (n + 1) - 1 = n
  OBVIOUS
<1>3. \E i \in 1..n : Applies(i, c)
  BY <1>1, <1>2 DEF HistoryOK, HistoryInv
<1>4. ASSUME NEW i \in 1..n PROVE ~Unapplies(i, c)
  <2>1. n + 1 \in (i + 1)..(n + 1)
    OBVIOUS
  <2> QED BY <1>0, <1>1, <2>1 DEF HistoryOK, HistoryInv
<1>5. ASSUME NEW i \in 1..n, Applies(i, c), NEW k \in 1..(n + 1)
      PROVE  c \in Before(k) <=> i < k
  <2>1. CASE i < k
    <3>1. k \in (i + 1)..(n + 1) /\ \A u \in (i + 1)..(k - 1) : u \in 1..n
      BY <2>1
    <3> QED BY <1>0, <1>4, <1>5, <2>1, <3>1 DEF HistoryOK, HistoryInv
  <2>2. CASE ~(i < k)
    <3>1. k \in 1..i
      BY <2>2
    <3> QED BY <1>0, <1>5, <2>2, <3>1, NotYet
  <2> QED BY <2>1, <2>2
<1> QED BY <1>3, <1>4, <1>5

(* The messages of such a block.                                           *)
LEMMA MessagesOf ==
  ASSUME FeedTypeOK, HistoryOK, NEW c \in Blocks, NEW i \in 1..Len(blockLog), Applies(i, c)
  PROVE  /\ IsFiniteSet(Messages(c)) /\ Cardinality(Messages(c)) = NumTxs(c)
         /\ \A n \in 1..NumTxs(c) : \E o \in Messages(c) : txLog[o].tx = TxsOf[c][n]
<1>1. PICK s \in 0..Len(txLog) : /\ Messages(c) = (s + 1)..(s + NumTxs(c))
                                 /\ \A o \in Messages(c) : txLog[o].tx = TxsOf[c][o - s]
  BY DEF HistoryOK, RunOrderInv
<1>2. s \in Nat /\ NumTxs(c) \in Nat
  BY TxsTyping DEF FeedTypeOK
<1>3. IsFiniteSet(Messages(c)) /\ Cardinality(Messages(c)) = NumTxs(c)
  <2>1. PICK k \in Nat : k = NumTxs(c)
    BY <1>2
  <2>2. s + 1 \in Int /\ s + k \in Int
    BY <1>2
  <2>3. /\ IsFiniteSet((s + 1)..(s + k))
        /\ Cardinality((s + 1)..(s + k)) =
             (IF s + 1 > s + k THEN 0 ELSE (s + k) - (s + 1) + 1)
    BY <2>2, FS_Interval
  <2>4. (IF s + 1 > s + k THEN 0 ELSE (s + k) - (s + 1) + 1) = k
    BY <1>2
  <2> QED BY <1>1, <2>1, <2>3, <2>4
<1>4. ASSUME NEW n \in 1..NumTxs(c) PROVE \E o \in Messages(c) : txLog[o].tx = TxsOf[c][n]
  <2>1. s + n \in Messages(c) /\ (s + n) - s = n
    BY <1>1, <1>2
  <2> QED BY <1>1, <2>1
<1> QED BY <1>3, <1>4

LEMMA MessageApplied ==
  ASSUME FeedTypeOK, HistoryOK, NEW c, NEW o \in Messages(c)
  PROVE  c \in Blocks /\ o \in 1..Len(txLog) /\ \E i \in 1..Len(blockLog) : Applies(i, c)
<1>1. o \in 1..Len(txLog) /\ txLog[o].kind = "applied" /\ txLog[o].block = c
  BY DEF Messages
<1>2. txLog[o] \in TxMessage
  BY <1>1 DEF FeedTypeOK
<1> QED BY <1>1, <1>2 DEF HistoryOK, RunOrderInv, TxMessage

(* No message takes back a transaction of the node's chain.                *)
LEMMA NoneUnapplied ==
  ASSUME FeedTypeOK, LogInv, HistoryOK, NEW c \in chain,
         NEW o \in 1..Len(txLog), txLog[o].kind = "unapplied"
  PROVE  txLog[o].block # c
BY OnChain DEF HistoryOK, RunOrderInv

(* As long as nothing is unapplied, what joins is higher than what was     *)
(* there.                                                                  *)
LEMMA Rises ==
  ASSUME FeedTypeOK, LogInv, HistoryOK, NEW c \in Blocks,
         NEW i \in 1..Len(blockLog), NEW j \in i..Len(blockLog), Applies(j, c),
         \A u \in i..j : blockLog[u].kind # "unapply"
  PROVE  Higher(c, Before(i))
<1>0. Len(blockLog) \in Nat /\ j \in 1..Len(blockLog)
  BY DEF FeedTypeOK
<1> SUFFICES ASSUME NEW d \in Before(i) PROVE HeightOf[d] < HeightOf[c]
  BY DEF Higher
<1>1. PICK k \in 1..(i - 1) : Applies(k, d)
  <2>1. i \in 1..(Len(blockLog) + 1)
    BY <1>0
  <2> QED BY <2>1 DEF HistoryOK, HistoryInv
<1>2. d \in Blocks /\ k \in 1..Len(blockLog)
  <2>1. k \in 1..Len(blockLog)
    BY <1>0
  <2>2. blockLog[k] \in BlockMessage
    BY <2>1 DEF FeedTypeOK
  <2> QED BY <1>1, <2>1, <2>2 DEF Applies, BlockMessage
<1>3. ASSUME NEW u \in (k + 1)..(j - 1) PROVE ~Unapplies(u, d)
  <2>1. CASE u < i
    <3>1. u \in 1..Len(blockLog) /\ i \in (u + 1)..(Len(blockLog) + 1)
      BY <1>0, <2>1
    <3> QED BY <1>2, <3>1 DEF HistoryOK, HistoryInv
  <2>2. CASE ~(u < i)
    <3>1. u \in i..j
      BY <1>0, <2>2
    <3> QED BY <3>1 DEF Unapplies
  <2> QED BY <2>1, <2>2
<1>4. d \in Before(j)
  <2>1. j \in (k + 1)..(Len(blockLog) + 1)
    BY <1>0
  <2> QED BY <1>1, <1>2, <1>3, <2>1 DEF HistoryOK, HistoryInv
<1>5. Higher(c, Before(j))
  <2>1. blockLog[j].kind = "apply" /\ blockLog[j].block = c /\ LinkOK(j)
    BY <1>0 DEF Applies, LogInv
  <2> QED BY <2>1 DEF LinkOK
<1> QED BY <1>4, <1>5 DEF Higher
==============================================================================
