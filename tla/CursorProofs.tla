----------------------------- MODULE CursorProofs -----------------------------
(***************************************************************************)
(* CursorBacked: the cursor passes a height at which nothing was ever      *)
(* rolled back only when the strategies were sent a block of it in full.   *)
(*                                                                         *)
(* The argument: a height's blockState counts no more transactions than    *)
(* were sent of the block announced at the height (CountInv, with          *)
(* DedupInv: a message counted is sent for the first time), and the block  *)
(* announced there is the one whose transactions are counted, or the       *)
(* strategies have heard a rollback of the height (AnnouncedInv).  So a    *)
(* height that is done and was not taken back has been sent as many        *)
(* transactions as its block has.  It has been sent no more: what is sent  *)
(* of a block before anything of it is withdrawn is one run of the topic   *)
(* (FirstRun, FirstInv), and messages are processed in the order of the    *)
(* topic (InOrderInv), so that a withdrawal that lies before a message has *)
(* been sent, or is buffered with the block, when the message is sent      *)
(* (WithdrawnInv).                                                         *)
(***************************************************************************)
EXTENDS StreamProofs

-------------------------------------------------------------------------------
(* The inductive invariant.                                                *)

(* Every block has a transaction that parses, which tells the actor of its *)
(* rollback.                                                               *)
SomeParse ==
  \A b \in Blocks : NumTxs(b) > 0 =>
    \E n \in 1..NumTxs(b) : TxsOf[b][n] \notin Unparsable

AppliesTx(o, b) == txLog[o].kind = "applied" /\ txLog[o].block = b
Withdraws(u, b) == /\ txLog[u].kind = "unapplied" /\ txLog[u].block = b
                   /\ txLog[u].tx \notin Unparsable

(* The messages of b before the first that withdraws it make up one run.   *)
FirstRun(b, s) ==
  \A o \in 1..Len(txLog) : AppliesTx(o, b) =>
    o \in (s + 1)..(s + NumTxs(b)) \/ \E u \in 1..(o - 1) : Withdraws(u, b)

(* What has left the chain has been withdrawn after all its messages.      *)
RejoinInv ==
  /\ \A o \in 1..Len(txLog) : txLog[o].kind = "applied" => NumTxs(txLog[o].block) > 0
  /\ \A b \in Blocks : b \notin chain =>
       \A o \in 1..Len(txLog) : AppliesTx(o, b) => \E u \in (o + 1)..Len(txLog) : Withdraws(u, b)
  /\ \A b \in Blocks : \E s \in Nat : FirstRun(b, s)

(* What the strategies were told.                                          *)
Announced(b) == \E i \in 1..Len(Produced) : Produced[i].type = "block" /\ Produced[i].block = b
TakenBack(h) ==
  \E i \in 1..Len(Produced) :
    /\ Produced[i].type \in {"rollback", "unappliedTx"}
    /\ HeightOf[Produced[i].block] = h
SentOf(b) == {o \in 1..Len(txLog) : txLog[o].block = b /\ Sent(o)}

(* What is in the stream is in the topic, and the block announced last at  *)
(* a height is the one the block reader has there.                         *)
EventsInv ==
  \A i \in 1..Len(Produced) :
    Produced[i].type = "tx" =>
      \E o \in 1..Len(txLog) : txLog[o].kind = "applied" /\ Produced[i] = TxEventAt(o)
AnnouncedInv ==
  \A b \in Blocks : Announced(b) => b \in Before(blockIdx) \/ TakenBack(HeightOf[b])

(* Messages are processed in the order of the topic.                       *)
InOrderInv ==
  \A u \in 1..Len(txLog) :
    txLog[u].kind # "malformed" /\ (u < txIdx \/ \E o \in processedTxOffsets : u < o)
    => u \in processedTxOffsets

WithdrawnAs(u, b) == \E n \in 1..Len(pendingUnapplied[b]) : pendingUnapplied[b][n] = u
(* What has been withdrawn has been taken back, or its block is not known  *)
(* and the withdrawal waits for it, or was pruned below the cursor.        *)
WithdrawnInv ==
  \A b \in Blocks : HeightOf[b] >= InterceptHeight =>
    \A u \in 1..Len(txLog) :
      Withdraws(u, b) /\ u \in processedTxOffsets =>
        \/ TakenBack(HeightOf[b])
        \/ /\ b \notin emittedBlocks
           /\ WithdrawnAs(u, b) \/ HeightOf[b] <= lastProcessedHeight
(* What is sent comes before anything of its block is withdrawn.           *)
FirstInv ==
  \A b \in Blocks : HeightOf[b] >= InterceptHeight =>
    \A o \in 1..Len(txLog) :
      Sent(o) /\ AppliesTx(o, b) =>
        TakenBack(HeightOf[b]) \/ \A u \in 1..(o - 1) : ~Withdraws(u, b)

(* The state of a height counts no more than was sent.                     *)
Counted(b, n) == Announced(b) /\ n <= Cardinality(SentOf(b))
StateBacked(h, st) ==
  \/ TakenBack(h)
  \/ /\ ~st.rollback
     /\ \E b \in Blocks : HeightOf[b] = h /\ st.expected = NumTxs(b) /\ Counted(b, st.seen)
HeightBacked(h) ==
  \/ TakenBack(h)
  \/ \E b \in Blocks : HeightOf[b] = h /\ Counted(b, NumTxs(b))
CountInv ==
  /\ \A h \in DOMAIN completed : StateBacked(h, completed[h])
  /\ \A h \in InterceptHeight..lastProcessedHeight : HeightBacked(h)

-------------------------------------------------------------------------------
(* The topic.                                                              *)

LEMMA TopicAppended ==
  ASSUME FeedTypeOK, NEW ms \in Seq(TxMessage), txLog' = txLog \o ms
  PROVE  /\ Len(txLog) \in Nat /\ Len(ms) \in Nat /\ Len(txLog') = Len(txLog) + Len(ms)
         /\ \A o \in 1..Len(txLog) : txLog'[o] = txLog[o]
         /\ \A i \in 1..Len(ms) : txLog'[Len(txLog) + i] = ms[i]
         /\ \A o \in 1..Len(txLog') :
              o \in 1..Len(txLog) \/ (o - Len(txLog) \in 1..Len(ms) /\ txLog'[o] = ms[o - Len(txLog)])
<1>1. txLog \in Seq(TxMessage)
  BY DEF FeedTypeOK
<1>2. /\ Len(txLog) \in Nat /\ Len(ms) \in Nat /\ Len(txLog \o ms) = Len(txLog) + Len(ms)
      /\ \A o \in 1..Len(txLog) : (txLog \o ms)[o] = txLog[o]
      /\ \A i \in 1..Len(ms) : (txLog \o ms)[Len(txLog) + i] = ms[i]
  BY <1>1
<1>3. ASSUME NEW o \in 1..(Len(txLog) + Len(ms))
      PROVE  o \in 1..Len(txLog) \/ (o - Len(txLog) \in 1..Len(ms) /\ (txLog \o ms)[o] = ms[o - Len(txLog)])
  BY <1>1, <1>2
<1> QED BY <1>2, <1>3

(* Messages ms are appended: what RejoinInv says of block b.               *)
LEMMA RejoinAppend ==
  ASSUME FeedTypeOK, RejoinInv, NEW ms \in Seq(TxMessage), txLog' = txLog \o ms,
         NEW b \in Blocks,
         \/ \A i \in 1..Len(ms) : ~(ms[i].kind = "applied" /\ ms[i].block = b)
         \/ b \notin chain /\ b \in chain' /\ Len(ms) = NumTxs(b),
         b \notin chain' =>
           \/ b \notin chain
           \/ \A o \in 1..Len(txLog) : ~AppliesTx(o, b)
           \/ \E i \in 1..Len(ms) : /\ ms[i].kind = "unapplied" /\ ms[i].block = b
                                    /\ ms[i].tx \notin Unparsable
  PROVE  /\ b \notin chain' =>
              \A o \in 1..Len(txLog') : AppliesTx(o, b)' =>
                \E u \in (o + 1)..Len(txLog') : Withdraws(u, b)'
         /\ \E s \in Nat : FirstRun(b, s)'
<1>1. PICK n \in Nat : n = Len(txLog)
  BY TopicAppended
<1>2. PICK m \in Nat : m = Len(ms)
  BY TopicAppended
<1>3. /\ Len(txLog') = n + m
      /\ \A o \in 1..n : txLog'[o] = txLog[o]
      /\ \A i \in 1..m : txLog'[n + i] = ms[i] /\ n + i \in 1..(n + m)
      /\ \A o \in 1..(n + m) : o \in 1..n \/ (o - n \in 1..m /\ txLog'[o] = ms[o - n])
  BY <1>1, <1>2, TopicAppended
<1>4. \A o \in 1..n : (AppliesTx(o, b)' <=> AppliesTx(o, b)) /\ (Withdraws(o, b)' <=> Withdraws(o, b))
  BY <1>3 DEF AppliesTx, Withdraws
<1>5. ASSUME b \notin chain', NEW o \in 1..Len(txLog'), AppliesTx(o, b)'
      PROVE  \E u \in (o + 1)..Len(txLog') : Withdraws(u, b)'
  <2>1. o \in 1..n /\ AppliesTx(o, b)
    BY <1>2, <1>3, <1>4, <1>5 DEF AppliesTx
  <2>2. CASE b \notin chain
    <3>1. PICK u \in (o + 1)..n : Withdraws(u, b)
      BY <1>1, <2>1, <2>2 DEF RejoinInv
    <3>2. u \in 1..n /\ o \in Nat /\ u \in Nat /\ o + 1 <= u
      BY <1>1, <2>1, <3>1
    <3>3. Withdraws(u, b)'
      BY <1>4, <3>1, <3>2
    <3>4. u \in (o + 1)..(n + m)
      BY <1>1, <1>2, <3>2
    <3> QED BY <1>3, <3>3, <3>4
  <2>3. ASSUME NEW i \in 1..m, ms[i].kind = "unapplied", ms[i].block = b,
               ms[i].tx \notin Unparsable
        PROVE  \E u \in (o + 1)..Len(txLog') : Withdraws(u, b)'
    <3>1. PICK u \in Nat : u = n + i
      OBVIOUS
    <3>2. u \in (o + 1)..Len(txLog') /\ txLog'[u] = ms[i]
      <4>1. txLog'[u] = ms[i] /\ Len(txLog') = n + m
        BY <1>3, <3>1
      <4>2. o \in 1..n /\ i \in 1..m
        BY <2>1
      <4> QED BY <1>1, <1>2, <3>1, <4>1, <4>2
    <3> QED BY <2>3, <3>2 DEF Withdraws
  <2> QED BY <1>1, <1>2, <1>5, <2>1, <2>2, <2>3
<1>6. \E s \in Nat : FirstRun(b, s)'
  <2>1. PICK s \in Nat : FirstRun(b, s)
    BY DEF RejoinInv
  <2>2. PICK k \in Nat : k = NumTxs(b)
    BY TxsTyping
  <2>3. ASSUME NEW o \in 1..n, AppliesTx(o, b)'
        PROVE  o \in (s + 1)..(s + k) \/ \E u \in 1..(o - 1) : Withdraws(u, b)'
    <3>1. o \in (s + 1)..(s + k) \/ \E u \in 1..(o - 1) : Withdraws(u, b)
      BY <1>1, <1>4, <2>1, <2>2, <2>3 DEF FirstRun
    <3> QED BY <1>4, <3>1
  <2>4. CASE \A i \in 1..m : ~(ms[i].kind = "applied" /\ ms[i].block = b)
    <3>1. ASSUME NEW o \in 1..Len(txLog'), AppliesTx(o, b)'
          PROVE  o \in (s + 1)..(s + k) \/ \E u \in 1..(o - 1) : Withdraws(u, b)'
      <4>1. ASSUME o \notin 1..n PROVE FALSE
        <5>1. PICK i \in 1..m : txLog'[o] = ms[i]
          BY <1>3, <3>1, <4>1
        <5> QED BY <2>4, <3>1, <5>1 DEF AppliesTx
      <4> QED BY <2>3, <3>1, <4>1
    <3> QED BY <2>2, <3>1 DEF FirstRun, NumTxs
  <2>5. CASE b \notin chain /\ m = k
    <3>1. CASE \E o \in 1..n : AppliesTx(o, b)
      <4>1. PICK u \in 1..n : Withdraws(u, b)
        BY <1>1, <2>5, <3>1 DEF RejoinInv
      <4>2. ASSUME NEW o \in 1..Len(txLog'), AppliesTx(o, b)'
            PROVE  o \in (s + 1)..(s + k) \/ \E w \in 1..(o - 1) : Withdraws(w, b)'
        <5>1. CASE o \in 1..n
          BY <2>3, <4>2, <5>1
        <5>2. CASE o \notin 1..n
          <6>1. u \in 1..(o - 1)
            BY <1>3, <4>1, <5>2
          <6> QED BY <1>4, <4>1, <6>1
        <5> QED BY <5>1, <5>2
      <4> QED BY <2>2, <4>2 DEF FirstRun, NumTxs
    <3>2. CASE ~ \E o \in 1..n : AppliesTx(o, b)
      <4>1. ASSUME NEW o \in 1..Len(txLog'), AppliesTx(o, b)'
            PROVE  o \in (n + 1)..(n + k)
        BY <1>3, <1>4, <2>5, <3>2, <4>1
      <4> QED BY <2>2, <4>1 DEF FirstRun, NumTxs
    <3> QED BY <3>1, <3>2
  <2> QED BY <1>2, <2>2, <2>4, <2>5
<1> QED BY <1>5, <1>6

LEMMA RejoinStep ==
  ASSUME SomeParse, FeedTypeOK, FeedTypeOK', RejoinInv, FeedNext
  PROVE  RejoinInv'
<1>0. txLog \in Seq(TxMessage)
  BY DEF FeedTypeOK
<1>1. ASSUME NEW ms \in Seq(TxMessage), txLog' = txLog \o ms,
             \A i \in 1..Len(ms) : ms[i].kind = "applied" => NumTxs(ms[i].block) > 0,
             \A b \in Blocks :
               /\ \/ \A i \in 1..Len(ms) : ~(ms[i].kind = "applied" /\ ms[i].block = b)
                  \/ b \notin chain /\ b \in chain' /\ Len(ms) = NumTxs(b)
               /\ b \notin chain' =>
                    \/ b \notin chain
                    \/ \A o \in 1..Len(txLog) : ~AppliesTx(o, b)
                    \/ \E i \in 1..Len(ms) : /\ ms[i].kind = "unapplied" /\ ms[i].block = b
                                             /\ ms[i].tx \notin Unparsable
      PROVE  RejoinInv'
  <2>1. ASSUME NEW o \in 1..Len(txLog'), txLog'[o].kind = "applied"
        PROVE  NumTxs(txLog'[o].block) > 0
    BY <1>1, <2>1, TopicAppended DEF RejoinInv
  <2>2. \A b \in Blocks :
          /\ b \notin chain' =>
               \A o \in 1..Len(txLog') : AppliesTx(o, b)' =>
                 \E u \in (o + 1)..Len(txLog') : Withdraws(u, b)'
          /\ \E s \in Nat : FirstRun(b, s)'
    BY <1>1, RejoinAppend
  <2> QED BY <2>1, <2>2 DEF RejoinInv, NumTxs
<1>2. ASSUME NEW c \in Blocks, PublishApply(c)
      PROVE  RejoinInv'
  <2>1. PICK ms \in Seq(TxMessage) : ms = TxMessages("applied", c)
    BY TxsTyping
  <2>2. /\ Len(ms) = NumTxs(c) /\ NumTxs(c) \in Nat
        /\ \A i \in 1..Len(ms) : ms[i].kind = "applied" /\ ms[i].block = c
    BY <2>1, TxsTyping
  <2>3. txLog' = txLog \o ms /\ chain' = chain \cup {c} /\ c \notin chain
    BY <1>2, <2>1 DEF PublishApply
  <2>4. \A i \in 1..Len(ms) : ms[i].kind = "applied" => NumTxs(ms[i].block) > 0
    BY <2>2
  <2> QED BY <1>1, <2>2, <2>3, <2>4
<1>3. ASSUME NEW c \in Blocks, PublishUnapply(c)
      PROVE  RejoinInv'
  <2>1. PICK ms \in Seq(TxMessage) : ms = TxMessages("unapplied", c)
    BY TxsTyping
  <2>2. /\ Len(ms) = NumTxs(c)
        /\ \A i \in 1..Len(ms) : ms[i].kind = "unapplied" /\ ms[i].block = c /\ ms[i].tx = TxsOf[c][i]
    BY <2>1, TxsTyping
  <2>3. txLog' = txLog \o ms /\ chain' = chain \ {c}
    BY <1>3, <2>1 DEF PublishUnapply
  <2>4. \/ \A o \in 1..Len(txLog) : ~AppliesTx(o, c)
        \/ \E i \in 1..Len(ms) : ms[i].tx \notin Unparsable
    BY <2>2 DEF RejoinInv, AppliesTx, SomeParse
  <2> QED BY <1>1, <2>2, <2>3, <2>4
<1>4. ASSUME UNCHANGED <<chain, txLog>>
      PROVE  RejoinInv'
  <2>1. PICK ms \in Seq(TxMessage) : ms = <<>>
    BY EmptySeq
  <2>2. 1..Len(ms) = {} /\ txLog' = txLog \o ms
    BY <1>0, <1>4, <2>1
  <2> QED BY <1>1, <1>4, <2>2
<1>5. ASSUME PublishMalformedTx
      PROVE  RejoinInv'
  <2>1. PICK m \in TxMessage : m = [kind |-> "malformed", block |-> Root, tx |-> Root]
    BY DEF TxMessage
  <2>2. /\ <<m>> \in Seq(TxMessage) /\ Len(<<m>>) = 1 /\ <<m>>[1] = m
        /\ txLog' = txLog \o <<m>> /\ chain' = chain
    <3>1. <<m>> \in Seq(TxMessage) /\ Len(<<m>>) = 1 /\ <<m>>[1] = m
      BY <2>1
    <3>2. txLog' = txLog \o <<m>> /\ chain' = chain
      BY <1>0, <1>5, <2>1 DEF PublishMalformedTx
    <3> QED BY <3>1, <3>2
  <2>3. \A i \in 1..Len(<<m>>) : <<m>>[i].kind = "malformed"
    BY <2>1, <2>2
  <2> QED BY <1>1, <2>2, <2>3
<1> QED
  BY <1>2, <1>3, <1>4, <1>5
     DEF FeedNext, PublishMempool, PublishMalformedBlock, PublishMalformedMempool

-------------------------------------------------------------------------------
(* What the strategies have been told they stay told.                      *)

ToldMore ==
  /\ \A b \in Blocks : (Announced(b) => Announced(b)') /\ SentOf(b) \subseteq SentOf(b)'
  /\ \A h \in Int : TakenBack(h) => TakenBack(h)'

LEMMA SendingTells ==
  ASSUME TypeInv, TypeInv', EventsInv, IsGrownFrom(txLog', txLog),
         NEW t \in Seq(DownstreamEvent), Produced' = Produced \o t
  PROVE  /\ ToldMore
         /\ \A k \in 1..Len(t) :
              /\ t[k].type = "block" => Announced(t[k].block)'
              /\ t[k].type \in {"rollback", "unappliedTx"} => TakenBack(HeightOf[t[k].block])'
              /\ \A o : t[k] = TxEventAt(o)' => Sent(o)'
         /\ \A b : Announced(b)' =>
              Announced(b) \/ \E k \in 1..Len(t) : t[k].type = "block" /\ t[k].block = b
         /\ \A o \in 1..Len(txLog') : Sent(o)' =>
              (o \in 1..Len(txLog) /\ Sent(o)) \/ \E k \in 1..Len(t) : t[k] = TxEventAt(o)'
<1>0. Produced \in Seq(DownstreamEvent) /\ Len(Produced) \in Nat /\ Len(t) \in Nat
  BY ProducedTyping
<1>1. /\ Len(Produced') = Len(Produced) + Len(t)
      /\ \A i \in 1..Len(Produced) : Produced'[i] = Produced[i] /\ i \in 1..Len(Produced')
      /\ \A k \in 1..Len(t) : Produced'[Len(Produced) + k] = t[k]
                              /\ Len(Produced) + k \in 1..Len(Produced')
  <2> DEFINE p == Produced
  <2>1. p \in Seq(DownstreamEvent) /\ Produced' = p \o t
    BY <1>0
  <2> HIDE DEF p
  <2>2. /\ Len(p \o t) = Len(p) + Len(t)
        /\ \A i \in 1..Len(p) : (p \o t)[i] = p[i] /\ i \in 1..Len(p \o t)
        /\ \A k \in 1..Len(t) : (p \o t)[Len(p) + k] = t[k] /\ Len(p) + k \in 1..Len(p \o t)
    BY <2>1
  <2> QED BY <2>1, <2>2 DEF p
<1>2. \A i \in 1..Len(Produced') :
        \/ i \in 1..Len(Produced) /\ Produced'[i] = Produced[i]
        \/ i - Len(Produced) \in 1..Len(t) /\ Produced'[i] = t[i - Len(Produced)]
  <2> SUFFICES ASSUME NEW i \in 1..Len(Produced'), i \notin 1..Len(Produced)
               PROVE  i - Len(Produced) \in 1..Len(t) /\ Produced'[i] = t[i - Len(Produced)]
    BY <1>1
  <2>1. PICK k \in 1..Len(t) : k = i - Len(Produced)
    BY <1>0, <1>1
  <2>2. i = Len(Produced) + k
    BY <1>0, <1>1, <2>1
  <2> QED BY <1>1, <2>1, <2>2
<1>3. \A b : Announced(b) => Announced(b)'
  BY <1>1 DEF Announced
<1>4. \A h : TakenBack(h) => TakenBack(h)'
  BY <1>1 DEF TakenBack
<1>5. /\ Len(txLog) \in Nat /\ Len(txLog') \in Nat
      /\ \A o \in 1..Len(txLog) : o \in 1..Len(txLog') /\ txLog'[o] = txLog[o]
  <2>1. txLog \in Seq(TxMessage) /\ txLog' \in Seq(TxMessage)
    BY DEF TypeInv, TypeOK, FeedTypeOK
  <2> QED BY <2>1 DEF IsGrownFrom
<1>6. \A o \in 1..Len(txLog) : Sent(o) => Sent(o)'
  BY <1>0, <1>5, SentStays
<1>7. \A b : SentOf(b) \subseteq SentOf(b)'
  BY <1>5, <1>6 DEF SentOf
<1>8. ASSUME NEW k \in 1..Len(t)
      PROVE  /\ t[k].type = "block" => Announced(t[k].block)'
             /\ t[k].type \in {"rollback", "unappliedTx"} => TakenBack(HeightOf[t[k].block])'
             /\ \A o : t[k] = TxEventAt(o)' => Sent(o)'
  <2>1. PICK i \in 1..Len(Produced') : Produced'[i] = t[k]
    BY <1>1
  <2>2. t[k].type = "block" => Announced(t[k].block)'
    BY <2>1 DEF Announced
  <2>3. t[k].type \in {"rollback", "unappliedTx"} => TakenBack(HeightOf[t[k].block])'
    BY <2>1 DEF TakenBack
  <2>4. \A o : t[k] = TxEventAt(o)' => Sent(o)'
    BY <2>1 DEF Sent
  <2> QED BY <2>2, <2>3, <2>4
<1>9. ASSUME NEW b, Announced(b)'
      PROVE  Announced(b) \/ \E k \in 1..Len(t) : t[k].type = "block" /\ t[k].block = b
  <2>1. PICK i \in 1..Len(Produced') : Produced'[i].type = "block" /\ Produced'[i].block = b
    BY <1>9 DEF Announced
  <2> QED BY <1>2, <2>1 DEF Announced
<1>10. ASSUME NEW o \in 1..Len(txLog'), Sent(o)'
       PROVE  (o \in 1..Len(txLog) /\ Sent(o)) \/ \E k \in 1..Len(t) : t[k] = TxEventAt(o)'
  <2>1. PICK i \in 1..Len(Produced') : Produced'[i] = TxEventAt(o)'
    BY <1>10 DEF Sent
  <2> SUFFICES ASSUME i \in 1..Len(Produced), Produced[i] = TxEventAt(o)'
               PROVE  o \in 1..Len(txLog) /\ Sent(o)
    BY <1>2, <2>1
  <2>2. TxEventAt(o)'.type = "tx" /\ TxEventAt(o)'.offset = o
    BY DEF TxEventAt, Event
  <2>3. PICK p \in 1..Len(txLog) : Produced[i] = TxEventAt(p)
    BY <2>2 DEF EventsInv
  <2>4. p = o
    BY <2>2, <2>3 DEF TxEventAt, Event
  <2> QED BY <2>3, <2>4 DEF Sent
<1> QED BY <1>3, <1>4, <1>7, <1>8, <1>9, <1>10 DEF ToldMore

(* A set of offsets is finite, and what is counted stays counted.          *)
LEMMA SentCounts ==
  ASSUME TypeInv, NEW b
  PROVE  IsFiniteSet(SentOf(b)) /\ Cardinality(SentOf(b)) \in Nat
<1>1. PICK n \in Nat : n = Len(txLog)
  BY DEF TypeInv, TypeOK, FeedTypeOK
<1>2. IsFiniteSet(1..n) /\ SentOf(b) \in SUBSET (1..n)
  BY <1>1, FS_Interval DEF SentOf
<1>3. IsFiniteSet(SentOf(b))
  BY <1>2, FS_Subset
<1> QED BY <1>3, FS_CardinalityType

LEMMA SentCountsNext ==
  ASSUME TypeInv', NEW b
  PROVE  IsFiniteSet(SentOf(b)') /\ Cardinality(SentOf(b)') \in Nat
<1>1. PICK n \in Nat : n = Len(txLog')
  BY DEF TypeInv, TypeOK, FeedTypeOK
<1>2. IsFiniteSet(1..n) /\ SentOf(b)' \in SUBSET (1..n)
  BY <1>1, FS_Interval DEF SentOf
<1>3. IsFiniteSet(SentOf(b)')
  BY <1>2, FS_Subset
<1> QED BY <1>3, FS_CardinalityType

LEMMA CountedStays ==
  ASSUME TypeInv, TypeInv', ToldMore, NEW b \in Blocks, NEW n \in Int, Counted(b, n)
  PROVE  Counted(b, n)'
<1>1. SentOf(b) \in SUBSET SentOf(b)' /\ Announced(b)'
  BY DEF ToldMore, Counted
<1>2. IsFiniteSet(SentOf(b)') /\ Cardinality(SentOf(b)') \in Nat /\ Cardinality(SentOf(b)) \in Nat
  BY SentCounts, SentCountsNext
<1>3. Cardinality(SentOf(b)) <= Cardinality(SentOf(b)')
  BY <1>1, <1>2, FS_Subset
<1>4. n <= Cardinality(SentOf(b)')
  BY <1>2, <1>3 DEF Counted
<1> QED BY <1>1, <1>4 DEF Counted

LEMMA BackedStays ==
  ASSUME TypeInv, TypeInv', ToldMore
  PROVE  /\ \A h \in Int : HeightBacked(h) => HeightBacked(h)'
         /\ \A h \in Int, st \in BlockState : StateBacked(h, st) => StateBacked(h, st)'
<1>1. ASSUME NEW h \in Int, HeightBacked(h)
      PROVE  HeightBacked(h)'
  <2>1. CASE TakenBack(h)
    BY <2>1 DEF ToldMore, HeightBacked
  <2>2. ASSUME NEW b \in Blocks, HeightOf[b] = h, Counted(b, NumTxs(b))
        PROVE  HeightBacked(h)'
    <3>1. PICK n \in Nat : n = NumTxs(b)
      BY TxsTyping
    <3>2. Counted(b, n)'
      BY <2>2, <3>1, CountedStays
    <3> QED BY <2>2, <3>1, <3>2 DEF HeightBacked, NumTxs
  <2> QED BY <1>1, <2>1, <2>2 DEF HeightBacked
<1>2. ASSUME NEW h \in Int, NEW st \in BlockState, StateBacked(h, st)
      PROVE  StateBacked(h, st)'
  <2>1. CASE TakenBack(h)
    BY <2>1 DEF ToldMore, StateBacked
  <2>2. ASSUME NEW b \in Blocks, HeightOf[b] = h, st.expected = NumTxs(b),
               Counted(b, st.seen), ~st.rollback
        PROVE  StateBacked(h, st)'
    <3>1. PICK n \in Nat : n = st.seen
      BY DEF BlockState
    <3>2. Counted(b, n)'
      BY <2>2, <3>1, CountedStays
    <3> QED BY <2>2, <3>1, <3>2 DEF StateBacked, NumTxs
  <2> QED BY <1>2, <2>1, <2>2 DEF StateBacked
<1> QED BY <1>1, <1>2

-------------------------------------------------------------------------------
(* The cursor passes heights that are backed.                              *)

LEMMA AdvanceBacked ==
  ASSUME TypeInv, NEW comp, CompletedOK(comp),
         \A h \in DOMAIN comp : StateBacked(h, comp[h])',
         \A h \in InterceptHeight..lastProcessedHeight : HeightBacked(h)',
         TryAdvanceCursor(comp)
  PROVE  /\ \A h \in InterceptHeight..lastProcessedHeight' : HeightBacked(h)'
         /\ \A h \in DOMAIN Remaining(comp) :
              h \in DOMAIN comp /\ Remaining(comp)[h] = comp[h]
         /\ lastProcessedHeight <= lastProcessedHeight'
<1>1. PICK k \in lastProcessedHeight..MaxHeight :
        CursorStopsAt(comp, k) /\ lastProcessedHeight' = k
  BY DEF TryAdvanceCursor
<1>2. lastProcessedHeight \in Nat /\ MaxHeight \in Nat /\ InterceptHeight \in Nat
  BY FeedAssumption, IndexerAssumption DEF TypeInv, TypeOK, Heights
<1>3. ASSUME NEW h \in InterceptHeight..k, h > lastProcessedHeight
      PROVE  HeightBacked(h)'
  <2>1. h \in DOMAIN comp /\ Done(comp[h])
    BY <1>1, <1>2, <1>3 DEF CursorStopsAt, DoneAt
  <2>2. StateBacked(h, comp[h])' /\ comp[h] \in BlockState
    BY <2>1 DEF CompletedOK
  <2>3. PICK st \in BlockState : st = comp[h]
    BY <2>2
  <2>4. StateBacked(h, st)' /\ Done(st)
    BY <2>1, <2>2, <2>3
  <2>5. CASE TakenBack(h)'
    BY <2>5 DEF HeightBacked
  <2>6. ASSUME NEW b \in Blocks, HeightOf[b] = h, st.expected = NumTxs(b), Counted(b, st.seen)',
               ~st.rollback
        PROVE  HeightBacked(h)'
    <3>1. st.seen = NumTxs(b)
      BY <2>4, <2>6 DEF Done
    <3> QED BY <2>6, <3>1 DEF HeightBacked, NumTxs
  <2> QED BY <2>4, <2>5, <2>6 DEF StateBacked, NumTxs
<1>4. \A h \in InterceptHeight..lastProcessedHeight' : HeightBacked(h)'
  BY <1>1, <1>2, <1>3
<1>5. \A h \in DOMAIN Remaining(comp) : h \in DOMAIN comp /\ Remaining(comp)[h] = comp[h]
  BY DEF Remaining
<1> QED BY <1>1, <1>2, <1>4, <1>5

-------------------------------------------------------------------------------
(* Messages are processed in the order of the topic.                       *)

LEMMA InOrderStep ==
  ASSUME WithinLimit, TypeInv, ReadInv, lastTxOffset = 0, InOrderInv, [Next]_vars
  PROVE  InOrderInv'
<1>1. PICK n \in Nat : n = Len(txLog)
  BY DEF TypeInv, TypeOK, FeedTypeOK
<1>2. txIdx \in 1..(n + 1) /\ processedTxOffsets \subseteq 1..n
  BY <1>1 DEF ReadInv
<1>3. ASSUME UNCHANGED <<txLog, processedTxOffsets>>, txIdx' \in {1, txIdx}
      PROVE  InOrderInv'
  <2>1. \A u \in 1..Len(txLog) : u < txIdx' => u < txIdx
    BY <1>1, <1>2, <1>3
  <2> QED BY <1>3, <2>1 DEF InOrderInv
<1>4. CASE UNCHANGED vars \/ ControlStep \/ QuietBlockStep \/ HandleMempoolMessage
  <2>1. UNCHANGED <<processedTxOffsets, txLog>> /\ txIdx' \in {1, txIdx}
    BY <1>4 DEF vars, feedVars, indexerVars, readerVars, bufferVars, ControlStep, StartKafka, SetDownstream, RestartReader, ResumeOffset,
                QuietBlockStep, SkipMalformedBlock, SkipDuplicateApply, DropApplyOnNodeError,
                NextBlock, HandleMempoolMessage, DropMempoolMessage,
                ForwardMempoolMessage, NextMempool
  <2> QED BY <1>3, <2>1
<1>5. CASE EmitBlockApply \/ EmitBlockUnapply
  <2>1. UNCHANGED <<txIdx, txLog>>
    BY <1>5 DEF EmitBlockApply, EmitBlockUnapply, NextBlock, feedVars
  <2>2. processedTxOffsets' = processedTxOffsets
    BY <1>5, PruningKeepsOffsets DEF EmitBlockApply, EmitBlockUnapply
  <2> QED BY <1>3, <2>1, <2>2
<1>6. CASE HandleTxMessage
  <2>1. PICK kind \in {"applied", "unapplied", "malformed"} : NextTx(kind)
    BY <1>6 DEF HandleTxMessage, SkipMalformedTx, SkipDuplicateTx, SkipAppliedTx, BufferAppliedTx,
           ProcessAppliedTx, SkipUnparsableUnapplied, BufferUnappliedTx, ProcessUnappliedTx, FreshTx
  <2>2. txIdx \in 1..Len(txLog) /\ txIdx' = txIdx + 1 /\ UNCHANGED txLog
    BY <2>1, NextTxTyping DEF TypeInv
  <2>3. \/ processedTxOffsets' = processedTxOffsets \cup {txIdx}
        \/ /\ processedTxOffsets' = processedTxOffsets
           /\ txIdx \in processedTxOffsets \/ txLog[txIdx].kind = "malformed"
    BY <1>6 DEF HandleTxMessage, SkipMalformedTx, SkipDuplicateTx, SkipAppliedTx, BufferAppliedTx,
           ProcessAppliedTx, SkipUnparsableUnapplied, BufferUnappliedTx, ProcessUnappliedTx, FreshTx,
           NextTx
  <2>4. ASSUME NEW u \in 1..n, txLog[u].kind # "malformed",
               u < txIdx' \/ \E o \in processedTxOffsets' : u < o
        PROVE  u \in processedTxOffsets'
    <3>1. CASE u < txIdx \/ \E o \in processedTxOffsets : u < o
      BY <1>1, <2>3, <2>4, <3>1 DEF InOrderInv
    <3>2. CASE u = txIdx
      BY <2>3, <2>4, <3>2
    <3>3. u < txIdx \/ u = txIdx \/ \E o \in processedTxOffsets : u < o
      <4>1. u < txIdx' => u < txIdx \/ u = txIdx
        BY <1>2, <2>2
      <4>2. (\E o \in processedTxOffsets' : u < o) => u < txIdx \/ \E o \in processedTxOffsets : u < o
        BY <2>3
      <4> QED BY <2>4, <4>1, <4>2
    <3> QED BY <3>1, <3>2, <3>3
  <2> QED BY <1>1, <2>2, <2>4 DEF InOrderInv
<1>7. CASE FeedNext /\ UNCHANGED indexerVars
  <2>1. UNCHANGED <<txIdx, processedTxOffsets>>
    BY <1>7 DEF indexerVars, readerVars, bufferVars
  <2>2. IsGrownFrom(txLog', txLog) /\ Len(txLog') \in Nat
    BY <1>7, FeedTyping DEF FeedTypeOK, TypeInv, TypeOK
  <2>3. ASSUME NEW u \in 1..Len(txLog'), txLog'[u].kind # "malformed",
               u < txIdx \/ \E o \in processedTxOffsets : u < o
        PROVE  u \in processedTxOffsets
    <3>1. u \in 1..n
      BY <1>2, <2>2, <2>3
    <3> QED BY <1>1, <2>2, <2>3, <3>1 DEF InOrderInv, IsGrownFrom
  <2> QED BY <2>1, <2>3 DEF InOrderInv
<1> QED BY <1>4, <1>5, <1>6, <1>7, StepCases DEF HandleTxMessage, QuietTxStep

-------------------------------------------------------------------------------
(* Parts of the invariant that several steps need.                         *)

LEMMA EventsStay ==
  ASSUME TypeInv, EventsInv, IsGrownFrom(txLog', txLog), Len(txLog') \in Nat,
         NEW t \in Seq(DownstreamEvent), Produced' = Produced \o t,
         \A k \in 1..Len(t) : t[k].type = "tx" =>
           \E o \in 1..Len(txLog') : txLog'[o].kind = "applied" /\ t[k] = TxEventAt(o)'
  PROVE  EventsInv'
<1> DEFINE p == Produced
<1>1. p \in Seq(DownstreamEvent) /\ Produced' = p \o t
  BY ProducedTyping
<1>2. \A i \in 1..Len(p) : p[i].type = "tx" =>
        \E o \in 1..Len(txLog) : txLog[o].kind = "applied" /\ p[i] = TxEventAt(o)
  BY DEF EventsInv
<1> HIDE DEF p
<1>3. \A i \in 1..Len(p \o t) :
        \/ i \in 1..Len(p) /\ (p \o t)[i] = p[i]
        \/ i - Len(p) \in 1..Len(t) /\ (p \o t)[i] = t[i - Len(p)]
  BY <1>1
<1>4. \A o \in 1..Len(txLog) : o \in 1..Len(txLog') /\ txLog'[o] = txLog[o]
  BY DEF TypeInv, TypeOK, FeedTypeOK, IsGrownFrom
<1>5. ASSUME NEW i \in 1..Len(p \o t), (p \o t)[i].type = "tx"
      PROVE  \E o \in 1..Len(txLog') : txLog'[o].kind = "applied" /\ (p \o t)[i] = TxEventAt(o)'
  <2>1. CASE i \in 1..Len(p) /\ (p \o t)[i] = p[i]
    <3>1. PICK o \in 1..Len(txLog) : txLog[o].kind = "applied" /\ p[i] = TxEventAt(o)
      BY <1>2, <1>5, <2>1
    <3>2. TxEventAt(o)' = TxEventAt(o)
      BY <1>4 DEF TxEventAt
    <3> QED BY <1>4, <2>1, <3>1, <3>2
  <2>2. CASE i - Len(p) \in 1..Len(t) /\ (p \o t)[i] = t[i - Len(p)]
    BY <1>5, <2>2
  <2> QED BY <1>3, <2>1, <2>2
<1> QED BY <1>1, <1>5 DEF EventsInv

LEMMA AnnouncedStay ==
  ASSUME AnnouncedInv, ToldMore, NEW t,
         \A b : Announced(b)' =>
           Announced(b) \/ \E k \in 1..Len(t) : t[k].type = "block" /\ t[k].block = b,
         \A k \in 1..Len(t) : t[k].type = "block" => t[k].block \in Before(blockIdx)',
         \A c \in Before(blockIdx) : c \in Before(blockIdx)' \/ TakenBack(HeightOf[c])'
  PROVE  AnnouncedInv'
<1> SUFFICES ASSUME NEW b \in Blocks, Announced(b)'
             PROVE  b \in Before(blockIdx)' \/ TakenBack(HeightOf[b])'
  BY DEF AnnouncedInv
<1>1. CASE Announced(b)
  <2>1. HeightOf[b] \in Int
    BY HeightTyping DEF Heights
  <2> QED BY <1>1, <2>1 DEF AnnouncedInv, ToldMore
<1> QED BY <1>1

BackedInv ==
  EventsInv /\ AnnouncedInv /\ InOrderInv /\ WithdrawnInv /\ FirstInv /\ CountInv

(* Nothing about blocks and transactions is sent, and the cursor stays.    *)
LEMMA QuietBacked ==
  ASSUME TypeInv, TypeInv', BackedInv, InOrderInv', IsGrownFrom(txLog', txLog),
         NEW t \in Seq(DownstreamEvent), Produced' = Produced \o t,
         \A k \in 1..Len(t) : t[k].type \notin {"tx", "unappliedTx", "block", "rollback"},
         UNCHANGED <<emittedBlocks, lastProcessedHeight, completed>>,
         processedTxOffsets' \subseteq 1..Len(txLog),
         \A b \in Blocks : \A u \in 1..Len(txLog) :
           Withdraws(u, b) /\ u \in processedTxOffsets' =>
             \/ u \in processedTxOffsets /\ (WithdrawnAs(u, b) => WithdrawnAs(u, b)')
             \/ b \notin emittedBlocks /\ WithdrawnAs(u, b)',
         \A c \in Before(blockIdx) : c \in Before(blockIdx)'
  PROVE  BackedInv'
<1>0. /\ Len(txLog) \in Nat /\ Len(txLog') \in Nat
      /\ \A o \in 1..Len(txLog) : o \in 1..Len(txLog') /\ txLog'[o] = txLog[o]
      /\ \A b \in Blocks : HeightOf[b] \in Int
  <2>1. Len(txLog) \in Nat /\ Len(txLog') \in Nat
    <3>1. txLog \in Seq(TxMessage) /\ txLog' \in Seq(TxMessage)
      BY DEF TypeInv, TypeOK, FeedTypeOK
    <3> QED BY <3>1
  <2>2. \A b \in Blocks : HeightOf[b] \in Int
    BY HeightTyping DEF Heights
  <2> QED BY <2>1, <2>2 DEF IsGrownFrom
<1>1. /\ ToldMore
      /\ \A b : Announced(b)' =>
           Announced(b) \/ \E k \in 1..Len(t) : t[k].type = "block" /\ t[k].block = b
      /\ \A o \in 1..Len(txLog') : Sent(o)' => o \in 1..Len(txLog) /\ Sent(o)
  <2>1. \A k \in 1..Len(t), o \in 1..Len(txLog') : t[k] # TxEventAt(o)'
    BY DEF TxEventAt, Event
  <2>2. EventsInv
    BY DEF BackedInv
  <2>3. \A o \in 1..Len(txLog') : Sent(o)' =>
          (o \in 1..Len(txLog) /\ Sent(o)) \/ \E k \in 1..Len(t) : t[k] = TxEventAt(o)'
    BY <2>2, SendingTells
  <2> QED BY <2>1, <2>2, <2>3, SendingTells
<1>2. EventsInv'
  BY <1>0, EventsStay DEF BackedInv
<1>3. AnnouncedInv'
  BY <1>1, AnnouncedStay DEF BackedInv
<1>4. \A b \in Blocks : TakenBack(HeightOf[b]) => TakenBack(HeightOf[b])'
  BY <1>0, <1>1 DEF ToldMore
<1>5. WithdrawnInv'
  <2> SUFFICES ASSUME NEW b \in Blocks, HeightOf[b] >= InterceptHeight,
                      NEW u \in 1..Len(txLog'), Withdraws(u, b)', u \in processedTxOffsets'
               PROVE  \/ TakenBack(HeightOf[b])'
                      \/ /\ b \notin emittedBlocks'
                         /\ WithdrawnAs(u, b)' \/ HeightOf[b] <= lastProcessedHeight'
    BY DEF WithdrawnInv
  <2>1. u \in 1..Len(txLog) /\ Withdraws(u, b)
    BY <1>0 DEF Withdraws
  <2>2. WithdrawnInv
    BY DEF BackedInv
  <2> QED BY <1>4, <2>1, <2>2 DEF WithdrawnInv
<1>6. FirstInv'
  <2> SUFFICES ASSUME NEW b \in Blocks, HeightOf[b] >= InterceptHeight,
                      NEW o \in 1..Len(txLog'), Sent(o)', AppliesTx(o, b)'
               PROVE  TakenBack(HeightOf[b])' \/ \A u \in 1..(o - 1) : ~Withdraws(u, b)'
    BY DEF FirstInv
  <2>1. o \in 1..Len(txLog) /\ Sent(o) /\ AppliesTx(o, b)
    BY <1>0, <1>1 DEF AppliesTx
  <2>2. FirstInv
    BY DEF BackedInv
  <2>3. \A u \in 1..(o - 1) : Withdraws(u, b)' => Withdraws(u, b)
    BY <1>0, <2>1 DEF Withdraws
  <2> QED BY <1>4, <2>1, <2>2, <2>3 DEF FirstInv
<1>7. CountInv'
  <2>1. CountInv
    BY DEF BackedInv
  <2>2. /\ \A h \in DOMAIN completed : h \in Int /\ completed[h] \in BlockState
        /\ InterceptHeight \in Int /\ lastProcessedHeight \in Int
    BY IndexerAssumption DEF TypeInv, TypeOK, Heights
  <2>3. /\ \A h \in Int : HeightBacked(h) => HeightBacked(h)'
        /\ \A h \in Int, st \in BlockState : StateBacked(h, st) => StateBacked(h, st)'
    BY <1>1, BackedStays
  <2>4. ASSUME NEW h \in DOMAIN completed'
        PROVE  StateBacked(h, completed[h])'
    <3>1. PICK st \in BlockState : st = completed[h]
      BY <2>2
    <3>2. StateBacked(h, st)'
      BY <2>1, <2>2, <2>3, <3>1 DEF CountInv
    <3> QED BY <3>1, <3>2
  <2>5. \A h \in InterceptHeight..lastProcessedHeight' : HeightBacked(h)'
    BY <2>1, <2>2, <2>3 DEF CountInv
  <2> QED BY <2>4, <2>5 DEF CountInv
<1> QED BY <1>2, <1>3, <1>5, <1>6, <1>7 DEF BackedInv

-------------------------------------------------------------------------------
(* What a block message tells the strategies.                              *)

HoldsAll(t, s) == \A i \in 1..Len(s) : \E k \in 1..Len(t) : t[k] = s[i]

LEMMA TwoParts ==
  ASSUME NEW p \in Seq(DownstreamEvent), NEW q \in Seq(DownstreamEvent)
  PROVE  /\ p \o q \in Seq(DownstreamEvent) /\ HoldsAll(p \o q, p) /\ HoldsAll(p \o q, q)
         /\ \A k \in 1..Len(p \o q) :
              \/ \E i \in 1..Len(p) : (p \o q)[k] = p[i]
              \/ \E i \in 1..Len(q) : (p \o q)[k] = q[i]
<1>1. PICK t : t = p \o q
  OBVIOUS
<1>2. /\ t \in Seq(DownstreamEvent)
      /\ Len(p) \in Nat /\ Len(q) \in Nat /\ Len(t) = Len(p) + Len(q)
      /\ \A i \in 1..Len(p) : i \in 1..Len(t) /\ t[i] = p[i]
      /\ \A i \in 1..Len(q) : Len(p) + i \in 1..Len(t) /\ t[Len(p) + i] = q[i]
  BY <1>1
<1>3. \A k \in 1..Len(t) : \/ k \in 1..Len(p) /\ t[k] = p[k]
                           \/ k - Len(p) \in 1..Len(q) /\ t[k] = q[k - Len(p)]
  BY <1>1
<1>4. /\ HoldsAll(t, p) /\ HoldsAll(t, q)
      /\ \A k \in 1..Len(t) :
           (\E i \in 1..Len(p) : t[k] = p[i]) \/ (\E i \in 1..Len(q) : t[k] = q[i])
  BY <1>2, <1>3 DEF HoldsAll
<1> QED BY <1>1, <1>2, <1>4

LEMMA ThreeParts ==
  ASSUME NEW e \in DownstreamEvent, NEW p \in Seq(DownstreamEvent),
         NEW q \in Seq(DownstreamEvent)
  PROVE  LET t == <<e>> \o p \o q
         IN /\ t \in Seq(DownstreamEvent) /\ HoldsAll(t, p) /\ HoldsAll(t, q)
            /\ \E k \in 1..Len(t) : t[k] = e
            /\ \A k \in 1..Len(t) :
                 \/ t[k] = e
                 \/ \E i \in 1..Len(p) : t[k] = p[i]
                 \/ \E i \in 1..Len(q) : t[k] = q[i]
<1>0. <<e>> \in Seq(DownstreamEvent)
  OBVIOUS
<1>1. PICK s \in Seq(DownstreamEvent) : s = <<e>>
  BY <1>0
<1>2. Len(s) = 1 /\ s[1] = e /\ 1 \in 1..1
  BY <1>1
<1>3. s \o p \in Seq(DownstreamEvent) /\ HoldsAll(s \o p, s) /\ HoldsAll(s \o p, p)
      /\ \A k \in 1..Len(s \o p) : (\E i \in 1..Len(s) : (s \o p)[k] = s[i])
                                  \/ (\E i \in 1..Len(p) : (s \o p)[k] = p[i])
  BY TwoParts
<1>4. PICK r \in Seq(DownstreamEvent) : r = s \o p
  BY <1>3
<1>5. /\ HoldsAll(r, s) /\ HoldsAll(r, p)
      /\ \A k \in 1..Len(r) : r[k] = e \/ \E i \in 1..Len(p) : r[k] = p[i]
  <2>1. \A i \in 1..Len(s) : s[i] = e
    BY <1>2
  <2> QED BY <1>3, <1>4, <2>1
<1>6. r \o q \in Seq(DownstreamEvent) /\ HoldsAll(r \o q, r) /\ HoldsAll(r \o q, q)
      /\ \A k \in 1..Len(r \o q) : (\E i \in 1..Len(r) : (r \o q)[k] = r[i])
                                  \/ (\E i \in 1..Len(q) : (r \o q)[k] = q[i])
  BY TwoParts
<1>7. PICK t \in Seq(DownstreamEvent) : t = r \o q
  BY <1>6
<1>8. HoldsAll(t, p) /\ HoldsAll(t, q) /\ \E k \in 1..Len(t) : t[k] = e
  <2>1. \E k \in 1..Len(r) : r[k] = e
    BY <1>2, <1>5 DEF HoldsAll
  <2>2. HoldsAll(t, r) /\ HoldsAll(t, q)
    BY <1>6, <1>7
  <2>3. \E k \in 1..Len(t) : t[k] = e
    <3>1. PICK i \in 1..Len(r) : r[i] = e
      BY <2>1
    <3>2. PICK k \in 1..Len(t) : t[k] = r[i]
      BY <2>2 DEF HoldsAll
    <3> QED BY <3>1, <3>2
  <2>4. ASSUME NEW i \in 1..Len(p)
        PROVE  \E k \in 1..Len(t) : t[k] = p[i]
    <3>1. PICK j \in 1..Len(r) : r[j] = p[i]
      BY <1>5 DEF HoldsAll
    <3>2. PICK k \in 1..Len(t) : t[k] = r[j]
      BY <2>2 DEF HoldsAll
    <3> QED BY <3>1, <3>2
  <2>5. HoldsAll(t, p)
    BY <2>4 DEF HoldsAll
  <2> QED BY <2>2, <2>3, <2>5
<1>9. ASSUME NEW k \in 1..Len(t)
      PROVE  \/ t[k] = e
             \/ \E i \in 1..Len(p) : t[k] = p[i]
             \/ \E i \in 1..Len(q) : t[k] = q[i]
  <2>1. (\E i \in 1..Len(r) : t[k] = r[i]) \/ (\E i \in 1..Len(q) : t[k] = q[i])
    BY <1>6, <1>7
  <2> QED BY <1>5, <2>1
<1> QED BY <1>1, <1>4, <1>7, <1>8, <1>9

LEMMA AnnounceTells ==
  ASSUME TypeInv, EmitBlockApply
  PROVE  LET b == blockLog[blockIdx].block
         IN b \in Blocks /\
            \E t \in Seq(DownstreamEvent) :
              /\ Produced' = Produced \o t
              /\ \E k \in 1..Len(t) : t[k].type = "block" /\ t[k].block = b
              /\ \A n \in 1..Len(pendingApplied[b]) :
                   \E k \in 1..Len(t) : t[k] = TxEventAt(pendingApplied[b][n])
              /\ \A n \in 1..Len(pendingUnapplied[b]) :
                   \E k \in 1..Len(t) : t[k] = UnappliedEventAt(pendingUnapplied[b][n])
              /\ \A k \in 1..Len(t) :
                   /\ t[k].type = "block" => t[k].block = b
                   /\ t[k].type = "tx" =>
                        \E n \in 1..Len(pendingApplied[b]) : t[k] = TxEventAt(pendingApplied[b][n])
<1> DEFINE b == blockLog[blockIdx].block
           e == Event("block", b, Root, blockIdx, tipHeight' = HeightOf[b])
           txs == [i \in 1..Len(pendingApplied[b]) |-> TxEventAt(pendingApplied[b][i])]
           untxs == [i \in 1..Len(pendingUnapplied[b]) |->
                       UnappliedEventAt(pendingUnapplied[b][i])]
           t == <<e>> \o txs \o untxs
<1>1. b \in Blocks /\ Produced' = Produced \o t
  BY EmitBlockApplyStep
<1>2. txs \in Seq(DownstreamEvent) /\ untxs \in Seq(DownstreamEvent)
  BY <1>1, EventsIn
<1>3. e \in DownstreamEvent /\ e.type = "block" /\ e.block = b
  <2>1. blockIdx \in Nat
    BY DEF TypeInv, TypeOK
  <2> QED BY <1>1, <2>1 DEF Event, DownstreamEvent
<1>4. /\ Len(txs) = Len(pendingApplied[b])
      /\ \A i \in 1..Len(pendingApplied[b]) : txs[i] = TxEventAt(pendingApplied[b][i])
  <2>1. pendingApplied \in [Blocks -> Seq(Nat)]
    BY DEF TypeInv, TypeOK
  <2> HIDE DEF b
  <2>2. Len(pendingApplied[b]) \in Nat
    BY <1>1, <2>1
  <2> QED BY <2>2
<1>5. /\ Len(untxs) = Len(pendingUnapplied[b])
      /\ \A i \in 1..Len(pendingUnapplied[b]) : untxs[i] = UnappliedEventAt(pendingUnapplied[b][i])
  <2>1. pendingUnapplied \in [Blocks -> Seq(Nat)]
    BY DEF TypeInv, TypeOK
  <2> HIDE DEF b
  <2>2. Len(pendingUnapplied[b]) \in Nat
    BY <1>1, <2>1
  <2> QED BY <2>2
<1>6. \A o : UnappliedEventAt(o).type = "unappliedTx" /\ TxEventAt(o).type = "tx"
  BY DEF UnappliedEventAt, TxEventAt, Event
<1> HIDE DEF b, e, txs, untxs
<1>7. /\ t \in Seq(DownstreamEvent) /\ HoldsAll(t, txs) /\ HoldsAll(t, untxs)
      /\ \E k \in 1..Len(t) : t[k] = e
      /\ \A k \in 1..Len(t) :
           t[k] = e \/ (\E i \in 1..Len(txs) : t[k] = txs[i]) \/ (\E i \in 1..Len(untxs) : t[k] = untxs[i])
  BY <1>2, <1>3, ThreeParts, ZenonT(40)
<1> HIDE DEF t
<1>8. \A n \in 1..Len(pendingApplied[b]) :
        \E k \in 1..Len(t) : t[k] = TxEventAt(pendingApplied[b][n])
  BY <1>4, <1>7 DEF HoldsAll
<1>9. \A n \in 1..Len(pendingUnapplied[b]) :
        \E k \in 1..Len(t) : t[k] = UnappliedEventAt(pendingUnapplied[b][n])
  BY <1>5, <1>7 DEF HoldsAll
<1>10. \A k \in 1..Len(t) :
         /\ t[k].type = "block" => t[k].block = b
         /\ t[k].type = "tx" =>
              \E n \in 1..Len(pendingApplied[b]) : t[k] = TxEventAt(pendingApplied[b][n])
  BY <1>3, <1>4, <1>5, <1>6, <1>7
<1>11. \E k \in 1..Len(t) : t[k].type = "block" /\ t[k].block = b
  BY <1>3, <1>7
<1> QED BY <1>1, <1>7, <1>8, <1>9, <1>10, <1>11 DEF b

LEMMA RetractTells ==
  ASSUME TypeInv, EmitBlockUnapply
  PROVE  LET b == blockLog[blockIdx].block
         IN b \in Blocks /\
            \E t \in Seq(DownstreamEvent) :
              /\ Produced' = Produced \o t
              /\ \E k \in 1..Len(t) : t[k].type = "rollback" /\ t[k].block = b
              /\ \A k \in 1..Len(t) : t[k].type \notin {"block", "tx"}
<1> DEFINE b == blockLog[blockIdx].block
           e == Event("rollback", b, Root, blockIdx, FALSE)
           untxs == [i \in 1..Len(pendingUnapplied[b]) |->
                       UnappliedEventAt(pendingUnapplied[b][i])]
           t == <<e>> \o untxs
<1>1. b \in Blocks /\ Produced' = Produced \o t
  BY EmitBlockUnapplyStep
<1>2. untxs \in Seq(DownstreamEvent)
  BY <1>1, EventsIn
<1>3. e \in DownstreamEvent /\ e.type = "rollback" /\ e.block = b
  <2>1. blockIdx \in Nat
    BY DEF TypeInv, TypeOK
  <2> QED BY <1>1, <2>1 DEF Event, DownstreamEvent
<1>4. \A i \in 1..Len(untxs) : untxs[i].type = "unappliedTx"
  <2>1. Len(pendingUnapplied[b]) \in Nat
    BY <1>1 DEF TypeInv, TypeOK
  <2>2. Len(untxs) = Len(pendingUnapplied[b])
    BY <2>1
  <2> QED BY <2>2 DEF UnappliedEventAt, Event
<1> HIDE DEF b, e, untxs
<1>50. <<e>> \in Seq(DownstreamEvent)
  BY <1>3
<1>5. PICK s \in Seq(DownstreamEvent) : s = <<e>>
  BY <1>50
<1>6. Len(s) = 1 /\ s[1] = e /\ 1 \in 1..1 /\ \A i \in 1..Len(s) : s[i] = e
  BY <1>5
<1>70. s \o untxs \in Seq(DownstreamEvent) /\ HoldsAll(s \o untxs, s)
      /\ \A k \in 1..Len(s \o untxs) : (\E i \in 1..Len(s) : (s \o untxs)[k] = s[i])
                              \/ (\E i \in 1..Len(untxs) : (s \o untxs)[k] = untxs[i])
  BY <1>2, TwoParts
<1>7. /\ t \in Seq(DownstreamEvent) /\ HoldsAll(t, s)
      /\ \A k \in 1..Len(t) : (\E i \in 1..Len(s) : t[k] = s[i]) \/ (\E i \in 1..Len(untxs) : t[k] = untxs[i])
  BY <1>5, <1>70
<1> HIDE DEF t
<1>8. \E k \in 1..Len(t) : t[k].type = "rollback" /\ t[k].block = b
  BY <1>3, <1>6, <1>7 DEF HoldsAll
<1>9. \A k \in 1..Len(t) : t[k].type \notin {"block", "tx"}
  BY <1>3, <1>4, <1>6, <1>7
<1> QED BY <1>1, <1>7, <1>8, <1>9 DEF b

-------------------------------------------------------------------------------
(* Where the block reader is, there is one block per height.               *)

OnePerHeight ==
  \A c, d \in Before(blockIdx) : HeightOf[c] = HeightOf[d] => c = d

LEMMA BeforeMoves ==
  ASSUME "block" \notin RestartTopics, TypeInv, OrderInv, [Next]_vars
  PROVE  \/ Before(blockIdx)' = Before(blockIdx)
         \/ LET b == blockLog[blockIdx].block
            IN /\ b \in Blocks /\ Higher(b, Before(blockIdx))
               /\ Before(blockIdx)' = Before(blockIdx) \cup {b}
         \/ EmitBlockUnapply /\ Before(blockIdx)' = Before(blockIdx) \ {blockLog[blockIdx].block}
<1>1. CASE DropApplyOnNodeError \/ EmitBlockApply
  <2>1. NextBlock("apply")
    BY <1>1 DEF DropApplyOnNodeError, EmitBlockApply
  <2>2. /\ Before(blockIdx)' = blockLog[blockIdx].chain
        /\ blockLog[blockIdx].kind = "apply" /\ LinkOK(blockIdx)
    BY <2>1, NextBefore DEF OrderInv
  <2>3. blockLog[blockIdx].block \in Blocks
    BY <2>1, NextBlockTyping DEF TypeInv
  <2> QED BY <2>2, <2>3 DEF LinkOK
<1>2. CASE EmitBlockUnapply
  <2>1. NextBlock("unapply")
    BY <1>2 DEF EmitBlockUnapply
  <2>2. /\ Before(blockIdx)' = blockLog[blockIdx].chain
        /\ blockLog[blockIdx].kind = "unapply" /\ LinkOK(blockIdx)
    BY <2>1, NextBefore DEF OrderInv
  <2> QED BY <1>2, <2>2 DEF LinkOK
<1>3. CASE ~DropApplyOnNodeError /\ ~EmitBlockApply /\ ~EmitBlockUnapply
  BY <1>3, BeforeStep DEF OrderInv
<1> QED BY <1>1, <1>2, <1>3

LEMMA OnePerHeightStep ==
  ASSUME "block" \notin RestartTopics, TypeInv, OrderInv, OnePerHeight, [Next]_vars
  PROVE  OnePerHeight'
<1>1. Before(blockIdx) \subseteq Blocks /\ \A b \in Blocks : HeightOf[b] \in Int
  BY BeforeTyping DEF OrderInv
<1>2. CASE Before(blockIdx)' \subseteq Before(blockIdx)
  BY <1>2 DEF OnePerHeight
<1>3. ASSUME NEW b \in Blocks, Higher(b, Before(blockIdx)),
             Before(blockIdx)' = Before(blockIdx) \cup {b}
      PROVE  OnePerHeight'
  <2>1. \A c \in Before(blockIdx) : HeightOf[c] # HeightOf[b]
    BY <1>1, <1>3 DEF Higher
  <2> QED BY <1>3, <2>1 DEF OnePerHeight
<1> QED BY <1>2, <1>3, BeforeMoves

-------------------------------------------------------------------------------
(* The parts of the invariant in a step that sends.                        *)

(* Pruning drops what is buffered only of the heights below the cursor.    *)
LEMMA PrunedBelow ==
  ASSUME TypeInv, TypeInv', NEW applied, NEW unapplied \in [Blocks -> Seq(Nat)],
         NEW emitted, NEW comp,
         PruneOldBuffers(applied, unapplied, emitted, comp),
         NEW b \in Blocks
  PROVE  pendingUnapplied'[b] = unapplied[b] \/ HeightOf[b] <= lastProcessedHeight'
<1>1. HeightOf[b] \in Nat /\ lastProcessedHeight' \in Nat /\ Lookback \in Nat
  <2>1. HeightOf[b] \in Nat
    BY HeightTyping DEF Heights
  <2>2. lastProcessedHeight' \in Nat
    BY DEF TypeInv, TypeOK, Heights
  <2>3. Lookback \in Nat
    BY IndexerAssumption
  <2> QED BY <2>1, <2>2, <2>3
<1>2. Straggler(HeightOf[b]) => HeightOf[b] <= lastProcessedHeight'
  BY <1>1 DEF Straggler
<1> QED BY <1>2 DEF PruneOldBuffers

LEMMA WithdrawnStay ==
  ASSUME TypeInv, ToldMore, WithdrawnInv, UNCHANGED txLog,
         lastProcessedHeight <= lastProcessedHeight', lastProcessedHeight' \in Int,
         \A c \in Blocks : \A u \in 1..Len(txLog) :
           /\ HeightOf[c] >= InterceptHeight
           /\ Withdraws(u, c) /\ u \in processedTxOffsets'
           => \/ TakenBack(HeightOf[c])'
              \/ /\ u \in processedTxOffsets
                 /\ c \in emittedBlocks' => c \in emittedBlocks
                 /\ \/ pendingUnapplied'[c] = pendingUnapplied[c]
                    \/ HeightOf[c] <= lastProcessedHeight'
  PROVE  WithdrawnInv'
<1> SUFFICES ASSUME NEW c \in Blocks, HeightOf[c] >= InterceptHeight,
                    NEW u \in 1..Len(txLog), Withdraws(u, c), u \in processedTxOffsets'
             PROVE  \/ TakenBack(HeightOf[c])'
                    \/ /\ c \notin emittedBlocks'
                       /\ WithdrawnAs(u, c)' \/ HeightOf[c] <= lastProcessedHeight'
  BY DEF WithdrawnInv, Withdraws
<1>1. HeightOf[c] \in Int /\ lastProcessedHeight \in Int
  BY HeightTyping DEF TypeInv, TypeOK, Heights
<1>2. TakenBack(HeightOf[c]) => TakenBack(HeightOf[c])'
  BY <1>1 DEF ToldMore
<1>3. HeightOf[c] <= lastProcessedHeight => HeightOf[c] <= lastProcessedHeight'
  BY <1>1
<1>4. pendingUnapplied'[c] = pendingUnapplied[c] => (WithdrawnAs(u, c) => WithdrawnAs(u, c)')
  BY DEF WithdrawnAs
<1> QED BY <1>2, <1>3, <1>4 DEF WithdrawnInv

LEMMA FirstStay ==
  ASSUME TypeInv, ToldMore, FirstInv, UNCHANGED txLog,
         \A c \in Blocks : \A o \in 1..Len(txLog) :
           /\ HeightOf[c] >= InterceptHeight
           /\ Sent(o)' /\ AppliesTx(o, c)
           => \/ Sent(o) \/ TakenBack(HeightOf[c])'
              \/ \A u \in 1..(o - 1) : ~Withdraws(u, c)
  PROVE  FirstInv'
<1> SUFFICES ASSUME NEW c \in Blocks, HeightOf[c] >= InterceptHeight,
                    NEW o \in 1..Len(txLog), Sent(o)', AppliesTx(o, c)
             PROVE  TakenBack(HeightOf[c])' \/ \A u \in 1..(o - 1) : ~Withdraws(u, c)
  BY DEF FirstInv, Withdraws, AppliesTx
<1>1. HeightOf[c] \in Int
  BY HeightTyping DEF Heights
<1>2. TakenBack(HeightOf[c]) => TakenBack(HeightOf[c])'
  BY <1>1 DEF ToldMore
<1> QED BY <1>2 DEF FirstInv

(* The state of height h is replaced, the cursor may advance over what is  *)
(* done, and pruning may drop more.                                        *)
LEMMA CountStays ==
  ASSUME TypeInv, TypeInv', ToldMore, CountInv,
         NEW h \in Heights, NEW st \in BlockState, StateBacked(h, st)',
         TryAdvanceCursor(SetState(completed, h, st)) \/ UNCHANGED lastProcessedHeight,
         DOMAIN completed' \subseteq DOMAIN Remaining(SetState(completed, h, st)),
         \A k \in DOMAIN completed' : completed'[k] = Remaining(SetState(completed, h, st))[k]
  PROVE  CountInv' /\ lastProcessedHeight <= lastProcessedHeight'
<1>1. PICK comp : comp = SetState(completed, h, st)
  OBVIOUS
<1>2. /\ CompletedOK(comp) /\ lastProcessedHeight \in Int /\ InterceptHeight \in Int
      /\ \A k \in DOMAIN completed : k \in Int /\ completed[k] \in BlockState
  <2>1. CompletedOK(completed)
    BY DEF TypeInv, TypeOK, CompletedOK
  <2>2. CompletedOK(SetState(completed, h, st))
    BY <2>1, SetStateTyping
  <2>3. \A k \in DOMAIN completed : k \in Int /\ completed[k] \in BlockState
    BY <2>1 DEF CompletedOK, Heights
  <2>4. lastProcessedHeight \in Int /\ InterceptHeight \in Int
    BY IndexerAssumption DEF TypeInv, TypeOK, Heights
  <2> QED BY <1>1, <2>2, <2>3, <2>4
<1>3. /\ \A k \in Int : HeightBacked(k) => HeightBacked(k)'
      /\ \A k \in Int, s \in BlockState : StateBacked(k, s) => StateBacked(k, s)'
  BY BackedStays
<1>4. ASSUME NEW k \in DOMAIN comp
      PROVE  StateBacked(k, comp[k])'
  <2>1. CASE k = h
    <3>1. comp[k] = st
      BY <1>1, <2>1 DEF SetState
    <3> QED BY <2>1, <3>1
  <2>2. CASE k # h
    <3>1. k \in DOMAIN completed /\ comp[k] = completed[k]
      BY <1>1, <2>2 DEF SetState
    <3>2. PICK s \in BlockState : s = completed[k]
      BY <1>2, <3>1
    <3>3. StateBacked(k, s)'
      BY <1>2, <1>3, <3>1, <3>2 DEF CountInv
    <3> QED BY <3>1, <3>2, <3>3
  <2> QED BY <2>1, <2>2
<1>5. \A k \in InterceptHeight..lastProcessedHeight : HeightBacked(k)'
  BY <1>2, <1>3 DEF CountInv
<1>6. /\ \A k \in InterceptHeight..lastProcessedHeight' : HeightBacked(k)'
      /\ lastProcessedHeight <= lastProcessedHeight'
  <2>1. CASE TryAdvanceCursor(comp)
    BY <1>2, <1>4, <1>5, <2>1, AdvanceBacked
  <2>2. CASE UNCHANGED lastProcessedHeight
    BY <1>2, <1>5, <2>2
  <2> QED BY <1>1, <2>1, <2>2
<1>7. ASSUME NEW k \in DOMAIN completed'
      PROVE  StateBacked(k, completed[k])'
  <2>1. k \in DOMAIN comp /\ completed'[k] = comp[k]
    BY <1>1, <1>7 DEF Remaining
  <2> QED BY <1>4, <2>1
<1> QED BY <1>6, <1>7 DEF CountInv

(* A height with no state keeps the rest as it was.                        *)
LEMMA CountUntouched ==
  ASSUME TypeInv, TypeInv', ToldMore, CountInv, UNCHANGED <<completed, lastProcessedHeight>>
  PROVE  CountInv'
<1>1. /\ lastProcessedHeight \in Int /\ InterceptHeight \in Int
      /\ \A k \in DOMAIN completed : k \in Int /\ completed[k] \in BlockState
  BY IndexerAssumption DEF TypeInv, TypeOK, Heights
<1>2. /\ \A k \in Int : HeightBacked(k) => HeightBacked(k)'
      /\ \A k \in Int, s \in BlockState : StateBacked(k, s) => StateBacked(k, s)'
  BY BackedStays
<1>3. ASSUME NEW k \in DOMAIN completed
      PROVE  StateBacked(k, completed[k])'
  <2>1. PICK s \in BlockState : s = completed[k]
    BY <1>1
  <2>2. StateBacked(k, s)'
    BY <1>1, <1>2, <2>1 DEF CountInv
  <2> QED BY <2>1, <2>2
<1>4. \A k \in InterceptHeight..lastProcessedHeight : HeightBacked(k)'
  BY <1>1, <1>2 DEF CountInv
<1> QED BY <1>3, <1>4 DEF CountInv

-------------------------------------------------------------------------------
(* A transaction of an announced block.                                    *)

(* What is sent has been processed.                                        *)
LEMMA SentProcessed ==
  ASSUME TypeInv, DedupInv, NEW o, Sent(o)
  PROVE  o \in processedTxOffsets
<1>1. PICK i \in 1..Len(Produced) : Produced[i] = TxEventAt(o)
  BY DEF Sent
<1>2. Produced[i].type = "tx" /\ Produced[i].offset = o
  BY <1>1 DEF TxEventAt, Event
<1>3. o \in Offsets("tx", Produced)
  BY <1>1, <1>2 DEF Offsets
<1> QED BY <1>3 DEF DedupInv, Dedup

(* One transaction more of block b is sent: one more is counted.           *)
LEMMA OneMore ==
  ASSUME TypeInv, TypeInv', ToldMore, NEW b \in Blocks, NEW o \in 1..Len(txLog'),
         o \notin SentOf(b), o \in SentOf(b)', NEW n \in Nat, Counted(b, n)
  PROVE  Counted(b, n + 1)'
<1>1. /\ IsFiniteSet(SentOf(b)) /\ Cardinality(SentOf(b)) \in Nat
      /\ IsFiniteSet(SentOf(b)') /\ Cardinality(SentOf(b)') \in Nat
  BY SentCounts, SentCountsNext
<1>2. Cardinality(SentOf(b) \cup {o}) = Cardinality(SentOf(b)) + 1
  BY <1>1, FS_AddElement
<1>3. (SentOf(b) \cup {o}) \in SUBSET SentOf(b)' /\ Announced(b)'
  BY DEF ToldMore, Counted
<1>4. Cardinality(SentOf(b) \cup {o}) <= Cardinality(SentOf(b)')
  BY <1>1, <1>3, FS_Subset
<1>5. n + 1 <= Cardinality(SentOf(b)')
  BY <1>1, <1>2, <1>4 DEF Counted
<1> QED BY <1>3, <1>5 DEF Counted

LEMMA AppliedTxBacked ==
  ASSUME TypeInv, TypeInv', OrderInv, DedupInv, ReadInv, OnePerHeight, ~cursorLoaded,
         BackedInv, InOrderInv', ProcessAppliedTx
  PROVE  BackedInv'
<1>1. /\ txIdx \in 1..Len(txLog) /\ txLog[txIdx].kind = "applied"
      /\ UNCHANGED <<txLog, blockLog, blockIdx, emittedBlocks, pendingUnapplied>>
      /\ txIdx \notin processedTxOffsets
      /\ processedTxOffsets' = processedTxOffsets \cup {txIdx}
  BY TxTyping DEF ProcessAppliedTx, FreshTx, NextTx, TypeInv
<1>2. PICK b \in Blocks : b = txLog[txIdx].block
  BY TxTyping DEF ProcessAppliedTx, TypeInv
<1>3. /\ b \in emittedBlocks /\ ~SkippedHeight(HeightOf[b])
      /\ Produced' = Produced \o <<TxEventAt(txIdx)>>
  BY <1>2, SendingTxTyping DEF ProcessAppliedTx
<1>4. HeightOf[b] \in Heights /\ HeightOf[b] >= InterceptHeight
  BY <1>3, HeightTyping, IndexerAssumption DEF SkippedHeight, Heights
<1>50. <<TxEventAt(txIdx)>> \in Seq(DownstreamEvent)
  BY TxTyping DEF ProcessAppliedTx, TypeInv
<1>51. PICK e : e = TxEventAt(txIdx)
  OBVIOUS
<1>5. PICK t \in Seq(DownstreamEvent) : t = <<e>>
  BY <1>50, <1>51
<1>6. /\ Produced' = Produced \o t /\ Len(t) = 1
      /\ \A k \in 1..Len(t) : t[k] = e /\ t[k].type = "tx"
      /\ 1 \in 1..Len(t) /\ t[1] = e
  <2>1. Len(t) = 1 /\ 1 \in 1..Len(t) /\ \A k \in 1..Len(t) : t[k] = e
    BY <1>5
  <2>2. e.type = "tx"
    BY <1>51 DEF TxEventAt, Event
  <2> QED BY <1>3, <1>5, <1>51, <2>1, <2>2
<1>7. \A o : TxEventAt(o)' = TxEventAt(o)
  BY <1>1 DEF TxEventAt
<1>8. EventsInv /\ AnnouncedInv /\ InOrderInv /\ WithdrawnInv /\ FirstInv /\ CountInv
  BY DEF BackedInv
<1>9. IsGrownFrom(txLog', txLog) /\ Len(txLog) \in Nat
  BY <1>1 DEF IsGrownFrom, TypeInv, TypeOK, FeedTypeOK
<1>10. /\ ToldMore
       /\ \A k \in 1..Len(t) : \A o : t[k] = TxEventAt(o)' => Sent(o)'
       /\ \A c : Announced(c)' =>
            Announced(c) \/ \E k \in 1..Len(t) : t[k].type = "block" /\ t[k].block = c
       /\ \A o \in 1..Len(txLog') : Sent(o)' =>
            (o \in 1..Len(txLog) /\ Sent(o)) \/ \E k \in 1..Len(t) : t[k] = TxEventAt(o)'
  BY <1>6, <1>8, <1>9, SendingTells
<1>11. PICK o \in 1..Len(txLog) : o = txIdx
  BY <1>1
<1>12. Sent(o)' /\ ~Sent(o)
  <2>1. Sent(o)'
    BY <1>6, <1>7, <1>10, <1>11, <1>51
  <2>2. ~Sent(o)
    BY <1>1, <1>11, SentProcessed
  <2> QED BY <2>1, <2>2
<1>13. \A p \in 1..Len(txLog) : Sent(p)' => Sent(p) \/ p = o
  <2>1. \A p : t[1] = TxEventAt(p)' => p = o
    BY <1>6, <1>7, <1>11, <1>51 DEF TxEventAt, Event
  <2> QED BY <1>1, <1>6, <1>10, <2>1
<1>14. EventsInv'
  <2>1. txLog'[o].kind = "applied" /\ \A k \in 1..Len(t) : t[k] = TxEventAt(o)' /\ o \in 1..Len(txLog')
    BY <1>1, <1>6, <1>7, <1>11, <1>51
  <2> QED BY <1>1, <1>6, <1>8, <1>9, <2>1, EventsStay
<1>15. AnnouncedInv'
  <2>1. \A c \in Before(blockIdx) : c \in Before(blockIdx)'
    BY <1>1 DEF Before
  <2>2. \A k \in 1..Len(t) : t[k].type # "block"
    BY <1>6
  <2> QED BY <1>8, <1>10, <2>1, <2>2, AnnouncedStay
<1>16. CountInv' /\ lastProcessedHeight <= lastProcessedHeight'
  <2>0. lastProcessedHeight \in Nat
    BY DEF TypeInv, TypeOK, Heights
  <2>1. CASE HeightOf[b] \notin DOMAIN completed
    <3>1. UNCHANGED <<completed, lastProcessedHeight>>
      BY <1>2, <2>1 DEF ProcessAppliedTx
    <3> QED BY <1>8, <1>10, <2>0, <3>1, CountUntouched
  <2>2. CASE HeightOf[b] \in DOMAIN completed
    <3>1. PICK h \in Heights : h = HeightOf[b]
      BY <1>4
    <3>2. PICK s \in BlockState : s = completed[h]
      BY <2>2, <3>1 DEF TypeInv, TypeOK
    <3>3. PICK st \in BlockState : st = [s EXCEPT !.seen = @ + 1]
      BY BlockStateUpdates
    <3>4. TryAdvanceCursor(SetState(completed, h, st)) /\ completed' = Remaining(SetState(completed, h, st))
      BY <1>2, <2>2, <3>1, <3>2, <3>3 DEF ProcessAppliedTx
    <3>5. StateBacked(h, st)'
      <4>1. StateBacked(h, s)
        BY <1>8, <2>2, <3>1, <3>2 DEF CountInv
      <4>2. CASE TakenBack(h)
        <5>1. TakenBack(h)'
          BY <1>10, <4>2 DEF ToldMore, Heights
        <5> QED BY <5>1 DEF StateBacked
      <4>3. ASSUME ~TakenBack(h), NEW c \in Blocks, HeightOf[c] = h, s.expected = NumTxs(c),
                   Counted(c, s.seen), ~s.rollback
            PROVE  StateBacked(h, st)'
        <5>1. c \in Before(blockIdx)
          BY <1>8, <4>3 DEF AnnouncedInv, Counted
        <5>2. b \in Before(blockIdx)
          BY <1>3 DEF OrderInv, IndexInv
        <5>3. c = b
          BY <3>1, <4>3, <5>1, <5>2 DEF OnePerHeight
        <5>4. o \notin SentOf(b) /\ o \in SentOf(b)' /\ o \in 1..Len(txLog')
          BY <1>1, <1>2, <1>11, <1>12 DEF SentOf
        <5>5. PICK n \in Nat : n = s.seen
          BY DEF BlockState
        <5>6. Counted(b, n + 1)'
          BY <1>10, <4>3, <5>3, <5>4, <5>5, OneMore
        <5>7. st.seen = n + 1 /\ st.expected = s.expected /\ st.rollback = s.rollback
          BY <3>3, <5>5 DEF BlockState
        <5> QED BY <3>1, <4>3, <5>3, <5>6, <5>7 DEF StateBacked, NumTxs
      <4> QED BY <4>1, <4>2, <4>3 DEF StateBacked
    <3> QED BY <1>8, <1>10, <3>4, <3>5, CountStays
  <2> QED BY <2>1, <2>2
<1>17. WithdrawnInv'
  <2>1. lastProcessedHeight' \in Int
    BY DEF TypeInv, TypeOK, Heights
  <2>2. \A c \in Blocks : \A u \in 1..Len(txLog) :
          Withdraws(u, c) /\ u \in processedTxOffsets' => u \in processedTxOffsets
    BY <1>1 DEF Withdraws
  <2> QED BY <1>1, <1>8, <1>10, <1>16, <2>1, <2>2, WithdrawnStay
<1>18. FirstInv'
  <2>1. ASSUME NEW c \in Blocks, AppliesTx(o, c), NEW u \in 1..(o - 1), Withdraws(u, c)
        PROVE  TakenBack(HeightOf[c])'
    <3>1. c = b
      BY <1>2, <1>11, <2>1 DEF AppliesTx
    <3>2. u \in 1..Len(txLog) /\ u < txIdx
      BY <1>9, <1>11
    <3>3. u \in processedTxOffsets
      BY <1>8, <2>1, <3>2 DEF InOrderInv, Withdraws
    <3>4. TakenBack(HeightOf[b])
      BY <1>3, <1>4, <1>8, <2>1, <3>1, <3>2, <3>3 DEF WithdrawnInv
    <3> QED BY <1>4, <1>10, <3>1, <3>4 DEF ToldMore, Heights
  <2> QED BY <1>1, <1>8, <1>10, <1>13, <2>1, FirstStay
<1> QED BY <1>14, <1>15, <1>16, <1>17, <1>18 DEF BackedInv

LEMMA UnappliedTxBacked ==
  ASSUME TypeInv, TypeInv', OrderInv, BackedInv, InOrderInv', ProcessUnappliedTx
  PROVE  BackedInv'
<1>1. /\ txIdx \in 1..Len(txLog) /\ txLog[txIdx].kind = "unapplied"
      /\ UNCHANGED <<txLog, blockLog, blockIdx, emittedBlocks, pendingUnapplied>>
      /\ processedTxOffsets' = processedTxOffsets \cup {txIdx}
  BY TxTyping DEF ProcessUnappliedTx, FreshTx, NextTx, TypeInv
<1>2. PICK b \in Blocks : b = txLog[txIdx].block
  BY TxTyping DEF ProcessUnappliedTx, TypeInv
<1>3. Produced' = Produced \o <<UnappliedEventAt(txIdx)>>
  BY SendingTxTyping DEF ProcessAppliedTx, ProcessUnappliedTx, FreshTx, NextTx
<1>4. HeightOf[b] \in Heights
  BY HeightTyping
<1>50. <<UnappliedEventAt(txIdx)>> \in Seq(DownstreamEvent)
  BY TxTyping DEF ProcessUnappliedTx, TypeInv
<1>51. PICK e : e = UnappliedEventAt(txIdx)
  OBVIOUS
<1>5. PICK t \in Seq(DownstreamEvent) : t = <<e>>
  BY <1>50, <1>51
<1>6. /\ Produced' = Produced \o t /\ 1 \in 1..Len(t)
      /\ \A k \in 1..Len(t) : t[k].type = "unappliedTx" /\ t[k].block = b
  BY <1>2, <1>3, <1>5, <1>51 DEF UnappliedEventAt, Event
<1>8. EventsInv /\ AnnouncedInv /\ InOrderInv /\ WithdrawnInv /\ FirstInv /\ CountInv
  BY DEF BackedInv
<1>9. IsGrownFrom(txLog', txLog) /\ Len(txLog) \in Nat /\ Len(txLog') \in Nat
  BY <1>1 DEF IsGrownFrom, TypeInv, TypeOK, FeedTypeOK
<1>10. /\ ToldMore /\ TakenBack(HeightOf[b])'
       /\ \A c : Announced(c)' =>
            Announced(c) \/ \E k \in 1..Len(t) : t[k].type = "block" /\ t[k].block = c
       /\ \A o \in 1..Len(txLog') : Sent(o)' => o \in 1..Len(txLog) /\ Sent(o)
  <2>1. /\ ToldMore
        /\ \A k \in 1..Len(t) :
              t[k].type \in {"rollback", "unappliedTx"} => TakenBack(HeightOf[t[k].block])'
        /\ \A c : Announced(c)' =>
             Announced(c) \/ \E k \in 1..Len(t) : t[k].type = "block" /\ t[k].block = c
        /\ \A o \in 1..Len(txLog') : Sent(o)' =>
             (o \in 1..Len(txLog) /\ Sent(o)) \/ \E k \in 1..Len(t) : t[k] = TxEventAt(o)'
    BY <1>6, <1>8, <1>9, SendingTells
  <2>2. \A k \in 1..Len(t), o \in 1..Len(txLog') : t[k] # TxEventAt(o)'
    BY <1>6 DEF TxEventAt, Event
  <2> QED BY <1>6, <2>1, <2>2
<1>14. EventsInv'
  BY <1>6, <1>8, <1>9, EventsStay
<1>15. AnnouncedInv'
  <2>1. \A c \in Before(blockIdx) : c \in Before(blockIdx)'
    BY <1>1 DEF Before
  <2>2. \A k \in 1..Len(t) : t[k].type # "block"
    BY <1>6
  <2> QED BY <1>8, <1>10, <2>1, <2>2, AnnouncedStay
<1>16. CountInv' /\ lastProcessedHeight <= lastProcessedHeight'
  <2>0. lastProcessedHeight \in Nat
    BY DEF TypeInv, TypeOK, Heights
  <2>1. CASE HeightOf[b] \notin DOMAIN completed
    <3>1. UNCHANGED <<completed, lastProcessedHeight>>
      BY <1>2, <2>1 DEF ProcessUnappliedTx
    <3> QED BY <1>8, <1>10, <2>0, <3>1, CountUntouched
  <2>2. CASE HeightOf[b] \in DOMAIN completed
    <3>1. PICK h \in Heights : h = HeightOf[b]
      BY <1>4
    <3>2. PICK s \in BlockState : s = completed[h]
      BY <2>2, <3>1 DEF TypeInv, TypeOK
    <3>3. PICK st \in BlockState : st = [s EXCEPT !.rollback = TRUE]
      BY BlockStateUpdates
    <3>4. TryAdvanceCursor(SetState(completed, h, st)) /\ completed' = Remaining(SetState(completed, h, st))
      BY <1>2, <2>2, <3>1, <3>2, <3>3 DEF ProcessUnappliedTx
    <3>5. StateBacked(h, st)'
      BY <1>10, <3>1 DEF StateBacked
    <3> QED BY <1>8, <1>10, <3>4, <3>5, CountStays
  <2> QED BY <2>1, <2>2
<1>17. WithdrawnInv'
  <2>1. lastProcessedHeight' \in Int
    BY DEF TypeInv, TypeOK, Heights
  <2>2. \A c \in Blocks : \A u \in 1..Len(txLog) :
          Withdraws(u, c) /\ u \in processedTxOffsets' => u \in processedTxOffsets \/ c = b
    BY <1>1, <1>2 DEF Withdraws
  <2> QED BY <1>1, <1>8, <1>10, <1>16, <2>1, <2>2, WithdrawnStay
<1>18. FirstInv'
  BY <1>1, <1>8, <1>10, FirstStay
<1> QED BY <1>14, <1>15, <1>16, <1>17, <1>18 DEF BackedInv

-------------------------------------------------------------------------------
(* A block message.                                                        *)

LEMMA UnapplyBacked ==
  ASSUME WithinLimit, TypeInv, TypeInv', OrderInv, BackedInv, InOrderInv', EmitBlockUnapply
  PROVE  BackedInv'
<1>1. PICK b \in Blocks : b = blockLog[blockIdx].block
  BY EmitBlockUnapplyStep
<1>2. /\ NextBlock("unapply") /\ UNCHANGED <<txLog, blockLog>>
      /\ emittedBlocks' \subseteq emittedBlocks
  BY <1>1, EmitBlockUnapplyStep DEF EmitBlockUnapply, NextBlock, feedVars
<1>3. PICK t \in Seq(DownstreamEvent) :
        /\ Produced' = Produced \o t
        /\ \E k \in 1..Len(t) : t[k].type = "rollback" /\ t[k].block = b
        /\ \A k \in 1..Len(t) : t[k].type \notin {"block", "tx"}
  BY <1>1, RetractTells
<1>4. HeightOf[b] \in Heights
  BY HeightTyping
<1>5. PICK h \in Heights : h = HeightOf[b]
  BY <1>4
<1>6. PICK st \in BlockState :
        st = IF h \in DOMAIN completed
             THEN [completed[h] EXCEPT !.rollback = TRUE]
             ELSE [expected |-> NumTxs(b), seen |-> 0, rollback |-> TRUE]
  <2>1. CASE h \in DOMAIN completed
    BY <2>1, BlockStateUpdates DEF TypeInv, TypeOK
  <2>2. CASE h \notin DOMAIN completed
    BY <2>2, HeightTyping DEF BlockState
  <2> QED BY <2>1, <2>2
<1>7. PICK unapplied \in [Blocks -> Seq(Nat)] : unapplied = [pendingUnapplied EXCEPT ![b] = <<>>]
  BY EmptySeq DEF TypeInv, TypeOK
<1>8. PICK comp : comp = SetState(completed, h, st)
  OBVIOUS
<1>9. /\ TryAdvanceCursor(comp)
      /\ PruneOldBuffers(pendingApplied, unapplied, EmittedAfterUnapply(b), Remaining(comp))
  BY <1>1, <1>5, <1>6, <1>7, <1>8 DEF EmitBlockUnapply
<1>10. EventsInv /\ AnnouncedInv /\ InOrderInv /\ WithdrawnInv /\ FirstInv /\ CountInv
  BY DEF BackedInv
<1>11. IsGrownFrom(txLog', txLog) /\ Len(txLog) \in Nat /\ Len(txLog') \in Nat
  BY <1>2 DEF IsGrownFrom, TypeInv, TypeOK, FeedTypeOK
<1>12. /\ ToldMore /\ TakenBack(h)'
       /\ \A c : Announced(c)' =>
            Announced(c) \/ \E k \in 1..Len(t) : t[k].type = "block" /\ t[k].block = c
       /\ \A o \in 1..Len(txLog') : Sent(o)' => o \in 1..Len(txLog) /\ Sent(o)
  <2>1. /\ ToldMore
        /\ \A k \in 1..Len(t) :
              t[k].type \in {"rollback", "unappliedTx"} => TakenBack(HeightOf[t[k].block])'
        /\ \A c : Announced(c)' =>
             Announced(c) \/ \E k \in 1..Len(t) : t[k].type = "block" /\ t[k].block = c
        /\ \A o \in 1..Len(txLog') : Sent(o)' =>
             (o \in 1..Len(txLog) /\ Sent(o)) \/ \E k \in 1..Len(t) : t[k] = TxEventAt(o)'
    BY <1>3, <1>10, <1>11, SendingTells
  <2>2. \A k \in 1..Len(t), o \in 1..Len(txLog') : t[k] # TxEventAt(o)'
    BY <1>3 DEF TxEventAt, Event
  <2> QED BY <1>3, <1>5, <2>1, <2>2
<1>13. EventsInv'
  BY <1>3, <1>10, <1>11, EventsStay
<1>14. AnnouncedInv'
  <2>1. \A c \in Before(blockIdx) : c \in Before(blockIdx)' \/ c = b
    BY <1>1, <1>2, NextBefore DEF OrderInv, LinkOK
  <2>2. \A c \in Before(blockIdx) : c \in Before(blockIdx)' \/ TakenBack(HeightOf[c])'
    BY <1>5, <1>12, <2>1
  <2> QED BY <1>3, <1>10, <1>12, <2>2, AnnouncedStay
<1>15. CountInv' /\ lastProcessedHeight <= lastProcessedHeight'
  <2>1. StateBacked(h, st)'
    BY <1>12 DEF StateBacked
  <2>2. /\ DOMAIN completed' \subseteq DOMAIN Remaining(comp)
        /\ \A k \in DOMAIN completed' : completed'[k] = Remaining(comp)[k]
    BY <1>9, PruningShrinks
  <2> QED BY <1>8, <1>9, <1>10, <1>12, <2>1, <2>2, CountStays
<1>16. WithdrawnInv'
  <2>1. lastProcessedHeight' \in Int
    BY DEF TypeInv, TypeOK, Heights
  <2>2. processedTxOffsets' = processedTxOffsets
    BY <1>9, PruningKeepsOffsets
  <2>3. \A c \in Blocks : c = b \/ pendingUnapplied'[c] = pendingUnapplied[c]
                          \/ HeightOf[c] <= lastProcessedHeight'
    BY <1>7, <1>9, PrunedBelow
  <2> QED BY <1>2, <1>5, <1>10, <1>12, <1>15, <2>1, <2>2, <2>3, WithdrawnStay
<1>17. FirstInv'
  BY <1>2, <1>10, <1>11, <1>12, FirstStay
<1> QED BY <1>13, <1>14, <1>15, <1>16, <1>17 DEF BackedInv

(* A block that is announced again was taken back, if one of its           *)
(* transactions has been withdrawn.                                        *)
LEMMA WithdrawnTold ==
  ASSUME TypeInv, OrderInv, AnnouncedInv, WithdrawnInv, CountInv, ToldMore,
         NEW b \in Blocks, Higher(b, Before(blockIdx)), HeightOf[b] >= InterceptHeight,
         \A n \in 1..Len(pendingUnapplied[b]) : TakenBack(HeightOf[b])',
         NEW u \in 1..Len(txLog), Withdraws(u, b), u \in processedTxOffsets
  PROVE  TakenBack(HeightOf[b])'
<1>1. HeightOf[b] \in Int /\ lastProcessedHeight \in Int /\ InterceptHeight \in Int
  BY HeightTyping, IndexerAssumption DEF TypeInv, TypeOK, Heights
<1>2. TakenBack(HeightOf[b]) => TakenBack(HeightOf[b])'
  BY <1>1 DEF ToldMore
<1>3. CASE WithdrawnAs(u, b)
  BY <1>3 DEF WithdrawnAs
<1>4. CASE HeightOf[b] <= lastProcessedHeight
  <2>1. HeightBacked(HeightOf[b])
    BY <1>1, <1>4 DEF CountInv
  <2>2. ASSUME NEW c \in Blocks, HeightOf[c] = HeightOf[b], Announced(c)
        PROVE  TakenBack(HeightOf[b])
    <3>1. c \notin Before(blockIdx)
      BY <1>1, <2>2 DEF Higher
    <3> QED BY <2>2, <3>1 DEF AnnouncedInv
  <2> QED BY <1>2, <2>1, <2>2 DEF HeightBacked, Counted
<1> QED BY <1>2, <1>3, <1>4 DEF WithdrawnInv

(* What was buffered of a block is counted when it has been sent.          *)
LEMMA BufferCounts ==
  ASSUME TypeInv, TypeInv', BufferedOnce(pendingApplied), NEW b \in Blocks,
         \A n \in 1..Len(pendingApplied[b]) : pendingApplied[b][n] \in SentOf(b)'
  PROVE  Len(pendingApplied[b]) <= Cardinality(SentOf(b)')
<1>1. PICK p \in Seq(Nat) : p = pendingApplied[b]
  BY DEF TypeInv, TypeOK
<1>2. PICK n \in Nat : n = Len(p)
  BY <1>1
<1>3. PICK S : S = SentOf(b)'
  OBVIOUS
<1>4. IsFiniteSet(S) /\ Cardinality(S) \in Nat
  BY <1>3, SentCountsNext
<1>5. PICK f \in [1..n -> S] : f = [i \in 1..n |-> p[i]]
  BY <1>1, <1>2, <1>3
<1>6. \A i, j \in 1..n : f[i] = f[j] => i = j
  BY <1>1, <1>2, <1>5 DEF BufferedOnce
<1>7. f \in Injection(1..n, S)
  BY <1>5, <1>6 DEF Injection, IsInjective
<1>8. Cardinality(1..n) <= Cardinality(S)
  BY <1>4, <1>7, FS_Injection
<1>9. Cardinality(1..n) = n
  <2>1. 1 \in Int /\ n \in Int
    OBVIOUS
  <2>2. Cardinality(1..n) = IF 1 > n THEN 0 ELSE n - 1 + 1
    BY <2>1, FS_Interval
  <2> QED BY <2>2
<1> QED BY <1>1, <1>2, <1>3, <1>8, <1>9


LEMMA ReplayState ==
  ASSUME TypeInv, NEW b \in Blocks
  PROVE  /\ StateAfterReplay(b) \in BlockState
         /\ StateAfterReplay(b).expected = NumTxs(b)
         /\ StateAfterReplay(b).seen <= Len(pendingApplied[b])
         /\ StateAfterReplay(b).rollback => pendingUnapplied[b] # <<>>
<1>1. NumTxs(b) \in Nat /\ Len(pendingApplied[b]) \in Nat
  BY HeightTyping DEF TypeInv, TypeOK
<1>2. PICK n \in Nat : n = NumTxs(b)
  BY <1>1
<1>3. PICK m \in Nat : m = Len(pendingApplied[b])
  BY <1>1
<1>4. PICK r \in BOOLEAN : r = (pendingUnapplied[b] # <<>>)
  OBVIOUS
<1>5. PICK c \in BOOLEAN : c = (/\ HeightOf[b] = lastProcessedHeight + 1
                                /\ 1 <= NumTxs(b) /\ NumTxs(b) <= Len(pendingApplied[b]))
  OBVIOUS
<1>6. StateAfterReplay(b) = IF c THEN [expected |-> n, seen |-> n, rollback |-> FALSE]
                            ELSE [expected |-> n, seen |-> m, rollback |-> r]
  BY <1>2, <1>3, <1>4, <1>5 DEF StateAfterReplay
<1>7. c => n <= m
  BY <1>2, <1>3, <1>5
<1>8. CASE c
  BY <1>2, <1>3, <1>6, <1>7, <1>8 DEF BlockState
<1>9. CASE ~c
  BY <1>2, <1>3, <1>4, <1>6, <1>9 DEF BlockState
<1> QED BY <1>8, <1>9

LEMMA ApplyBacked ==
  ASSUME WithinLimit, TypeInv, TypeInv', OrderInv, DedupInv, BackedInv, InOrderInv',
         EmitBlockApply
  PROVE  BackedInv'
<1>1. PICK b \in Blocks : b = blockLog[blockIdx].block
  BY AnnounceTells
<1>2. /\ NextBlock("apply") /\ UNCHANGED <<txLog, blockLog>>
      /\ emittedBlocks' \subseteq emittedBlocks \cup {b}
  BY <1>1, EmitBlockApplyStep DEF EmitBlockApply, NextBlock, feedVars
<1>3. PICK t \in Seq(DownstreamEvent) :
        /\ Produced' = Produced \o t
        /\ \E k \in 1..Len(t) : t[k].type = "block" /\ t[k].block = b
        /\ \A n \in 1..Len(pendingApplied[b]) :
             \E k \in 1..Len(t) : t[k] = TxEventAt(pendingApplied[b][n])
        /\ \A n \in 1..Len(pendingUnapplied[b]) :
             \E k \in 1..Len(t) : t[k] = UnappliedEventAt(pendingUnapplied[b][n])
        /\ \A k \in 1..Len(t) :
             /\ t[k].type = "block" => t[k].block = b
             /\ t[k].type = "tx" =>
                  \E n \in 1..Len(pendingApplied[b]) : t[k] = TxEventAt(pendingApplied[b][n])
  BY <1>1, AnnounceTells
<1>4. HeightOf[b] \in Heights
  BY HeightTyping
<1>5. PICK h \in Heights : h = HeightOf[b]
  BY <1>4
<1>6. PICK st \in BlockState : st = StateAfterReplay(b)
  BY ReplayState
<1>7. PICK unapplied \in [Blocks -> Seq(Nat)] : unapplied = [pendingUnapplied EXCEPT ![b] = <<>>]
  BY EmptySeq DEF TypeInv, TypeOK
<1>8. PICK comp : comp = SetState(completed, h, st)
  OBVIOUS
<1>9. /\ TryAdvanceCursor(comp) \/ UNCHANGED lastProcessedHeight
      /\ PruneOldBuffers([pendingApplied EXCEPT ![b] = <<>>], unapplied,
                         emittedBlocks \cup {b}, Remaining(comp))
  BY <1>1, <1>5, <1>6, <1>7, <1>8 DEF EmitBlockApply
<1>10. EventsInv /\ AnnouncedInv /\ InOrderInv /\ WithdrawnInv /\ FirstInv /\ CountInv
  BY DEF BackedInv
<1>11. IsGrownFrom(txLog', txLog) /\ Len(txLog) \in Nat /\ Len(txLog') \in Nat
  BY <1>2 DEF IsGrownFrom, TypeInv, TypeOK, FeedTypeOK
<1>12. /\ ToldMore
       /\ \A k \in 1..Len(t) :
            /\ t[k].type = "block" => Announced(t[k].block)'
            /\ t[k].type \in {"rollback", "unappliedTx"} => TakenBack(HeightOf[t[k].block])'
            /\ \A o : t[k] = TxEventAt(o)' => Sent(o)'
       /\ \A c : Announced(c)' =>
            Announced(c) \/ \E k \in 1..Len(t) : t[k].type = "block" /\ t[k].block = c
       /\ \A o \in 1..Len(txLog') : Sent(o)' =>
            (o \in 1..Len(txLog) /\ Sent(o)) \/ \E k \in 1..Len(t) : t[k] = TxEventAt(o)'
  BY <1>3, <1>10, <1>11, SendingTells
<1>13. \A o : TxEventAt(o)' = TxEventAt(o) /\ TxEventAt(o).offset = o /\ TxEventAt(o).type = "tx"
  BY <1>2 DEF TxEventAt, Event
<1>14. \A n \in 1..Len(pendingApplied[b]) :
         /\ pendingApplied[b][n] \in 1..Len(txLog)
         /\ txLog[pendingApplied[b][n]].kind = "applied"
         /\ txLog[pendingApplied[b][n]].block = b
         /\ pendingApplied[b][n] \in processedTxOffsets
  <2>1. HoldsOffsets(pendingApplied, "applied", txLog)
    BY DEF TypeInv
  <2>2. BufferedIn(pendingApplied, processedTxOffsets)
    BY DEF DedupInv, Dedup, BufferedIn
  <2> QED BY <2>1, <2>2 DEF HoldsOffsets, BufferedIn
<1>15. Announced(b)'
  BY <1>3, <1>12
<1>16. \A n \in 1..Len(pendingApplied[b]) : pendingApplied[b][n] \in SentOf(b)'
  <2>1. ASSUME NEW n \in 1..Len(pendingApplied[b]), NEW o, o = pendingApplied[b][n]
        PROVE  o \in SentOf(b)'
    <3>1. PICK i \in 1..Len(t) : t[i] = TxEventAt(o)
      BY <1>3, <2>1
    <3>2. Sent(o)'
      BY <1>12, <1>13, <3>1
    <3>3. /\ o \in 1..Len(txLog') /\ txLog'[o].kind = "applied" /\ txLog'[o].block = b
      BY <1>2, <1>14, <2>1
    <3> QED BY <3>2, <3>3 DEF SentOf
  <2> QED BY <2>1
<1>17. \A n \in 1..Len(pendingUnapplied[b]) : TakenBack(h)'
  <2> SUFFICES ASSUME NEW n \in 1..Len(pendingUnapplied[b])
               PROVE  TakenBack(h)'
    OBVIOUS
  <2>1. PICK k \in 1..Len(t) : t[k] = UnappliedEventAt(pendingUnapplied[b][n])
    BY <1>3
  <2>2. txLog[pendingUnapplied[b][n]].block = b
    BY DEF TypeInv, HoldsOffsets
  <2>3. t[k].type = "unappliedTx" /\ t[k].block = b
    BY <2>1, <2>2 DEF UnappliedEventAt, Event
  <2> QED BY <1>5, <1>12, <2>3
<1>18. Before(blockIdx)' = Before(blockIdx) \cup {b} /\ Higher(b, Before(blockIdx))
  BY <1>1, <1>2, NextBefore DEF OrderInv, LinkOK
<1>19. \A o \in 1..Len(txLog) : Sent(o)' =>
         Sent(o) \/ (txLog[o].block = b /\ o \in processedTxOffsets)
  <2> SUFFICES ASSUME NEW o \in 1..Len(txLog), NEW k \in 1..Len(t), t[k] = TxEventAt(o)'
               PROVE  txLog[o].block = b /\ o \in processedTxOffsets
    BY <1>2, <1>12
  <2>1. t[k].type = "tx" /\ t[k].offset = o
    BY <1>13
  <2>2. PICK n \in 1..Len(pendingApplied[b]) : t[k] = TxEventAt(pendingApplied[b][n])
    BY <1>3, <2>1
  <2>3. pendingApplied[b][n] = o
    BY <1>13, <2>1, <2>2
  <2> QED BY <1>14, <2>3
<1>20. EventsInv'
  <2>1. \A k \in 1..Len(t) : t[k].type = "tx" =>
          \E o \in 1..Len(txLog') : txLog'[o].kind = "applied" /\ t[k] = TxEventAt(o)'
    BY <1>2, <1>3, <1>13, <1>14
  <2> QED BY <1>3, <1>10, <1>11, <2>1, EventsStay
<1>21. AnnouncedInv'
  <2>1. \A c \in Before(blockIdx) : c \in Before(blockIdx)'
    BY <1>18
  <2>2. \A k \in 1..Len(t) : t[k].type = "block" => t[k].block \in Before(blockIdx)'
    BY <1>3, <1>18
  <2> QED BY <1>10, <1>12, <2>1, <2>2, AnnouncedStay
<1>22. CountInv' /\ lastProcessedHeight <= lastProcessedHeight'
  <2>1. StateBacked(h, st)'
    <3>1. CASE pendingUnapplied[b] # <<>>
      <4>1. Len(pendingUnapplied[b]) \in Nat \ {0}
        BY <3>1, EmptySeq DEF TypeInv, TypeOK
      <4>2. 1 \in 1..Len(pendingUnapplied[b])
        BY <4>1
      <4>3. TakenBack(h)'
        BY <1>17, <4>2
      <4> QED BY <4>3 DEF StateBacked
    <3>2. CASE pendingUnapplied[b] = <<>>
      <4>1. ~st.rollback /\ st.expected = NumTxs(b) /\ st.seen <= Len(pendingApplied[b])
        BY <1>6, <3>2, ReplayState
      <4>2. BufferedOnce(pendingApplied)
        BY DEF DedupInv, Dedup
      <4>3. Len(pendingApplied[b]) <= Cardinality(SentOf(b)')
        BY <1>16, <4>2, BufferCounts
      <4>4. st.seen \in Nat /\ Len(pendingApplied[b]) \in Nat /\ Cardinality(SentOf(b)') \in Nat
        <5>1. st.seen \in Nat
          BY DEF BlockState
        <5>2. Len(pendingApplied[b]) \in Nat
          BY DEF TypeInv, TypeOK
        <5>3. Cardinality(SentOf(b)') \in Nat
          BY SentCountsNext
        <5> QED BY <5>1, <5>2, <5>3
      <4>5. st.seen <= Cardinality(SentOf(b)')
        BY <4>1, <4>3, <4>4
      <4> QED BY <1>5, <1>15, <4>1, <4>5 DEF StateBacked, Counted, NumTxs
    <3> QED BY <3>1, <3>2
  <2>2. /\ DOMAIN completed' \subseteq DOMAIN Remaining(comp)
        /\ \A k \in DOMAIN completed' : completed'[k] = Remaining(comp)[k]
    BY <1>9, PruningShrinks
  <2> QED BY <1>8, <1>9, <1>10, <1>12, <2>1, <2>2, CountStays
<1>23. \A u \in 1..Len(txLog) :
         HeightOf[b] >= InterceptHeight /\ Withdraws(u, b) /\ u \in processedTxOffsets
         => TakenBack(HeightOf[b])'
  <2>1. \A n \in 1..Len(pendingUnapplied[b]) : TakenBack(HeightOf[b])'
    BY <1>5, <1>17
  <2> QED BY <1>10, <1>12, <1>18, <2>1, WithdrawnTold
<1>24. WithdrawnInv'
  <2>1. lastProcessedHeight' \in Int
    BY DEF TypeInv, TypeOK, Heights
  <2>2. processedTxOffsets' = processedTxOffsets
    BY <1>9, PruningKeepsOffsets
  <2>3. \A c \in Blocks : c = b \/ pendingUnapplied'[c] = pendingUnapplied[c]
                          \/ HeightOf[c] <= lastProcessedHeight'
    BY <1>7, <1>9, PrunedBelow
  <2> QED BY <1>2, <1>10, <1>12, <1>22, <1>23, <2>1, <2>2, <2>3, WithdrawnStay
<1>25. FirstInv'
  <2>1. ASSUME NEW c \in Blocks, NEW o \in 1..Len(txLog), HeightOf[c] >= InterceptHeight,
               Sent(o)', AppliesTx(o, c), ~Sent(o),
               NEW u \in 1..(o - 1), Withdraws(u, c)
        PROVE  TakenBack(HeightOf[c])'
    <3>1. c = b /\ o \in processedTxOffsets
      BY <1>19, <2>1 DEF AppliesTx
    <3>2. u \in 1..Len(txLog) /\ u < o
      BY <1>11
    <3>3. u \in processedTxOffsets
      BY <1>10, <2>1, <3>1, <3>2 DEF InOrderInv, Withdraws
    <3> QED BY <1>23, <2>1, <3>1, <3>2, <3>3
  <2> QED BY <1>2, <1>10, <1>12, <2>1, FirstStay
<1> QED BY <1>20, <1>21, <1>22, <1>24, <1>25 DEF BackedInv

-------------------------------------------------------------------------------
(* Every step.                                                             *)

(* The steps that tell the strategies of no block or transaction.          *)
LEMMA UnsentBacked ==
  ASSUME "block" \notin RestartTopics, TypeInv, TypeInv', OrderInv, BackedInv, InOrderInv',
         ReadInv, [Next]_vars,
         \/ UNCHANGED vars \/ ControlStep \/ QuietBlockStep \/ HandleMempoolMessage
         \/ FeedNext /\ UNCHANGED indexerVars
  PROVE  BackedInv'
<1>1. UNCHANGED <<emittedBlocks, lastProcessedHeight, completed, pendingUnapplied,
                  processedTxOffsets>>
  BY DEF vars, indexerVars, cursorVars, bufferVars, ControlStep, StartKafka, SetDownstream,
         RestartReader, QuietBlockStep, SkipMalformedBlock, SkipDuplicateApply,
         DropApplyOnNodeError, HandleMempoolMessage, DropMempoolMessage,
         ForwardMempoolMessage, NextMempool
<1>2. IsGrownFrom(txLog', txLog) /\ Len(txLog) \in Nat
  <2>1. CASE FeedNext
    <3>1. IsGrownFrom(txLog', txLog)
      BY <2>1, FeedTyping DEF TypeInv, TypeOK
    <3> QED BY <3>1 DEF TypeInv, TypeOK, FeedTypeOK
  <2>2. CASE ~FeedNext
    <3>1. txLog' = txLog
      BY <2>2 DEF vars, feedVars, ControlStep, StartKafka, SetDownstream,
           RestartReader, QuietBlockStep, SkipMalformedBlock, SkipDuplicateApply,
           DropApplyOnNodeError, NextBlock, HandleMempoolMessage, DropMempoolMessage,
           ForwardMempoolMessage, NextMempool
    <3> QED BY <3>1 DEF IsGrownFrom, TypeInv, TypeOK, FeedTypeOK
  <2> QED BY <2>1, <2>2
<1>3. \E t \in Seq(DownstreamEvent) :
        /\ Produced' = Produced \o t
        /\ \A k \in 1..Len(t) : t[k].type \notin {"tx", "unappliedTx", "block", "rollback"}
  <2>1. CASE Produced' = Produced
    <3>1. PICK t \in Seq(DownstreamEvent) : t = <<>>
      BY EmptySeq
    <3>2. Produced \o t = Produced /\ 1..Len(t) = {}
      BY <3>1, ProducedTyping
    <3> QED BY <2>1, <3>2
  <2>2. ASSUME NEW e \in DownstreamEvent, e.type \in {"accepted", "withdrawn"},
               Produced' = Produced \o <<e>>
        PROVE  \E t \in Seq(DownstreamEvent) :
                 /\ Produced' = Produced \o t
                 /\ \A k \in 1..Len(t) : t[k].type \notin {"tx", "unappliedTx", "block", "rollback"}
    <3>1. <<e>> \in Seq(DownstreamEvent) /\ \A k \in 1..Len(<<e>>) : <<e>>[k] = e
      OBVIOUS
    <3> QED BY <2>2, <3>1
  <2>3. Produced' = Produced \/ \E e \in DownstreamEvent :
                 e.type \in {"accepted", "withdrawn"} /\ Produced' = Produced \o <<e>>
    BY ControlTyping, QuietBlockTyping, MempoolTyping, FeedStepTyping, SendingNothing
       DEF vars, indexerVars
  <2> QED BY <2>1, <2>2, <2>3
<1>4. PICK t \in Seq(DownstreamEvent) :
        /\ Produced' = Produced \o t
        /\ \A k \in 1..Len(t) : t[k].type \notin {"tx", "unappliedTx", "block", "rollback"}
  BY <1>3
<1>5. \A c \in Before(blockIdx) : c \in Before(blockIdx)'
  <2>1. blockIdx \in Nat
    BY DEF TypeInv, TypeOK
  <2>2. blockIdx' = blockIdx \/ (NextBlock("apply") \/ NextBlock("malformed"))
    BY DEF vars, indexerVars, readerVars, ControlStep, StartKafka, SetDownstream,
         RestartReader, QuietBlockStep, SkipMalformedBlock, SkipDuplicateApply,
         DropApplyOnNodeError, HandleMempoolMessage, DropMempoolMessage,
         ForwardMempoolMessage, NextMempool
  <2>3. ~EmitBlockUnapply
    BY <2>1, <2>2 DEF EmitBlockUnapply, NextBlock
  <2> QED BY <2>3, BeforeMoves
<1>6. processedTxOffsets' \subseteq 1..Len(txLog)
  BY <1>1 DEF ReadInv
<1>7. \A b \in Blocks : \A u \in 1..Len(txLog) :
        Withdraws(u, b) /\ u \in processedTxOffsets' =>
          u \in processedTxOffsets /\ (WithdrawnAs(u, b) => WithdrawnAs(u, b)')
  BY <1>1 DEF WithdrawnAs
<1> QED BY <1>1, <1>2, <1>4, <1>5, <1>6, <1>7, QuietBacked

LEMMA QuietTxBacked ==
  ASSUME TypeInv, TypeInv', OrderInv, BackedInv, InOrderInv', ReadInv, QuietTxStep
  PROVE  BackedInv'
<1>1. /\ UNCHANGED <<sendVars, emittedBlocks, blockIdx, blockLog, lastProcessedHeight, completed>>
      /\ Produced' = Produced
  BY QuietTxTyping, SendingNothing
<1>2. /\ txIdx \in 1..Len(txLog) /\ UNCHANGED txLog
      /\ processedTxOffsets' \subseteq processedTxOffsets \cup {txIdx}
  <2>1. PICK kind \in {"applied", "unapplied", "malformed"} : NextTx(kind)
    BY DEF QuietTxStep, SkipMalformedTx, SkipDuplicateTx, SkipAppliedTx, BufferAppliedTx,
           SkipUnparsableUnapplied, BufferUnappliedTx, FreshTx
  <2>2. txIdx \in 1..Len(txLog) /\ UNCHANGED txLog
    BY <2>1, NextTxTyping DEF TypeInv
  <2>3. processedTxOffsets' \subseteq processedTxOffsets \cup {txIdx}
    BY DEF QuietTxStep, SkipMalformedTx, SkipDuplicateTx, SkipAppliedTx, BufferAppliedTx,
           SkipUnparsableUnapplied, BufferUnappliedTx, FreshTx
  <2> QED BY <2>2, <2>3
<1>3. PICK t \in Seq(DownstreamEvent) : t = <<>>
  BY EmptySeq
<1>4. Produced' = Produced \o t /\ 1..Len(t) = {}
  BY <1>1, <1>3, ProducedTyping
<1>5. IsGrownFrom(txLog', txLog)
  BY <1>2 DEF IsGrownFrom, TypeInv, TypeOK, FeedTypeOK
<1>6. \A c \in Before(blockIdx) : c \in Before(blockIdx)'
  BY <1>1 DEF Before
<1>7. processedTxOffsets' \subseteq 1..Len(txLog)
  BY <1>2 DEF ReadInv
<1>8. ASSUME NEW b \in Blocks, NEW u \in 1..Len(txLog), Withdraws(u, b),
             u \in processedTxOffsets'
      PROVE  \/ u \in processedTxOffsets /\ (WithdrawnAs(u, b) => WithdrawnAs(u, b)')
             \/ b \notin emittedBlocks /\ WithdrawnAs(u, b)'
  <2>1. CASE ~BufferUnappliedTx
    <3>1. UNCHANGED pendingUnapplied
      BY <2>1 DEF QuietTxStep, SkipMalformedTx, SkipDuplicateTx, SkipAppliedTx,
           BufferAppliedTx, SkipUnparsableUnapplied
    <3>2. \/ processedTxOffsets' = processedTxOffsets
          \/ txLog[txIdx].kind = "applied" \/ txLog[txIdx].tx \in Unparsable
      BY <2>1 DEF QuietTxStep, SkipMalformedTx, SkipDuplicateTx, SkipAppliedTx,
           BufferAppliedTx, SkipUnparsableUnapplied, FreshTx, NextTx
    <3>3. u \in processedTxOffsets
      BY <1>2, <1>8, <3>2 DEF Withdraws
    <3> QED BY <3>1, <3>3 DEF WithdrawnAs
  <2>2. CASE BufferUnappliedTx
    <3>1. PICK c \in Blocks : c = txLog[txIdx].block
      BY <2>2, TxTyping DEF BufferUnappliedTx, TypeInv
    <3>2. /\ c \notin emittedBlocks
          /\ pendingUnapplied' = [pendingUnapplied EXCEPT ![c] = Append(@, txIdx)]
      BY <2>2, <3>1 DEF BufferUnappliedTx
    <3>3. PICK p \in Seq(Nat) : p = pendingUnapplied[c]
      BY DEF TypeInv, TypeOK
    <3>4. PICK o \in Nat : o = txIdx
      BY DEF TypeInv, TypeOK
    <3>5. /\ Len(Append(p, o)) = Len(p) + 1 /\ Len(p) \in Nat
          /\ Append(p, o)[Len(p) + 1] = o
          /\ \A n \in 1..Len(p) : n \in 1..Len(Append(p, o)) /\ Append(p, o)[n] = p[n]
      OBVIOUS
    <3>6. pendingUnapplied'[c] = Append(p, o) /\ \A d \in Blocks : d # c => pendingUnapplied'[d] = pendingUnapplied[d]
      BY <3>2, <3>3, <3>4 DEF TypeInv, TypeOK
    <3>7. WithdrawnAs(u, b) => WithdrawnAs(u, b)'
      <4>1. CASE b = c
        BY <3>3, <3>5, <3>6, <4>1 DEF WithdrawnAs
      <4>2. CASE b # c
        BY <3>6, <4>2 DEF WithdrawnAs
      <4> QED BY <4>1, <4>2
    <3>8. CASE u = o
      <4>1. b = c
        BY <1>8, <3>1, <3>4, <3>8 DEF Withdraws
      <4>2. Len(p) + 1 \in 1..Len(Append(p, o))
        BY <3>5
      <4>3. WithdrawnAs(u, b)'
        BY <3>5, <3>6, <3>8, <4>1, <4>2 DEF WithdrawnAs
      <4> QED BY <3>2, <4>1, <4>3
    <3> QED BY <1>2, <1>8, <3>4, <3>7, <3>8
  <2> QED BY <2>1, <2>2
<1> QED BY <1>1, <1>4, <1>5, <1>6, <1>7, <1>8, QuietBacked

LEMMA BackedStep ==
  ASSUME "block" \notin RestartTopics, WithinLimit, TypeInv, TypeInv', OrderInv, DedupInv,
         ReadInv, MirrorConstants, OnePerHeight, BackedInv, [Next]_vars
  PROVE  BackedInv'
<1>1. InOrderInv'
  BY InOrderStep DEF BackedInv, MirrorConstants
<1>2. CASE \/ UNCHANGED vars \/ ControlStep \/ QuietBlockStep \/ HandleMempoolMessage
           \/ FeedNext /\ UNCHANGED indexerVars
  BY <1>1, <1>2, UnsentBacked
<1>3. CASE QuietTxStep
  BY <1>1, <1>3, QuietTxBacked
<1>4. CASE ProcessAppliedTx
  BY <1>1, <1>4, AppliedTxBacked DEF MirrorConstants
<1>5. CASE ProcessUnappliedTx
  BY <1>1, <1>5, UnappliedTxBacked
<1>6. CASE EmitBlockApply
  BY <1>1, <1>6, ApplyBacked
<1>7. CASE EmitBlockUnapply
  BY <1>1, <1>7, UnapplyBacked
<1> QED BY <1>2, <1>3, <1>4, <1>5, <1>6, <1>7, StepCases

LEMMA BackedInit ==
  ASSUME InterceptHeight > 0
  PROVE  Init => RejoinInv /\ OnePerHeight /\ BackedInv /\ MirrorConstants
<1> SUFFICES ASSUME Init PROVE RejoinInv /\ OnePerHeight /\ BackedInv /\ MirrorConstants
  OBVIOUS
<1>1. /\ txLog = <<>> /\ Produced = <<>> /\ blockIdx = 1 /\ processedTxOffsets = {}
      /\ 1..Len(txLog) = {} /\ 1..Len(Produced) = {}
  BY DEF Init, FeedInit, Produced
<1>2. RejoinInv
  <2>1. \A b \in Blocks : FirstRun(b, 0)
    BY <1>1 DEF FirstRun
  <2> QED BY <1>1, <2>1 DEF RejoinInv
<1>3. OnePerHeight
  BY <1>1 DEF OnePerHeight, Before
<1>4. EventsInv /\ AnnouncedInv /\ InOrderInv /\ WithdrawnInv /\ FirstInv
  BY <1>1 DEF EventsInv, AnnouncedInv, InOrderInv, WithdrawnInv, FirstInv, Announced
<1>5. CountInv
  <2>1. DOMAIN completed = {}
    BY DEF Init
  <2>2. lastProcessedHeight = InterceptHeight - 1 /\ InterceptHeight \in Nat
    BY IndexerAssumption DEF Init
  <2>3. InterceptHeight..lastProcessedHeight = {}
    BY <2>2
  <2> QED BY <2>1, <2>3 DEF CountInv
<1>6. MirrorConstants
  BY DEF MirrorConstants, Init
<1> QED BY <1>2, <1>3, <1>4, <1>5, <1>6 DEF BackedInv

LEMMA BackedImplies ==
  ASSUME TypeInv, RejoinInv, BackedInv
  PROVE  CursorBacked
<1> SUFFICES ASSUME downstreamSet, NEW h \in InterceptHeight..lastProcessedHeight
             PROVE  \/ RolledBack(h)
                    \/ \E b \in Blocks : HeightOf[b] = h /\ Cardinality(SentTxs(b)) = NumTxs(b)
  BY DEF CursorBacked
<1>1. Produced = downstream
  BY DEF TypeInv, NothingHeldBack, TypeOK, Produced
<1>2. TakenBack(h) => RolledBack(h)
  BY <1>1 DEF TakenBack, RolledBack
<1>3. EventsInv /\ FirstInv /\ HeightBacked(h)
  BY DEF BackedInv, CountInv
<1>4. ASSUME ~TakenBack(h), NEW b \in Blocks, HeightOf[b] = h, Counted(b, NumTxs(b))
      PROVE  Cardinality(SentTxs(b)) = NumTxs(b)
  <2>1. PICK n \in Nat : n = NumTxs(b)
    BY TxsTyping
  <2>2. PICK s \in Nat : FirstRun(b, s)
    BY DEF RejoinInv
  <2>3. \A o : TxEventAt(o).type = "tx" /\ TxEventAt(o).offset = o /\ TxEventAt(o).block = txLog[o].block
    BY DEF TxEventAt, Event
  <2>4. \A i \in 1..Len(downstream) : downstream[i].type = "tx" =>
          \E o \in 1..Len(txLog) : txLog[o].kind = "applied" /\ downstream[i] = TxEventAt(o)
    BY <1>1, <1>3 DEF EventsInv
  <2>5. SentTxs(b) = SentOf(b)
    <3>1. ASSUME NEW o \in SentTxs(b)
          PROVE  o \in SentOf(b)
      <4>1. PICK i \in 1..Len(downstream) :
              downstream[i].type = "tx" /\ downstream[i].block = b /\ downstream[i].offset = o
        BY <3>1 DEF SentTxs
      <4>2. PICK p \in 1..Len(txLog) : downstream[i] = TxEventAt(p)
        BY <2>4, <4>1
      <4> QED BY <1>1, <2>3, <4>1, <4>2 DEF SentOf, Sent
    <3>2. ASSUME NEW o \in SentOf(b)
          PROVE  o \in SentTxs(b)
      <4>1. PICK i \in 1..Len(downstream) : downstream[i] = TxEventAt(o)
        BY <1>1, <3>2 DEF SentOf, Sent
      <4> QED BY <2>3, <3>2, <4>1 DEF SentOf, SentTxs
    <3> QED BY <3>1, <3>2
  <2>6. ASSUME NEW o \in SentOf(b)
        PROVE  o \in (s + 1)..(s + n)
    <3>1. PICK i \in 1..Len(downstream) : downstream[i] = TxEventAt(o)
      BY <1>1, <2>6 DEF SentOf, Sent
    <3>2. PICK p \in 1..Len(txLog) : txLog[p].kind = "applied" /\ downstream[i] = TxEventAt(p)
      BY <2>3, <2>4, <3>1
    <3>3. p = o
      <4>1. TxEventAt(p).offset = p /\ TxEventAt(o).offset = o
        BY <2>3
      <4> QED BY <3>1, <3>2, <4>1
    <3>4. o \in 1..Len(txLog) /\ Sent(o) /\ AppliesTx(o, b)
      BY <2>6, <3>2, <3>3 DEF SentOf, AppliesTx
    <3>5. \A u \in 1..(o - 1) : ~Withdraws(u, b)
      BY <1>3, <1>4, <3>4 DEF FirstInv
    <3> QED BY <2>1, <2>2, <3>4, <3>5 DEF FirstRun
  <2>7. PICK S : S = SentOf(b)
    OBVIOUS
  <2>8. S \in SUBSET ((s + 1)..(s + n)) /\ Cardinality(S) \in Nat /\ n <= Cardinality(S)
    BY <1>4, <2>1, <2>6, <2>7, SentCounts DEF Counted
  <2>9. IsFiniteSet((s + 1)..(s + n)) /\ Cardinality((s + 1)..(s + n)) = n
    <3>1. s + 1 \in Int /\ s + n \in Int
      OBVIOUS
    <3>2. /\ IsFiniteSet((s + 1)..(s + n))
          /\ Cardinality((s + 1)..(s + n)) = IF s + 1 > s + n THEN 0 ELSE (s + n) - (s + 1) + 1
      BY <3>1, FS_Interval
    <3> QED BY <3>2
  <2>10. Cardinality(S) <= n
    BY <2>8, <2>9, FS_Subset
  <2> QED BY <2>1, <2>5, <2>7, <2>8, <2>10
<1> QED BY <1>2, <1>3, <1>4 DEF HeightBacked

(* The cursor passes a height from the intercept height on, at which the   *)
(* strategies never heard of a rollback, only when they were sent of some  *)
(* block there exactly as many transactions as it announced: however the   *)
(* topics interleave, however often the chain forks and a block joins it   *)
(* again, and whatever else fails, as long as the block reader is not      *)
(* restarted and no offset is forgotten.  Nothing is claimed of a height   *)
(* that ever saw a rollback: emitBlockUnapply marks it done, and the cursor*)
(* passes it before a block that replaces the old one is announced.  Nor   *)
(* is it of a height where a block has no transactions, whose event the    *)
(* formula does not ask for.  Of a block whose transactions all fail to    *)
(* parse the actor does not see that they are withdrawn (SomeParse); and   *)
(* without an intercept height the cursor starts at height 0, as if that   *)
(* had been passed.                                                        *)
THEOREM CursorPassesTheTold ==
  ASSUME "block" \notin RestartTopics, SomeParse, InterceptHeight > 0
  PROVE  Spec /\ []WithinLimit => []CursorBacked
<1> DEFINE Inv == /\ TypeInv /\ OrderInv /\ DedupInv /\ ReadInv /\ MirrorConstants
                  /\ OnePerHeight /\ RejoinInv /\ BackedInv
<1>1. Init => Inv
  BY TypeInvInit, OrderInit, DedupInit, MirrorInit, BackedInit
<1>2. Inv /\ WithinLimit /\ [Next]_vars => Inv'
  <2> SUFFICES ASSUME Inv, WithinLimit, [Next]_vars PROVE Inv'
    OBVIOUS
  <2>1. TypeInv'
    BY TypeInvStep
  <2>2. OrderInv'
    BY OrderStep
  <2>3. DedupInv'
    BY DedupStep
  <2>4. ReadInv'
    BY ReadStep DEF MirrorConstants
  <2>5. MirrorConstants'
    BY ConstantsStep
  <2>6. OnePerHeight'
    BY OnePerHeightStep
  <2>7. RejoinInv'
    <3>1. CASE FeedNext
      BY <2>1, <3>1, RejoinStep DEF TypeInv, TypeOK
    <3>2. CASE ~FeedNext
      <4>1. UNCHANGED <<txLog, chain>>
        <5>1. UNCHANGED feedVars
          BY <3>2 DEF Next, vars, HandleBlockMessage, HandleTxMessage, HandleMempoolMessage,
               StartKafka, SetDownstream, RestartReader,
               SkipMalformedBlock, SkipDuplicateApply, DropApplyOnNodeError, EmitBlockApply,
               EmitBlockUnapply, NextBlock, SkipMalformedTx, SkipDuplicateTx, SkipAppliedTx,
               BufferAppliedTx, ProcessAppliedTx, SkipUnparsableUnapplied, BufferUnappliedTx,
               ProcessUnappliedTx, FreshTx, NextTx, DropMempoolMessage, ForwardMempoolMessage,
               NextMempool
        <5> QED BY <5>1 DEF feedVars
      <4> QED BY <4>1 DEF RejoinInv, FirstRun, AppliesTx, Withdraws
    <3> QED BY <3>1, <3>2
  <2>8. BackedInv'
    BY <2>1, BackedStep
  <2> QED BY <2>1, <2>2, <2>3, <2>4, <2>5, <2>6, <2>7, <2>8
<1>3. Inv => CursorBacked
  BY BackedImplies
<1> QED BY <1>1, <1>2, <1>3, PTL DEF Spec
===============================================================================
