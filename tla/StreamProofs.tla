----------------------------- MODULE StreamProofs -----------------------------
(***************************************************************************)
(* Indexer implements StrategyStream, for every chain, fork pattern and    *)
(* interleaving of the topics, as long as the block reader itself is not   *)
(* restarted and processedTxOffsets stays within its limit.                *)
(*                                                                         *)
(* The argument: what one step of the actor appends to Produced is at most *)
(* one block event or rollback, followed by transactions of that block     *)
(* (AfterHead); the head alone settles which blocks are known afterwards;  *)
(* a transaction event that comes alone is of an emitted block, which is   *)
(* known (OpenInv of IndexerProofs); and no message is in Produced twice   *)
(* (DedupInv of IndexerProofs).                                            *)
(*                                                                         *)
(* And MirrorsChain, as long as the block reader is not restarted, the     *)
(* node answers and no transaction straggles too far.  The argument: the   *)
(* strategies know the chain as it was at the block reader's position      *)
(* (KnownInv), and the messages of every block of the node's chain are     *)
(* sent or on their way (MirrorInv): unread while their block is known or  *)
(* awaited, or buffered while it is awaited.  A transaction is sent inside *)
(* an announcement of its block (TxInv of IndexerProofs), and a block that *)
(* joined the chain once was announced once (JoinsInv, BlockEventsInv): so *)
(* the announcement the transaction was sent to is the last one.           *)
(***************************************************************************)
EXTENDS IndexerProofs, IndexerStream

-------------------------------------------------------------------------------
(* What a step appends, and the two variables of the abstract module after *)
(* it.                                                                     *)

(* After its head, t neither announces nor rolls back anything.            *)
AfterHead(t) ==
  /\ Len(t) \in Nat \ {0}
  /\ \A k \in 2..Len(t) : t[k].type \notin {"block", "rollback"}

OpenIn(s, c) == OpenAt(s, Len(s), c)

(* The head of t settles whether c is open after it.                       *)
OpenAfterHead(s, t, c) ==
  \/ t[1].type = "block" /\ t[1].block = c
  \/ OpenIn(s, c) /\ ~Closes(t[1], c)

LEMMA HeadSettles ==
  ASSUME NEW s \in Seq(DownstreamEvent), NEW t \in Seq(DownstreamEvent),
         AfterHead(t), NEW c
  PROVE  OpenIn(s \o t, c) <=> OpenAfterHead(s, t, c)
<1> DEFINE u == s \o t
<1>1. /\ Len(s) \in Nat /\ Len(t) \in Nat \ {0} /\ Len(u) = Len(s) + Len(t)
      /\ \A k \in 1..Len(s) : u[k] = s[k]
      /\ \A k \in 1..Len(t) : u[Len(s) + k] = t[k]
  BY DEF AfterHead
<1>2. \A k \in 2..Len(t) : ~Closes(t[k], c) /\ t[k].type # "block"
  BY DEF AfterHead, Closes
<1> HIDE DEF u
<1>3. ASSUME OpenIn(u, c) PROVE OpenAfterHead(s, t, c)
  <2>1. PICK j \in 1..Len(u) : /\ u[j].type = "block" /\ u[j].block = c
                               /\ \A k \in (j + 1)..Len(u) : ~Closes(u[k], c)
    BY <1>3 DEF OpenIn, OpenAt
  <2>2. CASE j <= Len(s)
    <3>1. j \in 1..Len(s) /\ s[j].type = "block" /\ s[j].block = c
      BY <1>1, <2>1, <2>2
    <3>2. ASSUME NEW k \in (j + 1)..Len(s) PROVE ~Closes(s[k], c)
      <4>1. k \in 1..Len(s) /\ k \in (j + 1)..Len(u)
        BY <1>1, <2>2
      <4> QED BY <1>1, <2>1, <4>1
    <3>3. OpenIn(s, c)
      BY <3>1, <3>2 DEF OpenIn, OpenAt
    <3>4. Len(s) + 1 \in (j + 1)..Len(u) /\ u[Len(s) + 1] = t[1]
      BY <1>1, <2>2
    <3> QED BY <2>1, <3>3, <3>4 DEF OpenAfterHead
  <2>3. CASE j > Len(s)
    <3>1. j - Len(s) \in 1..Len(t) /\ u[j] = t[j - Len(s)]
      <4>1. j - Len(s) \in 1..Len(t) /\ j = Len(s) + (j - Len(s))
        BY <1>1, <2>3
      <4> QED BY <1>1, <4>1
    <3>2. j - Len(s) = 1
      BY <1>1, <1>2, <2>1, <3>1
    <3> QED BY <2>1, <3>1, <3>2 DEF OpenAfterHead
  <2> QED BY <1>1, <2>2, <2>3
<1>4. ASSUME OpenAfterHead(s, t, c) PROVE OpenIn(u, c)
  <2>1. CASE t[1].type = "block" /\ t[1].block = c
    <3> DEFINE j == Len(s) + 1
    <3>1. j \in 1..Len(u) /\ u[j] = t[1]
      BY <1>1
    <3>2. ASSUME NEW k \in (j + 1)..Len(u) PROVE ~Closes(u[k], c)
      <4>1. k - Len(s) \in 2..Len(t) /\ k = Len(s) + (k - Len(s))
        BY <1>1
      <4>2. u[k] = t[k - Len(s)]
        BY <1>1, <4>1
      <4> QED BY <1>2, <4>1, <4>2
    <3> HIDE DEF j
    <3> QED BY <2>1, <3>1, <3>2 DEF OpenIn, OpenAt
  <2>2. CASE OpenIn(s, c) /\ ~Closes(t[1], c)
    <3>1. \A k \in 1..Len(t) : ~Closes(t[k], c)
      <4>1. \A k \in 1..Len(t) : k = 1 \/ k \in 2..Len(t)
        BY <1>1
      <4> QED BY <1>2, <2>2, <4>1
    <3>2. Len(t) \in 0..Len(t)
      BY <1>1
    <3>3. OpenAt(s, Len(s), c)
      BY <2>2 DEF OpenIn
    <3>4. OpenAt(u, Len(s) + Len(t), c)
      BY <3>1, <3>2, <3>3, OpenExtends DEF u
    <3> QED BY <1>1, <3>4 DEF OpenIn
  <2> QED BY <1>4, <2>1, <2>2 DEF OpenAfterHead
<1> QED BY <1>3, <1>4 DEF u

KnownIn(s) == {c \in Blocks : OpenIn(s, c)}

LEMMA KnownStep ==
  ASSUME NEW s \in Seq(DownstreamEvent), NEW t \in Seq(DownstreamEvent), AfterHead(t)
  PROVE  /\ t[1].type = "block" /\ t[1].block \in Blocks =>
              KnownIn(s \o t) = {c \in KnownIn(s) : HeightOf[c] # HeightOf[t[1].block]}
                                  \cup {t[1].block}
         /\ t[1].type = "rollback" /\ t[1].block \in Blocks =>
              KnownIn(s \o t) = {c \in KnownIn(s) : HeightOf[c] < HeightOf[t[1].block]}
         /\ t[1].type \notin {"block", "rollback"} => KnownIn(s \o t) = KnownIn(s)
<1>1. \A c \in Blocks : OpenIn(s \o t, c) <=> OpenAfterHead(s, t, c)
  BY HeadSettles
<1>2. \A c \in Blocks : HeightOf[c] \in Int
  BY HeightTyping DEF Heights
<1>3. ASSUME t[1].type = "block", t[1].block \in Blocks
      PROVE  KnownIn(s \o t) = {c \in KnownIn(s) : HeightOf[c] # HeightOf[t[1].block]}
                                 \cup {t[1].block}
  <2>1. \A c \in Blocks : OpenAfterHead(s, t, c) <=>
          c = t[1].block \/ (OpenIn(s, c) /\ HeightOf[c] # HeightOf[t[1].block])
    BY <1>3 DEF OpenAfterHead, Closes
  <2> QED BY <1>1, <1>3, <2>1 DEF KnownIn
<1>4. ASSUME t[1].type = "rollback", t[1].block \in Blocks
      PROVE  KnownIn(s \o t) = {c \in KnownIn(s) : HeightOf[c] < HeightOf[t[1].block]}
  <2>1. \A c \in Blocks : OpenAfterHead(s, t, c) <=>
          OpenIn(s, c) /\ HeightOf[c] < HeightOf[t[1].block]
    BY <1>2, <1>4 DEF OpenAfterHead, Closes
  <2> QED BY <1>1, <2>1 DEF KnownIn
<1>5. ASSUME t[1].type \notin {"block", "rollback"}
      PROVE  KnownIn(s \o t) = KnownIn(s)
  <2>1. \A c \in Blocks : OpenAfterHead(s, t, c) <=> OpenIn(s, c)
    BY <1>5 DEF OpenAfterHead, Closes
  <2> QED BY <1>1, <2>1 DEF KnownIn
<1> QED BY <1>3, <1>4, <1>5

DeliveryAt(s, i) == [at |-> i, block |-> s[i].block, offset |-> s[i].offset]
TxPositions(s) == {j \in 1..Len(s) : s[j].type = "tx"}
DeliveriesIn(s) == {DeliveryAt(s, i) : i \in TxPositions(s)}

(* What is new in b is of block b and is there once.                       *)
DeliversOf(old, new, b) ==
  /\ old \subseteq new
  /\ \A d \in new \ old :
       /\ d \in [at : Nat, block : Blocks, offset : Nat] /\ d.block = b
       /\ \A e \in new : e.offset = d.offset => e = d

LEMMA DeliveryStep ==
  ASSUME NEW s \in Seq(DownstreamEvent), NEW t \in Seq(DownstreamEvent),
         NEW b \in Blocks, SentOnce("tx", s \o t),
         \A k \in 1..Len(t) : t[k].type = "tx" => t[k].block = b
  PROVE  DeliversOf(DeliveriesIn(s), DeliveriesIn(s \o t), b)
<1> DEFINE u == s \o t
<1>1. /\ Len(s) \in Nat /\ Len(t) \in Nat /\ Len(u) = Len(s) + Len(t)
      /\ u \in Seq(DownstreamEvent)
      /\ \A k \in 1..Len(s) : u[k] = s[k]
      /\ \A k \in 1..Len(t) : u[Len(s) + k] = t[k]
  OBVIOUS
<1> HIDE DEF u
<1>2. DeliveriesIn(s) \subseteq DeliveriesIn(u)
  <2>1. ASSUME NEW i \in TxPositions(s)
        PROVE  i \in TxPositions(u) /\ DeliveryAt(s, i) = DeliveryAt(u, i)
    BY <1>1 DEF TxPositions, DeliveryAt
  <2> QED BY <2>1 DEF DeliveriesIn
<1>3. ASSUME NEW d \in DeliveriesIn(u) \ DeliveriesIn(s)
      PROVE  /\ d \in [at : Nat, block : Blocks, offset : Nat] /\ d.block = b
             /\ \A e \in DeliveriesIn(u) : e.offset = d.offset => e = d
  <2>1. PICK i \in TxPositions(u) : d = DeliveryAt(u, i)
    BY DEF DeliveriesIn
  <2>2. i \in 1..Len(u) /\ i \in Nat /\ u[i].type = "tx" /\ u[i] \in DownstreamEvent
    BY <1>1 DEF TxPositions
  <2>3. i > Len(s)
    <3>1. SUFFICES ASSUME i <= Len(s) PROVE FALSE
      BY <1>1, <2>2
    <3>2. i \in TxPositions(s) /\ DeliveryAt(s, i) = DeliveryAt(u, i)
      BY <1>1, <2>2, <3>1 DEF TxPositions, DeliveryAt
    <3> QED BY <2>1, <3>2 DEF DeliveriesIn
  <2>4. u[i].block = b
    <3>1. i - Len(s) \in 1..Len(t) /\ i = Len(s) + (i - Len(s))
      BY <1>1, <2>2, <2>3
    <3> QED BY <1>1, <2>2, <3>1
  <2>5. u[i].offset \in Nat
    BY <2>2 DEF DownstreamEvent
  <2>6. d \in [at : Nat, block : Blocks, offset : Nat] /\ d.block = b
    BY <2>1, <2>2, <2>4, <2>5 DEF DeliveryAt
  <2>7. ASSUME NEW e \in DeliveriesIn(u), e.offset = d.offset
        PROVE  e = d
    <3>1. PICK j \in TxPositions(u) : e = DeliveryAt(u, j)
      BY DEF DeliveriesIn
    <3>2. j \in 1..Len(u) /\ u[j].type = "tx" /\ u[j].offset = u[i].offset
      BY <2>1, <2>7, <3>1 DEF TxPositions, DeliveryAt
    <3>3. j = i
      BY <2>2, <3>2 DEF SentOnce, u
    <3> QED BY <2>1, <3>1, <3>3
  <2> QED BY <2>6, <2>7
<1> QED BY <1>2, <1>3 DEF DeliversOf, u

LEMMA NoDelivery ==
  ASSUME NEW s \in Seq(DownstreamEvent), NEW t \in Seq(DownstreamEvent),
         \A k \in 1..Len(t) : t[k].type # "tx"
  PROVE  DeliveriesIn(s \o t) = DeliveriesIn(s)
<1> DEFINE u == s \o t
<1>1. /\ Len(s) \in Nat /\ Len(t) \in Nat /\ Len(u) = Len(s) + Len(t)
      /\ \A k \in 1..Len(s) : u[k] = s[k]
      /\ \A k \in 1..Len(t) : u[Len(s) + k] = t[k]
  OBVIOUS
<1> HIDE DEF u
<1>2. ASSUME NEW i \in TxPositions(u)
      PROVE  i \in 1..Len(s)
  <2>1. i \in 1..Len(u) /\ u[i].type = "tx"
    BY DEF TxPositions
  <2>2. SUFFICES ASSUME i > Len(s) PROVE FALSE
    BY <1>1, <2>1
  <2>3. i - Len(s) \in 1..Len(t) /\ i = Len(s) + (i - Len(s))
    BY <1>1, <2>1, <2>2
  <2> QED BY <1>1, <2>1, <2>3
<1>3. TxPositions(u) = TxPositions(s)
  BY <1>1, <1>2 DEF TxPositions
<1>4. \A i \in TxPositions(s) : DeliveryAt(u, i) = DeliveryAt(s, i)
  BY <1>1 DEF TxPositions, DeliveryAt
<1> QED BY <1>3, <1>4 DEF DeliveriesIn, u

(* The refinement mapping, in these terms.                                 *)
LEMMA Mapping ==
  /\ KnownBlocks = KnownIn(Produced)
  /\ Deliveries = DeliveriesIn(Produced)
BY DEF KnownBlocks, KnownIn, OpenIn, Deliveries, DeliveriesIn, DeliveryAt, TxPositions

LEMMA MappingNext ==
  /\ KnownBlocks' = KnownIn(Produced')
  /\ Deliveries' = DeliveriesIn(Produced')
BY DEF KnownBlocks, KnownIn, OpenIn, Deliveries, DeliveriesIn, DeliveryAt, TxPositions

-------------------------------------------------------------------------------
(* Every step of the actor is a step of the stream, or none.               *)

OnceNext == SentOnce("tx", Produced')

LEMMA QuietStutters ==
  ASSUME Produced' = Produced
  PROVE  UNCHANGED <<KnownBlocks, Deliveries>>
BY DEF KnownBlocks, Deliveries

LEMMA AnnounceStep ==
  ASSUME TypeInv, EmitBlockApply
  PROVE  LET b == blockLog[blockIdx].block
         IN /\ b \in Blocks
            /\ KnownBlocks' = {c \in KnownBlocks : HeightOf[c] # HeightOf[b]} \cup {b}
            /\ OnceNext => Stream!Announce(b)
<1> DEFINE b == blockLog[blockIdx].block
           e == Event("block", b, Root, blockIdx, tipHeight' = HeightOf[b])
           txs == [i \in 1..Len(pendingApplied[b]) |-> TxEventAt(pendingApplied[b][i])]
           untxs == [i \in 1..Len(pendingUnapplied[b]) |->
                       UnappliedEventAt(pendingUnapplied[b][i])]
           t == <<e>> \o txs \o untxs
<1>1. b \in Blocks /\ Produced' = Produced \o t
  BY EmitBlockApplyStep
<1>2. txs \in Seq(TxEventsOf(b)) /\ untxs \in Seq(TxEventsOf(b))
  BY <1>1, ReplayedEvents
<1>3. e.type = "block" /\ e.block = b /\ e \in DownstreamEvent
  <2>1. blockIdx \in Nat
    BY DEF TypeInv, TypeOK
  <2> QED BY <1>1, <2>1 DEF Event, DownstreamEvent
<1> HIDE DEF b, e, txs, untxs
<1>4. /\ Len(t) \in Nat \ {0} /\ t[1] = e
      /\ \A k \in 2..Len(t) : t[k] \in TxEventsOf(b)
  BY <1>2, HeadedEvents
<1>5. t \in Seq(DownstreamEvent)
  <2>1. TxEventsOf(b) \subseteq DownstreamEvent
    BY DEF TxEventsOf
  <2>2. txs \in Seq(DownstreamEvent) /\ untxs \in Seq(DownstreamEvent)
    BY <1>2, <2>1, SeqOfSubset
  <2> QED BY <1>3, <2>2
<1> HIDE DEF t
<1>6. AfterHead(t) /\ \A k \in 1..Len(t) : t[k].type = "tx" => t[k].block = b
  <2>1. \A k \in 2..Len(t) : t[k].type \in {"tx", "unappliedTx"} /\ t[k].block = b
    BY <1>4 DEF TxEventsOf
  <2>2. \A k \in 1..Len(t) : k = 1 \/ k \in 2..Len(t)
    BY <1>4
  <2> QED BY <1>3, <1>4, <2>1, <2>2 DEF AfterHead
<1>7. Produced \in Seq(DownstreamEvent)
  BY ProducedTyping
<1>8. KnownBlocks' = {c \in KnownBlocks : HeightOf[c] # HeightOf[b]} \cup {b}
  BY <1>1, <1>3, <1>4, <1>5, <1>6, <1>7, KnownStep, Mapping, MappingNext
<1>9. OnceNext => DeliversOf(Deliveries, Deliveries', b)
  BY <1>1, <1>5, <1>6, <1>7, DeliveryStep, Mapping, MappingNext DEF OnceNext
<1>10. OnceNext => Stream!Announce(b)
  BY <1>1, <1>8, <1>9 DEF Stream!Announce, Stream!DeliverOf, Stream!Delivery, DeliversOf
<1> QED BY <1>1, <1>8, <1>10 DEF b

LEMMA RetractStep ==
  ASSUME TypeInv, EmitBlockUnapply
  PROVE  LET b == blockLog[blockIdx].block
         IN /\ b \in Blocks
            /\ KnownBlocks' = {c \in KnownBlocks : HeightOf[c] < HeightOf[b]}
            /\ Stream!Retract(b)
<1> DEFINE b == blockLog[blockIdx].block
           e == Event("rollback", b, Root, blockIdx, FALSE)
           untxs == [i \in 1..Len(pendingUnapplied[b]) |->
                       UnappliedEventAt(pendingUnapplied[b][i])]
           t == <<e>> \o untxs
<1>1. b \in Blocks /\ Produced' = Produced \o t
  BY EmitBlockUnapplyStep
<1>2. untxs \in Seq(TxEventsOf(b))
  BY <1>1, ReplayedEvents
<1>3. e.type = "rollback" /\ e.block = b /\ e \in DownstreamEvent
  <2>1. blockIdx \in Nat
    BY DEF TypeInv, TypeOK
  <2> QED BY <1>1, <2>1 DEF Event, DownstreamEvent
<1>4. \A i \in 1..Len(untxs) : untxs[i].type = "unappliedTx"
  <2>1. \A o : UnappliedEventAt(o).type = "unappliedTx"
    BY DEF UnappliedEventAt, Event
  <2> QED BY <2>1
<1> HIDE DEF b, e, untxs
<1>5. /\ Len(t) = Len(untxs) + 1 /\ Len(untxs) \in Nat
      /\ t[1] = e
      /\ \A k \in 2..Len(t) : t[k] = untxs[k - 1] /\ k - 1 \in 1..Len(untxs)
  BY <1>2
<1>6. t \in Seq(DownstreamEvent)
  <2>1. TxEventsOf(b) \subseteq DownstreamEvent
    BY DEF TxEventsOf
  <2>2. untxs \in Seq(DownstreamEvent)
    BY <1>2, <2>1, SeqOfSubset
  <2> QED BY <1>3, <2>2
<1> HIDE DEF t
<1>7. AfterHead(t) /\ \A k \in 1..Len(t) : t[k].type # "tx"
  <2>1. \A k \in 2..Len(t) : t[k].type = "unappliedTx"
    BY <1>4, <1>5
  <2>2. \A k \in 1..Len(t) : k = 1 \/ k \in 2..Len(t)
    BY <1>5
  <2>3. Len(t) \in Nat \ {0}
    BY <1>5
  <2> QED BY <1>3, <1>5, <2>1, <2>2, <2>3 DEF AfterHead
<1>8. Produced \in Seq(DownstreamEvent)
  BY ProducedTyping
<1>9. KnownBlocks' = {c \in KnownBlocks : HeightOf[c] < HeightOf[b]}
  BY <1>1, <1>3, <1>5, <1>6, <1>7, <1>8, KnownStep, Mapping, MappingNext
<1>10. Deliveries' = Deliveries
  BY <1>1, <1>6, <1>7, <1>8, NoDelivery, Mapping, MappingNext
<1>11. Stream!Retract(b)
  BY <1>1, <1>9, <1>10 DEF Stream!Retract
<1> QED BY <1>1, <1>9, <1>11 DEF b

(* One event that is no head: nothing becomes known or unknown.            *)
LEMMA OneEventStream ==
  ASSUME TypeInv, NEW e \in DownstreamEvent, Produced' = Produced \o <<e>>,
         e.type \notin {"block", "rollback"}
  PROVE  /\ KnownBlocks' = KnownBlocks
         /\ e.type # "tx" => Deliveries' = Deliveries
         /\ OnceNext /\ e.block \in Blocks =>
              DeliversOf(Deliveries, Deliveries', e.block)
<1> DEFINE t == <<e>>
<1>1. t \in Seq(DownstreamEvent) /\ Len(t) = 1 /\ t[1] = e
  OBVIOUS
<1>2. Produced' = Produced \o t
  OBVIOUS
<1> HIDE DEF t
<1>3. AfterHead(t) /\ \A k \in 1..Len(t) : t[k] = e
  BY <1>1 DEF AfterHead
<1>4. Produced \in Seq(DownstreamEvent)
  BY ProducedTyping
<1>5. KnownBlocks' = KnownBlocks
  BY <1>1, <1>2, <1>3, <1>4, KnownStep, Mapping, MappingNext
<1>6. e.type # "tx" => Deliveries' = Deliveries
  BY <1>1, <1>2, <1>3, <1>4, NoDelivery, Mapping, MappingNext
<1>7. OnceNext /\ e.block \in Blocks => DeliversOf(Deliveries, Deliveries', e.block)
  BY <1>1, <1>2, <1>3, <1>4, DeliveryStep, Mapping, MappingNext DEF OnceNext
<1> QED BY <1>5, <1>6, <1>7

LEMMA DeliverStep ==
  ASSUME TypeInv, OrderInv, ProcessAppliedTx \/ ProcessUnappliedTx
  PROVE  /\ KnownBlocks' = KnownBlocks
         /\ OnceNext => \E b \in Blocks : Stream!Deliver(b)
<1> DEFINE e == IF ProcessAppliedTx THEN TxEventAt(txIdx) ELSE UnappliedEventAt(txIdx)
           b == txLog[txIdx].block
<1>1. b \in emittedBlocks /\ Produced' = Produced \o <<e>>
  BY SendingTxTyping
<1>2. b \in Blocks /\ b \in KnownBlocks
  BY <1>1 DEF OrderInv, OpenInv, KnownBlocks, TypeInv, TypeOK
<1>3. <<TxEventAt(txIdx)>> \in Seq(DownstreamEvent)
      /\ <<UnappliedEventAt(txIdx)>> \in Seq(DownstreamEvent)
  BY TxTyping DEF TypeInv, ProcessAppliedTx, ProcessUnappliedTx
<1>4. TxEventAt(txIdx) \in DownstreamEvent /\ UnappliedEventAt(txIdx) \in DownstreamEvent
  <2> DEFINE p == TxEventAt(txIdx)
             q == UnappliedEventAt(txIdx)
  <2>1. <<p>>[1] = p /\ <<q>>[1] = q /\ 1 \in 1..Len(<<p>>) /\ 1 \in 1..Len(<<q>>)
    OBVIOUS
  <2> HIDE DEF p, q
  <2> QED BY <1>3, <2>1 DEF p, q
<1>5. e \in DownstreamEvent /\ e.type \in {"tx", "unappliedTx"} /\ e.block = b
  BY <1>4 DEF TxEventAt, UnappliedEventAt, Event
<1> HIDE DEF e, b
<1>6. KnownBlocks' = KnownBlocks /\ (OnceNext => DeliversOf(Deliveries, Deliveries', b))
  BY <1>1, <1>2, <1>5, OneEventStream
<1> QED
  BY <1>2, <1>6 DEF Stream!Deliver, Stream!DeliverOf, Stream!Delivery, DeliversOf

LEMMA MempoolStutters ==
  ASSUME TypeInv, HandleMempoolMessage
  PROVE  UNCHANGED <<KnownBlocks, Deliveries>>
<1>1. CASE Produced' = Produced
  BY <1>1, QuietStutters
<1>2. ASSUME NEW e \in DownstreamEvent, e.type \in {"accepted", "withdrawn"},
             Produced' = Produced \o <<e>>
      PROVE  UNCHANGED <<KnownBlocks, Deliveries>>
  BY <1>2, OneEventStream
<1> QED BY <1>1, <1>2, MempoolTyping

LEMMA StepImplements ==
  ASSUME TypeInv, OrderInv, OnceNext, [Next]_vars
  PROVE  Stream!StreamNext \/ UNCHANGED <<KnownBlocks, Deliveries>>
<1>1. CASE UNCHANGED vars
  BY <1>1, QuietStutters DEF vars, indexerVars, sendVars, Produced
<1>2. CASE FeedNext /\ UNCHANGED indexerVars
  BY <1>2, FeedStepTyping, QuietStutters
<1>3. CASE ControlStep
  BY <1>3, ControlTyping, QuietStutters
<1>4. CASE QuietBlockStep
  BY <1>4, QuietBlockTyping, SendingNothing, QuietStutters
<1>5. CASE EmitBlockApply
  BY <1>5, AnnounceStep DEF Stream!StreamNext
<1>6. CASE EmitBlockUnapply
  BY <1>6, RetractStep DEF Stream!StreamNext
<1>7. CASE QuietTxStep
  BY <1>7, QuietTxTyping, SendingNothing, QuietStutters
<1>8. CASE ProcessAppliedTx \/ ProcessUnappliedTx
  BY <1>8, DeliverStep DEF Stream!StreamNext
<1>9. CASE HandleMempoolMessage
  BY <1>9, MempoolStutters
<1> QED
  BY <1>1, <1>2, <1>3, <1>4, <1>5, <1>6, <1>7, <1>8, <1>9, StepCases

LEMMA InitImplements == Init => Stream!StreamInit
<1> SUFFICES ASSUME Init PROVE Stream!StreamInit
  OBVIOUS
<1>1. Len(Produced) = 0
  BY DEF Init, Produced
<1> QED BY <1>1 DEF Stream!StreamInit, KnownBlocks, Deliveries, OpenAt

-------------------------------------------------------------------------------
(* The stream of the IndexerActor is the one StrategyStream promises the   *)
(* strategies, unless the block reader is restarted (startKafka's          *)
(* lastBlockOffset sends it back to the start of the topic) or a           *)
(* deduplication set outgrows its limit (pruneOldBuffers forgets offsets). *)
THEOREM IndexerImplementsStream ==
  ASSUME "block" \notin RestartTopics
  PROVE  Spec /\ []WithinLimit => ImplementsStream
<1>1. Init => OrderInv /\ DedupInv /\ Stream!StreamInit
  BY OrderInit, DedupInit, InitImplements
<1>2. TypeInv /\ OrderInv /\ [Next]_vars => OrderInv'
  BY OrderStep
<1>3. TypeInv /\ DedupInv /\ WithinLimit /\ [Next]_vars => DedupInv'
  BY DedupStep
<1>4. TypeInv /\ OrderInv /\ DedupInv' /\ [Next]_vars =>
        [Stream!StreamNext]_<<KnownBlocks, Deliveries>>
  <2>1. DedupInv' => OnceNext
    BY DEF DedupInv, Dedup, OnceNext
  <2> QED BY <2>1, StepImplements
<1> QED
  BY <1>1, <1>2, <1>3, <1>4, TypeInvariant, PTL
     DEF Spec, ImplementsStream, Stream!StreamSpec, Stream!streamVars

-------------------------------------------------------------------------------
(* MirrorsChain.  While the node answers, the strategies know the chain as *)
(* it was at the block reader's position; and every transaction of the     *)
(* node's chain has been sent, or is unread while its block is known or    *)
(* will be, or is buffered while its block will be announced.              *)

KnownInv ==
  /\ nodeErrors \in Nat
  /\ nodeErrors = 0 => KnownBlocks = Before(blockIdx)

Sent(o) == \E i \in 1..Len(Produced) : Produced[i] = TxEventAt(o)
Unread(o) == o >= txIdx /\ o \notin processedTxOffsets
BufferedAs(o, b) == \E n \in 1..Len(pendingApplied[b]) : pendingApplied[b][n] = o
Awaited(b) ==
  \/ b \notin Before(blockIdx)
  \/ \E j \in blockIdx..Len(blockLog) : blockLog[j].kind = "apply" /\ blockLog[j].block = b

OnItsWay(o, b) ==
  \/ Sent(o)
  \/ Unread(o) /\ (b \in emittedBlocks \/ Awaited(b))
  \/ BufferedAs(o, b) /\ Awaited(b)

UnderWay(b) ==
  \E s \in 0..Len(txLog) :
    RunAt(b, s) /\ \A o \in (s + 1)..(s + NumTxs(b)) : OnItsWay(o, b)

MirrorInv ==
  /\ KnownInv
  /\ ~cursorLoaded /\ lastTxOffset = 0
  /\ nodeErrors = 0 =>
       \A b \in chain : HeightOf[b] >= InterceptHeight => UnderWay(b)

(* The readers keep within cfg.Kafka.MaxStragglersLookback of each other:  *)
(* when pruneOldBuffers drops what is older, no transaction of the node's  *)
(* chain is dropped that is still unread, or waits for its block.          *)
NoStraggler ==
  \A b \in chain, o \in 1..Len(txLog) :
    /\ txLog[o].kind = "applied" /\ txLog[o].block = b
    /\ HeightOf[b] >= InterceptHeight
    /\ Unread(o) \/ BufferedAs(o, b)
    => lastProcessedHeight' < tipHeight' \/ ~Straggler(HeightOf[b])

-------------------------------------------------------------------------------
(* What each kind of step leaves alone.                                    *)

MirrorConstants == ~cursorLoaded /\ lastTxOffset = 0 /\ nodeErrors \in Nat

LEMMA ConstantsStep ==
  ASSUME MirrorConstants, [Next]_vars
  PROVE  /\ MirrorConstants'
         /\ nodeErrors' = 0 => nodeErrors = 0 /\ ~DropApplyOnNodeError
<1>1. /\ UNCHANGED <<cursorLoaded, lastTxOffset>>
      /\ nodeErrors' \in {nodeErrors, nodeErrors + 1}
      /\ DropApplyOnNodeError => nodeErrors' = nodeErrors + 1
  <2>1. CASE UNCHANGED vars
    BY <2>1 DEF vars, indexerVars, cursorVars, readerVars, boundVars, DropApplyOnNodeError,
                NextBlock, MirrorConstants
  <2>2. CASE FeedNext /\ UNCHANGED indexerVars
    BY <2>2 DEF indexerVars, cursorVars, readerVars, boundVars, DropApplyOnNodeError,
                NextBlock, MirrorConstants
  <2>3. CASE StartKafka \/ SetDownstream \/ \E topic \in RestartTopics : RestartReader(topic)
    BY <2>3 DEF StartKafka, SetDownstream, RestartReader, cursorVars, readerVars, boundVars,
                DropApplyOnNodeError, MirrorConstants
  <2>4. CASE HandleBlockMessage
    BY <2>4 DEF HandleBlockMessage, SkipMalformedBlock, SkipDuplicateApply, DropApplyOnNodeError,
                EmitBlockApply, EmitBlockUnapply, NextBlock
  <2>5. CASE HandleTxMessage
    BY <2>5 DEF HandleTxMessage, SkipMalformedTx, SkipDuplicateTx, SkipAppliedTx, BufferAppliedTx,
                ProcessAppliedTx, SkipUnparsableUnapplied, BufferUnappliedTx,
                ProcessUnappliedTx, FreshTx, NextTx, boundVars, DropApplyOnNodeError
  <2>6. CASE HandleMempoolMessage
    BY <2>6 DEF HandleMempoolMessage, DropMempoolMessage, ForwardMempoolMessage, NextMempool,
                cursorVars, boundVars, DropApplyOnNodeError
  <2> QED BY <2>1, <2>2, <2>3, <2>4, <2>5, <2>6 DEF Next
<1> QED BY <1>1 DEF MirrorConstants

-------------------------------------------------------------------------------
(* The blocks the strategies know.                                         *)

(* While the node answers, a block message is passed over only if it does  *)
(* not decode: what is applied was not on the chain before.                *)
LEMMA QuietBlockMalformed ==
  ASSUME TypeInv, LogInv, IndexInv, QuietBlockStep, ~DropApplyOnNodeError
  PROVE  SkipMalformedBlock
<1>1. SUFFICES ASSUME SkipDuplicateApply PROVE FALSE
  BY DEF QuietBlockStep
<1>2. blockLog[blockIdx].block \in Before(blockIdx) /\ NextBlock("apply")
  BY <1>1 DEF SkipDuplicateApply, IndexInv
<1>3. Higher(blockLog[blockIdx].block, Before(blockIdx))
  BY <1>2, NextBefore DEF LinkOK
<1>4. blockLog[blockIdx].block \in Blocks
  BY <1>2, NextBlockTyping DEF TypeInv
<1> QED BY <1>2, <1>3, <1>4, HeightTyping DEF Higher, Heights

LEMMA BeforeTyping ==
  ASSUME TypeInv, IndexInv
  PROVE  /\ Before(blockIdx) \subseteq Blocks
         /\ \A b \in Blocks : HeightOf[b] \in Int
<1>1. \A b \in Blocks : HeightOf[b] \in Int
  BY HeightTyping DEF Heights
<1>2. PICK i \in 1..(Len(blockLog) + 1) : i = blockIdx
  BY DEF IndexInv
<1>3. i = 1 \/ blockLog[i - 1] \in BlockMessage
  BY <1>2 DEF TypeInv, TypeOK, FeedTypeOK
<1>4. Before(i) \subseteq Blocks
  BY <1>3 DEF Before, BlockMessage
<1> QED BY <1>1, <1>2, <1>4

LEMMA KnownSame ==
  ASSUME KnownInv, Produced' = Produced, Before(blockIdx)' = Before(blockIdx),
         nodeErrors' \in Nat, nodeErrors' = 0 => nodeErrors = 0
  PROVE  KnownInv'
BY DEF KnownInv, KnownBlocks

LEMMA KnownAnnounced ==
  ASSUME TypeInv, OrderInv, KnownInv, EmitBlockApply, UNCHANGED nodeErrors
  PROVE  KnownInv'
<1> DEFINE b == blockLog[blockIdx].block
<1>1. /\ b \in Blocks
      /\ KnownBlocks' = {c \in KnownBlocks : HeightOf[c] # HeightOf[b]} \cup {b}
  BY AnnounceStep
<1>2. Before(blockIdx)' = Before(blockIdx) \cup {b} /\ Higher(b, Before(blockIdx))
  BY NextBefore DEF EmitBlockApply, OrderInv, LinkOK
<1>3. Before(blockIdx) \subseteq Blocks /\ \A c \in Blocks : HeightOf[c] \in Int
  BY BeforeTyping DEF OrderInv
<1>4. \A c \in Before(blockIdx) : HeightOf[c] # HeightOf[b]
  BY <1>1, <1>2, <1>3 DEF Higher
<1> HIDE DEF b
<1>5. nodeErrors' = 0 => KnownBlocks' = Before(blockIdx)'
  BY <1>1, <1>2, <1>4 DEF KnownInv
<1> QED BY <1>5 DEF KnownInv

LEMMA KnownRetracted ==
  ASSUME TypeInv, OrderInv, KnownInv, EmitBlockUnapply, UNCHANGED nodeErrors
  PROVE  KnownInv'
<1> DEFINE b == blockLog[blockIdx].block
<1>1. b \in Blocks /\ KnownBlocks' = {c \in KnownBlocks : HeightOf[c] < HeightOf[b]}
  BY RetractStep
<1>2. Before(blockIdx)' = Before(blockIdx) \ {b} /\ Higher(b, Before(blockIdx) \ {b})
  BY NextBefore DEF EmitBlockUnapply, OrderInv, LinkOK
<1>3. Before(blockIdx) \subseteq Blocks /\ \A c \in Blocks : HeightOf[c] \in Int
  BY BeforeTyping DEF OrderInv
<1>4. \A c \in Before(blockIdx) : c # b <=> HeightOf[c] < HeightOf[b]
  BY <1>1, <1>2, <1>3 DEF Higher
<1> HIDE DEF b
<1>5. nodeErrors' = 0 => KnownBlocks' = Before(blockIdx)'
  BY <1>1, <1>2, <1>4 DEF KnownInv
<1> QED BY <1>5 DEF KnownInv

(* What the steps do to the position in the block topic.                   *)
LEMMA BeforeStep ==
  ASSUME "block" \notin RestartTopics, TypeInv, LogInv, IndexInv, [Next]_vars, ~DropApplyOnNodeError
  PROVE  \/ Before(blockIdx)' = Before(blockIdx)
         \/ EmitBlockApply \/ EmitBlockUnapply
<1>1. ASSUME UNCHANGED <<blockIdx, blockLog>>
      PROVE  Before(blockIdx)' = Before(blockIdx)
  BY <1>1 DEF Before
<1>2. CASE UNCHANGED vars
  BY <1>1, <1>2 DEF vars, feedVars, indexerVars, readerVars
<1>3. CASE FeedNext /\ UNCHANGED indexerVars
  <2>1. FeedTypeOK /\ FeedTypeOK' /\ IsGrownFrom(blockLog', blockLog) /\ UNCHANGED blockIdx
    BY <1>3, FeedTyping DEF TypeInv, TypeOK, indexerVars, readerVars
  <2>2. PICK i \in 1..(Len(blockLog) + 1) : i = blockIdx
    BY DEF IndexInv
  <2>3. Before(i)' = Before(i)
    BY <2>1, BeforeKept
  <2> QED BY <2>1, <2>2, <2>3 DEF Before
<1>4. CASE ControlStep
  BY <1>1, <1>4, ControlTyping
<1>5. CASE QuietBlockStep
  <2>1. NextBlock("malformed")
    BY <1>5, QuietBlockMalformed DEF SkipMalformedBlock
  <2> QED BY <2>1, NextBefore DEF LinkOK
<1>6. CASE QuietTxStep
  BY <1>1, <1>6, QuietTxTyping
<1>7. CASE ProcessAppliedTx \/ ProcessUnappliedTx
  BY <1>1, <1>7, SendingTxTyping
<1>8. CASE HandleMempoolMessage
  BY <1>1, <1>8, MempoolTyping
<1> QED BY <1>2, <1>3, <1>4, <1>5, <1>6, <1>7, <1>8, StepCases

LEMMA KnownInvStep ==
  ASSUME "block" \notin RestartTopics, TypeInv, OrderInv, KnownInv, MirrorConstants, [Next]_vars
  PROVE  KnownInv'
<1>0. nodeErrors' \in Nat /\ (nodeErrors' = 0 => nodeErrors = 0 /\ ~DropApplyOnNodeError)
  BY ConstantsStep DEF MirrorConstants
<1>1. SUFFICES ASSUME nodeErrors' = 0 PROVE KnownInv'
  BY <1>0 DEF KnownInv
<1>2. nodeErrors = 0 /\ ~DropApplyOnNodeError
  BY <1>0, <1>1
<1>3. CASE EmitBlockApply
  BY <1>3, KnownAnnounced DEF EmitBlockApply
<1>4. CASE EmitBlockUnapply
  BY <1>4, KnownRetracted DEF EmitBlockUnapply
<1>5. CASE ~EmitBlockApply /\ ~EmitBlockUnapply
  <2>1. Before(blockIdx)' = Before(blockIdx)
    BY <1>2, <1>5, BeforeStep DEF OrderInv
  <2>2. KnownBlocks' = KnownBlocks
    <3>1. CASE UNCHANGED vars
      BY <3>1, QuietStutters DEF vars, indexerVars, sendVars, Produced
    <3>2. CASE FeedNext /\ UNCHANGED indexerVars
      BY <3>2, FeedStepTyping, QuietStutters
    <3>3. CASE ControlStep
      BY <3>3, ControlTyping, QuietStutters
    <3>4. CASE QuietBlockStep
      BY <3>4, QuietBlockTyping, SendingNothing, QuietStutters
    <3>5. CASE QuietTxStep
      BY <3>5, QuietTxTyping, SendingNothing, QuietStutters
    <3>6. CASE ProcessAppliedTx \/ ProcessUnappliedTx
      BY <3>6, DeliverStep
    <3>7. CASE HandleMempoolMessage
      BY <3>7, MempoolStutters
    <3> QED BY <1>5, <3>1, <3>2, <3>3, <3>4, <3>5, <3>6, <3>7, StepCases
  <2> QED BY <1>0, <2>1, <2>2 DEF KnownInv
<1> QED BY <1>3, <1>4, <1>5

-------------------------------------------------------------------------------
(* A message that is on its way stays on it, in the steps of the block     *)
(* reader.                                                                 *)

LEMMA SentStays ==
  ASSUME Produced \in Seq(DownstreamEvent), NEW t \in Seq(DownstreamEvent),
         Produced' = Produced \o t,
         NEW o \in 1..Len(txLog), txLog'[o] = txLog[o], Sent(o)
  PROVE  Sent(o)'
<1>1. PICK i \in 1..Len(Produced) : Produced[i] = TxEventAt(o)
  BY DEF Sent
<1>2. i \in 1..Len(Produced') /\ Produced'[i] = Produced[i]
  OBVIOUS
<1>3. TxEventAt(o)' = TxEventAt(o)
  BY DEF TxEventAt
<1> QED BY <1>1, <1>2, <1>3 DEF Sent

LEMMA EventsIn ==
  ASSUME TypeInv, NEW b \in Blocks
  PROVE  /\ [i \in 1..Len(pendingApplied[b]) |-> TxEventAt(pendingApplied[b][i])]
              \in Seq(DownstreamEvent)
         /\ [i \in 1..Len(pendingUnapplied[b]) |->
               UnappliedEventAt(pendingUnapplied[b][i])] \in Seq(DownstreamEvent)
<1>1. TxEventsOf(b) \subseteq DownstreamEvent
  BY DEF TxEventsOf
<1> QED BY <1>1, ReplayedEvents, SeqOfSubset

LEMMA AnnouncedEvents ==
  ASSUME TypeInv, EmitBlockApply
  PROVE  \E t \in Seq(DownstreamEvent) :
           /\ Produced' = Produced \o t
           /\ \A o : BufferedAs(o, blockLog[blockIdx].block) =>
                \E k \in 1..Len(t) : t[k] = TxEventAt(o)
<1> DEFINE b == blockLog[blockIdx].block
           e == Event("block", b, Root, blockIdx, tipHeight' = HeightOf[b])
           txs == [i \in 1..Len(pendingApplied[b]) |-> TxEventAt(pendingApplied[b][i])]
           untxs == [i \in 1..Len(pendingUnapplied[b]) |->
                       UnappliedEventAt(pendingUnapplied[b][i])]
           t == <<e>> \o txs \o untxs
<1>1. b \in Blocks /\ Produced' = Produced \o t
  BY EmitBlockApplyStep
<1>2. txs \in Seq(DownstreamEvent) /\ untxs \in Seq(DownstreamEvent)
  BY <1>1, EventsIn
<1>3. e \in DownstreamEvent
  <2>1. blockIdx \in Nat
    BY DEF TypeInv, TypeOK
  <2> QED BY <1>1, <2>1 DEF Event, DownstreamEvent
<1>4. Len(txs) = Len(pendingApplied[b]) /\ Len(txs) \in Nat
  <2>1. pendingApplied \in [Blocks -> Seq(Nat)]
    BY DEF TypeInv, TypeOK
  <2> HIDE DEF b
  <2>2. Len(pendingApplied[b]) \in Nat
    BY <1>1, <2>1
  <2> QED BY <2>2
<1>5. ASSUME NEW o, BufferedAs(o, b)
      PROVE  \E n \in 1..Len(txs) : txs[n] = TxEventAt(o)
  BY <1>4, <1>5 DEF BufferedAs
<1> HIDE DEF b, e, txs, untxs
<1>6. /\ t \in Seq(DownstreamEvent)
      /\ \A n \in 1..Len(txs) : n + 1 \in 1..Len(t) /\ t[n + 1] = txs[n]
  BY <1>2, <1>3
<1> HIDE DEF t
<1>7. ASSUME NEW o, BufferedAs(o, b)
      PROVE  \E k \in 1..Len(t) : t[k] = TxEventAt(o)
  BY <1>5, <1>6, <1>7
<1> QED BY <1>1, <1>6, <1>7 DEF b

LEMMA RetractedEvents ==
  ASSUME TypeInv, EmitBlockUnapply
  PROVE  \E t \in Seq(DownstreamEvent) : Produced' = Produced \o t
<1> DEFINE b == blockLog[blockIdx].block
           e == Event("rollback", b, Root, blockIdx, FALSE)
           untxs == [i \in 1..Len(pendingUnapplied[b]) |->
                       UnappliedEventAt(pendingUnapplied[b][i])]
           t == <<e>> \o untxs
<1>1. b \in Blocks /\ Produced' = Produced \o t
  BY EmitBlockUnapplyStep
<1>2. untxs \in Seq(DownstreamEvent)
  BY <1>1, EventsIn
<1>3. e \in DownstreamEvent
  <2>1. blockIdx \in Nat
    BY DEF TypeInv, TypeOK
  <2> QED BY <1>1, <2>1 DEF Event, DownstreamEvent
<1> HIDE DEF b, e, untxs
<1>4. t \in Seq(DownstreamEvent)
  BY <1>2, <1>3
<1> QED BY <1>1, <1>4

(* Passing a message leaves what is awaited awaited, unless it is the one  *)
(* that announces the block; and what is rolled back is off the chain.     *)
LEMMA AwaitedPast ==
  ASSUME TypeInv, LogInv, IndexInv, NEW kind \in {"apply", "unapply", "malformed"}, NextBlock(kind),
         NEW b, b \notin Before(blockIdx) \/ Awaited(b),
         kind = "apply" => blockLog[blockIdx].block # b
  PROVE  Awaited(b)'
<1>1. /\ blockIdx \in 1..Len(blockLog) /\ blockIdx' = blockIdx + 1 /\ blockLog' = blockLog
      /\ blockLog[blockIdx].kind = kind
  BY NextBlockTyping, NextBefore DEF TypeInv
<1>2. CASE b \notin Before(blockIdx)
  <2>1. b \notin Before(blockIdx)'
    BY <1>2, NextBefore DEF LinkOK
  <2> QED BY <2>1 DEF Awaited
<1>3. ASSUME NEW j \in blockIdx..Len(blockLog), blockLog[j].kind = "apply", blockLog[j].block = b
      PROVE  Awaited(b)'
  <2>1. j # blockIdx
    BY <1>1, <1>3
  <2>2. j \in blockIdx'..Len(blockLog')
    BY <1>1, <2>1
  <2> QED BY <1>1, <1>3, <2>2 DEF Awaited
<1> QED BY <1>2, <1>3 DEF Awaited

LEMMA AnnouncedWay ==
  ASSUME TypeInv, LogInv, IndexInv, EmitBlockApply, NEW b \in Blocks,
         NEW o \in 1..Len(txLog), txLog[o].kind = "applied", txLog[o].block = b,
         Unread(o) \/ (BufferedAs(o, b) /\ ~Applies(blockIdx, b)) =>
           lastProcessedHeight' < tipHeight' \/ ~Straggler(HeightOf[b]),
         OnItsWay(o, b)
  PROVE  OnItsWay(o, b)'
<1> DEFINE c == blockLog[blockIdx].block
<1>1. PICK t \in Seq(DownstreamEvent) :
        /\ Produced' = Produced \o t
        /\ \A x : BufferedAs(x, c) => \E k \in 1..Len(t) : t[k] = TxEventAt(x)
  BY AnnouncedEvents
<1>2. /\ NextBlock("apply") /\ txIdx' = txIdx /\ txLog' = txLog
      /\ Produced \in Seq(DownstreamEvent)
  BY ProducedTyping DEF EmitBlockApply, NextBlock, feedVars
<1>3. PICK comp : PruneOldBuffers([pendingApplied EXCEPT ![c] = <<>>],
                           [pendingUnapplied EXCEPT ![c] = <<>>],
                           emittedBlocks \cup {c}, comp)
  BY DEF EmitBlockApply
<1>4. processedTxOffsets' \subseteq processedTxOffsets
  BY <1>3 DEF PruneOldBuffers, KeepNewest
<1>5. CASE Sent(o)
  BY <1>1, <1>2, <1>5, SentStays DEF OnItsWay
<1>6. CASE Unread(o)
  <2>1. lastProcessedHeight' < tipHeight' \/ ~Straggler(HeightOf[b])
    BY <1>6
  <2>2. Unread(o)'
    BY <1>2, <1>4, <1>6 DEF Unread
  <2>3. CASE b \in emittedBlocks \cup {c}
    <3>1. b \in emittedBlocks'
      BY <1>3, <2>1, <2>3 DEF PruneOldBuffers
    <3> QED BY <2>2, <3>1 DEF OnItsWay
  <2>4. CASE b \notin emittedBlocks \cup {c} /\ Awaited(b)
    BY <1>2, <2>2, <2>4, AwaitedPast DEF OnItsWay
  <2> QED BY <2>3, <2>4, <1>5 DEF OnItsWay
<1>7. CASE BufferedAs(o, b) /\ Awaited(b)
  <2>1. CASE b = c
    <3>1. PICK k \in 1..Len(t) : t[k] = TxEventAt(o)
      BY <1>1, <1>7, <2>1
    <3>2. Len(Produced) + k \in 1..Len(Produced') /\ Produced'[Len(Produced) + k] = t[k]
      BY <1>1, <1>2
    <3>3. TxEventAt(o)' = TxEventAt(o)
      BY <1>2 DEF TxEventAt
    <3> QED BY <3>1, <3>2, <3>3 DEF OnItsWay, Sent
  <2>2. CASE b # c
    <3>1. lastProcessedHeight' < tipHeight' \/ ~Straggler(HeightOf[b])
      BY <1>7, <2>2 DEF Applies
    <3>2. pendingApplied \in [Blocks -> Seq(Nat)]
      BY DEF TypeInv, TypeOK
    <3>3. pendingApplied'[b] = pendingApplied[b]
      BY <1>3, <2>2, <3>1, <3>2 DEF PruneOldBuffers
    <3>4. Awaited(b)'
      BY <1>2, <1>7, <2>2, AwaitedPast
    <3> QED BY <1>7, <3>3, <3>4 DEF OnItsWay, BufferedAs
  <2> QED BY <2>1, <2>2
<1> QED BY <1>5, <1>6, <1>7 DEF OnItsWay

LEMMA RetractedWay ==
  ASSUME TypeInv, LogInv, IndexInv, EmitBlockUnapply, NEW b \in Blocks,
         NEW o \in 1..Len(txLog), txLog[o].kind = "applied", txLog[o].block = b,
         Unread(o) \/ BufferedAs(o, b) =>
           lastProcessedHeight' < tipHeight' \/ ~Straggler(HeightOf[b]),
         OnItsWay(o, b)
  PROVE  OnItsWay(o, b)'
<1> DEFINE c == blockLog[blockIdx].block
<1>1. PICK t \in Seq(DownstreamEvent) : Produced' = Produced \o t
  BY RetractedEvents
<1>2. /\ NextBlock("unapply") /\ txIdx' = txIdx /\ txLog' = txLog
      /\ Produced \in Seq(DownstreamEvent)
  BY ProducedTyping DEF EmitBlockUnapply, NextBlock, feedVars
<1>3. PICK comp : PruneOldBuffers(pendingApplied, [pendingUnapplied EXCEPT ![c] = <<>>],
                                  emittedBlocks \ {c}, comp)
  BY DEF EmitBlockUnapply, EmittedAfterUnapply
<1>4. processedTxOffsets' \subseteq processedTxOffsets
  BY <1>3 DEF PruneOldBuffers, KeepNewest
<1>5. CASE Sent(o)
  BY <1>1, <1>2, <1>5, SentStays DEF OnItsWay
<1>6. CASE Unread(o) /\ (b \in emittedBlocks \/ Awaited(b))
  <2>1. lastProcessedHeight' < tipHeight' \/ ~Straggler(HeightOf[b])
    BY <1>6
  <2>2. Unread(o)'
    BY <1>2, <1>4, <1>6 DEF Unread
  <2>3. CASE b \in emittedBlocks /\ b # c
    <3>1. b \in emittedBlocks'
      BY <1>3, <2>1, <2>3 DEF PruneOldBuffers
    <3> QED BY <2>2, <3>1 DEF OnItsWay
  <2>4. CASE b = c
    <3>1. b \notin Before(blockIdx)'
      BY <1>2, <2>4, NextBefore DEF LinkOK
    <3>2. Awaited(b)'
      BY <3>1 DEF Awaited
    <3> QED BY <2>2, <3>2 DEF OnItsWay
  <2>5. CASE Awaited(b)
    <3>1. Awaited(b)'
      BY <1>2, <2>5, AwaitedPast
    <3> QED BY <2>2, <3>1 DEF OnItsWay
  <2> QED BY <1>6, <2>3, <2>4, <2>5
<1>7. CASE BufferedAs(o, b) /\ Awaited(b)
  <2>1. lastProcessedHeight' < tipHeight' \/ ~Straggler(HeightOf[b])
    BY <1>7
  <2>2. pendingApplied \in [Blocks -> Seq(Nat)]
    BY DEF TypeInv, TypeOK
  <2>3. pendingApplied'[b] = pendingApplied[b]
    BY <1>3, <2>1, <2>2 DEF PruneOldBuffers
  <2>4. Awaited(b)'
    BY <1>2, <1>7, AwaitedPast
  <2> QED BY <1>7, <2>3, <2>4 DEF OnItsWay, BufferedAs
<1> QED BY <1>5, <1>6, <1>7 DEF OnItsWay

-------------------------------------------------------------------------------
(* ... in the steps of the transaction reader ...                          *)

LEMMA TxStepLeaves ==
  ASSUME TypeInv, HandleTxMessage, NEW b \in Blocks
  PROVE  /\ txIdx \in 1..Len(txLog) /\ txIdx' = txIdx + 1
         /\ UNCHANGED <<txLog, blockLog, blockIdx, emittedBlocks, chain>>
         /\ processedTxOffsets' \subseteq processedTxOffsets \cup {txIdx}
         /\ \A o : BufferedAs(o, b) => BufferedAs(o, b)'
<1>1. PICK kind \in {"applied", "unapplied", "malformed"} : NextTx(kind)
  BY DEF HandleTxMessage, SkipMalformedTx, SkipDuplicateTx, SkipAppliedTx, BufferAppliedTx,
         ProcessAppliedTx, SkipUnparsableUnapplied, BufferUnappliedTx, ProcessUnappliedTx, FreshTx
<1>2. /\ txIdx \in 1..Len(txLog) /\ txIdx' = txIdx + 1
      /\ UNCHANGED <<txLog, blockLog, blockIdx, emittedBlocks, chain>>
  BY <1>1, NextTxTyping DEF TypeInv, NextTx
<1>3. processedTxOffsets' \subseteq processedTxOffsets \cup {txIdx}
  BY DEF HandleTxMessage, SkipMalformedTx, SkipDuplicateTx, SkipAppliedTx, BufferAppliedTx,
         ProcessAppliedTx, SkipUnparsableUnapplied, BufferUnappliedTx, ProcessUnappliedTx, FreshTx
<1>4. \/ UNCHANGED pendingApplied
      \/ BufferAppliedTx
  BY DEF HandleTxMessage, SkipMalformedTx, SkipDuplicateTx, SkipAppliedTx,
         ProcessAppliedTx, SkipUnparsableUnapplied, BufferUnappliedTx, ProcessUnappliedTx
<1>5. CASE UNCHANGED pendingApplied
  BY <1>2, <1>3, <1>5 DEF BufferedAs
<1>6. CASE BufferAppliedTx
  <2>1. pendingApplied \in [Blocks -> Seq(Nat)] /\ pendingApplied[b] \in Seq(Nat)
    BY DEF TypeInv, TypeOK
  <2>2. pendingApplied'[b] \in {pendingApplied[b], Append(pendingApplied[b], txIdx)}
    BY <1>6, <2>1 DEF BufferAppliedTx
  <2>3. ASSUME NEW n \in 1..Len(pendingApplied[b])
        PROVE  n \in 1..Len(pendingApplied'[b]) /\ pendingApplied'[b][n] = pendingApplied[b][n]
    <3>1. CASE pendingApplied'[b] = pendingApplied[b]
      BY <3>1
    <3>2. CASE pendingApplied'[b] = Append(pendingApplied[b], txIdx)
      BY <2>1, <3>2
    <3> QED BY <2>2, <3>1, <3>2
  <2> QED BY <1>2, <1>3, <2>3 DEF BufferedAs
<1> QED BY <1>4, <1>5, <1>6

LEMMA TxStepSent ==
  ASSUME TypeInv, HandleTxMessage, NEW o \in 1..Len(txLog), Sent(o)
  PROVE  Sent(o)'
<1>1. PICK kind \in {"applied", "unapplied", "malformed"} : NextTx(kind)
  BY DEF HandleTxMessage, SkipMalformedTx, SkipDuplicateTx, SkipAppliedTx, BufferAppliedTx,
         ProcessAppliedTx, SkipUnparsableUnapplied, BufferUnappliedTx, ProcessUnappliedTx, FreshTx
<1>2. txLog' = txLog
  BY <1>1, NextTxTyping DEF TypeInv
<1>3. CASE QuietTxStep
  <2>1. Produced' = Produced
    BY <1>3, QuietTxTyping, SendingNothing
  <2> QED BY <1>2, <2>1 DEF Sent, TxEventAt
<1>4. CASE ProcessAppliedTx \/ ProcessUnappliedTx
  <2>1. Produced \in Seq(DownstreamEvent)
    BY ProducedTyping
  <2>2. <<TxEventAt(txIdx)>> \in Seq(DownstreamEvent)
        /\ <<UnappliedEventAt(txIdx)>> \in Seq(DownstreamEvent)
    BY <1>4, TxTyping DEF TypeInv, ProcessAppliedTx, ProcessUnappliedTx
  <2>3. PICK t \in Seq(DownstreamEvent) : Produced' = Produced \o t
    BY <1>4, <2>2, SendingTxTyping
  <2> QED BY <1>2, <2>1, <2>3, SentStays
<1> QED BY <1>3, <1>4 DEF HandleTxMessage, QuietTxStep


(* The message itself, when its turn comes.                                *)
LEMMA ItsTurn ==
  ASSUME TypeInv, HandleTxMessage,
         NEW o, o = txIdx, Unread(o),
         NEW b, txLog[o].kind = "applied", txLog[o].block = b,
         ~SkippedHeight(HeightOf[b])
  PROVE  Sent(o)' \/ (b \notin emittedBlocks /\ BufferedAs(o, b)')
<1>1. b \in Blocks
  <2>1. PICK kind \in {"applied", "unapplied", "malformed"} : NextTx(kind)
    BY DEF HandleTxMessage, SkipMalformedTx, SkipDuplicateTx, SkipAppliedTx, BufferAppliedTx,
           ProcessAppliedTx, SkipUnparsableUnapplied, BufferUnappliedTx, ProcessUnappliedTx, FreshTx
  <2> QED BY <2>1, NextTxTyping DEF TypeInv
<1>2. BufferAppliedTx \/ ProcessAppliedTx
  BY DEF HandleTxMessage, SkipMalformedTx, SkipDuplicateTx, SkipAppliedTx,
              SkipUnparsableUnapplied, BufferUnappliedTx, ProcessUnappliedTx, FreshTx, NextTx, Unread
<1>3. CASE BufferAppliedTx
  <2>1. pendingApplied \in [Blocks -> Seq(Nat)] /\ pendingApplied[b] \in Seq(Nat)
    BY <1>1 DEF TypeInv, TypeOK
  <2>2. pendingApplied'[b] = Append(pendingApplied[b], o) /\ b \notin emittedBlocks
    BY <1>1, <1>3, <2>1 DEF BufferAppliedTx
  <2>3. Len(pendingApplied[b]) + 1 \in 1..Len(pendingApplied'[b])
        /\ pendingApplied'[b][Len(pendingApplied[b]) + 1] = o
    BY <2>1, <2>2
  <2> QED BY <2>2, <2>3 DEF BufferedAs
<1>4. CASE ProcessAppliedTx
  <2>1. Produced' = Produced \o <<TxEventAt(o)>>
    BY <1>4, SendingTxTyping
  <2>2. Produced \in Seq(DownstreamEvent)
    BY ProducedTyping
  <2>3. TxEventAt(o)' = TxEventAt(o)
    BY <1>4, TxTyping DEF TxEventAt, ProcessAppliedTx, TypeInv
  <2> DEFINE e == TxEventAt(o)
  <2> HIDE DEF e
  <2>4. Produced' = Produced \o <<e>>
    BY <2>1 DEF e
  <2>5. Len(Produced) + 1 \in 1..Len(Produced') /\ Produced'[Len(Produced) + 1] = e
    BY <2>2, <2>4
  <2> QED BY <2>3, <2>5 DEF Sent, e
<1> QED BY <1>2, <1>3, <1>4

LEMMA TxStepWay ==
  ASSUME TypeInv, HandleTxMessage, NEW b \in Blocks,
         NEW o \in 1..Len(txLog), txLog[o].kind = "applied", txLog[o].block = b,
         o = txIdx /\ Unread(o) => ~SkippedHeight(HeightOf[b]),
         OnItsWay(o, b)
  PROVE  OnItsWay(o, b)'
<1>1. /\ txIdx \in 1..Len(txLog) /\ txIdx' = txIdx + 1
      /\ UNCHANGED <<txLog, blockLog, blockIdx, emittedBlocks>>
      /\ processedTxOffsets' \subseteq processedTxOffsets \cup {txIdx}
      /\ BufferedAs(o, b) => BufferedAs(o, b)'
  BY TxStepLeaves
<1>2. Awaited(b)' <=> Awaited(b)
  BY <1>1 DEF Awaited, Before
<1>3. CASE Sent(o)
  BY <1>3, TxStepSent DEF OnItsWay
<1>4. CASE BufferedAs(o, b) /\ Awaited(b)
  BY <1>1, <1>2, <1>4 DEF OnItsWay
<1>5. CASE Unread(o) /\ (b \in emittedBlocks \/ Awaited(b))
  <2>1. CASE o = txIdx
    BY <1>2, <1>5, <2>1, ItsTurn DEF OnItsWay
  <2>2. CASE o # txIdx
    <3>1. Unread(o)'
      BY <1>1, <1>5, <2>2 DEF Unread
    <3> QED BY <1>1, <1>2, <1>5, <3>1 DEF OnItsWay
  <2> QED BY <2>1, <2>2
<1> QED BY <1>3, <1>4, <1>5 DEF OnItsWay

-------------------------------------------------------------------------------
(* ... and in all others.                                                  *)

LEMMA QuietWay ==
  ASSUME TypeInv, NEW b, NEW o \in 1..Len(txLog), OnItsWay(o, b),
         UNCHANGED <<emittedBlocks, pendingApplied>>,
         Sent(o) => Sent(o)', Unread(o) => Unread(o)', Awaited(b) => Awaited(b)'
  PROVE  OnItsWay(o, b)'
BY DEF OnItsWay, BufferedAs

LEMMA OtherKeeps ==
  ASSUME UNCHANGED vars \/ ControlStep \/ QuietBlockStep \/ HandleMempoolMessage
  PROVE  /\ UNCHANGED <<emittedBlocks, pendingApplied, processedTxOffsets, txLog>>
         /\ txIdx' \in {txIdx, ResumeOffset(lastTxOffset)}
<1>1. CASE UNCHANGED vars
  BY <1>1 DEF vars, feedVars, indexerVars, bufferVars, readerVars
<1>2. CASE ControlStep
  BY <1>2 DEF ControlStep, StartKafka, SetDownstream, RestartReader, feedVars, bufferVars,
              readerVars
<1>3. CASE QuietBlockStep
  BY <1>3 DEF QuietBlockStep, SkipMalformedBlock, SkipDuplicateApply, DropApplyOnNodeError,
              NextBlock, feedVars, bufferVars
<1>4. CASE HandleMempoolMessage
  BY <1>4 DEF HandleMempoolMessage, DropMempoolMessage, ForwardMempoolMessage, NextMempool, feedVars
<1> QED BY <1>1, <1>2, <1>3, <1>4

LEMMA OtherWay ==
  ASSUME "block" \notin RestartTopics, TypeInv, LogInv, IndexInv, ~DropApplyOnNodeError,
         UNCHANGED vars \/ ControlStep \/ QuietBlockStep \/ HandleMempoolMessage,
         NEW b, NEW o \in 1..Len(txLog), Unread(o) => Unread(o)', OnItsWay(o, b)
  PROVE  OnItsWay(o, b)'
<1>1. UNCHANGED <<emittedBlocks, pendingApplied, processedTxOffsets, txLog>>
  BY OtherKeeps
<1>2. Sent(o) => Sent(o)'
  <2>1. CASE Produced' = Produced
    BY <1>1, <2>1 DEF Sent, TxEventAt
  <2>2. ASSUME NEW e \in DownstreamEvent, Produced' = Produced \o <<e>>
        PROVE  Sent(o) => Sent(o)'
    <3>1. <<e>> \in Seq(DownstreamEvent)
      OBVIOUS
    <3> QED BY <1>1, <2>2, <3>1, ProducedTyping, SentStays
  <2>3. CASE UNCHANGED vars
    BY <2>1, <2>3 DEF vars, indexerVars, sendVars, Produced
  <2> QED BY <2>1, <2>2, <2>3, ControlTyping, QuietBlockTyping, SendingNothing, MempoolTyping
<1>3. Awaited(b) => Awaited(b)'
  <2>1. ASSUME UNCHANGED <<blockLog, blockIdx>>
        PROVE  Awaited(b) => Awaited(b)'
    BY <2>1 DEF Awaited, Before
  <2>2. CASE QuietBlockStep
    <3>1. NextBlock("malformed")
      BY <2>2, QuietBlockMalformed DEF SkipMalformedBlock
    <3> QED BY <3>1, AwaitedPast
  <2>3. CASE UNCHANGED vars
    BY <2>1, <2>3 DEF vars, feedVars, indexerVars, readerVars
  <2>4. CASE ControlStep
    BY <2>1, <2>4, ControlTyping
  <2>5. CASE HandleMempoolMessage
    BY <2>1, <2>5, MempoolTyping
  <2> QED BY <2>2, <2>3, <2>4, <2>5
<1> QED BY <1>1, <1>2, <1>3, QuietWay

-------------------------------------------------------------------------------
(* The reader of the transaction topic stays within it.                    *)

ReadInv ==
  txIdx \in 1..(Len(txLog) + 1) /\ processedTxOffsets \subseteq 1..Len(txLog)

LEMMA ReadStep ==
  ASSUME TypeInv, ReadInv, lastTxOffset = 0, [Next]_vars
  PROVE  ReadInv'
<1>1. Len(txLog) \in Nat
  BY DEF TypeInv, TypeOK, FeedTypeOK
<1>2. ASSUME UNCHANGED txLog, txIdx' \in {1, txIdx}, processedTxOffsets' \subseteq processedTxOffsets
      PROVE  ReadInv'
  BY <1>1, <1>2 DEF ReadInv
<1>3. CASE UNCHANGED vars \/ ControlStep \/ QuietBlockStep \/ HandleMempoolMessage
  <2>1. UNCHANGED <<processedTxOffsets, txLog>> /\ txIdx' \in {1, txIdx}
    BY <1>3 DEF vars, feedVars, indexerVars, readerVars, bufferVars, ControlStep, StartKafka, SetDownstream, RestartReader, ResumeOffset,
                QuietBlockStep, SkipMalformedBlock, SkipDuplicateApply, DropApplyOnNodeError,
                NextBlock, HandleMempoolMessage, DropMempoolMessage,
                ForwardMempoolMessage, NextMempool
  <2> QED BY <1>2, <2>1
<1>4. CASE EmitBlockApply \/ EmitBlockUnapply
  <2>1. UNCHANGED <<txIdx, txLog>> /\ processedTxOffsets' \subseteq processedTxOffsets
    BY <1>4 DEF EmitBlockApply, EmitBlockUnapply, NextBlock, PruneOldBuffers, KeepNewest, feedVars
  <2> QED BY <1>2, <2>1
<1>5. CASE HandleTxMessage
  <2>1. PICK kind \in {"applied", "unapplied", "malformed"} : NextTx(kind)
    BY <1>5 DEF HandleTxMessage, SkipMalformedTx, SkipDuplicateTx, SkipAppliedTx, BufferAppliedTx,
           ProcessAppliedTx, SkipUnparsableUnapplied, BufferUnappliedTx, ProcessUnappliedTx, FreshTx
  <2>2. txIdx \in 1..Len(txLog) /\ txIdx' = txIdx + 1 /\ UNCHANGED txLog
    BY <2>1, NextTxTyping DEF TypeInv
  <2>3. processedTxOffsets' \subseteq processedTxOffsets \cup {txIdx}
    BY <1>5 DEF HandleTxMessage, SkipMalformedTx, SkipDuplicateTx, SkipAppliedTx, BufferAppliedTx,
           ProcessAppliedTx, SkipUnparsableUnapplied, BufferUnappliedTx, ProcessUnappliedTx, FreshTx
  <2> QED BY <1>1, <2>2, <2>3 DEF ReadInv
<1>6. CASE FeedNext /\ UNCHANGED indexerVars
  <2>1. UNCHANGED <<txIdx, processedTxOffsets>>
    BY <1>6 DEF indexerVars, readerVars, bufferVars
  <2>2. Len(txLog) <= Len(txLog') /\ Len(txLog') \in Nat
    BY <1>6, FeedTyping DEF IsGrownFrom, FeedTypeOK, TypeInv, TypeOK
  <2> QED BY <1>1, <2>1, <2>2 DEF ReadInv
<1> QED BY <1>3, <1>4, <1>5, <1>6, StepCases DEF HandleTxMessage, QuietTxStep

-------------------------------------------------------------------------------
(* New messages are on their way.                                          *)

LEMMA FeedWay ==
  ASSUME TypeInv, IndexInv, FeedNext, UNCHANGED indexerVars,
         NEW b, NEW o \in 1..Len(txLog), OnItsWay(o, b)
  PROVE  OnItsWay(o, b)'
<1>1. /\ FeedTypeOK /\ FeedTypeOK' /\ IsGrownFrom(blockLog', blockLog)
      /\ IsGrownFrom(txLog', txLog)
  BY FeedTyping DEF TypeInv, TypeOK
<1>2. /\ UNCHANGED <<emittedBlocks, pendingApplied, txIdx, processedTxOffsets, blockIdx>>
      /\ Produced' = Produced
  BY FeedStepTyping DEF indexerVars, readerVars, bufferVars
<1>3. Sent(o) => Sent(o)'
  <2>1. txLog'[o] = txLog[o]
    BY <1>1 DEF IsGrownFrom
  <2> QED BY <1>2, <2>1 DEF Sent, TxEventAt
<1>4. Unread(o) => Unread(o)'
  BY <1>2 DEF Unread
<1>5. Awaited(b) => Awaited(b)'
  <2>1. PICK i \in 1..(Len(blockLog) + 1) : i = blockIdx
    BY DEF IndexInv
  <2>2. Before(i)' = Before(i)
    BY <1>1, BeforeKept
  <2>3. Before(blockIdx)' = Before(blockIdx)
    BY <1>2, <2>1, <2>2 DEF Before
  <2>4. ASSUME NEW j \in blockIdx..Len(blockLog)
        PROVE  j \in blockIdx'..Len(blockLog') /\ blockLog'[j] = blockLog[j]
    BY <1>1, <1>2, <2>1 DEF FeedTypeOK, IsGrownFrom
  <2> QED BY <2>3, <2>4 DEF Awaited
<1> QED BY <1>2, <1>3, <1>4, <1>5, QuietWay

LEMMA NewUnderWay ==
  ASSUME TypeInv, OrderInv, ReadInv, NEW b \in Blocks, PublishApply(b), UNCHANGED indexerVars
  PROVE  UnderWay(b)'
<1> DEFINE ms == TxMessages("applied", b)
<1>1. txLog' = txLog \o ms /\ blockLog' = Append(blockLog, [kind |-> "apply", block |-> b, chain |-> chain'])
  BY DEF PublishApply
<1>2. /\ ms \in Seq(TxMessage) /\ Len(ms) = NumTxs(b) /\ NumTxs(b) \in Nat
      /\ \A i \in 1..NumTxs(b) : /\ ms[i].kind = "applied" /\ ms[i].block = b
                                 /\ ms[i].tx = TxsOf[b][i]
  BY TxsTyping
<1>3. txLog \in Seq(TxMessage) /\ blockLog \in Seq(BlockMessage)
  BY DEF TypeInv, TypeOK, FeedTypeOK
<1> HIDE DEF ms
<1>4. PICK s \in Nat : s = Len(txLog)
  BY <1>3
<1>5. PICK n \in Nat : n = NumTxs(b)
  BY <1>2
<1>6. Len(txLog') = s + n /\ \A o \in (s + 1)..(s + n) : o - s \in 1..n /\ txLog'[o] = ms[o - s]
  <2>1. Len(txLog \o ms) = Len(txLog) + Len(ms)
    <3>1. txLog \in Seq(TxMessage) /\ ms \in Seq(TxMessage)
      BY <1>2, <1>3
    <3> HIDE <1>1
    <3> QED BY <3>1
  <2>2. ASSUME NEW o \in (s + 1)..(s + n)
        PROVE  o - s \in 1..n /\ txLog'[o] = ms[o - s]
    <3>1. o - s \in 1..n /\ o \in 1..(Len(txLog) + Len(ms)) /\ o > Len(txLog)
      BY <1>2, <1>4, <1>5
    <3>2. (txLog \o ms)[o] = ms[o - Len(txLog)]
      BY <1>2, <1>3, <3>1
    <3> QED BY <1>1, <1>4, <3>1, <3>2
  <2> QED BY <1>1, <1>2, <1>4, <1>5, <2>1, <2>2
<1>7. RunAt(b, s)'
  <2>1. s \in 0..(Len(txLog') - n)
    BY <1>6
  <2>2. \A o \in (s + 1)..(s + n) :
          txLog'[o].kind = "applied" /\ txLog'[o].block = b /\ txLog'[o].tx = TxsOf[b][o - s]
    BY <1>2, <1>5, <1>6
  <2> QED BY <1>5, <2>1, <2>2 DEF RunAt, NumTxs
<1>8. UNCHANGED <<txIdx, processedTxOffsets, blockIdx>>
  BY DEF indexerVars, readerVars, bufferVars
<1>9. Awaited(b)'
  <2>1. PICK j \in Nat : j = Len(blockLog) + 1
    BY <1>3
  <2>2. /\ j \in blockIdx'..Len(blockLog')
        /\ blockLog'[j].kind = "apply" /\ blockLog'[j].block = b
    <3>1. Len(blockLog') = j /\ blockLog'[j] = [kind |-> "apply", block |-> b, chain |-> chain']
      BY <1>1, <1>3, <2>1
    <3> QED BY <1>8, <2>1, <3>1 DEF OrderInv, IndexInv
  <2> QED BY <2>2 DEF Awaited
<1>10. ASSUME NEW o \in (s + 1)..(s + n)
       PROVE  OnItsWay(o, b)'
  <2>1. o >= txIdx /\ o \notin processedTxOffsets
    BY <1>4, <1>5 DEF ReadInv
  <2>2. Unread(o)'
    BY <1>8, <2>1 DEF Unread
  <2> QED BY <1>9, <2>2 DEF OnItsWay
<1>11. s \in 0..Len(txLog')
  BY <1>6
<1> QED BY <1>5, <1>7, <1>10, <1>11 DEF UnderWay, NumTxs

(* A block that stays on the chain stays under way, if its messages do.    *)
LEMMA UnderWayStays ==
  ASSUME FeedTypeOK, FeedTypeOK', IsGrownFrom(txLog', txLog),
         NEW b \in Blocks, UnderWay(b),
         \A o \in 1..Len(txLog) :
           /\ txLog[o].kind = "applied" /\ txLog[o].block = b /\ OnItsWay(o, b)
           => OnItsWay(o, b)'
  PROVE  UnderWay(b)'
<1>1. PICK s \in 0..Len(txLog) :
        RunAt(b, s) /\ \A o \in (s + 1)..(s + NumTxs(b)) : OnItsWay(o, b)
  BY DEF UnderWay
<1>2. RunAt(b, s)'
  BY <1>1, RunKept
<1>3. PICK n \in Nat : n = NumTxs(b)
  BY TxsTyping
<1>4. \A o \in (s + 1)..(s + n) :
        o \in 1..Len(txLog) /\ txLog[o].kind = "applied" /\ txLog[o].block = b
  <2>1. s + n <= Len(txLog) /\ Len(txLog) \in Nat
    BY <1>1, <1>3 DEF RunAt, FeedTypeOK
  <2> QED BY <1>1, <1>3, <2>1 DEF RunAt
<1>5. \A o \in (s + 1)..(s + n) : OnItsWay(o, b)'
  BY <1>1, <1>3, <1>4
<1>6. s \in 0..Len(txLog')
  BY DEF IsGrownFrom, FeedTypeOK
<1> QED BY <1>2, <1>3, <1>5, <1>6 DEF UnderWay, NumTxs

-------------------------------------------------------------------------------
(* How often a block joined the chain, and how often it was announced: each *)
(* message of the block topic was announced once at most, after it was read.*)

JoinsInv ==
  /\ applies \in [Blocks -> Nat]
  /\ \A b \in Blocks, i \in 1..Len(blockLog) : Applies(i, b) => applies[b] > 0
  /\ \A b \in Blocks, i, j \in 1..Len(blockLog) :
       Applies(i, b) /\ Applies(j, b) /\ i # j => applies[b] > 1

BlockEventsInv ==
  /\ SentOnce("block", Produced)
  /\ \A i \in 1..Len(Produced) : Produced[i].type = "block" =>
       /\ Produced[i].offset \in 1..Len(blockLog) /\ Produced[i].offset < blockIdx
       /\ Applies(Produced[i].offset, Produced[i].block)

LEMMA JoinsStep ==
  ASSUME FeedTypeOK, JoinsInv, FeedNext
  PROVE  JoinsInv'
<1>1. blockLog \in Seq(BlockMessage) /\ Len(blockLog) \in Nat /\ applies \in [Blocks -> Nat]
  BY DEF FeedTypeOK, JoinsInv
<1>2. ASSUME NEW m \in BlockMessage, blockLog' = Append(blockLog, m), m.kind # "apply",
             UNCHANGED applies
      PROVE  JoinsInv'
  <2>1. /\ Len(blockLog') = Len(blockLog) + 1 /\ blockLog'[Len(blockLog) + 1] = m
        /\ \A i \in 1..Len(blockLog) : blockLog'[i] = blockLog[i]
    BY <1>1, <1>2
  <2>2. \A i \in 1..Len(blockLog') : i \in 1..Len(blockLog) \/ i = Len(blockLog) + 1
    BY <1>1, <2>1
  <2>3. ASSUME NEW b \in Blocks, NEW i \in 1..Len(blockLog'), Applies(i, b)'
        PROVE  i \in 1..Len(blockLog) /\ Applies(i, b)
    BY <1>2, <2>1, <2>2, <2>3 DEF Applies
  <2> QED BY <1>1, <1>2, <2>3 DEF JoinsInv
<1>3. ASSUME NEW c \in Blocks, PublishApply(c)
      PROVE  JoinsInv'
  <2>1. /\ blockLog' = Append(blockLog, [kind |-> "apply", block |-> c, chain |-> chain'])
        /\ applies' = [applies EXCEPT ![c] = @ + 1]
    BY <1>3 DEF PublishApply
  <2>2. /\ Len(blockLog') = Len(blockLog) + 1 /\ blockLog'[Len(blockLog) + 1].block = c
        /\ \A i \in 1..Len(blockLog) : blockLog'[i] = blockLog[i]
    BY <1>1, <2>1
  <2>3. \A b \in Blocks : applies'[b] = IF b = c THEN applies[b] + 1 ELSE applies[b]
    BY <1>1, <2>1
  <2>4. applies' \in [Blocks -> Nat]
    BY <1>1, <2>1
  <2>5. ASSUME NEW b \in Blocks, NEW i \in 1..Len(blockLog'), Applies(i, b)'
        PROVE  \/ i \in 1..Len(blockLog) /\ Applies(i, b)
               \/ i = Len(blockLog) + 1 /\ b = c
    <3>1. i \in 1..Len(blockLog) \/ i = Len(blockLog) + 1
      BY <1>1, <2>2
    <3> QED BY <2>2, <2>5, <3>1 DEF Applies
  <2>6. ASSUME NEW b \in Blocks, NEW i \in 1..Len(blockLog'), NEW j \in 1..Len(blockLog'),
               Applies(i, b)', Applies(j, b)', i # j
        PROVE  applies'[b] > 1
    <3>1. applies[b] \in Nat /\ applies'[b] \in Nat /\ applies'[b] >= applies[b]
      BY <1>1, <2>3, <2>4
    <3>2. CASE i \in 1..Len(blockLog) /\ Applies(i, b) /\ j \in 1..Len(blockLog) /\ Applies(j, b)
      <4>1. applies[b] > 1
        BY <2>6, <3>2 DEF JoinsInv
      <4> QED BY <3>1, <4>1
    <3>3. CASE b = c /\ \E k \in 1..Len(blockLog) : Applies(k, b)
      <4>1. applies[b] > 0 /\ applies'[b] = applies[b] + 1
        BY <2>3, <3>3 DEF JoinsInv
      <4> QED BY <3>1, <4>1
    <3> QED BY <2>5, <2>6, <3>2, <3>3
  <2>7. ASSUME NEW b \in Blocks, NEW i \in 1..Len(blockLog'), Applies(i, b)'
        PROVE  applies'[b] > 0
    <3>1. applies[b] \in Nat
      BY <1>1
    <3>2. CASE Applies(i, b) /\ i \in 1..Len(blockLog)
      <4>1. applies[b] > 0
        BY <3>2 DEF JoinsInv
      <4> QED BY <2>3, <3>1, <4>1
    <3>3. CASE b = c
      BY <2>3, <3>1, <3>3
    <3> QED BY <2>5, <2>7, <3>2, <3>3
  <2> QED BY <2>4, <2>6, <2>7 DEF JoinsInv
<1>4. ASSUME NEW c \in Blocks, PublishUnapply(c)
      PROVE  JoinsInv'
  <2>1. [kind |-> "unapply", block |-> c, chain |-> chain'] \in BlockMessage
    BY <1>4 DEF PublishUnapply, BlockMessage, FeedTypeOK
  <2> QED BY <1>2, <1>4, <2>1 DEF PublishUnapply
<1>5. CASE PublishMalformedBlock
  <2>1. [kind |-> "malformed", block |-> Root, chain |-> chain] \in BlockMessage
    BY DEF BlockMessage, FeedTypeOK
  <2> QED BY <1>2, <1>5, <2>1 DEF PublishMalformedBlock
<1>6. ASSUME UNCHANGED <<blockLog, applies>>
      PROVE  JoinsInv'
  BY <1>6 DEF JoinsInv, Applies
<1> QED BY <1>3, <1>4, <1>5, <1>6
        DEF FeedNext, PublishMempool, PublishMalformedTx, PublishMalformedMempool

(* Nothing is announced.                                                   *)
LEMMA NoBlockEvent ==
  ASSUME TypeInv, BlockEventsInv, NEW t \in Seq(DownstreamEvent), Produced' = Produced \o t,
         \A k \in 1..Len(t) : t[k].type # "block",
         blockIdx' >= blockIdx, blockIdx' \in Int, IsGrownFrom(blockLog', blockLog)
  PROVE  BlockEventsInv'
<1>1. Produced \in Seq(DownstreamEvent) /\ blockIdx \in Int /\ Len(blockLog) \in Nat
  BY ProducedTyping DEF TypeInv, TypeOK, FeedTypeOK
<1>2. Offsets("block", t) = {} /\ SentOnce("block", t)
  BY DEF Offsets, SentOnce
<1>3. SentOnce("block", Produced')
  BY <1>1, <1>2, SendOnce DEF BlockEventsInv
<1>4. ASSUME NEW i \in 1..Len(Produced'), Produced'[i].type = "block"
      PROVE  i \in 1..Len(Produced) /\ Produced'[i] = Produced[i]
  <2>1. \/ i \in 1..Len(Produced) /\ Produced'[i] = Produced[i]
        \/ i - Len(Produced) \in 1..Len(t) /\ Produced'[i] = t[i - Len(Produced)]
    BY <1>1
  <2> QED BY <1>4, <2>1
<1>5. ASSUME NEW o \in 1..Len(blockLog), o < blockIdx, NEW b, Applies(o, b)
      PROVE  o \in 1..Len(blockLog') /\ o < blockIdx' /\ Applies(o, b)'
  BY <1>1, <1>5 DEF IsGrownFrom, Applies
<1> QED BY <1>3, <1>4, <1>5 DEF BlockEventsInv

LEMMA BlockEventNext ==
  ASSUME TypeInv, IndexInv, BlockEventsInv, EmitBlockApply
  PROVE  BlockEventsInv'
<1> DEFINE b == blockLog[blockIdx].block
           e == Event("block", b, Root, blockIdx, tipHeight' = HeightOf[b])
           txs == [i \in 1..Len(pendingApplied[b]) |-> TxEventAt(pendingApplied[b][i])]
           untxs == [i \in 1..Len(pendingUnapplied[b]) |->
                       UnappliedEventAt(pendingUnapplied[b][i])]
           t == <<e>> \o txs \o untxs
<1>1. b \in Blocks /\ Produced' = Produced \o t
  BY EmitBlockApplyStep
<1>2. txs \in Seq(TxEventsOf(b)) /\ untxs \in Seq(TxEventsOf(b))
  BY <1>1, ReplayedEvents
<1>3. /\ blockIdx \in 1..Len(blockLog) /\ blockIdx' = blockIdx + 1 /\ UNCHANGED blockLog
      /\ Applies(blockIdx, b) /\ Len(blockLog) \in Nat
  <2>1. NextBlock("apply")
    BY DEF EmitBlockApply
  <2>2. blockIdx \in 1..Len(blockLog) /\ blockIdx' = blockIdx + 1 /\ UNCHANGED blockLog
    BY <2>1, NextBlockTyping DEF TypeInv
  <2> QED BY <2>1, <2>2 DEF NextBlock, Applies, TypeInv, TypeOK, FeedTypeOK
<1>4. e.type = "block" /\ e.block = b /\ e.offset = blockIdx /\ e \in DownstreamEvent
  <2>1. e.type = "block" /\ e.block = b /\ e.offset = blockIdx
    BY DEF Event
  <2>2. blockIdx \in Nat
    BY <1>3
  <2>3. ASSUME NEW B, B \in BOOLEAN
        PROVE  Event("block", b, Root, blockIdx, B) \in DownstreamEvent
    BY <1>1, <2>2, <2>3 DEF Event, DownstreamEvent
  <2>4. (tipHeight' = HeightOf[b]) \in BOOLEAN
    OBVIOUS
  <2>5. e \in DownstreamEvent
    BY <2>3, <2>4
  <2> QED BY <2>1, <2>5
<1> HIDE DEF b, e, txs, untxs
<1>5. /\ Len(t) \in Nat \ {0} /\ t[1] = e
      /\ \A k \in 2..Len(t) : t[k] \in TxEventsOf(b)
  BY <1>2, HeadedEvents
<1>6. t \in Seq(DownstreamEvent)
  <2>1. TxEventsOf(b) \subseteq DownstreamEvent
    BY DEF TxEventsOf
  <2>2. txs \in Seq(DownstreamEvent) /\ untxs \in Seq(DownstreamEvent)
    BY <1>2, <2>1, SeqOfSubset
  <2> QED BY <1>4, <2>2
<1> HIDE DEF t
<1>7. \A k \in 1..Len(t) : t[k].type = "block" => k = 1
  <2>1. \A k \in 2..Len(t) : t[k].type # "block"
    BY <1>5 DEF TxEventsOf
  <2>2. \A k \in 1..Len(t) : k = 1 \/ k \in 2..Len(t)
    BY <1>5
  <2> QED BY <2>1, <2>2
<1>8. Produced \in Seq(DownstreamEvent) /\ Len(Produced) \in Nat
  BY ProducedTyping
<1>9. SentOnce("block", Produced')
  <2>1. SentOnce("block", t)
    BY <1>7 DEF SentOnce
  <2>2. \A o \in Offsets("block", t) : o = blockIdx
    BY <1>4, <1>5, <1>7 DEF Offsets
  <2>3. \A o \in Offsets("block", Produced) : o < blockIdx /\ o \in Int
    BY DEF Offsets, BlockEventsInv
  <2>4. Offsets("block", Produced) \cap Offsets("block", t) = {}
    BY <1>3, <2>2, <2>3
  <2> QED BY <1>1, <1>6, <1>8, <2>1, <2>4, SendOnce DEF BlockEventsInv
<1>10. ASSUME NEW i \in 1..Len(Produced'), Produced'[i].type = "block"
       PROVE  /\ Produced'[i].offset \in 1..Len(blockLog) /\ Produced'[i].offset < blockIdx + 1
              /\ Applies(Produced'[i].offset, Produced'[i].block)
  <2>1. \/ i \in 1..Len(Produced) /\ Produced'[i] = Produced[i]
        \/ i - Len(Produced) \in 1..Len(t) /\ Produced'[i] = t[i - Len(Produced)]
    BY <1>1, <1>6, <1>8
  <2>2. CASE i \in 1..Len(Produced) /\ Produced'[i] = Produced[i]
    BY <1>3, <1>10, <2>2 DEF BlockEventsInv
  <2>3. CASE i - Len(Produced) \in 1..Len(t) /\ Produced'[i] = t[i - Len(Produced)]
    <3>1. Produced'[i] = e
      BY <1>5, <1>7, <1>10, <2>3
    <3> QED BY <1>3, <1>4, <3>1
  <2> QED BY <2>1, <2>2, <2>3
<1>11. \A o, c : Applies(o, c)' <=> Applies(o, c)
  BY <1>3 DEF Applies
<1> QED BY <1>3, <1>9, <1>10, <1>11 DEF BlockEventsInv

LEMMA BlockEventsStep ==
  ASSUME "block" \notin RestartTopics, TypeInv, OrderInv, BlockEventsInv, [Next]_vars
  PROVE  BlockEventsInv'
<1>1. Produced \in Seq(DownstreamEvent) /\ FeedTypeOK /\ blockIdx \in Int
  BY ProducedTyping DEF TypeInv, TypeOK
<1>2. ASSUME NEW t \in Seq(DownstreamEvent), Produced' = Produced \o t,
             \A k \in 1..Len(t) : t[k].type # "block",
             blockIdx' \in {blockIdx, blockIdx + 1}, UNCHANGED blockLog
      PROVE  BlockEventsInv'
  <2>1. IsGrownFrom(blockLog', blockLog)
    BY <1>1, <1>2 DEF IsGrownFrom, FeedTypeOK
  <2>2. blockIdx' >= blockIdx /\ blockIdx' \in Int
    BY <1>1, <1>2
  <2> QED BY <1>2, <2>1, <2>2, NoBlockEvent
<1>3. ASSUME Produced' = Produced, blockIdx' \in {blockIdx, blockIdx + 1}, UNCHANGED blockLog
      PROVE  BlockEventsInv'
  <2> DEFINE t == <<>>
  <2>1. t \in Seq(DownstreamEvent) /\ Produced' = Produced \o t /\ \A k \in 1..Len(t) : FALSE
    BY <1>1, <1>3, ConcatEmptySeq
  <2> HIDE DEF t
  <2> QED BY <1>2, <1>3, <2>1
<1>4. ASSUME NEW e \in DownstreamEvent, e.type # "block", Produced' = Produced \o <<e>>,
             UNCHANGED <<blockIdx, blockLog>>
      PROVE  BlockEventsInv'
  <2> DEFINE t == <<e>>
  <2>1. t \in Seq(DownstreamEvent) /\ Produced' = Produced \o t
        /\ \A k \in 1..Len(t) : t[k].type # "block"
    BY <1>4
  <2> HIDE DEF t
  <2> QED BY <1>2, <1>4, <2>1
<1>5. CASE UNCHANGED vars
  BY <1>3, <1>5 DEF vars, feedVars, indexerVars, readerVars, sendVars, Produced
<1>6. CASE FeedNext /\ UNCHANGED indexerVars
  <2>1. IsGrownFrom(blockLog', blockLog) /\ Produced' = Produced /\ UNCHANGED blockIdx
    BY <1>1, <1>6, FeedTyping, FeedStepTyping DEF indexerVars, readerVars
  <2> DEFINE t == <<>>
  <2>2. t \in Seq(DownstreamEvent) /\ Produced' = Produced \o t /\ \A k \in 1..Len(t) : FALSE
    BY <1>1, <2>1, ConcatEmptySeq
  <2> HIDE DEF t
  <2>3. blockIdx' >= blockIdx /\ blockIdx' \in Int
    BY <1>1, <2>1
  <2> QED BY <2>1, <2>2, <2>3, NoBlockEvent
<1>7. CASE ControlStep
  BY <1>3, <1>7, ControlTyping
<1>8. CASE QuietBlockStep
  BY <1>3, <1>8, QuietBlockTyping, SendingNothing
<1>9. CASE EmitBlockApply
  BY <1>9, BlockEventNext DEF OrderInv
<1>10. CASE EmitBlockUnapply
  <2> DEFINE b == blockLog[blockIdx].block
             e == Event("rollback", b, Root, blockIdx, FALSE)
             untxs == [i \in 1..Len(pendingUnapplied[b]) |->
                         UnappliedEventAt(pendingUnapplied[b][i])]
             t == <<e>> \o untxs
  <2>1. b \in Blocks /\ Produced' = Produced \o t
    BY <1>10, EmitBlockUnapplyStep
  <2>2. untxs \in Seq(TxEventsOf(b))
    BY <2>1, ReplayedEvents
  <2>3. e \in DownstreamEvent /\ e.type # "block"
    <3>1. blockIdx \in Nat
      BY DEF TypeInv, TypeOK
    <3> QED BY <2>1, <3>1 DEF Event, DownstreamEvent
  <2>4. blockIdx' = blockIdx + 1 /\ UNCHANGED blockLog
    BY <1>10, NextBlockTyping DEF EmitBlockUnapply, TypeInv
  <2> HIDE DEF b, e, untxs
  <2>5. untxs \in Seq(DownstreamEvent) /\ \A k \in 1..Len(untxs) : untxs[k].type # "block"
    <3>1. TxEventsOf(b) \subseteq DownstreamEvent
      BY DEF TxEventsOf
    <3>2. \A k \in 1..Len(untxs) : untxs[k] \in TxEventsOf(b)
      BY <2>2
    <3> QED BY <2>2, <3>1, <3>2, SeqOfSubset DEF TxEventsOf
  <2>6. /\ t \in Seq(DownstreamEvent) /\ Len(t) = Len(untxs) + 1 /\ Len(untxs) \in Nat /\ t[1] = e
        /\ \A k \in 2..Len(t) : t[k] = untxs[k - 1] /\ k - 1 \in 1..Len(untxs)
    BY <2>3, <2>5
  <2> HIDE DEF t
  <2>7. \A k \in 1..Len(t) : t[k].type # "block"
    <3>1. \A k \in 1..Len(t) : k = 1 \/ k \in 2..Len(t)
      BY <2>6
    <3> QED BY <2>3, <2>5, <2>6, <3>1
  <2> QED BY <1>2, <2>1, <2>4, <2>6, <2>7
<1>11. CASE QuietTxStep
  BY <1>3, <1>11, QuietTxTyping, SendingNothing
<1>12. CASE ProcessAppliedTx \/ ProcessUnappliedTx
  <2> DEFINE p == TxEventAt(txIdx)
             q == UnappliedEventAt(txIdx)
  <2>1. <<p>> \in Seq(DownstreamEvent) /\ <<q>> \in Seq(DownstreamEvent)
    BY <1>12, TxTyping DEF TypeInv, ProcessAppliedTx, ProcessUnappliedTx
  <2>2. p.type # "block" /\ q.type # "block"
    BY DEF TxEventAt, UnappliedEventAt, Event
  <2>3. /\ UNCHANGED <<blockIdx, blockLog>>
        /\ Produced' = Produced \o <<IF ProcessAppliedTx THEN p ELSE q>>
    BY <1>12, SendingTxTyping
  <2> HIDE DEF p, q
  <2>4. <<p>>[1] = p /\ <<q>>[1] = q /\ 1 \in 1..Len(<<p>>) /\ 1 \in 1..Len(<<q>>)
    OBVIOUS
  <2>5. p \in DownstreamEvent /\ q \in DownstreamEvent
    BY <2>1, <2>4
  <2> QED BY <1>4, <2>2, <2>3, <2>5
<1>13. CASE HandleMempoolMessage
  BY <1>3, <1>4, <1>13, MempoolTyping
<1> QED BY <1>5, <1>6, <1>7, <1>8, <1>9, <1>10, <1>11, <1>12, <1>13, StepCases

-------------------------------------------------------------------------------
(* The step of the invariant, and the theorem.                             *)

LEMMA MirrorStep ==
  ASSUME "block" \notin RestartTopics, TypeInv, TypeInv', OrderInv, ReadInv, MirrorInv,
         [Next]_vars, [NoStraggler]_vars
  PROVE  MirrorInv'
<1>1. MirrorConstants
  BY DEF MirrorInv, KnownInv, MirrorConstants
<1>2. MirrorConstants' /\ (nodeErrors' = 0 => nodeErrors = 0 /\ ~DropApplyOnNodeError)
  BY <1>1, ConstantsStep
<1>3. KnownInv'
  BY <1>1, KnownInvStep DEF MirrorInv
<1>4. SUFFICES ASSUME nodeErrors' = 0, NEW b \in chain', HeightOf[b] >= InterceptHeight
               PROVE  UnderWay(b)'
  BY <1>2, <1>3 DEF MirrorInv, MirrorConstants
<1>5. ~DropApplyOnNodeError /\ nodeErrors = 0 /\ ~cursorLoaded /\ lastTxOffset = 0
  BY <1>1, <1>2, <1>4 DEF MirrorConstants
<1>6. FeedTypeOK /\ FeedTypeOK'
  BY DEF TypeInv, TypeOK
<1>7. b \in Blocks
  BY <1>6 DEF FeedTypeOK
<1>8. IsGrownFrom(txLog', txLog) /\ (~(FeedNext /\ UNCHANGED indexerVars) => chain' = chain)
  <2>1. ASSUME UNCHANGED <<txLog, chain>>
        PROVE  IsGrownFrom(txLog', txLog) /\ chain' = chain
    BY <1>6, <2>1 DEF IsGrownFrom, FeedTypeOK
  <2>2. CASE UNCHANGED vars
    BY <2>1, <2>2 DEF vars, feedVars
  <2>3. CASE FeedNext /\ UNCHANGED indexerVars
    BY <1>6, <2>3, FeedTyping
  <2>4. CASE ControlStep
    BY <2>1, <2>4 DEF ControlStep, StartKafka, SetDownstream, RestartReader, feedVars
  <2>5. CASE HandleBlockMessage
    BY <2>1, <2>5 DEF HandleBlockMessage, SkipMalformedBlock, SkipDuplicateApply,
         DropApplyOnNodeError, EmitBlockApply, EmitBlockUnapply, NextBlock, feedVars
  <2>6. CASE HandleTxMessage
    BY <1>7, <2>1, <2>6, TxStepLeaves
  <2>7. CASE HandleMempoolMessage
    BY <2>1, <2>7 DEF HandleMempoolMessage, DropMempoolMessage, ForwardMempoolMessage,
                      NextMempool, feedVars
  <2> QED BY <2>2, <2>3, <2>4, <2>5, <2>6, <2>7 DEF Next, ControlStep
<1>9. CASE b \notin chain
  <2>1. FeedNext /\ UNCHANGED indexerVars
    BY <1>4, <1>8, <1>9
  <2>2. PublishApply(b)
    BY <1>4, <1>9, <2>1
       DEF FeedNext, PublishApply, PublishUnapply, PublishMempool, PublishMalformedBlock,
           PublishMalformedTx, PublishMalformedMempool
  <2> QED BY <1>7, <2>1, <2>2, NewUnderWay
<1>10. CASE b \in chain
  <2>1. UnderWay(b)
    BY <1>4, <1>5, <1>10 DEF MirrorInv
  <2>2. ASSUME NEW o \in 1..Len(txLog), txLog[o].kind = "applied", txLog[o].block = b,
               OnItsWay(o, b)
        PROVE  OnItsWay(o, b)'
    <3>0. LogInv /\ IndexInv
      BY DEF OrderInv
    <3>1. CASE UNCHANGED vars \/ ControlStep \/ QuietBlockStep \/ HandleMempoolMessage
      <4>1. processedTxOffsets' = processedTxOffsets /\ txIdx' \in {txIdx, 1}
        BY <1>5, <3>1, OtherKeeps DEF ResumeOffset
      <4>2. Unread(o) => Unread(o)'
        BY <4>1 DEF Unread
      <4> QED BY <1>5, <2>2, <3>0, <3>1, <4>2, OtherWay
    <3>2. CASE FeedNext /\ UNCHANGED indexerVars
      BY <2>2, <3>0, <3>2, FeedWay
    <3>3. CASE HandleTxMessage
      <4>1. HeightOf[b] \in Int /\ InterceptHeight \in Int
        BY <1>7, HeightTyping, IndexerAssumption DEF Heights
      <4>2. ~SkippedHeight(HeightOf[b])
        BY <1>4, <1>5, <4>1 DEF SkippedHeight
      <4> QED BY <1>7, <2>2, <3>3, <4>2, TxStepWay
    <3>4. CASE (EmitBlockApply \/ EmitBlockUnapply) /\ ~UNCHANGED vars
      <4>1. Unread(o) \/ BufferedAs(o, b) =>
              lastProcessedHeight' < tipHeight' \/ ~Straggler(HeightOf[b])
        BY <1>4, <1>10, <2>2, <3>4 DEF NoStraggler
      <4> QED BY <1>7, <2>2, <3>0, <3>4, <4>1, AnnouncedWay, RetractedWay
    <3> QED BY <3>1, <3>2, <3>3, <3>4, StepCases DEF HandleTxMessage, QuietTxStep
  <2> QED BY <1>6, <1>7, <1>8, <2>1, <2>2, UnderWayStays
<1> QED BY <1>9, <1>10

LEMMA MirrorInit == Init => ReadInv /\ MirrorInv
<1> SUFFICES ASSUME Init PROVE ReadInv /\ MirrorInv
  OBVIOUS
<1>1. ReadInv
  BY DEF Init, FeedInit, ReadInv
<1>2. KnownBlocks = {} /\ Before(blockIdx) = {}
  <2>1. Len(Produced) = 0
    BY DEF Init, Produced
  <2> QED BY <2>1 DEF KnownBlocks, OpenAt, Init, Before
<1> QED BY <1>1, <1>2 DEF Init, FeedInit, MirrorInv, KnownInv

(* Block b was announced once, with the transaction at o after it, and     *)
(* nothing has closed b since its last announcement: then the transaction  *)
(* was sent to that one.                                                   *)
LEMMA SentToTheOnly ==
  ASSUME TypeInv, OrderInv, JoinsInv, BlockEventsInv, NEW b \in KnownBlocks, applies[b] = 1,
         NEW o, txLog[o].block = b, Sent(o), Produced = downstream
  PROVE  SentToLastOf(b, txLog[o].tx)
<1>1. b \in Blocks /\ Len(Produced) \in Nat
  BY ProducedTyping DEF KnownBlocks
<1>2. PICK i \in 1..Len(Produced) :
        Produced[i].type = "tx" /\ Produced[i].block = b /\ Produced[i].tx = txLog[o].tx
  BY DEF Sent, TxEventAt, Event
<1>3. PICK j \in 1..i : Produced[j].type = "block" /\ Produced[j].block = b
  <2>1. OpenAt(Produced, i, b)
    BY <1>2 DEF OrderInv, TxInv
  <2> QED BY <2>1 DEF OpenAt
<1>4. PICK z \in 1..Len(Produced) :
        /\ Produced[z].type = "block" /\ Produced[z].block = b
        /\ \A k \in (z + 1)..Len(Produced) : ~Closes(Produced[k], b)
  BY DEF KnownBlocks, OpenAt
<1>5. ASSUME NEW k \in 1..Len(Produced), Produced[k].type = "block", Produced[k].block = b
      PROVE  k = j
  <2>1. j \in 1..Len(Produced)
    BY <1>1
  <2>2. /\ Produced[k].offset \in 1..Len(blockLog) /\ Applies(Produced[k].offset, b)
        /\ Produced[j].offset \in 1..Len(blockLog) /\ Applies(Produced[j].offset, b)
    BY <1>3, <1>5, <2>1 DEF BlockEventsInv
  <2>3. Produced[k].offset = Produced[j].offset
    <3>1. ~(applies[b] > 1)
      OBVIOUS
    <3> QED BY <1>1, <2>2, <3>1 DEF JoinsInv
  <2> QED BY <1>3, <1>5, <2>1, <2>3 DEF BlockEventsInv, SentOnce
<1>6. z = j
  BY <1>4, <1>5
<1>7. ASSUME NEW k \in (j + 1)..Len(Produced)
      PROVE  ~Closes(Produced[k], b) /\ ~(Produced[k].type = "block" /\ Produced[k].block = b)
  <2>1. k \in 1..Len(Produced) /\ k # j
    BY <1>1
  <2> QED BY <1>4, <1>5, <1>6, <2>1
<1> QED BY <1>2, <1>3, <1>7 DEF SentToLastOf

(* Everything is sent when both topics have been read to the end.          *)
LEMMA MirrorImplies ==
  ASSUME TypeInv, OrderInv, JoinsInv, BlockEventsInv, MirrorInv
  PROVE  MirrorsChain
<1> SUFFICES ASSUME CaughtUp, nodeErrors = 0
             PROVE  \A b \in Blocks :
               /\ OpenAt(downstream, Len(downstream), b) <=> b \in chain
               /\ b \in chain /\ HeightOf[b] >= InterceptHeight =>
                    \A n \in 1..NumTxs(b) :
                      /\ TxWasSent(b, TxsOf[b][n])
                      /\ applies[b] = 1 => SentToLastOf(b, TxsOf[b][n])
  BY DEF MirrorsChain
<1>1. /\ downstream \in Seq(DownstreamEvent) /\ Len(blockLog) \in Nat /\ Len(txLog) \in Nat
      /\ txIdx \in Nat
  BY DEF TypeInv, TypeOK, FeedTypeOK
<1>2. Produced = downstream
  <2>1. pendingDownstream = <<>>
    BY DEF CaughtUp, TypeInv, NothingHeldBack
  <2> QED BY <1>1, <2>1 DEF Produced
<1>3. blockIdx = Len(blockLog) + 1
  BY <1>1 DEF OrderInv, IndexInv, CaughtUp
<1>4. chain = Before(blockIdx)
  BY <1>3 DEF OrderInv, LogInv, Before
<1>5. KnownBlocks = chain
  BY <1>4 DEF MirrorInv, KnownInv
<1>6. \A b \in Blocks : OpenAt(downstream, Len(downstream), b) <=> b \in chain
  BY <1>2, <1>5 DEF KnownBlocks
<1>7. ASSUME NEW b \in chain, HeightOf[b] >= InterceptHeight, NEW n \in 1..NumTxs(b)
      PROVE  /\ TxWasSent(b, TxsOf[b][n])
             /\ applies[b] = 1 => SentToLastOf(b, TxsOf[b][n])
  <2>1. PICK s \in 0..Len(txLog) :
          RunAt(b, s) /\ \A o \in (s + 1)..(s + NumTxs(b)) : OnItsWay(o, b)
    BY <1>7 DEF MirrorInv, UnderWay
  <2>2. PICK m \in Nat : m = NumTxs(b)
    BY HeightTyping DEF TypeInv, TypeOK, FeedTypeOK
  <2>3. PICK o \in (s + 1)..(s + m) : o = s + n
    BY <2>2
  <2>4. txLog[o].block = b /\ txLog[o].tx = TxsOf[b][n] /\ o <= Len(txLog)
    <3>1. txLog[o].block = b /\ txLog[o].tx = TxsOf[b][o - s]
      BY <2>1, <2>2 DEF RunAt
    <3>2. o - s = n
      BY <2>2, <2>3
    <3>3. s \in 0..(Len(txLog) - m)
      BY <2>1, <2>2 DEF RunAt
    <3> QED BY <1>1, <2>2, <3>1, <3>2, <3>3
  <2>5. ~Unread(o)
    BY <1>1, <2>4 DEF Unread, CaughtUp
  <2>6. ~Awaited(b)
    BY <1>1, <1>3, <1>4 DEF Awaited
  <2>7. Sent(o)
    BY <2>1, <2>2, <2>5, <2>6 DEF OnItsWay
  <2>8. TxWasSent(b, TxsOf[b][n])
    BY <1>2, <2>4, <2>7 DEF Sent, TxEventAt, Event, TxWasSent
  <2> QED BY <1>2, <1>5, <1>7, <2>4, <2>7, <2>8, SentToTheOnly
<1> QED BY <1>6, <1>7

(* How often blocks joined and what was announced, initially and after a   *)
(* step.                                                                   *)
LEMMA EventsOnceInit == Init => JoinsInv /\ BlockEventsInv
<1> SUFFICES ASSUME Init PROVE JoinsInv /\ BlockEventsInv
  OBVIOUS
<1>1. Produced = <<>> /\ blockLog = <<>> /\ applies = [b \in Blocks |-> 0]
  BY DEF Init, FeedInit, Produced
<1>2. Len(Produced) = 0 /\ Len(blockLog) = 0
  BY <1>1
<1>3. 1..0 = {}
  OBVIOUS
<1> QED BY <1>1, <1>2, <1>3 DEF JoinsInv, BlockEventsInv, SentOnce

LEMMA EventsOnceStep ==
  ASSUME "block" \notin RestartTopics, TypeInv, OrderInv, JoinsInv, BlockEventsInv,
         [Next]_vars
  PROVE  JoinsInv' /\ BlockEventsInv'
<1>1. BlockEventsInv'
  BY BlockEventsStep
<1>2. CASE FeedNext
  BY <1>1, <1>2, JoinsStep DEF TypeInv, TypeOK
<1>3. CASE UNCHANGED <<blockLog, applies>>
  BY <1>1, <1>3 DEF JoinsInv, Applies
<1>4. FeedNext \/ UNCHANGED <<blockLog, applies>>
  <2>1. CASE UNCHANGED vars \/ ControlStep \/ HandleMempoolMessage
    BY <2>1 DEF vars, ControlStep, StartKafka, SetDownstream, RestartReader, feedVars,
                HandleMempoolMessage, DropMempoolMessage, ForwardMempoolMessage, NextMempool
  <2>2. CASE HandleBlockMessage
    BY <2>2 DEF HandleBlockMessage, SkipMalformedBlock, SkipDuplicateApply,
                DropApplyOnNodeError, EmitBlockApply, EmitBlockUnapply, NextBlock, feedVars
  <2>3. CASE HandleTxMessage
    BY <2>3 DEF HandleTxMessage, SkipMalformedTx, SkipDuplicateTx, SkipAppliedTx,
                BufferAppliedTx, ProcessAppliedTx, SkipUnparsableUnapplied,
                BufferUnappliedTx, ProcessUnappliedTx, FreshTx, NextTx, feedVars
  <2> QED BY <2>1, <2>2, <2>3 DEF Next, ControlStep
<1> QED BY <1>2, <1>3, <1>4

(* For every tree of blocks, every order of fork switches and every        *)
(* interleaving of the topics, with restarted transaction and mempool      *)
(* readers: once both topics are read, the strategies know the blocks of   *)
(* the node's chain and no other, and every transaction of them was sent:  *)
(* after the block's event, with no rollback since, if the block joined    *)
(* the chain once.  (Of one that joined it twice, the second ones may be   *)
(* sent to its first event and be lost with it, indexer.go:949-950.)  Left *)
(* out are a restarted block reader, a node that does not answer and a     *)
(* transaction so far behind the cursor that pruneOldBuffers drops it.     *)
THEOREM StrategiesMirrorChain ==
  ASSUME "block" \notin RestartTopics
  PROVE  Spec /\ [][NoStraggler]_vars => []MirrorsChain
<1>1. Init => OrderInv /\ ReadInv /\ JoinsInv /\ BlockEventsInv /\ MirrorInv
  BY OrderInit, MirrorInit, EventsOnceInit
<1>2. TypeInv /\ OrderInv /\ [Next]_vars => OrderInv'
  BY OrderStep
<1>3. TypeInv /\ ReadInv /\ MirrorInv /\ [Next]_vars => ReadInv'
  BY ReadStep DEF MirrorInv
<1>4. TypeInv /\ OrderInv /\ JoinsInv /\ BlockEventsInv /\ [Next]_vars
      => JoinsInv' /\ BlockEventsInv'
  BY EventsOnceStep
<1>5. /\ TypeInv /\ TypeInv' /\ OrderInv /\ ReadInv /\ MirrorInv
      /\ [Next]_vars /\ [NoStraggler]_vars
      => MirrorInv'
  BY MirrorStep
<1>6. TypeInv /\ OrderInv /\ JoinsInv /\ BlockEventsInv /\ MirrorInv => MirrorsChain
  BY MirrorImplies
<1> QED BY <1>1, <1>2, <1>3, <1>4, <1>5, <1>6, TypeInvariant, PTL DEF Spec
==============================================================================
