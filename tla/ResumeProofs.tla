----------------------------- MODULE ResumeProofs -----------------------------
(***************************************************************************)
(* What holds of the IndexerActor over all the lives of its process.       *)
(*                                                                         *)
(* ResumeTypeOK: every seek puts the readers to messages their topics      *)
(* have.  The argument: every event sent names the message it was made     *)
(* from (EventsGenuine), every point of the table was written from such    *)
(* events (StandsAt), so that the block and the transaction a point names  *)
(* are where it says, and the transaction parses (PointsGenuine); and they *)
(* stay there: the topics only grow.                                       *)
(*                                                                         *)
(* TxKnownSinceStart, as long as the block reader is not restarted.  The   *)
(* argument: what one life of the process sends, LifePart, is the stream   *)
(* of an IndexerActor of its own (L): each step of the process within a    *)
(* life is a step of that actor, so the invariant of IndexerProofs is      *)
(* preserved by the step lemma proved there; and a life begins with        *)
(* nothing sent and nothing kept, wherever the seek has put the readers,   *)
(* which is all that the invariant asks.                                   *)
(*                                                                         *)
(* LivesMirrorChain, under the conditions its theorem names.  The argument *)
(* is laid out where its invariant is defined, below.                      *)
(***************************************************************************)
EXTENDS Resume, StreamProofs, WellFoundedInduction

-------------------------------------------------------------------------------
(* Extreme elements: what the CHOOSEs of Resume pick exists.               *)

LEMMA LeastExists ==
  ASSUME NEW S \in SUBSET Nat, S # {}
  PROVE  \E i \in S : \A k \in S : i <= k
<1> DEFINE R == OpToRel(<, Nat)
<1>1. IsWellFoundedOn(R, Nat)
  BY NatLessThanWellFounded
<1>2. \A x, y \in Nat : y < x => <<y, x>> \in R
  BY DEF OpToRel
<1> HIDE DEF R
<1>3. PICK i \in S : \A k \in S : ~(<<k, i>> \in R)
  BY <1>1, WFMin
<1>4. ASSUME NEW k \in S PROVE i <= k
  <2>1. i \in Nat /\ k \in Nat
    OBVIOUS
  <2>2. ~(k < i)
    BY <1>2, <1>3, <2>1
  <2> QED BY <2>1, <2>2
<1> QED BY <1>4

LEMMA GreatestExists ==
  ASSUME NEW n \in Nat, NEW S \in SUBSET (0..n), S # {}
  PROVE  \E i \in S : \A k \in S : k <= i
<1> DEFINE T == {n - k : k \in S}
<1>1. \A k \in S : k \in Int /\ n - k \in Nat
  OBVIOUS
<1>2. T \in SUBSET Nat /\ T # {} /\ \A k \in S : n - k \in T
  BY <1>1
<1>3. \A t \in T : \E k \in S : t = n - k
  OBVIOUS
<1> HIDE DEF T
<1>4. PICK t \in T : \A u \in T : t <= u
  BY <1>2, LeastExists
<1>5. PICK i \in S : t = n - i
  BY <1>3
<1>6. ASSUME NEW k \in S PROVE k <= i
  <2>1. n - i <= n - k
    BY <1>2, <1>4, <1>5
  <2> QED BY <1>1, <2>1
<1> QED BY <1>6

-------------------------------------------------------------------------------
(* The rows the table gets, and the points a seek chooses.                 *)

(* A point stands at the block event and the last transaction of its block.*)
StandsAt(p, b) ==
  /\ p \in CursorPoint /\ p.block = b /\ p.id \in 1..Len(downstream)
  /\ downstream[p.id].type = "tx" /\ downstream[p.id].block = b
  /\ p.tx = downstream[p.id].tx /\ p.tx \notin Unparsable
  /\ p.txOffset = downstream[p.id].offset
  /\ \E j \in (LifeFrom + 1)..Len(downstream) :
       /\ downstream[j].type = "block" /\ downstream[j].block = b
       /\ p.blockOffset = downstream[j].offset

LEMMA PointOfComplete ==
  ASSUME downstream \in Seq(DownstreamEvent), LifeFrom \in Nat, NEW b \in Complete,
         \A i \in 1..Len(downstream) : downstream[i].type = "tx" => downstream[i].tx \in Txs
  PROVE  StandsAt(PointOf(b), b)
<1> DEFINE S == SentSince(b)
           Announces(j, n) ==
             /\ downstream[j].type = "block" /\ downstream[j].block = b
             /\ \A k \in (j + 1)..n : downstream[k].type = "block"
                                        => downstream[k].block # b
           last == CHOOSE i \in S : \A k \in S : k <= i
           announced == CHOOSE j \in (LifeFrom + 1)..last : Announces(j, last)
<1>1. b \in Blocks /\ NumTxs(b) > 0 /\ Cardinality(S) = NumTxs(b)
  BY DEF Complete
<1>2. S # {}
  <2> HIDE DEF S
  <2>1. SUFFICES ASSUME S = {} PROVE FALSE
    OBVIOUS
  <2>2. Cardinality(S) = 0
    BY <2>1, FS_EmptySet
  <2> QED BY <1>1, <2>2
<1>3. Len(downstream) \in Nat
  OBVIOUS
<1>4. S \subseteq (LifeFrom + 1)..Len(downstream)
  BY DEF SentSince
<1>5. last \in S
  <2> HIDE DEF S
  <2>1. S \in SUBSET (0..Len(downstream))
    BY <1>3, <1>4
  <2>2. \E i \in S : \A k \in S : k <= i
    BY <1>2, <1>3, <2>1, GreatestExists
  <2> QED BY <2>2
<1>6. /\ last \in (LifeFrom + 1)..Len(downstream)
      /\ downstream[last].type = "tx" /\ downstream[last].block = b
      /\ Handled(last)
      /\ \E j \in (LifeFrom + 1)..last :
           /\ downstream[j].type = "block" /\ downstream[j].block = b
           /\ \A k \in (j + 1)..Len(downstream) : Handled(k) =>
                ~(downstream[k].type = "block" /\ downstream[k].block = b)
  <2> HIDE DEF last
  <2> QED BY <1>5 DEF SentSince
<1> HIDE DEF last
<1>7. \E j \in (LifeFrom + 1)..last : Announces(j, last)
  <2>1. PICK j \in (LifeFrom + 1)..last :
           /\ downstream[j].type = "block" /\ downstream[j].block = b
           /\ \A k \in (j + 1)..Len(downstream) : Handled(k) =>
                ~(downstream[k].type = "block" /\ downstream[k].block = b)
    BY <1>6
  <2>2. ASSUME NEW k \in (j + 1)..last
        PROVE  k \in (j + 1)..Len(downstream) /\ Handled(k)
    <3>1. \A i \in (LifeFrom + 1)..k : i \in (LifeFrom + 1)..last
      BY <1>3, <1>6
    <3>2. Handled(k)
      BY <1>6, <3>1 DEF Handled
    <3> QED BY <1>3, <1>6, <3>2
  <2>3. Announces(j, last)
    BY <2>1, <2>2
  <2> HIDE DEF Announces
  <2> QED BY <2>3
<1>8. announced \in (LifeFrom + 1)..last /\ Announces(announced, last)
  <2> HIDE DEF Announces
  <2> QED BY <1>7
<1>9. PointOf(b) = [id |-> last, block |-> b, tx |-> downstream[last].tx,
                    blockOffset |-> downstream[announced].offset,
                    txOffset |-> downstream[last].offset]
  BY DEF PointOf, last
<1>10. /\ announced \in 1..Len(downstream) /\ last \in 1..Len(downstream) /\ last \in Nat
       /\ announced \in (LifeFrom + 1)..Len(downstream)
       /\ downstream[announced].type = "block" /\ downstream[announced].block = b
  BY <1>3, <1>6, <1>8
<1>11. downstream[announced].offset \in Nat /\ downstream[last].offset \in Nat
  <2>1. downstream[announced] \in DownstreamEvent /\ downstream[last] \in DownstreamEvent
    BY <1>10
  <2> QED BY <2>1 DEF DownstreamEvent
<1> HIDE DEF announced
<1>12. downstream[last].tx \in Txs /\ downstream[last].tx \notin Unparsable
  <2>1. last \in (LifeFrom + 1)..last
    BY <1>3, <1>6
  <2> QED BY <1>6, <1>10, <2>1 DEF Handled
<1> QED BY <1>1, <1>6, <1>9, <1>10, <1>11, <1>12 DEF StandsAt, CursorPoint

LEMMA NewestExists ==
  ASSUME NEW n \in Nat, NEW rows \in SUBSET CursorPoint, rows # {},
         \A p \in rows : p.id <= n
  PROVE  Newest(rows) \in rows
<1> DEFINE S == {p.id : p \in rows}
<1>1. S \in SUBSET (0..n) /\ S # {}
  BY DEF CursorPoint
<1>2. PICK i \in S : \A k \in S : k <= i
  <2> HIDE DEF S
  <2> QED BY <1>1, GreatestExists
<1>3. PICK p \in rows : p.id = i
  BY <1>2
<1>4. \A q \in rows : q.id <= p.id
  BY <1>2, <1>3
<1> QED BY <1>4 DEF Newest

LEMMA FirstApplyExists ==
  ASSUME FeedTypeOK, NEW b, NEW o \in 1..Len(blockLog),
         blockLog[o].kind = "apply", blockLog[o].block = b
  PROVE  FirstApply(b) \in 1..Len(blockLog) /\ Applies(FirstApply(b), b)
<1> DEFINE S == {i \in 1..Len(blockLog) : Applies(i, b)}
<1>1. S \in SUBSET Nat /\ S # {} /\ Len(blockLog) \in Nat
  BY DEF FeedTypeOK, Applies
<1>2. PICK i \in S : \A k \in S : i <= k
  <2> HIDE DEF S
  <2> QED BY <1>1, LeastExists
<1>3. ASSUME NEW k \in 1..(i - 1) PROVE ~Applies(k, b)
  <2>1. k \in 1..Len(blockLog) /\ ~(i <= k)
    BY <1>1, <1>2
  <2> QED BY <1>2, <2>1
<1>4. i \in 1..Len(blockLog) /\ Applies(i, b)
  BY <1>2
<1> QED BY <1>3, <1>4 DEF FirstApply, Applies

-------------------------------------------------------------------------------
(* Where events and points come from.                                      *)

(* The message an event was made from is at its offset.                    *)
GenuineEvent(e) ==
  /\ e.type = "block" => /\ e.offset \in 1..Len(blockLog)
                         /\ blockLog[e.offset].kind = "apply"
                         /\ blockLog[e.offset].block = e.block
  /\ e.type = "tx" => /\ e.offset \in 1..Len(txLog) /\ txLog[e.offset].kind = "applied"
                      /\ e = TxEventAt(e.offset)

EventsGenuine == \A i \in 1..Len(Produced) : GenuineEvent(Produced[i])

(* A point can be verified in the topics.                                  *)
GenuinePoint(p) ==
  /\ p.id \in 1..Len(downstream)
  /\ p.blockOffset \in 1..Len(blockLog) /\ p.txOffset \in 1..Len(txLog)
  /\ StoredPlace(p) /\ txLog[p.txOffset].block = p.block

LEMMA GenuineAppends ==
  ASSUME TypeInv, EventsGenuine, UNCHANGED <<blockLog, txLog>>,
         NEW t \in Seq(DownstreamEvent), Produced' = Produced \o t,
         \A k \in 1..Len(t) : GenuineEvent(t[k])
  PROVE  EventsGenuine'
<1>1. /\ \A k \in 1..Len(Produced) : Produced'[k] = Produced[k]
      /\ \A k \in 1..Len(t) : Produced'[Len(Produced) + k] = t[k]
      /\ Len(Produced') = Len(Produced) + Len(t)
      /\ Len(Produced) \in Nat /\ Len(t) \in Nat
  BY ProducedTyping
<1>2. ASSUME NEW i \in 1..Len(Produced') PROVE GenuineEvent(Produced'[i])
  <2>1. CASE i <= Len(Produced)
    BY <1>1, <2>1 DEF EventsGenuine
  <2>2. CASE i > Len(Produced)
    <3>1. i - Len(Produced) \in 1..Len(t) /\ i = Len(Produced) + (i - Len(Produced))
      BY <1>1, <2>2
    <3>2. Produced'[i] = t[i - Len(Produced)]
      BY <1>1, <3>1
    <3> QED BY <3>1, <3>2
  <2> QED BY <1>1, <2>1, <2>2
<1> QED BY <1>2 DEF EventsGenuine, GenuineEvent, TxEventAt

(* What a block message sends.                                             *)
LEMMA BlockEventsGenuine ==
  ASSUME TypeInv, EventsGenuine, EmitBlockApply \/ EmitBlockUnapply
  PROVE  EventsGenuine'
<1> DEFINE b == blockLog[blockIdx].block
<1> PICK Q : Q = {x \in TxEventsOf(b) : GenuineEvent(x)}
  OBVIOUS
<1> DEFINE apply == Event("block", b, Root, blockIdx, tipHeight' = HeightOf[b])
           rollback == Event("rollback", b, Root, blockIdx, FALSE)
           txs == [i \in 1..Len(pendingApplied[b]) |-> TxEventAt(pendingApplied[b][i])]
           untxs == [i \in 1..Len(pendingUnapplied[b]) |->
                       UnappliedEventAt(pendingUnapplied[b][i])]
           announced == <<apply>> \o txs \o untxs
           retracted == <<rollback>> \o untxs
<1>1. b \in Blocks /\ UNCHANGED <<blockLog, txLog>>
  <2>1. CASE EmitBlockApply
    BY <2>1, EmitBlockApplyStep DEF EmitBlockApply, NextBlock, feedVars
  <2>2. CASE EmitBlockUnapply
    BY <2>2, EmitBlockUnapplyStep DEF EmitBlockUnapply, NextBlock, feedVars
  <2> QED BY <2>1, <2>2
<1>10. EmitBlockApply => Produced' = Produced \o announced
  BY EmitBlockApplyStep
<1>11. EmitBlockUnapply => Produced' = Produced \o retracted
  BY EmitBlockUnapplyStep
<1>12. EmitBlockApply => GenuineEvent(apply)
  <2>1. blockIdx \in Nat \ {0} /\ Len(blockLog) \in Nat
    BY DEF TypeInv, TypeOK, FeedTypeOK
  <2>2. EmitBlockApply => blockLog[blockIdx].kind = "apply" /\ blockIdx <= Len(blockLog)
    BY DEF EmitBlockApply, NextBlock
  <2> QED BY <2>1, <2>2 DEF GenuineEvent, Event
<1> HIDE DEF b
<1>2. TxEventsOf(b) \subseteq DownstreamEvent /\ Q \subseteq DownstreamEvent
  BY DEF TxEventsOf
<1>3. txs \in Seq(TxEventsOf(b)) /\ untxs \in Seq(TxEventsOf(b))
  BY <1>1, ReplayedEvents
<1>4. txs \in Seq(Q) /\ untxs \in Seq(Q)
  <2>1. Len(pendingApplied[b]) \in Nat /\ Len(pendingUnapplied[b]) \in Nat
    BY <1>1 DEF TypeInv, TypeOK
  <2>2. ASSUME NEW i \in 1..Len(pendingApplied[b])
        PROVE  TxEventAt(pendingApplied[b][i]) \in Q
    <3>1. /\ pendingApplied[b][i] \in 1..Len(txLog)
          /\ txLog[pendingApplied[b][i]].kind = "applied"
      BY <1>1 DEF TypeInv, HoldsOffsets
    <3>2. TxEventAt(pendingApplied[b][i]) \in TxEventsOf(b)
      BY <1>3, <2>1
    <3>3. GenuineEvent(TxEventAt(pendingApplied[b][i]))
      BY <3>1 DEF GenuineEvent, TxEventAt, Event
    <3> QED BY <3>2, <3>3
  <2>3. ASSUME NEW i \in 1..Len(pendingUnapplied[b])
        PROVE  UnappliedEventAt(pendingUnapplied[b][i]) \in Q
    <3>1. UnappliedEventAt(pendingUnapplied[b][i]) \in TxEventsOf(b)
      BY <1>3, <2>1
    <3>2. GenuineEvent(UnappliedEventAt(pendingUnapplied[b][i]))
      BY DEF GenuineEvent, UnappliedEventAt, Event
    <3> QED BY <3>1, <3>2
  <2> QED BY <2>1, <2>2, <2>3
<1>5. blockIdx \in Nat
  BY DEF TypeInv, TypeOK
<1>6. apply \in DownstreamEvent /\ rollback \in DownstreamEvent
  BY <1>1, <1>5 DEF Event, DownstreamEvent
<1>7. CASE EmitBlockApply
  <2>1. Produced' = Produced \o announced
    BY <1>7, <1>10
  <2>2. GenuineEvent(apply)
    BY <1>7, <1>12
  <2> HIDE DEF apply, txs, untxs
  <2>3. /\ Len(announced) \in Nat \ {0} /\ announced[1] = apply
        /\ \A k \in 2..Len(announced) : announced[k] \in Q
    BY <1>4, HeadedEvents
  <2>4. announced \in Seq(DownstreamEvent)
    <3>1. txs \in Seq(DownstreamEvent) /\ untxs \in Seq(DownstreamEvent)
      BY <1>2, <1>3, SeqOfSubset
    <3> QED BY <1>6, <3>1
  <2> HIDE DEF announced
  <2>5. ASSUME NEW k \in 1..Len(announced) PROVE GenuineEvent(announced[k])
    <3>1. k = 1 \/ k \in 2..Len(announced)
      BY <2>3
    <3> QED BY <2>2, <2>3, <3>1
  <2> QED BY <1>1, <2>1, <2>4, <2>5, GenuineAppends
<1>8. CASE EmitBlockUnapply
  <2>1. Produced' = Produced \o retracted
    BY <1>8, <1>11
  <2>2. GenuineEvent(rollback)
    BY DEF GenuineEvent, Event
  <2> HIDE DEF rollback, untxs
  <2>3. /\ Len(retracted) = Len(untxs) + 1 /\ Len(untxs) \in Nat /\ retracted[1] = rollback
        /\ \A k \in 2..Len(retracted) : retracted[k] = untxs[k - 1] /\ k - 1 \in 1..Len(untxs)
    BY <1>4
  <2>4. retracted \in Seq(DownstreamEvent)
    <3>1. untxs \in Seq(DownstreamEvent)
      BY <1>2, <1>3, SeqOfSubset
    <3> QED BY <1>6, <3>1
  <2> HIDE DEF retracted
  <2>5. ASSUME NEW k \in 1..Len(retracted) PROVE GenuineEvent(retracted[k])
    <3>1. k = 1 \/ k \in 2..Len(retracted)
      BY <2>3
    <3>2. k \in 2..Len(retracted) => retracted[k] \in Q
      BY <1>4, <2>3
    <3> QED BY <2>2, <2>3, <3>1, <3>2
  <2> QED BY <1>1, <2>1, <2>4, <2>5, GenuineAppends
<1> QED BY <1>7, <1>8

-------------------------------------------------------------------------------
(* What is genuine stays so.                                               *)

LEMMA FeedGrows ==
  ASSUME TypeInv, Next
  PROVE  /\ TypeInv'
         /\ IsGrownFrom(blockLog', blockLog) /\ IsGrownFrom(txLog', txLog)
         /\ Len(blockLog) \in Nat /\ Len(blockLog') \in Nat
         /\ Len(txLog) \in Nat /\ Len(txLog') \in Nat
<1>1. TypeInv' /\ FeedTypeOK
  BY TypeInvStep DEF TypeInv, TypeOK
<1>2. FeedTypeOK'
  BY <1>1 DEF TypeInv, TypeOK
<1>3. \/ FeedNext
      \/ UNCHANGED feedVars
  BY DEF Next, StartKafka, SetDownstream, HandleBlockMessage, SkipMalformedBlock,
         SkipDuplicateApply, DropApplyOnNodeError, EmitBlockApply, EmitBlockUnapply,
         NextBlock, HandleTxMessage, SkipMalformedTx, SkipDuplicateTx, SkipAppliedTx,
         BufferAppliedTx, ProcessAppliedTx, SkipUnparsableUnapplied, BufferUnappliedTx,
         ProcessUnappliedTx, FreshTx, NextTx, HandleMempoolMessage,
         DropMempoolMessage, ForwardMempoolMessage, NextMempool, RestartReader
<1>4. IsGrownFrom(blockLog', blockLog) /\ IsGrownFrom(txLog', txLog)
  <2>1. CASE FeedNext
    BY <1>1, <2>1, FeedTyping
  <2>2. CASE UNCHANGED feedVars
    BY <1>1, <2>2 DEF feedVars, IsGrownFrom, FeedTypeOK
  <2> QED BY <1>3, <2>1, <2>2
<1> QED BY <1>1, <1>2, <1>4 DEF FeedTypeOK

(* A message stays where it is while the topics grow.                      *)
LEMMA GenuineStays ==
  ASSUME IsGrownFrom(blockLog', blockLog), IsGrownFrom(txLog', txLog),
         Len(blockLog) \in Nat, Len(blockLog') \in Nat,
         Len(txLog) \in Nat, Len(txLog') \in Nat,
         NEW e, GenuineEvent(e)
  PROVE  GenuineEvent(e)'
<1>1. ASSUME e.type = "tx"
      PROVE  e.offset \in 1..Len(txLog') /\ txLog'[e.offset] = txLog[e.offset]
  BY <1>1 DEF GenuineEvent, IsGrownFrom
<1>2. ASSUME e.type = "block"
      PROVE  e.offset \in 1..Len(blockLog') /\ blockLog'[e.offset] = blockLog[e.offset]
  BY <1>2 DEF GenuineEvent, IsGrownFrom
<1> QED BY <1>1, <1>2 DEF GenuineEvent, TxEventAt

LEMMA GenuinePointStays ==
  ASSUME IsGrownFrom(blockLog', blockLog), IsGrownFrom(txLog', txLog),
         Len(blockLog) \in Nat, Len(blockLog') \in Nat,
         Len(txLog) \in Nat, Len(txLog') \in Nat,
         Len(downstream) \in Nat, Len(downstream') \in Nat,
         Len(downstream) <= Len(downstream'),
         NEW p, GenuinePoint(p)
  PROVE  GenuinePoint(p)'
<1>1. p.id \in 1..Len(downstream')
  BY DEF GenuinePoint
<1>2. p.blockOffset \in 1..Len(blockLog') /\ blockLog'[p.blockOffset] = blockLog[p.blockOffset]
  BY DEF GenuinePoint, IsGrownFrom
<1>3. p.txOffset \in 1..Len(txLog') /\ txLog'[p.txOffset] = txLog[p.txOffset]
  BY DEF GenuinePoint, IsGrownFrom
<1> QED BY <1>1, <1>2, <1>3 DEF GenuinePoint, StoredPlace

LEMMA UnsentGenuine ==
  ASSUME TypeInv, EventsGenuine, Next, Produced' = Produced
  PROVE  EventsGenuine'
<1>1. \A i \in 1..Len(Produced) : GenuineEvent(Produced[i])'
  BY FeedGrows, GenuineStays DEF EventsGenuine
<1> QED BY <1>1 DEF EventsGenuine, GenuineEvent, TxEventAt

LEMMA OneEventGenuine ==
  ASSUME TypeInv, EventsGenuine, UNCHANGED <<blockLog, txLog>>,
         NEW e \in DownstreamEvent, GenuineEvent(e), Produced' = Produced \o <<e>>
  PROVE  EventsGenuine'
<1>1. <<e>> \in Seq(DownstreamEvent) /\ \A k \in 1..Len(<<e>>) : GenuineEvent(<<e>>[k])
  OBVIOUS
<1> QED BY <1>1, GenuineAppends

LEMMA TxEventGenuine ==
  ASSUME TypeInv, EventsGenuine, ProcessAppliedTx \/ ProcessUnappliedTx
  PROVE  EventsGenuine'
<1> PICK e : e = IF ProcessAppliedTx THEN TxEventAt(txIdx) ELSE UnappliedEventAt(txIdx)
  OBVIOUS
<1>1. Produced' = Produced \o <<e>>
  BY SendingTxTyping
<1>2. UNCHANGED <<blockLog, txLog>>
  BY DEF ProcessAppliedTx, ProcessUnappliedTx, FreshTx, NextTx, feedVars
<1>3. GenuineEvent(e) /\ e \in DownstreamEvent
  <2>1. PICK kind \in {"applied", "unapplied"} :
          FreshTx(kind) /\ (ProcessAppliedTx => kind = "applied")
    BY DEF ProcessAppliedTx, ProcessUnappliedTx, FreshTx, NextTx
  <2>2. /\ txIdx \in 1..Len(txLog) /\ txLog[txIdx].kind = kind
        /\ <<TxEventAt(txIdx)>> \in Seq(DownstreamEvent)
        /\ <<UnappliedEventAt(txIdx)>> \in Seq(DownstreamEvent)
    BY <2>1, TxTyping DEF TypeInv
  <2>3. e \in DownstreamEvent
    <3>1. \A x : <<x>> \in Seq(DownstreamEvent) => x \in DownstreamEvent
      <4>1. ASSUME NEW x, <<x>> \in Seq(DownstreamEvent) PROVE x \in DownstreamEvent
        <5>1. 1 \in 1..Len(<<x>>) /\ <<x>>[1] = x
          OBVIOUS
        <5> QED BY <4>1, <5>1
      <4> QED BY <4>1
    <3> QED BY <2>2, <3>1
  <2>4. GenuineEvent(e)
    BY <2>1, <2>2 DEF GenuineEvent, TxEventAt, UnappliedEventAt, Event
  <2> QED BY <2>3, <2>4
<1> QED BY <1>1, <1>2, <1>3, OneEventGenuine

LEMMA EventsStep ==
  ASSUME TypeInv, EventsGenuine, Next
  PROVE  EventsGenuine'
<1>1. CASE FeedNext /\ UNCHANGED indexerVars
  BY <1>1, FeedStepTyping, UnsentGenuine
<1>2. CASE ControlStep
  BY <1>2, ControlTyping, UnsentGenuine
<1>3. CASE QuietBlockStep
  BY <1>3, QuietBlockTyping, SendingNothing, UnsentGenuine
<1>4. CASE QuietTxStep
  BY <1>4, QuietTxTyping, SendingNothing, UnsentGenuine
<1>5. CASE HandleMempoolMessage
  <2>1. UNCHANGED <<blockLog, txLog>>
    BY <1>5 DEF HandleMempoolMessage, DropMempoolMessage, ForwardMempoolMessage,
                NextMempool, feedVars
  <2>2. ASSUME NEW e \in DownstreamEvent, e.type \in {"accepted", "withdrawn"}
        PROVE  GenuineEvent(e)
    BY <2>2 DEF GenuineEvent
  <2> QED BY <1>5, <2>1, <2>2, MempoolTyping, OneEventGenuine, UnsentGenuine
<1> QED
  BY <1>1, <1>2, <1>3, <1>4, <1>5, StepCases, BlockEventsGenuine, TxEventGenuine

-------------------------------------------------------------------------------
(* A step of the actor only adds to the stream.                            *)

LEMMA SendCases ==
  ASSUME Next
  PROVE  \/ UNCHANGED sendVars
         \/ SetDownstream
         \/ \E events : SendDownstream(events)
BY DEF Next, StartKafka, HandleBlockMessage, SkipMalformedBlock,
         SkipDuplicateApply, DropApplyOnNodeError, EmitBlockApply, EmitBlockUnapply,
         NextBlock, HandleTxMessage, SkipMalformedTx, SkipDuplicateTx, SkipAppliedTx,
         BufferAppliedTx, ProcessAppliedTx, SkipUnparsableUnapplied, BufferUnappliedTx,
         ProcessUnappliedTx, FreshTx, NextTx, HandleMempoolMessage,
         DropMempoolMessage, ForwardMempoolMessage, NextMempool, RestartReader, indexerVars

LEMMA ProducedGrows ==
  ASSUME TypeInv, Next
  PROVE  \E t \in Seq(DownstreamEvent) : Produced' = Produced \o t
<1>1. Produced \in Seq(DownstreamEvent)
  BY ProducedTyping
<1>2. CASE Produced' = Produced
  <2>1. <<>> \in Seq(DownstreamEvent) /\ Produced' = Produced \o <<>>
    BY <1>1, <1>2, EmptySeq, ConcatEmptySeq
  <2> QED BY <2>1
<1>3. CASE FeedNext /\ UNCHANGED indexerVars
  BY <1>2, <1>3, FeedStepTyping
<1>4. CASE ControlStep
  BY <1>2, <1>4, ControlTyping
<1>5. CASE QuietBlockStep
  BY <1>2, <1>5, QuietBlockTyping, SendingNothing
<1>6. CASE QuietTxStep
  BY <1>2, <1>6, QuietTxTyping, SendingNothing
<1>7. CASE HandleMempoolMessage
  <2>1. \A e \in DownstreamEvent : <<e>> \in Seq(DownstreamEvent)
    OBVIOUS
  <2> QED BY <1>2, <1>7, <2>1, MempoolTyping
<1>8. CASE ProcessAppliedTx \/ ProcessUnappliedTx
  <2>1. PICK kind \in {"applied", "unapplied"} : FreshTx(kind)
    BY <1>8 DEF ProcessAppliedTx, ProcessUnappliedTx
  <2>2. /\ <<TxEventAt(txIdx)>> \in Seq(DownstreamEvent)
        /\ <<UnappliedEventAt(txIdx)>> \in Seq(DownstreamEvent)
    BY <2>1, TxTyping DEF TypeInv
  <2> QED BY <1>8, <2>2, SendingTxTyping
<1> QED
  BY <1>3, <1>4, <1>5, <1>6, <1>7, <1>8, StepCases, AnnouncedEvents, RetractedEvents

LEMMA DownstreamGrows ==
  ASSUME TypeInv, Next
  PROVE  /\ downstream' \in Seq(DownstreamEvent)
         /\ Len(downstream) \in Nat /\ Len(downstream') \in Nat
         /\ IsGrownFrom(downstream', downstream)
<1>1. TypeInv'
  BY TypeInvStep
<1>2. /\ downstream \in Seq(DownstreamEvent) /\ downstream' \in Seq(DownstreamEvent)
      /\ pendingDownstream \in Seq(DownstreamEvent)
  BY <1>1 DEF TypeInv, TypeOK
<1>3. CASE UNCHANGED sendVars
  BY <1>2, <1>3 DEF sendVars, IsGrownFrom
<1>4. CASE SetDownstream
  BY <1>2, <1>4, ConcatGrows DEF SetDownstream
<1>5. ASSUME NEW events, SendDownstream(events)
      PROVE  IsGrownFrom(downstream', downstream)
  <2>1. CASE ~downstreamSet
    BY <1>2, <1>5, <2>1 DEF SendDownstream, IsGrownFrom
  <2>2. CASE downstreamSet
    <3>1. pendingDownstream = <<>> /\ pendingDownstream' = <<>>
      BY <1>5, <2>2 DEF SendDownstream, TypeInv, NothingHeldBack
    <3>2. Produced = downstream /\ Produced' = downstream'
      BY <1>2, <3>1, ConcatEmptySeq DEF Produced
    <3> QED BY <1>2, <3>2, ProducedGrows, ConcatGrows
  <2> QED BY <2>1, <2>2
<1> QED BY <1>2, <1>3, <1>4, <1>5, SendCases

-------------------------------------------------------------------------------
(* The inductive invariant.                                                *)

PointsGenuine == \A p \in cursor \cup points : GenuinePoint(p)

(* While the process is down nothing of it is left in memory.              *)
NothingKept == ~running => emittedBlocks = {} /\ pendingDownstream = <<>>

SeekInv ==
  /\ cursor \subseteq CursorPoint /\ points \subseteq CursorPoint
  /\ seek \in {"none", "stored", "scan"}
  /\ running => seek = "none"
  /\ lives \in Seq(Life)
  /\ LifeFrom \in 0..Len(downstream)
  /\ EventsGenuine
  /\ PointsGenuine
  /\ NothingKept

ResumeInv == TypeInv /\ SeekInv

(* What a step of the seek does: it moves the readers to messages of their *)
(* topics, and it may give up a point or start the process.                *)
Starts ==
  /\ running' = TRUE
  /\ \E life \in Life : life.from = Len(downstream) /\ lives' = Append(lives, life)
  /\ seek' = "none"

Seeks ==
  /\ ~running
  /\ UNCHANGED <<feedVars, completed, bufferVars, sendVars, cursor>>
  /\ blockIdx' \in {blockIdx} \cup 1..(Len(blockLog) + 1)
  /\ txIdx' \in Nat \ {0} /\ mempoolIdx' \in Nat \ {0}
  /\ lastBlockOffset' \in Nat /\ lastTxOffset' \in Nat
  /\ lastProcessedHeight' \in Heights /\ tipHeight' \in Int
  /\ cursorLoaded' \in BOOLEAN
  /\ points' \subseteq points
  /\ \/ Starts
     \/ UNCHANGED <<running, lives>> /\ seek' \in {"stored", "scan"}

LEMMA RunStarts ==
  ASSUME TypeInv, Run, cursorLoaded' \in BOOLEAN
  PROVE  /\ Starts /\ points' \subseteq points
         /\ mempoolIdx' \in Nat \ {0}
<1> PICK start \in BOOLEAN : start = (blockIdx' = 1 /\ txIdx' = 1)
  OBVIOUS
<1> PICK ahead \in BOOLEAN : ahead = (cursorLoaded' /\ txIdx' > Newest(points).txOffset + 1)
  OBVIOUS
<1> DEFINE life == [from |-> Len(downstream), loaded |-> cursorLoaded', atStart |-> start,
                    ahead |-> ahead]
<1>1. Len(downstream) \in Nat /\ Len(mempoolLog) \in Nat
  BY DEF TypeInv, TypeOK, FeedTypeOK
<1>2. life \in Life /\ life.from = Len(downstream)
  BY <1>1 DEF Life
<1>3. lives' = Append(lives, life)
  BY DEF Run
<1> HIDE DEF life
<1> QED BY <1>1, <1>2, <1>3 DEF Run, Starts

LEMMA NewestPoint ==
  ASSUME ResumeInv, points # {}
  PROVE  /\ Newest(points) \in points
         /\ Newest(points) \in CursorPoint
         /\ GenuinePoint(Newest(points))
         /\ HeightOf[Newest(points).block] \in Heights
         /\ FirstApply(Newest(points).block) \in 1..Len(blockLog)
         /\ Applies(FirstApply(Newest(points).block), Newest(points).block)
<1>1. Len(downstream) \in Nat /\ FeedTypeOK
  BY DEF ResumeInv, TypeInv, TypeOK
<1>2. \A p \in points : p.id <= Len(downstream)
  BY DEF ResumeInv, SeekInv, PointsGenuine, GenuinePoint
<1>3. Newest(points) \in points
  BY <1>1, <1>2, NewestExists DEF ResumeInv, SeekInv
<1>4. Newest(points) \in CursorPoint /\ GenuinePoint(Newest(points))
  BY <1>3 DEF ResumeInv, SeekInv, PointsGenuine
<1>5. Newest(points).block \in Blocks
  BY <1>4 DEF CursorPoint
<1>6. HeightOf[Newest(points).block] \in Heights
  BY <1>5, HeightTyping
<1>7. /\ FirstApply(Newest(points).block) \in 1..Len(blockLog)
      /\ Applies(FirstApply(Newest(points).block), Newest(points).block)
  <2>1. PICK p : p = Newest(points)
    OBVIOUS
  <2>2. /\ p.blockOffset \in 1..Len(blockLog)
        /\ blockLog[p.blockOffset].kind = "apply"
        /\ blockLog[p.blockOffset].block = p.block
    BY <1>4, <2>1 DEF GenuinePoint, StoredPlace
  <2> QED BY <1>1, <2>1, <2>2, FirstApplyExists
<1> QED BY <1>3, <1>4, <1>6, <1>7

LEMMA SeekStepSeeks ==
  ASSUME ResumeInv, SeekStep
  PROVE  Seeks
<1> DEFINE p == Newest(points)
<1>1. /\ blockIdx \in Nat \ {0} /\ txIdx \in Nat \ {0} /\ mempoolIdx \in Nat \ {0}
      /\ lastBlockOffset \in Nat /\ lastTxOffset \in Nat
      /\ lastProcessedHeight \in Heights /\ tipHeight \in Int
      /\ cursorLoaded \in BOOLEAN /\ running \in BOOLEAN
      /\ Len(blockLog) \in Nat /\ NodeHeight \in Int
  BY NodeHeightTyping DEF ResumeInv, TypeInv, TypeOK, FeedTypeOK
<1>2. TypeInv /\ (running => seek = "none")
  BY DEF ResumeInv, SeekInv
<1>3. ~running
  BY <1>2 DEF SeekStep, SeekUsingStoredOffsets, ScanFinds, NoValidPoint, SkipPoint,
              StoredOffsetsFail, ScanGivesUp, ScanFails, Trying
<1>4. UNCHANGED <<feedVars, completed, bufferVars, sendVars, cursor>>
  BY DEF SeekStep, SeekUsingStoredOffsets, ScanFinds, NoValidPoint, SkipPoint,
         StoredOffsetsFail, ScanGivesUp, ScanFails, CallFails, SeekUnchanged
<1>5. points # {} =>
        /\ p \in points /\ p \in CursorPoint /\ HeightOf[p.block] \in Heights
        /\ FirstApply(p.block) \in 1..Len(blockLog)
        /\ p.blockOffset \in 1..Len(blockLog) /\ p.txOffset \in 1..Len(txLog)
  BY NewestPoint DEF GenuinePoint
<1>6. Len(txLog) \in Nat
  BY DEF ResumeInv, TypeInv, TypeOK, FeedTypeOK
<1> HIDE DEF p
<1>7. CASE SeekUsingStoredOffsets
  <2>1. points # {}
    BY <1>7 DEF SeekUsingStoredOffsets, Trying
  <2>2. /\ blockIdx' = p.blockOffset + 1 /\ txIdx' = p.txOffset + 1
        /\ lastBlockOffset' = p.blockOffset /\ lastTxOffset' = p.txOffset + 1
        /\ lastProcessedHeight' = HeightOf[p.block]
        /\ cursorLoaded' = TRUE /\ tipHeight' \in {NodeHeight, tipHeight}
        /\ Run
    BY <1>7 DEF SeekUsingStoredOffsets, SeekBehind, p
  <2>3. /\ blockIdx' \in 1..(Len(blockLog) + 1) /\ txIdx' \in Nat \ {0}
        /\ lastBlockOffset' \in Nat /\ lastTxOffset' \in Nat
    BY <1>1, <1>5, <1>6, <2>1, <2>2
  <2>4. lastProcessedHeight' \in Heights /\ tipHeight' \in Int /\ cursorLoaded' \in BOOLEAN
    BY <1>1, <1>5, <2>1, <2>2
  <2>5. Starts /\ points' \subseteq points /\ mempoolIdx' \in Nat \ {0}
    BY <1>2, <2>2, <2>4, RunStarts
  <2> QED BY <1>3, <1>4, <2>3, <2>4, <2>5 DEF Seeks
<1>8. CASE ScanFinds
  <2>1. points # {}
    BY <1>8 DEF ScanFinds, Trying
  <2>2. /\ blockIdx' = FirstApply(p.block) + 1
        /\ UNCHANGED <<txIdx, lastBlockOffset, lastTxOffset, tipHeight>>
        /\ lastProcessedHeight' = HeightOf[p.block]
        /\ cursorLoaded' = TRUE
        /\ Run
    BY <1>8 DEF ScanFinds, p
  <2> QED BY <1>1, <1>2, <1>3, <1>4, <1>5, <2>1, <2>2, RunStarts DEF Seeks
<1>9. CASE NoValidPoint
  <2>1. /\ UNCHANGED <<blockIdx, txIdx, lastBlockOffset, lastTxOffset,
                       lastProcessedHeight, tipHeight, cursorLoaded>>
        /\ Run
    BY <1>9 DEF NoValidPoint
  <2> QED BY <1>1, <1>2, <1>3, <1>4, <2>1, RunStarts DEF Seeks
<1>10. CASE SkipPoint
  <2>1. /\ UNCHANGED <<running, blockIdx, txIdx, mempoolIdx, lastBlockOffset,
                       lastTxOffset, lastProcessedHeight, tipHeight, cursorLoaded,
                       seek, lives>>
        /\ points' \subseteq points /\ seek = "stored"
    BY <1>10 DEF SkipPoint, Trying, readerVars
  <2> QED BY <1>1, <1>3, <1>4, <2>1 DEF Seeks
<1>11. CASE StoredOffsetsFail
  <2>1. points # {}
    BY <1>11 DEF StoredOffsetsFail, Trying
  <2>2. /\ blockIdx' \in {p.blockOffset, p.blockOffset + 1}
        /\ lastBlockOffset' \in {lastBlockOffset, p.blockOffset}
        /\ txIdx' \in {txIdx, p.txOffset}
        /\ UNCHANGED <<running, mempoolIdx, lastTxOffset, lastProcessedHeight,
                       tipHeight, cursorLoaded, points, lives>>
        /\ seek' = "scan"
    BY <1>11 DEF StoredOffsetsFail, p
  <2> QED BY <1>1, <1>3, <1>4, <1>5, <1>6, <2>1, <2>2 DEF Seeks
<1>12. CASE ScanGivesUp
  <2>1. points # {}
    BY <1>12 DEF ScanGivesUp, Trying
  <2>2. /\ blockIdx' \in 1..FirstApply(p.block)
        /\ UNCHANGED <<txIdx, lastBlockOffset, lastTxOffset, lastProcessedHeight,
                       tipHeight, cursorLoaded>>
        /\ Run
    BY <1>12 DEF ScanGivesUp, p
  <2> QED BY <1>1, <1>2, <1>3, <1>4, <1>5, <2>1, <2>2, RunStarts DEF Seeks
<1>13. CASE ScanFails
  <2>1. points # {}
    BY <1>13 DEF ScanFails, Trying
  <2>2. /\ blockIdx' \in 1..FirstApply(p.block)
        /\ UNCHANGED <<running, txIdx, mempoolIdx, lastBlockOffset, lastTxOffset,
                       lastProcessedHeight, tipHeight, cursorLoaded, lives>>
        /\ seek' = "stored" /\ points' \subseteq points
    BY <1>13 DEF ScanFails, p
  <2> QED BY <1>1, <1>3, <1>4, <1>5, <2>1, <2>2 DEF Seeks
<1> QED
  BY <1>7, <1>8, <1>9, <1>10, <1>11, <1>12, <1>13 DEF SeekStep

-------------------------------------------------------------------------------
(* The steps preserve the invariant.                                       *)

(* The steps of the actor within one life of the process.                  *)
LifeStep ==
  \/ FeedNext /\ UNCHANGED indexerVars
  \/ HandleMessage
  \/ \E topic \in RestartTopics : RestartReader(topic)

LEMMA ResumeCases ==
  ASSUME ResumeNext
  PROVE  \/ LifeStep /\ UNCHANGED seekVars
         \/ StartFresh
         \/ SeekStep
         \/ Crash
BY DEF ResumeNext, Work, LifeStep

LEMMA LifeStepNext ==
  ASSUME LifeStep
  PROVE  /\ Next
         /\ running' = running
         /\ ~running => UNCHANGED <<emittedBlocks, pendingDownstream>>
<1>1. Next
  BY DEF LifeStep, Next, HandleMessage
<1>2. running' = running
  BY DEF LifeStep, indexerVars, readerVars, HandleMessage, SetDownstream,
         HandleBlockMessage, SkipMalformedBlock,
         SkipDuplicateApply, DropApplyOnNodeError, EmitBlockApply, EmitBlockUnapply,
         NextBlock, HandleTxMessage, SkipMalformedTx, SkipDuplicateTx, SkipAppliedTx,
         BufferAppliedTx, ProcessAppliedTx, SkipUnparsableUnapplied, BufferUnappliedTx,
         ProcessUnappliedTx, FreshTx, NextTx, HandleMempoolMessage,
         DropMempoolMessage, ForwardMempoolMessage, NextMempool, RestartReader
<1>3. HandleMessage => running
  BY DEF HandleMessage, SetDownstream,
         HandleBlockMessage, SkipMalformedBlock,
         SkipDuplicateApply, DropApplyOnNodeError, EmitBlockApply, EmitBlockUnapply,
         NextBlock, HandleTxMessage, SkipMalformedTx, SkipDuplicateTx, SkipAppliedTx,
         BufferAppliedTx, ProcessAppliedTx, SkipUnparsableUnapplied, BufferUnappliedTx,
         ProcessUnappliedTx, FreshTx, NextTx, HandleMempoolMessage,
         DropMempoolMessage, ForwardMempoolMessage, NextMempool
<1>4. ~HandleMessage => UNCHANGED <<emittedBlocks, pendingDownstream>>
  BY DEF LifeStep, indexerVars, bufferVars, sendVars, RestartReader
<1> QED BY <1>1, <1>2, <1>3, <1>4

LEMMA LifeStepResume ==
  ASSUME ResumeInv, LifeStep, UNCHANGED seekVars
  PROVE  ResumeInv'
<1>1. TypeInv /\ SeekInv /\ Next /\ running' = running
      /\ (~running => UNCHANGED <<emittedBlocks, pendingDownstream>>)
  BY LifeStepNext DEF ResumeInv
<1>2. UNCHANGED <<cursor, seek, points, lives>>
  BY DEF seekVars
<1>3. EventsGenuine'
  BY <1>1, EventsStep DEF SeekInv
<1>4. PointsGenuine'
  <2>1. Len(downstream) <= Len(downstream')
    BY <1>1, DownstreamGrows DEF IsGrownFrom
  <2>2. ASSUME NEW p, GenuinePoint(p) PROVE GenuinePoint(p)'
    BY <1>1, <2>1, <2>2, FeedGrows, DownstreamGrows, GenuinePointStays
  <2>3. \A p \in cursor \cup points : GenuinePoint(p)'
    BY <1>1, <2>2 DEF SeekInv, PointsGenuine
  <2> QED BY <1>2, <2>3 DEF PointsGenuine
<1>5. LifeFrom' \in 0..Len(downstream')
  <2>1. LifeFrom' = LifeFrom
    BY <1>2 DEF LifeFrom
  <2>2. LifeFrom \in 0..Len(downstream)
    BY <1>1 DEF SeekInv
  <2>3. Len(downstream) \in Nat /\ Len(downstream') \in Nat
        /\ Len(downstream) <= Len(downstream')
    BY <1>1, DownstreamGrows DEF IsGrownFrom
  <2> QED BY <2>1, <2>2, <2>3
<1>6. NothingKept'
  BY <1>1 DEF SeekInv, NothingKept
<1>7. TypeInv'
  BY <1>1, TypeInvStep
<1> QED
  BY <1>1, <1>2, <1>3, <1>4, <1>5, <1>6, <1>7 DEF ResumeInv, SeekInv

(* A start of the process begins a life at the end of the stream.          *)
LEMMA NewLife ==
  ASSUME lives \in Seq(Life), Starts, Len(downstream) \in Nat
  PROVE  lives' \in Seq(Life) /\ LifeFrom' = Len(downstream)
<1>1. PICK life \in Life : life.from = Len(downstream) /\ lives' = Append(lives, life)
  BY DEF Starts
<1>2. lives' \in Seq(Life) /\ lives' # <<>> /\ lives'[Len(lives')] = life
  BY <1>1
<1> QED BY <1>1, <1>2 DEF LifeFrom

LEMMA SeeksResume ==
  ASSUME ResumeInv, Seeks
  PROVE  ResumeInv'
<1>1. /\ TypeInv /\ SeekInv /\ ~running
      /\ UNCHANGED <<chain, blockLog, txLog, mempoolLog, completed, pendingApplied,
                     pendingUnapplied, emittedBlocks, processedTxOffsets,
                     processedMempoolOffsets, downstreamSet, pendingDownstream,
                     downstream, cursor>>
  BY DEF ResumeInv, Seeks, feedVars, bufferVars, sendVars
<1>2. Len(downstream) \in Nat
  BY <1>1 DEF TypeInv, TypeOK
<1>3. TypeInv'
  <2>1. blockIdx' \in Nat \ {0}
    BY <1>1 DEF Seeks, TypeInv, TypeOK, FeedTypeOK
  <2>2. running' \in BOOLEAN
    BY <1>1 DEF Seeks, Starts, TypeInv, TypeOK
  <2> QED
    BY <1>1, <2>1, <2>2 DEF Seeks, TypeInv, TypeOK, FeedTypeOK, HoldsOffsets,
                            NothingHeldBack
<1>4. lives' \in Seq(Life) /\ LifeFrom' \in 0..Len(downstream')
  <2>1. CASE Starts
    BY <1>1, <1>2, <2>1, NewLife DEF SeekInv
  <2>2. CASE UNCHANGED lives
    BY <1>1, <2>2 DEF SeekInv, LifeFrom
  <2> QED BY <2>1, <2>2 DEF Seeks
<1>5. EventsGenuine'
  BY <1>1 DEF SeekInv, EventsGenuine, GenuineEvent, TxEventAt, Produced
<1>6. PointsGenuine'
  BY <1>1 DEF Seeks, SeekInv, PointsGenuine, GenuinePoint, StoredPlace
<1>7. NothingKept'
  BY <1>1 DEF SeekInv, NothingKept
<1>8. /\ cursor' \subseteq CursorPoint /\ points' \subseteq CursorPoint
      /\ seek' \in {"none", "stored", "scan"}
      /\ running' => seek' = "none"
  BY <1>1 DEF Seeks, Starts, SeekInv
<1> QED
  BY <1>3, <1>4, <1>5, <1>6, <1>7, <1>8 DEF ResumeInv, SeekInv

LEMMA StartFreshResume ==
  ASSUME ResumeInv, StartFresh
  PROVE  ResumeInv' /\ LifeFrom' = Len(downstream) /\ ~running
<1>1. /\ TypeInv /\ SeekInv /\ StartKafka
      /\ UNCHANGED <<cursor, seek, points>> /\ seek = "none"
  BY DEF ResumeInv, StartFresh
<1>2. ~running /\ running' = TRUE /\ UNCHANGED <<blockLog, txLog, downstream,
        pendingDownstream, emittedBlocks>>
  BY <1>1 DEF StartKafka, feedVars, sendVars, bufferVars
<1>3. Len(downstream) \in Nat
  BY <1>1 DEF TypeInv, TypeOK
<1>4. Starts
  <2> PICK life : life = [from |-> Len(downstream), loaded |-> FALSE, atStart |-> TRUE,
                          ahead |-> FALSE]
    OBVIOUS
  <2>1. life \in Life /\ life.from = Len(downstream)
    BY <1>3 DEF Life
  <2> QED BY <1>1, <1>2, <2>1 DEF StartFresh, Starts
<1>5. lives' \in Seq(Life) /\ LifeFrom' = Len(downstream)
  BY <1>1, <1>3, <1>4, NewLife DEF SeekInv
<1>6. TypeInv'
  BY <1>1, ControlTyping DEF ControlStep
<1>7. EventsGenuine' /\ PointsGenuine'
  BY <1>1, <1>2 DEF SeekInv, EventsGenuine, GenuineEvent, PointsGenuine, GenuinePoint,
                    StoredPlace, TxEventAt, Produced
<1>8. NothingKept'
  BY <1>2 DEF NothingKept
<1> QED
  BY <1>1, <1>2, <1>3, <1>5, <1>6, <1>7, <1>8 DEF ResumeInv, SeekInv

(* What a crash leaves in memory has its type.                             *)
LEMMA CrashTyping ==
  ASSUME TypeInv, Crash
  PROVE  TypeInv'
<1>1. TypeOK
  BY DEF TypeInv
<1>2. FeedTypeOK' /\ downstream' \in Seq(DownstreamEvent)
  BY <1>1 DEF TypeOK, Crash, feedVars, FeedTypeOK
<1>3. lastProcessedHeight' \in Heights
  BY IndexerAssumption, FeedAssumption DEF Crash, Heights
<1>4. tipHeight' \in Int
  BY <1>1, NodeHeightTyping DEF TypeOK, Crash
<1>5. DOMAIN completed' = {}
  BY DEF Crash
<1>6. /\ pendingApplied' \in [Blocks -> Seq(Nat)]
      /\ pendingUnapplied' \in [Blocks -> Seq(Nat)]
      /\ \A b \in Blocks : pendingApplied'[b] = <<>> /\ pendingUnapplied'[b] = <<>>
  BY DEF Crash
<1>7. pendingDownstream' = <<>> /\ pendingDownstream' \in Seq(DownstreamEvent)
  BY EmptySeq DEF Crash
<1>8. running' \in BOOLEAN /\ cursorLoaded' \in BOOLEAN /\ downstreamSet' \in BOOLEAN
  BY Zenon DEF Crash
<1>9. /\ blockIdx' \in Nat \ {0} /\ txIdx' \in Nat \ {0} /\ mempoolIdx' \in Nat \ {0}
      /\ lastBlockOffset' \in Nat /\ lastTxOffset' \in Nat
  BY DEF Crash
<1>10. /\ emittedBlocks' \subseteq Blocks
       /\ processedTxOffsets' \subseteq Nat /\ processedMempoolOffsets' \subseteq Nat
  BY DEF Crash
<1>11. /\ DOMAIN completed' \subseteq Heights
       /\ \A h \in DOMAIN completed' : completed'[h] \in BlockState
  BY <1>5
<1>12. TypeOK'
  BY <1>2, <1>3, <1>4, <1>6, <1>7, <1>8, <1>9, <1>10, <1>11 DEF TypeOK
<1> QED
  BY <1>6, <1>7, <1>12 DEF TypeInv, HoldsOffsets, NothingHeldBack

(* A transaction event is of a transaction.                                *)
LEMMA SentTxTyping ==
  ASSUME ResumeInv
  PROVE  /\ downstream \in Seq(DownstreamEvent) /\ LifeFrom \in Nat
         /\ \A i \in 1..Len(downstream) : GenuineEvent(downstream[i])
         /\ \A i \in 1..Len(downstream) : downstream[i].type = "tx" => downstream[i].tx \in Txs
<1>1. /\ downstream \in Seq(DownstreamEvent) /\ pendingDownstream \in Seq(DownstreamEvent)
      /\ LifeFrom \in 0..Len(downstream) /\ Len(downstream) \in Nat /\ EventsGenuine
      /\ txLog \in Seq(TxMessage)
  BY DEF ResumeInv, TypeInv, TypeOK, FeedTypeOK, SeekInv
<1>2. \A i \in 1..Len(downstream) : GenuineEvent(downstream[i])
  <2>1. \A i \in 1..Len(downstream) : i \in 1..Len(Produced) /\ Produced[i] = downstream[i]
    BY <1>1 DEF Produced
  <2> QED BY <1>1, <2>1 DEF EventsGenuine
<1>3. ASSUME NEW i \in 1..Len(downstream), downstream[i].type = "tx"
      PROVE  downstream[i].tx \in Txs
  <2> PICK o : o = downstream[i].offset
    OBVIOUS
  <2>1. o \in 1..Len(txLog) /\ txLog[o].kind = "applied" /\ downstream[i].tx = txLog[o].tx
    <3>1. GenuineEvent(downstream[i])
      BY <1>2
    <3>2. /\ o \in 1..Len(txLog) /\ txLog[o].kind = "applied"
          /\ downstream[i] = TxEventAt(o)
      BY <1>3, <3>1 DEF GenuineEvent
    <3>3. TxEventAt(o).tx = txLog[o].tx
      BY DEF TxEventAt, Event
    <3> QED BY <3>2, <3>3
  <2>2. txLog[o] \in TxMessage
    BY <1>1, <2>1
  <2> QED BY <2>1, <2>2 DEF TxMessage
<1> QED BY <1>1, <1>2, <1>3

(* Every row of the cursor table can be verified in the topics.            *)
LEMMA TableGenuine ==
  ASSUME ResumeInv
  PROVE  /\ CursorTable \subseteq CursorPoint
         /\ \A p \in CursorTable : GenuinePoint(p)
<1>1. /\ downstream \in Seq(DownstreamEvent) /\ pendingDownstream \in Seq(DownstreamEvent)
      /\ LifeFrom \in 0..Len(downstream) /\ Len(downstream) \in Nat /\ LifeFrom \in Nat
      /\ EventsGenuine
      /\ cursor \subseteq CursorPoint /\ PointsGenuine
  BY DEF ResumeInv, TypeInv, TypeOK, SeekInv
<1>2. \A i \in 1..Len(downstream) : GenuineEvent(downstream[i])
  BY SentTxTyping
<1>3. ASSUME NEW b \in Complete
      PROVE  PointOf(b) \in CursorPoint /\ GenuinePoint(PointOf(b))
  <2> PICK p : p = PointOf(b)
    OBVIOUS
  <2>1. StandsAt(p, b)
    BY <1>1, SentTxTyping, PointOfComplete
  <2>2. PICK j \in (LifeFrom + 1)..Len(downstream) :
           /\ downstream[j].type = "block" /\ downstream[j].block = b
           /\ p.blockOffset = downstream[j].offset
    BY <2>1 DEF StandsAt
  <2>3. GenuineEvent(downstream[j]) /\ GenuineEvent(downstream[p.id])
    <3>1. j \in 1..Len(downstream)
      BY <1>1
    <3> QED BY <1>2, <2>1, <3>1 DEF StandsAt
  <2>4. txLog[p.txOffset].block = b /\ txLog[p.txOffset].tx = p.tx
    BY <2>1, <2>3 DEF StandsAt, GenuineEvent, TxEventAt, Event
  <2>5. GenuinePoint(p)
    BY <2>1, <2>2, <2>3, <2>4 DEF StandsAt, GenuinePoint, StoredPlace, GenuineEvent
  <2> QED BY <2>1, <2>5 DEF StandsAt
<1>4. \A p \in cursor : p \in CursorPoint /\ GenuinePoint(p)
  BY <1>1 DEF PointsGenuine
<1> QED BY <1>3, <1>4 DEF CursorTable

LEMMA CrashResume ==
  ASSUME ResumeInv, Crash
  PROVE  ResumeInv'
<1>1. TypeInv /\ SeekInv /\ TypeInv'
  BY CrashTyping DEF ResumeInv
<1>2. UNCHANGED <<chain, blockLog, txLog, mempoolLog, downstream, lives>>
  BY DEF Crash, feedVars
<1>3. cursor' = CursorTable /\ points' = CursorTable /\ running' = FALSE
  BY DEF Crash
<1>4. /\ CursorTable \subseteq CursorPoint
      /\ \A p \in CursorTable : GenuinePoint(p)
  BY TableGenuine
<1>5. PointsGenuine'
  BY <1>2, <1>3, <1>4 DEF PointsGenuine, GenuinePoint, StoredPlace
<1>6. lives' \in Seq(Life) /\ LifeFrom' \in 0..Len(downstream')
  BY <1>1, <1>2 DEF SeekInv, LifeFrom
<1>7. seek' \in {"none", "stored", "scan"} /\ (running' => seek' = "none")
  BY <1>3 DEF Crash
<1>8. NothingKept'
  BY DEF Crash, NothingKept
<1>9. EventsGenuine'
  <2>1. /\ downstream \in Seq(DownstreamEvent) /\ pendingDownstream \in Seq(DownstreamEvent)
    BY <1>1 DEF TypeInv, TypeOK
  <2>2. Produced' = downstream
    BY <1>2, <2>1, ConcatEmptySeq DEF Produced, Crash
  <2>3. \A i \in 1..Len(downstream) : i \in 1..Len(Produced) /\ Produced[i] = downstream[i]
    BY <2>1 DEF Produced
  <2>4. \A i \in 1..Len(downstream) : GenuineEvent(downstream[i])
    BY <1>1, <2>3 DEF EventsGenuine, SeekInv
  <2> QED BY <1>2, <2>2, <2>4 DEF EventsGenuine, GenuineEvent, TxEventAt
<1> QED
  BY <1>1, <1>3, <1>4, <1>5, <1>6, <1>7, <1>8, <1>9 DEF ResumeInv, SeekInv

LEMMA ResumeInvStep == ResumeInv /\ [ResumeNext]_resumeVars => ResumeInv'
<1> SUFFICES ASSUME ResumeInv, [ResumeNext]_resumeVars PROVE ResumeInv'
  OBVIOUS
<1>1. CASE UNCHANGED resumeVars
  <2>1. UNCHANGED <<vars, cursor, seek, points, lives>>
    BY <1>1 DEF resumeVars, seekVars
  <2>2. TypeInv'
    BY <2>1, TypeInvStep DEF ResumeInv
  <2>3. UNCHANGED <<blockLog, txLog, downstream, pendingDownstream, running, emittedBlocks>>
    BY <2>1 DEF vars, feedVars, indexerVars, readerVars, bufferVars, sendVars
  <2>4. SeekInv'
    BY <2>1, <2>3 DEF ResumeInv, SeekInv, LifeFrom, EventsGenuine, GenuineEvent,
                      TxEventAt, Produced, PointsGenuine, GenuinePoint, StoredPlace, NothingKept
  <2> QED BY <2>2, <2>4 DEF ResumeInv
<1>2. CASE ResumeNext
  BY <1>2, ResumeCases, LifeStepResume, StartFreshResume, SeekStepSeeks, SeeksResume,
     CrashResume
<1> QED BY <1>1, <1>2

LEMMA ResumeInvInit == ResumeInit => ResumeInv
<1> SUFFICES ASSUME ResumeInit PROVE ResumeInv
  OBVIOUS
<1>1. Init /\ TypeInv
  BY TypeInvInit DEF ResumeInit
<1>2. cursor = {} /\ points = {} /\ seek = "none" /\ lives = <<>>
  BY DEF ResumeInit
<1>3. downstream = <<>> /\ pendingDownstream = <<>> /\ emittedBlocks = {} /\ ~running
  BY <1>1 DEF Init
<1>4. lives \in Seq(Life) /\ LifeFrom = 0 /\ Len(downstream) = 0
  BY <1>2, <1>3, EmptySeq DEF LifeFrom
<1>5. EventsGenuine
  BY <1>3 DEF EventsGenuine, Produced
<1> QED
  BY <1>1, <1>2, <1>3, <1>4, <1>5 DEF ResumeInv, SeekInv, PointsGenuine, NothingKept

LEMMA ResumeInvariant == ResumeSpec => []ResumeInv
BY ResumeInvInit, ResumeInvStep, PTL DEF ResumeSpec

(* After any number of crashes, failed reads and starts, at whatever point *)
(* the seek found the process: the readers, the cursor, the table and the  *)
(* points still to be tried keep their types, and no seek is under way     *)
(* while the readers run (startKafka, seekToLiveCursor and the two ways it *)
(* places the readers).                                                    *)
THEOREM ResumeTypeCorrect == ResumeSpec => []ResumeTypeOK
<1>1. ResumeInv => ResumeTypeOK
  BY DEF ResumeInv, TypeInv, SeekInv, ResumeTypeOK, PointsGenuine, GenuinePoint
<1> QED BY <1>1, ResumeInvariant, PTL

-------------------------------------------------------------------------------
(* What the running process, or the last one, has sent: the stream of an   *)
(* IndexerActor that knows nothing of those before it.                     *)
LifePart == SubSeq(downstream, LifeFrom + 1, Len(downstream))
L == INSTANCE StreamProofs WITH downstream <- LifePart

LEMMA LAssumptions ==
  L!IsFiniteSet(Blocks)
BY FeedAssumption DEF IsFiniteSet, L!IsFiniteSet

LEMMA Suffix ==
  ASSUME NEW S, NEW s \in Seq(S), NEW n \in 0..Len(s)
  PROVE  /\ SubSeq(s, n + 1, Len(s)) \in Seq(S)
         /\ Len(SubSeq(s, n + 1, Len(s))) = Len(s) - n
         /\ \A k \in 1..(Len(s) - n) : /\ n + k \in 1..Len(s)
                                      /\ SubSeq(s, n + 1, Len(s))[k] = s[n + k]
<1>1. /\ SubSeq(s, n + 1, Len(s)) \in Seq(S)
      /\ Len(SubSeq(s, n + 1, Len(s))) = Len(s) - n
  OBVIOUS
<1>2. ASSUME NEW k \in 1..(Len(s) - n)
      PROVE  n + k \in 1..Len(s) /\ SubSeq(s, n + 1, Len(s))[k] = s[n + k]
  <2>1. n + k \in 1..Len(s) /\ (n + 1) + k - 1 = n + k
    OBVIOUS
  <2> QED BY <2>1
<1> QED BY <1>1, <1>2

LEMMA LifePartTyping ==
  ASSUME downstream \in Seq(DownstreamEvent), LifeFrom \in 0..Len(downstream)
  PROVE  /\ LifePart \in Seq(DownstreamEvent)
         /\ Len(LifePart) = Len(downstream) - LifeFrom
         /\ \A k \in 1..Len(LifePart) :
              LifeFrom + k \in 1..Len(downstream) /\ LifePart[k] = downstream[LifeFrom + k]
<1> PICK s, n : s = downstream /\ n = LifeFrom
  OBVIOUS
<1>1. s \in Seq(DownstreamEvent) /\ n \in 0..Len(s)
  OBVIOUS
<1>2. LifePart = SubSeq(s, n + 1, Len(s))
  BY DEF LifePart
<1>3. /\ LifePart \in Seq(DownstreamEvent)
      /\ Len(LifePart) = Len(s) - n
      /\ \A k \in 1..(Len(s) - n) : n + k \in 1..Len(s) /\ LifePart[k] = s[n + k]
  BY <1>1, <1>2, Suffix
<1> HIDE DEF LifePart, LifeFrom
<1> QED BY <1>3

LEMMA LifePartGrows ==
  ASSUME downstream \in Seq(DownstreamEvent), LifeFrom \in 0..Len(downstream),
         LifeFrom' = LifeFrom,
         NEW t \in Seq(DownstreamEvent), downstream' = downstream \o t
  PROVE  LifePart' = LifePart \o t
<1>1. /\ LifeFrom \in Nat /\ Len(downstream) \in Nat /\ Len(t) \in Nat
      /\ LifeFrom <= Len(downstream)
      /\ Len(downstream') = Len(downstream) + Len(t)
      /\ downstream' \in Seq(DownstreamEvent)
      /\ \A k \in 1..Len(downstream) : downstream'[k] = downstream[k]
      /\ \A k \in 1..Len(t) : downstream'[Len(downstream) + k] = t[k]
  OBVIOUS
<1>2. LifePart' = SubSeq(downstream', LifeFrom + 1, Len(downstream'))
  BY DEF LifePart
<1>3. /\ LifePart' \in Seq(DownstreamEvent)
      /\ Len(LifePart') = Len(downstream) + Len(t) - LifeFrom
      /\ \A k \in 1..Len(LifePart') : LifePart'[k] = downstream'[LifeFrom + k]
  <2> PICK s, n : s = downstream' /\ n = LifeFrom
    OBVIOUS
  <2>1. s \in Seq(DownstreamEvent) /\ n \in 0..Len(s)
    BY <1>1
  <2>2. LifePart' = SubSeq(s, n + 1, Len(s))
    BY <1>2
  <2>3. /\ LifePart' \in Seq(DownstreamEvent)
        /\ Len(LifePart') = Len(s) - n
        /\ \A k \in 1..(Len(s) - n) : LifePart'[k] = s[n + k]
    BY <2>1, <2>2, Suffix
  <2> HIDE DEF LifePart, LifeFrom
  <2> QED BY <1>1, <2>3
<1>4. /\ LifePart \in Seq(DownstreamEvent)
      /\ Len(LifePart) = Len(downstream) - LifeFrom
      /\ \A k \in 1..Len(LifePart) :
           LifeFrom + k \in 1..Len(downstream) /\ LifePart[k] = downstream[LifeFrom + k]
  BY LifePartTyping
<1>5. /\ LifePart \o t \in Seq(DownstreamEvent)
      /\ Len(LifePart \o t) = Len(LifePart) + Len(t)
      /\ \A k \in 1..Len(LifePart) : (LifePart \o t)[k] = LifePart[k]
      /\ \A k \in 1..Len(t) : (LifePart \o t)[Len(LifePart) + k] = t[k]
  <2>1. \A s \in Seq(DownstreamEvent) :
          /\ s \o t \in Seq(DownstreamEvent)
          /\ Len(s \o t) = Len(s) + Len(t)
          /\ \A k \in 1..Len(s) : (s \o t)[k] = s[k]
          /\ \A k \in 1..Len(t) : (s \o t)[Len(s) + k] = t[k]
    OBVIOUS
  <2> QED BY <1>4, <2>1
<1>6. ASSUME NEW k \in 1..Len(LifePart') PROVE LifePart'[k] = (LifePart \o t)[k]
  <2>a. Len(LifePart) \in Nat
    BY <1>1, <1>4
  <2>b. Len(LifePart') \in Nat /\ k \in Nat
    BY <1>1, <1>3
  <2>c. LifePart'[k] = downstream'[LifeFrom + k]
    BY <1>3
  <2>1. k \in Nat /\ Len(LifePart) \in Nat /\ LifePart'[k] = downstream'[LifeFrom + k]
    BY <2>a, <2>b, <2>c
  <2>2. CASE k <= Len(LifePart)
    <3>1. k \in 1..Len(LifePart)
      BY <1>3, <2>1, <2>2
    <3> QED BY <1>1, <1>4, <1>5, <2>1, <3>1
  <2>3. CASE k > Len(LifePart)
    <3> PICK n : n = k - Len(LifePart)
      OBVIOUS
    <3>1. /\ n \in 1..Len(t) /\ k = Len(LifePart) + n
          /\ LifeFrom + k = Len(downstream) + n
      BY <1>1, <1>3, <1>4, <2>1, <2>3
    <3>2. downstream'[Len(downstream) + n] = t[n] /\ (LifePart \o t)[Len(LifePart) + n] = t[n]
      BY <1>1, <1>5, <3>1
    <3> QED BY <2>1, <3>1, <3>2
  <2> QED
    <3>1. k <= Len(LifePart) \/ k > Len(LifePart)
      BY <2>1
    <3> QED BY <2>2, <2>3, <3>1
<1>7. Len(LifePart') = Len(LifePart \o t)
  BY <1>1, <1>3, <1>4, <1>5
<1> HIDE DEF LifePart
<1> QED BY <1>3, <1>5, <1>6, <1>7, SeqEqual

LEMMA LifeSend ==
  ASSUME TypeInv, LifeFrom \in 0..Len(downstream), LifeFrom' = LifeFrom,
         NEW events \in Seq(DownstreamEvent), SendDownstream(events)
  PROVE  L!SendDownstream(events)
<1>1. downstream \in Seq(DownstreamEvent)
  BY DEF TypeInv, TypeOK
<1>2. CASE downstreamSet
  <2>1. LifePart' = LifePart \o events
    BY <1>1, <1>2, LifePartGrows DEF SendDownstream
  <2> QED BY <1>2, <2>1 DEF SendDownstream, L!SendDownstream
<1>3. CASE ~downstreamSet
  <2>1. LifePart' = LifePart
    BY <1>3 DEF SendDownstream, LifePart
  <2> QED BY <1>3, <2>1 DEF SendDownstream, L!SendDownstream
<1> QED BY <1>2, <1>3

LEMMA LifeTyping ==
  ASSUME TypeInv, LifeFrom \in 0..Len(downstream)
  PROVE  L!TypeInv
<1>1. TypeOK /\ LifePart \in Seq(DownstreamEvent)
  BY LifePartTyping DEF TypeInv, TypeOK
<1>2. L!FeedTypeOK
  BY <1>1 DEF TypeOK, FeedTypeOK, L!FeedTypeOK, BlockMessage, L!BlockMessage,
              TxMessage, L!TxMessage, MempoolMessage, L!MempoolMessage
<1>3. L!DownstreamEvent = DownstreamEvent /\ L!Heights = Heights
      /\ L!BlockState = BlockState
  BY DEF L!DownstreamEvent, DownstreamEvent, L!Heights, Heights, BlockState, L!BlockState
<1>4. L!TypeOK
  BY <1>1, <1>2, <1>3 DEF TypeOK, L!TypeOK
<1> QED
  BY <1>4 DEF TypeInv, L!TypeInv, HoldsOffsets, L!HoldsOffsets, NothingHeldBack,
              L!NothingHeldBack

LEMMA LifeCardinality == \A S : L!Cardinality(S) = Cardinality(S)
BY DEF Cardinality, L!Cardinality

(* The topics are the same for the life: so are the invariants about them. *)
LEMMA LifeFeedInv ==
  /\ L!NodeHeight = NodeHeight
  /\ L!ChainInv <=> ChainInv
  /\ L!LogInv <=> LogInv
  /\ L!IndexInv <=> IndexInv
<1>1. L!NodeHeight = NodeHeight
  BY LifeCardinality DEF NodeHeight, L!NodeHeight
<1>2. /\ \A b, c : L!Higher(b, c) <=> Higher(b, c)
      /\ \A i : L!Before(i) = Before(i)
  BY DEF Higher, L!Higher, Before, L!Before
<1>3. L!ChainInv <=> ChainInv
  BY <1>1, <1>2 DEF ChainInv, L!ChainInv
<1>4. \A i : L!LinkOK(i) <=> LinkOK(i)
  BY <1>2 DEF LinkOK, L!LinkOK
<1>5. L!LogInv <=> LogInv
  BY <1>2, <1>4 DEF LogInv, L!LogInv
<1>6. L!IndexInv <=> IndexInv
  BY <1>2 DEF IndexInv, L!IndexInv
<1> QED BY <1>1, <1>3, <1>5, <1>6

LEMMA LifePrune ==
  \A applied, unapplied, emitted, comp :
    PruneOldBuffers(applied, unapplied, emitted, comp)
      => L!PruneOldBuffers(applied, unapplied, emitted, comp)
<1>1. \A offsets : L!KeepNewest(offsets) = KeepNewest(offsets)
  BY LifeCardinality DEF KeepNewest, L!KeepNewest
<1>2. \A h : L!Straggler(h) <=> Straggler(h)
  BY DEF Straggler, L!Straggler
<1> SUFFICES ASSUME NEW applied, NEW unapplied, NEW emitted, NEW comp,
                    PruneOldBuffers(applied, unapplied, emitted, comp)
             PROVE  L!PruneOldBuffers(applied, unapplied, emitted, comp)
  OBVIOUS
<1>3. CASE lastProcessedHeight' < tipHeight'
  BY <1>3 DEF PruneOldBuffers, L!PruneOldBuffers
<1>4. CASE ~(lastProcessedHeight' < tipHeight')
  <2>1. pendingApplied' = [b \in Blocks |-> IF L!Straggler(HeightOf[b]) THEN <<>> ELSE applied[b]]
    BY <1>2, <1>4 DEF PruneOldBuffers
  <2>2. pendingUnapplied' =
          [b \in Blocks |-> IF L!Straggler(HeightOf[b]) THEN <<>> ELSE unapplied[b]]
    BY <1>2, <1>4 DEF PruneOldBuffers
  <2>3. emittedBlocks' = {b \in emitted : ~L!Straggler(HeightOf[b])}
    BY <1>2, <1>4 DEF PruneOldBuffers
  <2>4. completed' = [h \in {k \in DOMAIN comp : ~L!Straggler(k)} |-> comp[h]]
    BY <1>2, <1>4 DEF PruneOldBuffers
  <2>5. /\ processedTxOffsets' = L!KeepNewest(processedTxOffsets)
        /\ processedMempoolOffsets' = L!KeepNewest(processedMempoolOffsets)
    BY <1>1, <1>4 DEF PruneOldBuffers
  <2> QED BY <1>4, <2>1, <2>2, <2>3, <2>4, <2>5 DEF L!PruneOldBuffers
<1> QED BY <1>3, <1>4

(* The steps of the process that send nothing are those of the life.       *)
LEMMA LifeQuiet ==
  ASSUME UNCHANGED <<downstream, lives>>
  PROVE  LifePart' = LifePart
BY DEF LifePart, LifeFrom


LEMMA LifeQuietBlock ==
  ASSUME QuietBlockStep, UNCHANGED lives
  PROVE  L!QuietBlockStep
BY LifeQuiet
   DEF QuietBlockStep, SkipMalformedBlock, SkipDuplicateApply, DropApplyOnNodeError,
       NextBlock, bufferVars, sendVars, feedVars,
       L!QuietBlockStep, L!SkipMalformedBlock, L!SkipDuplicateApply, L!DropApplyOnNodeError,
       L!NextBlock, L!bufferVars, L!sendVars, L!feedVars

LEMMA LifeQuietTx ==
  ASSUME QuietTxStep, UNCHANGED lives
  PROVE  L!QuietTxStep
BY LifeQuiet
   DEF QuietTxStep, SkipMalformedTx, SkipDuplicateTx, SkipAppliedTx, BufferAppliedTx,
       SkipUnparsableUnapplied, BufferUnappliedTx, FreshTx, NextTx, SkippedHeight,
       sendVars, feedVars, boundVars,
       L!QuietTxStep, L!SkipMalformedTx, L!SkipDuplicateTx, L!SkipAppliedTx,
       L!BufferAppliedTx, L!SkipUnparsableUnapplied, L!BufferUnappliedTx, L!FreshTx,
       L!NextTx, L!SkippedHeight, L!sendVars, L!feedVars, L!boundVars

LEMMA LifeRestart ==
  ASSUME NEW topic, RestartReader(topic), UNCHANGED lives
  PROVE  L!RestartReader(topic)
BY LifeQuiet
   DEF RestartReader, ResumeOffset, feedVars, cursorVars, bufferVars, sendVars,
       L!RestartReader, L!ResumeOffset, L!feedVars, L!cursorVars, L!bufferVars, L!sendVars

LEMMA LifeSetDownstream ==
  ASSUME TypeInv, LifeFrom \in 0..Len(downstream), SetDownstream, UNCHANGED lives
  PROVE  L!SetDownstream
<1>1. /\ downstream \in Seq(DownstreamEvent) /\ pendingDownstream \in Seq(DownstreamEvent)
      /\ LifeFrom' = LifeFrom
  BY DEF TypeInv, TypeOK, LifeFrom
<1>2. LifePart' = LifePart \o pendingDownstream
  <2> PICK t : t = pendingDownstream
    OBVIOUS
  <2>1. LifePart' = LifePart \o t
    BY <1>1, LifePartGrows DEF SetDownstream
  <2> QED BY <2>1
<1> QED
  BY <1>2 DEF SetDownstream, feedVars, readerVars, cursorVars, bufferVars, boundVars,
              L!SetDownstream, L!feedVars, L!readerVars, L!cursorVars, L!bufferVars,
              L!boundVars

LEMMA LifeMempool ==
  ASSUME TypeInv, LifeFrom \in 0..Len(downstream), HandleMempoolMessage, UNCHANGED lives
  PROVE  L!HandleMempoolMessage
<1>1. LifeFrom' = LifeFrom
  BY DEF LifeFrom
<1>2. CASE DropMempoolMessage
  BY <1>2, LifeQuiet
     DEF DropMempoolMessage, NextMempool, feedVars, cursorVars, boundVars, sendVars,
         L!HandleMempoolMessage, L!DropMempoolMessage, L!NextMempool, L!feedVars,
         L!cursorVars, L!boundVars, L!sendVars
<1>3. CASE ForwardMempoolMessage
  <2> PICK e : e = Event(mempoolLog[mempoolIdx].kind, Root,
                         mempoolLog[mempoolIdx].tx, mempoolIdx, FALSE)
    OBVIOUS
  <2>1. SendDownstream(<<e>>)
    BY <1>3 DEF ForwardMempoolMessage
  <2>2. e \in DownstreamEvent
    <3>1. mempoolIdx \in 1..Len(mempoolLog) /\ mempoolIdx \in Nat
      BY <1>3 DEF ForwardMempoolMessage, NextMempool, TypeInv, TypeOK, FeedTypeOK
    <3>2. mempoolLog[mempoolIdx] \in MempoolMessage
      BY <3>1 DEF TypeInv, TypeOK, FeedTypeOK
    <3>3. mempoolLog[mempoolIdx].tx \in Txs \cup {Root}
          /\ mempoolLog[mempoolIdx].kind \in {"accepted", "withdrawn", "malformed"}
      BY <3>2 DEF MempoolMessage
    <3> QED BY <3>1, <3>3 DEF Event, DownstreamEvent
  <2>3. L!SendDownstream(<<e>>)
    <3>1. \A x \in DownstreamEvent : <<x>> \in Seq(DownstreamEvent)
      OBVIOUS
    <3>2. <<e>> \in Seq(DownstreamEvent)
      BY <2>2, <3>1
    <3> QED BY <1>1, <2>1, <3>2, LifeSend
  <2>4. e = L!Event(mempoolLog[mempoolIdx].kind, Root,
                    mempoolLog[mempoolIdx].tx, mempoolIdx, FALSE)
    BY DEF Event, L!Event
  <2> QED
    BY <1>3, <2>3, <2>4
       DEF ForwardMempoolMessage, NextMempool, feedVars, cursorVars, boundVars,
           L!HandleMempoolMessage, L!ForwardMempoolMessage, L!NextMempool, L!feedVars,
           L!cursorVars, L!boundVars
<1> QED BY <1>2, <1>3 DEF HandleMempoolMessage

LEMMA LifeCursor ==
  /\ \A comp, h, st : L!SetState(comp, h, st) = SetState(comp, h, st)
  /\ \A comp : L!Remaining(comp) = Remaining(comp)
  /\ \A comp : TryAdvanceCursor(comp) <=> L!TryAdvanceCursor(comp)
<1>1. \A comp, h, st : L!SetState(comp, h, st) = SetState(comp, h, st)
  BY DEF SetState, L!SetState
<1>2. \A comp : L!Remaining(comp) = Remaining(comp)
  BY DEF Remaining, L!Remaining
<1>3. \A comp : TryAdvanceCursor(comp) <=> L!TryAdvanceCursor(comp)
  BY DEF TryAdvanceCursor, L!TryAdvanceCursor, CursorStopsAt, L!CursorStopsAt,
         DoneAt, L!DoneAt, Done, L!Done
<1> QED BY <1>1, <1>2, <1>3

LEMMA LifeProcess ==
  ASSUME TypeInv, LifeFrom \in 0..Len(downstream), UNCHANGED lives,
         ProcessAppliedTx \/ ProcessUnappliedTx
  PROVE  L!ProcessAppliedTx \/ L!ProcessUnappliedTx
<1>1. LifeFrom' = LifeFrom
  BY DEF LifeFrom
<1>2. PICK kind \in {"applied", "unapplied"} : FreshTx(kind)
  BY DEF ProcessAppliedTx, ProcessUnappliedTx
<1>3. /\ <<TxEventAt(txIdx)>> \in Seq(DownstreamEvent)
      /\ <<UnappliedEventAt(txIdx)>> \in Seq(DownstreamEvent)
  BY <1>2, TxTyping DEF TypeInv
<1>4. /\ L!TxEventAt(txIdx) = TxEventAt(txIdx)
      /\ L!UnappliedEventAt(txIdx) = UnappliedEventAt(txIdx)
  BY DEF TxEventAt, UnappliedEventAt, Event, L!TxEventAt, L!UnappliedEventAt, L!Event
<1>5. /\ SendDownstream(<<TxEventAt(txIdx)>>) => L!SendDownstream(<<TxEventAt(txIdx)>>)
      /\ SendDownstream(<<UnappliedEventAt(txIdx)>>)
           => L!SendDownstream(<<UnappliedEventAt(txIdx)>>)
  <2> PICK e, f : e = TxEventAt(txIdx) /\ f = UnappliedEventAt(txIdx)
    OBVIOUS
  <2>1. <<e>> \in Seq(DownstreamEvent) /\ <<f>> \in Seq(DownstreamEvent)
    BY <1>3
  <2>2. SendDownstream(<<e>>) => L!SendDownstream(<<e>>)
    BY <1>1, <2>1, LifeSend
  <2>3. SendDownstream(<<f>>) => L!SendDownstream(<<f>>)
    BY <1>1, <2>1, LifeSend
  <2> QED BY <2>2, <2>3
<1> HIDE DEF TxEventAt, UnappliedEventAt
<1>6. \A k : FreshTx(k) => L!FreshTx(k)
  BY DEF FreshTx, NextTx, feedVars, boundVars, L!FreshTx, L!NextTx, L!feedVars, L!boundVars
<1>7. \A h : L!SkippedHeight(h) <=> SkippedHeight(h)
  BY DEF SkippedHeight, L!SkippedHeight
<1>8. CASE ProcessAppliedTx
  BY <1>4, <1>5, <1>6, <1>7, <1>8, LifeCursor DEF ProcessAppliedTx, L!ProcessAppliedTx
<1>9. CASE ProcessUnappliedTx
  BY <1>4, <1>5, <1>6, <1>9, LifeCursor DEF ProcessUnappliedTx, L!ProcessUnappliedTx
<1> QED BY <1>8, <1>9

(* A block message is announced or retracted in the life as in the process.*)
LEMMA LifeEmitApply ==
  ASSUME TypeInv, LifeFrom \in 0..Len(downstream), EmitBlockApply, UNCHANGED lives
  PROVE  L!EmitBlockApply
<1> DEFINE b == blockLog[blockIdx].block
           e == Event("block", b, Root, blockIdx, tipHeight' = HeightOf[b])
           txs == [i \in 1..Len(pendingApplied[b]) |-> TxEventAt(pendingApplied[b][i])]
           untxs == [i \in 1..Len(pendingUnapplied[b]) |->
                       UnappliedEventAt(pendingUnapplied[b][i])]
           t == <<e>> \o txs \o untxs
<1>1. b \in Blocks
  BY EmitBlockApplyStep
<1>2. txs \in Seq(DownstreamEvent) /\ untxs \in Seq(DownstreamEvent)
  BY <1>1, EventsIn
<1>3. e \in DownstreamEvent
  <2>1. blockIdx \in Nat
    BY DEF TypeInv, TypeOK
  <2> QED BY <1>1, <2>1 DEF Event, DownstreamEvent
<1>4. t \in Seq(DownstreamEvent)
  <2> HIDE DEF e, txs, untxs
  <2> QED BY <1>2, <1>3
<1>5. SendDownstream(t)
  BY DEF EmitBlockApply
<1>6. L!SendDownstream(t)
  <2> PICK events : events = t
    OBVIOUS
  <2> HIDE DEF t
  <2>1. L!SendDownstream(events)
    BY <1>4, <1>5, LifeSend DEF LifeFrom
  <2> QED BY <2>1
<1>7. t = <<L!Event("block", b, Root, blockIdx, tipHeight' = HeightOf[b])>>
          \o [i \in 1..Len(pendingApplied[b]) |-> L!TxEventAt(pendingApplied[b][i])]
          \o [i \in 1..Len(pendingUnapplied[b]) |->
                L!UnappliedEventAt(pendingUnapplied[b][i])]
  BY DEF Event, TxEventAt, UnappliedEventAt, L!Event, L!TxEventAt, L!UnappliedEventAt
<1> HIDE DEF t, e, txs, untxs
<1>8. /\ L!StateAfterReplay(b) = StateAfterReplay(b) /\ L!NodeHeight = NodeHeight
      /\ L!NumTxs(b) = NumTxs(b)
      /\ NextBlock("apply") => L!NextBlock("apply")
  BY LifeFeedInv
     DEF StateAfterReplay, NumTxs, L!StateAfterReplay, L!NumTxs, NextBlock, L!NextBlock,
         feedVars, L!feedVars
<1> QED
  BY <1>6, <1>7, <1>8, LifeCursor, LifePrune DEF EmitBlockApply, L!EmitBlockApply

LEMMA LifeEmitUnapply ==
  ASSUME TypeInv, LifeFrom \in 0..Len(downstream), EmitBlockUnapply, UNCHANGED lives
  PROVE  L!EmitBlockUnapply
<1> DEFINE b == blockLog[blockIdx].block
           e == Event("rollback", b, Root, blockIdx, FALSE)
           untxs == [i \in 1..Len(pendingUnapplied[b]) |->
                       UnappliedEventAt(pendingUnapplied[b][i])]
           t == <<e>> \o untxs
<1>1. b \in Blocks
  BY EmitBlockUnapplyStep
<1>2. untxs \in Seq(DownstreamEvent)
  BY <1>1, EventsIn
<1>3. e \in DownstreamEvent
  <2>1. blockIdx \in Nat
    BY DEF TypeInv, TypeOK
  <2> QED BY <1>1, <2>1 DEF Event, DownstreamEvent
<1>4. t \in Seq(DownstreamEvent)
  <2> HIDE DEF e, untxs
  <2> QED BY <1>2, <1>3
<1>5. SendDownstream(t)
  BY DEF EmitBlockUnapply
<1>6. L!SendDownstream(t)
  <2> PICK events : events = t
    OBVIOUS
  <2> HIDE DEF t
  <2>1. L!SendDownstream(events)
    BY <1>4, <1>5, LifeSend DEF LifeFrom
  <2> QED BY <2>1
<1>7. t = <<L!Event("rollback", b, Root, blockIdx, FALSE)>>
          \o [i \in 1..Len(pendingUnapplied[b]) |->
                L!UnappliedEventAt(pendingUnapplied[b][i])]
  BY DEF Event, UnappliedEventAt, L!Event, L!UnappliedEventAt
<1> HIDE DEF t, e, untxs
<1>8. /\ L!NumTxs(b) = NumTxs(b)
      /\ L!EmittedAfterUnapply(b) = EmittedAfterUnapply(b)
      /\ NextBlock("unapply") => L!NextBlock("unapply")
  BY DEF NumTxs, EmittedAfterUnapply, L!NumTxs, L!EmittedAfterUnapply,
         NextBlock, L!NextBlock, feedVars, L!feedVars
<1> QED
  BY <1>6, <1>7, <1>8, LifeCursor, LifePrune DEF EmitBlockUnapply, L!EmitBlockUnapply

-------------------------------------------------------------------------------
(* The invariant of IndexerProofs, of every life.                          *)

LEMMA LifeFeedInvNext ==
  /\ (L!ChainInv)' <=> ChainInv'
  /\ (L!LogInv)' <=> LogInv'
  /\ (L!IndexInv)' <=> IndexInv'
BY LifeFeedInv, PTL

(* What a life has produced stays what it was while nothing is sent.       *)
LEMMA LifeUnsent ==
  ASSUME L!OpenInv, L!TxInv, LifePart' = LifePart,
         UNCHANGED <<pendingDownstream, emittedBlocks>>
  PROVE  (L!OpenInv)' /\ (L!TxInv)'
<1>1. (L!Produced)' = L!Produced
  BY DEF L!Produced
<1> QED BY <1>1 DEF L!OpenInv, L!TxInv

LEMMA LifeFeedOrder ==
  ASSUME TypeInv, L!OrderInv, FeedNext, UNCHANGED indexerVars, UNCHANGED lives
  PROVE  (L!OrderInv)'
<1>1. ChainInv /\ LogInv /\ IndexInv /\ L!OpenInv /\ L!TxInv
  BY LifeFeedInv DEF L!OrderInv
<1>2. UNCHANGED <<blockIdx, emittedBlocks, downstream, pendingDownstream>>
  BY DEF indexerVars, readerVars, bufferVars, sendVars
<1>3. FeedTypeOK /\ FeedTypeOK' /\ IsGrownFrom(blockLog', blockLog)
  BY FeedTyping DEF TypeInv, TypeOK
<1>4. ChainInv' /\ LogInv'
  BY <1>1, <1>3, ChainStep
<1>5. IndexInv'
  <2>1. PICK i \in 1..(Len(blockLog) + 1) : i = blockIdx
    BY <1>1 DEF IndexInv
  <2>2. Before(i)' = Before(i)
    BY <1>3, BeforeKept
  <2>3. Before(blockIdx)' = Before(blockIdx)
    BY <1>2, <2>1, <2>2 DEF Before
  <2>4. Len(blockLog) \in Nat /\ Len(blockLog') \in Nat /\ Len(blockLog) <= Len(blockLog')
    BY <1>3 DEF FeedTypeOK, IsGrownFrom
  <2> QED BY <1>1, <1>2, <2>3, <2>4 DEF IndexInv
<1>6. (L!OpenInv)' /\ (L!TxInv)'
  BY <1>1, <1>2, LifeQuiet, LifeUnsent
<1>7. (L!ChainInv)' /\ (L!LogInv)' /\ (L!IndexInv)'
  BY <1>4, <1>5, LifeFeedInvNext
<1> QED BY <1>6, <1>7 DEF L!OrderInv

LEMMA LifeStepOrder ==
  ASSUME "block" \notin RestartTopics, ResumeInv, L!OrderInv, LifeStep, UNCHANGED seekVars
  PROVE  (L!OrderInv)'
<1>1. TypeInv /\ LifeFrom \in 0..Len(downstream) /\ UNCHANGED lives /\ L!TypeInv
  BY LifeTyping DEF ResumeInv, SeekInv, seekVars
<1>2. CASE FeedNext /\ UNCHANGED indexerVars
  BY <1>1, <1>2, LifeFeedOrder
<1>3. CASE HandleMessage
  <2>1. QuietBlockStep => L!HandleBlockMessage
    BY <1>1, LifeQuietBlock DEF L!QuietBlockStep, L!HandleBlockMessage
  <2>2. EmitBlockApply \/ EmitBlockUnapply => L!HandleBlockMessage
    BY <1>1, LifeEmitApply, LifeEmitUnapply DEF L!HandleBlockMessage
  <2>3. HandleBlockMessage => L!HandleBlockMessage
    BY <2>1, <2>2 DEF HandleBlockMessage, QuietBlockStep
  <2>4. QuietTxStep => L!HandleTxMessage
    BY <1>1, LifeQuietTx DEF L!QuietTxStep, L!HandleTxMessage
  <2>5. ProcessAppliedTx \/ ProcessUnappliedTx => L!HandleTxMessage
    BY <1>1, LifeProcess DEF L!HandleTxMessage
  <2>6. HandleTxMessage => L!HandleTxMessage
    BY <2>4, <2>5 DEF HandleTxMessage, QuietTxStep
  <2>7. L!Next
    BY <1>1, <1>3, <2>3, <2>6, LifeSetDownstream, LifeMempool DEF HandleMessage, L!Next
  <2> QED
    BY <1>1, <2>7, L!OrderStep, LAssumptions, FeedAssumption, IndexerAssumption
<1>4. CASE \E topic \in RestartTopics : RestartReader(topic)
  <2>1. L!Next
    BY <1>1, <1>4, LifeRestart DEF L!Next
  <2> QED
    BY <1>1, <2>1, L!OrderStep, LAssumptions, FeedAssumption, IndexerAssumption
<1> QED BY <1>2, <1>3, <1>4 DEF LifeStep

(* While nothing is emitted and the life has sent nothing, or only what    *)
(* was sent is left, the invariant holds of it.                            *)
LEMMA FreshLife ==
  ASSUME ResumeInv, L!OrderInv, ~running, Seeks \/ StartFresh
  PROVE  (L!OrderInv)'
<1>1. TypeInv /\ SeekInv /\ ChainInv /\ LogInv /\ IndexInv /\ L!OpenInv /\ L!TxInv
  BY LifeFeedInv DEF ResumeInv, L!OrderInv
<1>2. /\ UNCHANGED <<feedVars, emittedBlocks, downstream, pendingDownstream>>
      /\ blockIdx' \in {blockIdx} \cup 1..(Len(blockLog) + 1)
  BY DEF Seeks, StartFresh, StartKafka, bufferVars, sendVars
<1>3. emittedBlocks = {} /\ pendingDownstream = <<>>
  BY <1>1 DEF SeekInv, NothingKept
<1>4. ChainInv' /\ LogInv' /\ IndexInv'
  BY <1>1, <1>2, <1>3
     DEF ChainInv, NodeHeight, LogInv, LinkOK, IndexInv, Before, feedVars
<1>5. (L!OpenInv)'
  BY <1>2, <1>3 DEF L!OpenInv
<1>6. CASE UNCHANGED lives
  BY <1>1, <1>2, <1>4, <1>5, <1>6, LifeQuiet, LifeUnsent, LifeFeedInvNext DEF L!OrderInv
<1>7. CASE LifeFrom' = Len(downstream)
  <2>1. Len(downstream) \in Nat /\ downstream \in Seq(DownstreamEvent)
    BY <1>1 DEF TypeInv, TypeOK
  <2>2. LifePart' = SubSeq(downstream, Len(downstream) + 1, Len(downstream))
    BY <1>2, <1>7 DEF LifePart
  <2>3. LifePart' = <<>>
    BY <2>1, <2>2
  <2>4. (L!Produced)' = <<>>
    BY <1>2, <1>3, <2>3 DEF L!Produced
  <2>5. (L!TxInv)'
    BY <2>4 DEF L!TxInv
  <2> QED BY <1>4, <1>5, <2>5, LifeFeedInvNext DEF L!OrderInv
<1>8. UNCHANGED lives \/ LifeFrom' = Len(downstream)
  <2>1. CASE Starts
    BY <1>1, <2>1, NewLife DEF SeekInv, TypeInv, TypeOK
  <2> QED BY <2>1, StartFreshResume DEF Seeks
<1> QED BY <1>6, <1>7, <1>8

LEMMA CrashOrder ==
  ASSUME ResumeInv, L!OrderInv, Crash
  PROVE  (L!OrderInv)'
<1>1. TypeInv /\ L!TypeInv /\ ChainInv /\ LogInv /\ IndexInv /\ L!OpenInv /\ L!TxInv
  BY LifeFeedInv, LifeTyping DEF ResumeInv, SeekInv, L!OrderInv
<1>2. /\ UNCHANGED <<feedVars, downstream, lives>>
      /\ blockIdx' = 1 /\ emittedBlocks' = {} /\ pendingDownstream' = <<>>
  BY DEF Crash
<1>3. ChainInv' /\ LogInv' /\ IndexInv'
  <2>1. Len(blockLog) \in Nat
    BY <1>1 DEF TypeInv, TypeOK, FeedTypeOK
  <2> QED
    BY <1>1, <1>2, <2>1 DEF ChainInv, NodeHeight, LogInv, LinkOK, IndexInv, Before, feedVars
<1>4. (L!OpenInv)'
  BY <1>2 DEF L!OpenInv
<1>5. (L!TxInv)'
  <2>1. LifePart \in Seq(DownstreamEvent)
    BY LifePartTyping DEF ResumeInv, SeekInv, TypeInv, TypeOK
  <2>2. LifePart' = LifePart
    BY <1>2, LifeQuiet
  <2>3. (L!Produced)' = LifePart
    BY <1>2, <2>1, <2>2, ConcatEmptySeq DEF L!Produced
  <2>4. L!TxWithinItsBlock
    BY <1>1, L!OrderImplies, LAssumptions, FeedAssumption, IndexerAssumption DEF L!OrderInv
  <2> QED BY <2>3, <2>4 DEF L!TxInv, L!TxWithinItsBlock
<1> QED BY <1>3, <1>4, <1>5, LifeFeedInvNext DEF L!OrderInv

LEMMA LifeOrderStep ==
  ASSUME "block" \notin RestartTopics, ResumeInv, L!OrderInv, [ResumeNext]_resumeVars
  PROVE  (L!OrderInv)'
<1>1. CASE UNCHANGED resumeVars
  <2>1. UNCHANGED <<feedVars, blockIdx, emittedBlocks, downstream, pendingDownstream, lives>>
    BY <1>1 DEF resumeVars, vars, indexerVars, readerVars, bufferVars, sendVars, seekVars
  <2>2. ChainInv /\ LogInv /\ IndexInv /\ L!OpenInv /\ L!TxInv
    BY LifeFeedInv DEF L!OrderInv
  <2>3. ChainInv' /\ LogInv' /\ IndexInv'
    BY <2>1, <2>2
       DEF ChainInv, NodeHeight, LogInv, LinkOK, IndexInv, Before, feedVars
  <2> QED BY <2>1, <2>2, <2>3, LifeQuiet, LifeUnsent, LifeFeedInvNext DEF L!OrderInv
<1>2. CASE LifeStep /\ UNCHANGED seekVars
  BY <1>2, LifeStepOrder
<1>3. CASE StartFresh \/ SeekStep
  <2>1. ~running /\ (Seeks \/ StartFresh)
    BY <1>3, SeekStepSeeks, StartFreshResume DEF Seeks
  <2> QED BY <2>1, FreshLife
<1>4. CASE Crash
  BY <1>4, CrashOrder
<1> QED BY <1>1, <1>2, <1>3, <1>4, ResumeCases

LEMMA LifeOrderInit == ResumeInit => L!OrderInv
<1> SUFFICES ASSUME ResumeInit PROVE L!OrderInv
  OBVIOUS
<1>1. Init /\ OrderInv /\ ResumeInv
  BY OrderInit, ResumeInvInit DEF ResumeInit
<1>2. /\ downstream = <<>> /\ emittedBlocks = {} /\ pendingDownstream = <<>>
      /\ LifeFrom = 0
  BY <1>1 DEF ResumeInit, Init, LifeFrom
<1>3. LifePart \in Seq(DownstreamEvent) /\ Len(LifePart) = 0
  BY <1>1, <1>2, LifePartTyping DEF ResumeInv, SeekInv, TypeInv, TypeOK
<1>4. L!Produced = LifePart
  BY <1>2, <1>3, ConcatEmptySeq DEF L!Produced
<1>5. L!OpenInv /\ L!TxInv
  BY <1>2, <1>3, <1>4 DEF L!OpenInv, L!TxInv
<1> QED BY <1>1, <1>5, LifeFeedInv DEF OrderInv, L!OrderInv

(* The events of the life, by their place in the whole stream.             *)
LEMMA LifeOrderImplies ==
  ASSUME ResumeInv, L!OrderInv
  PROVE  TxKnownSinceStart
<1>1. TypeInv /\ downstream \in Seq(DownstreamEvent) /\ LifeFrom \in 0..Len(downstream)
      /\ LifeFrom \in Nat /\ Len(downstream) \in Nat
  BY DEF ResumeInv, SeekInv, TypeInv, TypeOK
<1>2. L!TxWithinItsBlock
  BY <1>1, LifeTyping, L!OrderImplies, LAssumptions, FeedAssumption, IndexerAssumption
<1>3. /\ Len(LifePart) = Len(downstream) - LifeFrom
      /\ \A k \in 1..Len(LifePart) : LifePart[k] = downstream[LifeFrom + k]
  BY <1>1, LifePartTyping
<1> HIDE DEF LifePart, LifeFrom
<1>4. \A e, b : L!Closes(e, b) <=> Closes(e, b)
  BY DEF Closes, L!Closes
<1>5. ASSUME NEW i \in (LifeFrom + 1)..Len(downstream), downstream[i].type = "tx"
      PROVE  \E j \in (LifeFrom + 1)..i :
               /\ downstream[j].type = "block" /\ downstream[j].block = downstream[i].block
               /\ \A k \in (j + 1)..i : ~Closes(downstream[k], downstream[j].block)
  <2> PICK n : n = i - LifeFrom
    OBVIOUS
  <2>1. n \in 1..Len(LifePart) /\ i = LifeFrom + n /\ i \in Nat /\ n \in Nat
    BY <1>1, <1>3
  <2>2. LifePart[n] = downstream[i]
    BY <1>3, <2>1
  <2>3. L!OpenAt(LifePart, n, downstream[i].block)
    BY <1>2, <1>5, <2>1, <2>2 DEF L!TxWithinItsBlock
  <2>4. PICK m \in 1..n : /\ LifePart[m].type = "block"
                          /\ LifePart[m].block = downstream[i].block
                          /\ \A k \in (m + 1)..n : ~Closes(LifePart[k], downstream[i].block)
    BY <1>4, <2>3 DEF L!OpenAt
  <2> PICK j : j = LifeFrom + m
    OBVIOUS
  <2>5. m \in 1..Len(LifePart) /\ j \in (LifeFrom + 1)..i /\ m \in Nat /\ j \in Nat
    BY <1>1, <1>3, <2>1
  <2>6. downstream[j] = LifePart[m]
    BY <1>3, <2>5
  <2>7. ASSUME NEW k \in (j + 1)..i
        PROVE  ~Closes(downstream[k], downstream[j].block)
    <3> PICK l : l = k - LifeFrom
      OBVIOUS
    <3>1. l \in 1..Len(LifePart) /\ k = LifeFrom + l /\ l \in (m + 1)..n
      BY <1>1, <1>3, <2>1, <2>5
    <3>2. downstream[k] = LifePart[l]
      BY <1>3, <3>1
    <3> QED BY <2>4, <2>6, <3>1, <3>2
  <2> QED BY <2>4, <2>5, <2>6, <2>7
<1> QED BY <1>5 DEF TxKnownSinceStart

(* For every number of crashes, at every point the seek may end: each      *)
(* process sends a transaction only after it has itself announced the      *)
(* block, and while that block is the one the strategies know at its       *)
(* height, so a ChainEventProcessor that starts empty finds the row it     *)
(* needs.  A restart of the block reader is excluded, as in TxInOrder.     *)
THEOREM TxKnownInItsLife ==
  ASSUME "block" \notin RestartTopics
  PROVE  ResumeSpec => []TxKnownSinceStart
<1>1. ResumeInit => L!OrderInv
  BY LifeOrderInit
<1>2. ResumeInv /\ L!OrderInv /\ [ResumeNext]_resumeVars => (L!OrderInv)'
  BY LifeOrderStep
<1>3. ResumeInv /\ L!OrderInv => TxKnownSinceStart
  BY LifeOrderImplies
<1> QED BY <1>1, <1>2, <1>3, ResumeInvariant, PTL DEF ResumeSpec

-------------------------------------------------------------------------------
(* LivesMirrorChain.                                                       *)
(*                                                                         *)
(* Two things are claimed of the topics and the stream, whichever life the *)
(* process is in.  A row of the cursor table stands for every block of the *)
(* node's chain up to its own: all of it is in the stream (PointInv).  And *)
(* in a life that is answerable for what it reads, what has to be sent has *)
(* been sent, or has yet to be read, or waits for a block that has yet to  *)
(* be read (LifeInv).  The claims need each other: a life begins behind    *)
(* a row, and leaves the rows of what it has sent in full behind.          *)

SentDown(o) == \E i \in 1..Len(downstream) : downstream[i] = TxEventAt(o)
Indexed(c) == HeightOf[c] >= InterceptHeight

(* What a point of the table stands for: every block of the node's chain   *)
(* up to it has been sent in full.                                         *)
PointClaim(p) ==
  \A c \in Before(p.blockOffset + 1) \cap chain :
    Indexed(c) => \A o \in Messages(c) : SentDown(o)
PointInv == \A p \in cursor \cup points : PointClaim(p)

(* t is where the transaction reader of this life began, or begins again   *)
(* when it is restarted: what is before it need not be read again.         *)
EarlierSent(t) ==
  \A c \in chain : Indexed(c) => \A o \in Messages(c) : o < t => SentDown(o)

(* The reader leaves nothing out, but for what is before t.                *)
ReadInOrder(t) ==
  \A o \in processedTxOffsets \cup {txIdx} : \A q \in 1..(o - 1) :
    txLog[q].kind = "malformed" \/ q \in processedTxOffsets \/ (q < t /\ t <= o)

(* A process that has resumed is answerable for a block only as long as no *)
(* rollback lies between its block reader and the block.                   *)
Due(c) ==
  \/ ~cursorLoaded
  \/ c \in Before(blockIdx)
  \/ \E j \in blockIdx..Len(blockLog) :
       Applies(j, c) /\ \A u \in blockIdx..j : blockLog[u].kind # "unapply"
Missed(o, t) == o < t /\ o \notin processedTxOffsets
DueOnItsWay(t) ==
  \A c \in chain : Due(c) /\ Indexed(c) =>
    \A o \in Messages(c) : OnItsWay(o, c) \/ Missed(o, t)

(* The cursor of a process that has resumed, which skips what is not above *)
(* it: never above the blocks read, with all that is below it seen.        *)
LowCursor == \E d \in Before(blockIdx) : lastProcessedHeight <= HeightOf[d]
PassedSeen ==
  \A c \in Before(blockIdx) \cap chain :
    Indexed(c) /\ HeightOf[c] <= lastProcessedHeight =>
      \A o \in Messages(c) : o \in processedTxOffsets \/ SentDown(o)
CountedSeen ==
  \A h \in DOMAIN completed : \E c \in Before(blockIdx) :
    /\ HeightOf[c] = h /\ completed[h].expected = NumTxs(c)
    /\ completed[h].seen <= Cardinality(processedTxOffsets \cap Messages(c))
    /\ completed[h].rollback => c \notin chain
AboveEmitted ==
  \A c \in Before(blockIdx) : lastProcessedHeight < HeightOf[c] => c \in emittedBlocks
LoadedInv == LowCursor /\ PassedSeen /\ CountedSeen /\ AboveEmitted

LifeInv(t) ==
  /\ EarlierSent(t) /\ ReadInOrder(t) /\ lastTxOffset \in {0, t} /\ DueOnItsWay(t)
  /\ IF cursorLoaded THEN LoadedInv ELSE t = 1

(* The topics and where the readers are in them.                           *)
Ground == TypeInv /\ LogInv /\ IndexInv /\ HistoryOK /\ ReadInv

-------------------------------------------------------------------------------
(* What the invariant says of blocks and messages.                         *)

LEMMA GroundFacts ==
  ASSUME Ground
  PROVE  /\ FeedTypeOK /\ Len(blockLog) \in Nat /\ Len(txLog) \in Nat
         /\ blockIdx \in 1..(Len(blockLog) + 1)
         /\ Before(blockIdx) \subseteq Blocks /\ chain \subseteq Blocks
         /\ txIdx \in 1..(Len(txLog) + 1) /\ processedTxOffsets \subseteq 1..Len(txLog)
         /\ \A c \in Blocks : HeightOf[c] \in Int
         /\ lastProcessedHeight \in Int
<1>1. FeedTypeOK /\ TypeInv /\ lastProcessedHeight \in Int
  BY DEF Ground, TypeInv, TypeOK, Heights
<1>2. Before(blockIdx) \subseteq Blocks /\ \A c \in Blocks : HeightOf[c] \in Int
  BY BeforeTyping DEF Ground
<1> QED BY <1>1, <1>2 DEF Ground, FeedTypeOK, IndexInv, ReadInv

LEMMA MessageIs ==
  ASSUME NEW c, NEW o \in Messages(c)
  PROVE  o \in 1..Len(txLog) /\ txLog[o].kind = "applied" /\ txLog[o].block = c
BY DEF Messages

LEMMA SentDownStays ==
  ASSUME Len(downstream) \in Nat, Len(downstream') \in Nat, IsGrownFrom(downstream', downstream),
         IsGrownFrom(txLog', txLog), NEW o \in 1..Len(txLog), SentDown(o)
  PROVE  SentDown(o)'
<1>1. PICK i \in 1..Len(downstream) : downstream[i] = TxEventAt(o)
  BY DEF SentDown
<1>2. i \in 1..Len(downstream') /\ downstream'[i] = downstream[i]
  BY DEF IsGrownFrom
<1>3. TxEventAt(o)' = TxEventAt(o)
  BY DEF IsGrownFrom, TxEventAt
<1> QED BY <1>1, <1>2, <1>3 DEF SentDown

LEMMA SentDownSent ==
  ASSUME TypeInv, NEW o, SentDown(o)
  PROVE  Sent(o)
<1>1. downstream \in Seq(DownstreamEvent) /\ pendingDownstream \in Seq(DownstreamEvent)
  BY DEF TypeInv, TypeOK
<1>2. PICK i \in 1..Len(downstream) : downstream[i] = TxEventAt(o)
  BY DEF SentDown
<1>3. i \in 1..Len(Produced) /\ Produced[i] = downstream[i]
  BY <1>1 DEF Produced
<1> QED BY <1>2, <1>3 DEF Sent

(* A block of the node's chain that has been read is not awaited.          *)
LEMMA NotAwaited ==
  ASSUME Ground, NEW c \in Before(blockIdx) \cap chain
  PROVE  ~Awaited(c)
<1>1. /\ FeedTypeOK /\ blockIdx \in 1..(Len(blockLog) + 1) /\ Len(blockLog) \in Nat
  BY GroundFacts
<1>2. ASSUME NEW j \in blockIdx..Len(blockLog), blockLog[j].kind = "apply", blockLog[j].block = c
      PROVE  FALSE
  <2>1. j \in 1..Len(blockLog) /\ Applies(j, c)
    BY <1>1, <1>2 DEF Applies
  <2>2. c \in Before(blockIdx) <=> j < blockIdx
    BY <1>1, <2>1, OnChain DEF Ground
  <2> QED BY <1>1, <2>2
<1> QED BY <1>2 DEF Awaited

(* What a resumed process is answerable for is higher than what it has     *)
(* read, if it has not read it.                                            *)
LEMMA DueIsHigher ==
  ASSUME Ground, cursorLoaded, NEW c \in chain, Due(c), c \notin Before(blockIdx)
  PROVE  Higher(c, Before(blockIdx))
<1>1. /\ FeedTypeOK /\ blockIdx \in 1..(Len(blockLog) + 1) /\ Len(blockLog) \in Nat
      /\ c \in Blocks
  BY GroundFacts
<1>2. PICK j \in blockIdx..Len(blockLog) :
        Applies(j, c) /\ \A u \in blockIdx..j : blockLog[u].kind # "unapply"
  BY DEF Due
<1>3. blockIdx \in 1..Len(blockLog)
  BY <1>1, <1>2
<1> QED BY <1>1, <1>2, <1>3, Rises DEF Ground

(* What a resumed process is answerable for and skips, it has read.        *)
LEMMA LowIsRead ==
  ASSUME Ground, cursorLoaded, LowCursor, NEW c \in chain, Due(c),
         HeightOf[c] <= lastProcessedHeight
  PROVE  c \in Before(blockIdx)
<1>1. SUFFICES ASSUME c \notin Before(blockIdx) PROVE FALSE
  OBVIOUS
<1>2. Higher(c, Before(blockIdx))
  BY <1>1, DueIsHigher
<1>3. PICK d \in Before(blockIdx) : lastProcessedHeight <= HeightOf[d]
  BY DEF LowCursor
<1>4. HeightOf[d] < HeightOf[c]
  BY <1>2, <1>3 DEF Higher
<1>5. HeightOf[c] \in Int /\ HeightOf[d] \in Int /\ lastProcessedHeight \in Int
  BY GroundFacts
<1> QED BY <1>3, <1>4, <1>5

(* What is sent stays sent.                                                *)
LEMMA SentDownKept ==
  ASSUME TypeInv, [Next]_vars, NEW o \in 1..Len(txLog), SentDown(o)
  PROVE  SentDown(o)'
<1>1. CASE UNCHANGED vars
  BY <1>1 DEF vars, feedVars, indexerVars, sendVars, SentDown, TxEventAt
<1>2. CASE Next
  BY <1>2, DownstreamGrows, FeedGrows, SentDownStays
<1> QED BY <1>1, <1>2

(* What the steps that neither send a block nor handle a transaction       *)
(* message leave alone.                                                    *)
LEMMA OtherLeaves ==
  ASSUME UNCHANGED vars \/ ControlStep \/ QuietBlockStep \/ HandleMempoolMessage
  PROVE  UNCHANGED <<chain, blockLog, txLog, processedTxOffsets, lastProcessedHeight, completed,
                     cursorLoaded, lastTxOffset, emittedBlocks, pendingApplied>>
<1>1. CASE UNCHANGED vars
  BY <1>1 DEF vars, feedVars, indexerVars, bufferVars, readerVars, cursorVars
<1>2. CASE ControlStep
  BY <1>2 DEF ControlStep, StartKafka, SetDownstream, RestartReader, feedVars, bufferVars,
              readerVars, cursorVars
<1>3. CASE QuietBlockStep
  BY <1>3 DEF QuietBlockStep, SkipMalformedBlock, SkipDuplicateApply, DropApplyOnNodeError,
              NextBlock, feedVars, bufferVars
<1>4. CASE HandleMempoolMessage
  BY <1>4 DEF HandleMempoolMessage, DropMempoolMessage, ForwardMempoolMessage, NextMempool,
              feedVars, cursorVars
<1> QED BY <1>1, <1>2, <1>3, <1>4

(* Passing a block message that is no rollback, nothing new becomes due.   *)
LEMMA DuePast ==
  ASSUME Ground, UNCHANGED <<blockLog, cursorLoaded>>, NEW c,
         \/ UNCHANGED blockIdx
         \/ /\ blockIdx \in 1..Len(blockLog) /\ blockIdx' = blockIdx + 1
            /\ blockLog[blockIdx].kind # "unapply"
            /\ c \in Before(blockIdx)' => c \in Before(blockIdx) \/ Applies(blockIdx, c),
         Due(c)'
  PROVE  Due(c)
<1>0. blockIdx \in 1..(Len(blockLog) + 1) /\ Len(blockLog) \in Nat
  BY GroundFacts
<1>1. CASE UNCHANGED blockIdx
  BY <1>1 DEF Due, Before, Applies
<1>2. CASE blockIdx' = blockIdx + 1 /\ ~UNCHANGED blockIdx
  <2>1. CASE ~cursorLoaded
    BY <2>1 DEF Due
  <2>2. CASE c \in Before(blockIdx)'
    <3>1. CASE Applies(blockIdx, c)
      <4>1. blockIdx \in blockIdx..Len(blockLog) /\ \A u \in blockIdx..blockIdx : u = blockIdx
        BY <1>0, <1>2
      <4> QED BY <1>2, <3>1, <4>1 DEF Due
    <3> QED BY <1>2, <2>2, <3>1 DEF Due
  <2>3. ASSUME NEW j \in blockIdx'..Len(blockLog'), Applies(j, c)',
               \A u \in blockIdx'..j : blockLog'[u].kind # "unapply"
        PROVE  Due(c)
    <3>1. /\ j \in blockIdx..Len(blockLog) /\ Applies(j, c)
          /\ \A u \in blockIdx..j : u = blockIdx \/ u \in blockIdx'..j
      BY <1>0, <1>2, <2>3 DEF Applies
    <3> QED BY <1>2, <2>3, <3>1 DEF Due
  <2> QED BY <2>1, <2>2, <2>3 DEF Due
<1> QED BY <1>1, <1>2

(* Reader restarts, a flush, messages nobody acts on.                      *)
LEMMA QuietLife ==
  ASSUME "block" \notin RestartTopics, Ground, ~DropApplyOnNodeError, [Next]_vars,
         UNCHANGED vars \/ ControlStep \/ QuietBlockStep \/ HandleMempoolMessage,
         NEW t \in 1..(Len(txLog) + 1), LifeInv(t)
  PROVE  LifeInv(t)'
<1>1. /\ UNCHANGED <<chain, blockLog, txLog, processedTxOffsets, lastProcessedHeight, completed,
                     cursorLoaded, lastTxOffset, emittedBlocks, pendingApplied>>
      /\ txIdx' \in {txIdx, ResumeOffset(lastTxOffset)}
  BY OtherLeaves, OtherKeeps
<1>2. txIdx' \in {txIdx, 1, t}
  BY <1>1 DEF LifeInv, ResumeOffset
<1>3. TypeInv /\ LogInv /\ IndexInv
  BY DEF Ground
<1>4. \A c : Messages(c)' = Messages(c) /\ Messages(c) \subseteq 1..Len(txLog)
  BY <1>1 DEF Messages
<1>5. \A o \in 1..Len(txLog) : SentDown(o) => SentDown(o)'
  BY <1>3, SentDownKept
<1>6. EarlierSent(t)'
  BY <1>1, <1>4, <1>5 DEF LifeInv, EarlierSent, Indexed
<1>7. ReadInOrder(t)'
  <2>1. Len(txLog) \in Nat /\ processedTxOffsets \subseteq 1..Len(txLog)
    BY GroundFacts
  <2>2. SUFFICES ASSUME NEW o \in processedTxOffsets \cup {txIdx'}, NEW q \in 1..(o - 1)
                 PROVE  txLog[q].kind = "malformed" \/ q \in processedTxOffsets \/ (q < t /\ t <= o)
    BY <1>1 DEF ReadInOrder
  <2>3. CASE o \in processedTxOffsets \cup {txIdx}
    BY <2>3 DEF LifeInv, ReadInOrder
  <2>4. CASE o \in {1, t}
    <3>1. o = t
      BY <2>2, <2>4
    <3> QED BY <2>2, <3>1
  <2> QED BY <1>2, <2>2, <2>3, <2>4
<1>8. /\ blockIdx' = blockIdx \/ SkipMalformedBlock
      /\ Before(blockIdx)' = Before(blockIdx)
  <2>1. QuietBlockStep => SkipMalformedBlock
    BY <1>3, QuietBlockMalformed
  <2>2. blockIdx' = blockIdx \/ SkipMalformedBlock
    BY <2>1, ControlTyping, <1>3
       DEF vars, indexerVars, readerVars, HandleMempoolMessage, DropMempoolMessage,
           ForwardMempoolMessage, NextMempool
  <2>3. ASSUME blockIdx' = blockIdx PROVE Before(blockIdx)' = Before(blockIdx)
    BY <1>1, <2>3 DEF Before
  <2>4. ASSUME SkipMalformedBlock PROVE Before(blockIdx)' = Before(blockIdx)
    BY <1>3, <2>4, NextBefore DEF SkipMalformedBlock, LinkOK
  <2> QED BY <2>2, <2>3, <2>4
<1>9. ASSUME NEW c, Due(c)' PROVE Due(c)
  <2>1. SkipMalformedBlock => /\ blockIdx \in 1..Len(blockLog) /\ blockIdx' = blockIdx + 1
                              /\ blockLog[blockIdx].kind = "malformed"
    BY <1>3, NextBlockTyping DEF SkipMalformedBlock, NextBlock, TypeInv
  <2> QED BY <1>1, <1>8, <1>9, <2>1, DuePast
<1>10. DueOnItsWay(t)'
  <2>1. SUFFICES ASSUME NEW c \in chain, Due(c)', Indexed(c), NEW o \in Messages(c)
                 PROVE  OnItsWay(o, c)' \/ Missed(o, t)'
    BY <1>1, <1>4 DEF DueOnItsWay, Indexed
  <2>2. OnItsWay(o, c) \/ Missed(o, t)
    BY <1>9, <2>1 DEF LifeInv, DueOnItsWay
  <2>3. CASE Missed(o, t)
    BY <1>1, <2>3 DEF Missed
  <2>4. CASE OnItsWay(o, c)
    <3>1. CASE Unread(o) => Unread(o)'
      BY <1>3, <1>4, <2>1, <2>4, <3>1, OtherWay
    <3>2. CASE Unread(o) /\ ~Unread(o)'
      <4>1. o \notin processedTxOffsets /\ o >= txIdx /\ ~(o >= txIdx')
        BY <1>1, <3>2 DEF Unread
      <4>2. o \in 1..Len(txLog) /\ Len(txLog) \in Nat
        BY <1>4, <2>1, GroundFacts
      <4>3. o < t
        BY <1>2, <4>1, <4>2
      <4> QED BY <1>1, <4>1, <4>3 DEF Missed
    <3> QED BY <3>1, <3>2
  <2> QED BY <2>2, <2>3, <2>4
<1>11. cursorLoaded => LoadedInv'
  <2>1. SUFFICES ASSUME cursorLoaded PROVE LoadedInv'
    OBVIOUS
  <2>2. LowCursor /\ PassedSeen /\ CountedSeen /\ AboveEmitted
    BY <2>1 DEF LifeInv, LoadedInv
  <2>3. LowCursor' /\ CountedSeen' /\ AboveEmitted'
    BY <1>1, <1>4, <1>8, <2>2 DEF LowCursor, CountedSeen, AboveEmitted
  <2>4. PassedSeen'
    BY <1>1, <1>4, <1>5, <1>8, <2>2 DEF PassedSeen, Indexed
  <2> QED BY <2>3, <2>4 DEF LoadedInv
<1> QED BY <1>1, <1>6, <1>7, <1>10, <1>11 DEF LifeInv

(* What the node and its topics do to the messages of a block.             *)
FreshBlock(c) ==
  /\ c \in Blocks /\ \A i \in 1..Len(blockLog) : ~Applies(i, c)
  /\ Len(blockLog') = Len(blockLog) + 1
  /\ blockLog'[Len(blockLog')].kind = "apply" /\ blockLog'[Len(blockLog')].block = c
  /\ \A o \in Messages(c)' : o > Len(txLog)

LEMMA FeedMessages ==
  ASSUME AppliedOnce, FeedTypeOK, ChainInv, LogInv, RunsInv, HistoryOK, FeedNext
  PROVE  /\ \A c \in chain' : (c \in chain /\ Messages(c)' = Messages(c)) \/ FreshBlock(c)
         /\ \A c : (\E i \in 1..Len(blockLog) : Applies(i, c)) => Messages(c)' = Messages(c)
<1> PICK l \in Nat : l = Len(txLog)
  BY DEF FeedTypeOK
<1>0. Len(blockLog) \in Nat /\ txLog \in Seq(TxMessage) /\ blockLog \in Seq(BlockMessage)
  BY DEF FeedTypeOK
<1>1. ASSUME NEW b \in Blocks, Joins(b), \A i \in 1..Len(blockLog) : ~Applies(i, b)
      PROVE  /\ FreshBlock(b)
             /\ \A c : c # b => Messages(c)' = Messages(c)
  <2> DEFINE ms == TxMessages("applied", b)
  <2>1. txLog' = txLog \o ms
    BY <1>1 DEF Joins
  <2>2. ms \in Seq(TxMessage) /\ \A i \in 1..Len(ms) : ms[i].kind = "applied" /\ ms[i].block = b
    BY TxsTyping
  <2> HIDE DEF ms
  <2>3. /\ Len(txLog') = l + Len(ms) /\ \A o \in 1..l : txLog'[o] = txLog[o]
        /\ \A c : (\A i \in 1..Len(ms) : ~(ms[i].kind = "applied" /\ ms[i].block = c))
                    => Messages(c)' = Messages(c)
    BY <2>1, <2>2, MessagesAfter
  <2>4. \A c : c # b => Messages(c)' = Messages(c)
    BY <2>2, <2>3
  <2>5. ASSUME NEW o \in Messages(b)', ~(o > l) PROVE FALSE
    <3>1. o \in 1..Len(txLog') /\ txLog'[o].kind = "applied" /\ txLog'[o].block = b
      BY <2>5 DEF Messages
    <3>2. o \in 1..l /\ txLog'[o] = txLog[o]
      BY <2>2, <2>3, <2>5, <3>1
    <3>3. txLog[o].kind = "applied" /\ txLog[o].block = b
      BY <3>1, <3>2
    <3>4. \E i \in 1..Len(blockLog) : Applies(i, txLog[o].block)
      BY <3>2, <3>3 DEF HistoryOK, RunOrderInv
    <3> QED BY <1>1, <3>3, <3>4
  <2>6. /\ Len(blockLog') = Len(blockLog) + 1
        /\ blockLog'[Len(blockLog')].kind = "apply" /\ blockLog'[Len(blockLog')].block = b
    <3>1. blockLog' = Append(blockLog, BlockEntry("apply", b, chain'))
      BY <1>1 DEF Joins
    <3>2. /\ Len(blockLog') = Len(blockLog) + 1
          /\ blockLog'[Len(blockLog) + 1] = BlockEntry("apply", b, chain')
      BY <1>0, <3>1
    <3>3. blockLog'[Len(blockLog') ] = BlockEntry("apply", b, chain')
      BY <3>2
    <3> QED BY <3>2, <3>3 DEF BlockEntry
  <2>7. \A o \in Messages(b)' : o > Len(txLog)
    BY <2>5
  <2> QED BY <1>1, <2>4, <2>6, <2>7 DEF FreshBlock
<1>2. ASSUME NEW b \in Blocks, Leaves(b)
      PROVE  chain' \subseteq chain /\ \A c : Messages(c)' = Messages(c)
  <2> DEFINE ms == TxMessages("unapplied", b)
  <2>1. txLog' = txLog \o ms /\ chain' \subseteq chain
    BY <1>2 DEF Leaves
  <2>2. ms \in Seq(TxMessage) /\ \A i \in 1..Len(ms) : ms[i].kind = "unapplied"
    BY TxsTyping
  <2> HIDE DEF ms
  <2>3. \A c : (\A i \in 1..Len(ms) : ~(ms[i].kind = "applied" /\ ms[i].block = c))
                    => Messages(c)' = Messages(c)
    BY <2>1, <2>2, MessagesAfter
  <2>4. \A c : Messages(c)' = Messages(c)
    BY <2>2, <2>3
  <2> QED BY <2>1, <2>4
<1>3. CASE UNCHANGED <<chain, txLog>>
  BY <1>3 DEF Messages
<1>4. CASE BadTx
  <2> DEFINE ms == <<MalformedTx>>
  <2>1. txLog' = txLog \o ms /\ chain' = chain
    BY <1>0, <1>4 DEF BadTx
  <2>2. ms \in Seq(TxMessage) /\ \A i \in 1..Len(ms) : ms[i].kind = "malformed"
    BY DEF MalformedTx, TxMessage
  <2> HIDE DEF ms
  <2>3. \A c : (\A i \in 1..Len(ms) : ~(ms[i].kind = "applied" /\ ms[i].block = c))
                    => Messages(c)' = Messages(c)
    BY <2>1, <2>2, MessagesAfter
  <2>4. \A c : Messages(c)' = Messages(c)
    BY <2>2, <2>3
  <2> QED BY <2>1, <2>4
<1>5. ASSUME NEW b \in Blocks, Joins(b) PROVE chain' = chain \cup {b}
  BY <1>5 DEF Joins
<1>6. BadBlock => UNCHANGED <<chain, txLog>>
  BY DEF BadBlock
<1> QED BY <1>1, <1>2, <1>3, <1>4, <1>5, <1>6, FeedShape

(* The node goes on: a new block is still to be read, with all of its      *)
(* transactions.                                                           *)
LEMMA FeedLife ==
  ASSUME AppliedOnce, Ground, ChainInv, RunsInv, HistoryOK', FeedNext, UNCHANGED indexerVars,
         NEW t \in 1..(Len(txLog) + 1), LifeInv(t)
  PROVE  LifeInv(t)'
<1>0. /\ FeedTypeOK /\ Len(blockLog) \in Nat /\ Len(txLog) \in Nat
      /\ blockIdx \in 1..(Len(blockLog) + 1)
      /\ Before(blockIdx) \subseteq Blocks /\ chain \subseteq Blocks
      /\ txIdx \in 1..(Len(txLog) + 1) /\ processedTxOffsets \subseteq 1..Len(txLog)
  BY GroundFacts
<1>1. /\ FeedTypeOK' /\ IsGrownFrom(txLog', txLog) /\ IsGrownFrom(blockLog', blockLog)
      /\ Len(txLog') \in Nat /\ Len(blockLog') \in Nat
  BY <1>0, FeedTyping DEF FeedTypeOK
<1>2. /\ UNCHANGED <<downstream, blockIdx, txIdx, processedTxOffsets, lastProcessedHeight, completed,
                     cursorLoaded, lastTxOffset, emittedBlocks>>
  BY DEF indexerVars, sendVars, readerVars, bufferVars, cursorVars
<1>3. /\ \A c \in chain' : (c \in chain /\ Messages(c)' = Messages(c)) \/ FreshBlock(c)
      /\ \A c : (\E i \in 1..Len(blockLog) : Applies(i, c)) => Messages(c)' = Messages(c)
  BY <1>0, FeedMessages DEF Ground
<1>4. /\ \A o \in 1..Len(txLog) : o \in 1..Len(txLog') /\ txLog'[o] = txLog[o]
      /\ \A i \in 1..Len(blockLog) : i \in 1..Len(blockLog') /\ blockLog'[i] = blockLog[i]
  BY <1>0, <1>1 DEF IsGrownFrom
<1>5. \A o \in 1..Len(txLog) : SentDown(o) => SentDown(o)'
  BY <1>2, <1>4 DEF SentDown, TxEventAt
<1>6. Before(blockIdx)' = Before(blockIdx)
  <2>1. PICK i \in 1..(Len(blockLog) + 1) : i = blockIdx
    BY <1>0
  <2>2. Before(i)' = Before(i)
    BY <1>0, <1>1, BeforeKept
  <2> QED BY <1>2, <2>1, <2>2 DEF Before
<1>7. \A c : Messages(c) \subseteq 1..Len(txLog)
  BY DEF Messages
<1>8. ASSUME NEW c \in Before(blockIdx)
      PROVE  Messages(c)' = Messages(c) /\ ~FreshBlock(c)
  <2>1. PICK i \in 1..(blockIdx - 1) : Applies(i, c)
    BY <1>0 DEF Ground, HistoryOK, HistoryInv
  <2>2. i \in 1..Len(blockLog)
    BY <1>0
  <2> QED BY <1>3, <2>1, <2>2 DEF FreshBlock
<1>9. EarlierSent(t)'
  <2>1. SUFFICES ASSUME NEW c \in chain', Indexed(c), NEW o \in Messages(c)', o < t
                 PROVE  SentDown(o)'
    BY DEF EarlierSent, Indexed
  <2>2. ~FreshBlock(c)
    <3>1. SUFFICES ASSUME o > Len(txLog) PROVE FALSE
      BY <2>1 DEF FreshBlock
    <3>2. o \in 1..Len(txLog')
      BY <2>1 DEF Messages
    <3> QED BY <1>0, <1>1, <2>1, <3>1, <3>2
  <2>3. c \in chain /\ o \in Messages(c)
    BY <1>3, <2>1, <2>2
  <2>4. SentDown(o)
    BY <2>1, <2>3 DEF LifeInv, EarlierSent
  <2> QED BY <1>5, <1>7, <2>3, <2>4
<1>10. ReadInOrder(t)'
  <2>1. SUFFICES ASSUME NEW o \in processedTxOffsets \cup {txIdx}, NEW q \in 1..(o - 1)
                 PROVE  txLog'[q].kind = "malformed" \/ q \in processedTxOffsets \/ (q < t /\ t <= o)
    BY <1>2 DEF ReadInOrder
  <2>2. q \in 1..Len(txLog)
    BY <1>0, <2>1
  <2>3. txLog[q].kind = "malformed" \/ q \in processedTxOffsets \/ (q < t /\ t <= o)
    BY <2>1 DEF LifeInv, ReadInOrder
  <2> QED BY <1>4, <2>2, <2>3
<1>11. ASSUME NEW c \in chain, Due(c)' PROVE Due(c)
  <2>1. PICK i \in 1..Len(blockLog) : Applies(i, c)
    BY <1>0, OnChain DEF Ground
  <2>2. i \in 1..Len(blockLog') /\ Applies(i, c)'
    BY <1>4, <2>1 DEF Applies
  <2>3. CASE ~cursorLoaded
    BY <2>3 DEF Due
  <2>4. CASE c \in Before(blockIdx)'
    BY <1>6, <2>4 DEF Due
  <2>5. ASSUME NEW j \in blockIdx'..Len(blockLog'), Applies(j, c)',
               \A u \in blockIdx'..j : blockLog'[u].kind # "unapply"
        PROVE  Due(c)
    <3>1. j \in 1..Len(blockLog') /\ c \in Blocks
      BY <1>0, <1>1, <1>2, <2>5
    <3>2. j = i
      BY <2>2, <2>5, <3>1 DEF HistoryOK, HistoryInv
    <3>3. j \in blockIdx..Len(blockLog) /\ Applies(j, c)
      BY <1>0, <1>2, <2>1, <2>5, <3>2
    <3>4. ASSUME NEW u \in blockIdx..j PROVE blockLog[u].kind # "unapply"
      <4>1. u \in 1..Len(blockLog) /\ u \in blockIdx'..j
        BY <1>0, <1>2, <3>3
      <4> QED BY <1>4, <2>5, <4>1
    <3> QED BY <3>3, <3>4 DEF Due
  <2> QED BY <1>2, <1>11, <2>3, <2>4, <2>5 DEF Due
<1>12. DueOnItsWay(t)'
  <2>1. SUFFICES ASSUME NEW c \in chain', Due(c)', Indexed(c), NEW o \in Messages(c)'
                 PROVE  OnItsWay(o, c)' \/ Missed(o, t)'
    BY DEF DueOnItsWay, Indexed
  <2>2. CASE FreshBlock(c)
    <3>1. o > Len(txLog) /\ o \in 1..Len(txLog')
      BY <2>1, <2>2 DEF FreshBlock, Messages
    <3>2. Unread(o)'
      BY <1>0, <1>1, <1>2, <3>1 DEF Unread
    <3>3. PICK j \in Nat : j = Len(blockLog) + 1
      BY <1>0
    <3>4. j \in blockIdx'..Len(blockLog') /\ blockLog'[j].kind = "apply" /\ blockLog'[j].block = c
      <4>1. j = Len(blockLog') /\ j \in blockIdx'..Len(blockLog')
        BY <1>0, <1>1, <1>2, <2>2, <3>3 DEF FreshBlock
      <4> QED BY <2>2, <3>3, <4>1 DEF FreshBlock
    <3>5. Awaited(c)'
      BY <3>4 DEF Awaited
    <3> QED BY <3>2, <3>5 DEF OnItsWay
  <2>3. CASE c \in chain /\ Messages(c)' = Messages(c)
    <3>1. o \in Messages(c) /\ o \in 1..Len(txLog)
      BY <1>7, <2>1, <2>3
    <3>2. OnItsWay(o, c) \/ Missed(o, t)
      BY <1>11, <2>1, <2>3, <3>1 DEF LifeInv, DueOnItsWay
    <3>3. CASE OnItsWay(o, c)
      BY <3>1, <3>3, FeedWay DEF Ground
    <3>4. CASE Missed(o, t)
      BY <1>2, <3>4 DEF Missed
    <3> QED BY <3>2, <3>3, <3>4
  <2> QED BY <1>3, <2>1, <2>2, <2>3
<1>13. cursorLoaded => LoadedInv'
  <2>1. SUFFICES ASSUME cursorLoaded PROVE LoadedInv'
    OBVIOUS
  <2>2. LowCursor /\ PassedSeen /\ CountedSeen /\ AboveEmitted
    BY <2>1 DEF LifeInv, LoadedInv
  <2>3. LowCursor' /\ AboveEmitted'
    BY <1>2, <1>6, <2>2 DEF LowCursor, AboveEmitted
  <2>4. \A c \in Before(blockIdx) : Messages(c)' = Messages(c) /\ (c \in chain' => c \in chain)
    BY <1>3, <1>8
  <2>5. CountedSeen'
    BY <1>2, <1>6, <2>2, <2>4 DEF CountedSeen
  <2>6. PassedSeen'
    BY <1>2, <1>5, <1>6, <1>7, <2>2, <2>4 DEF PassedSeen, Indexed
  <2> QED BY <2>3, <2>5, <2>6 DEF LoadedInv
<1> QED BY <1>2, <1>9, <1>10, <1>12, <1>13 DEF LifeInv

-------------------------------------------------------------------------------
(* What a cursor that advances passes.                                     *)

CountedIn(comp, B, offsets) ==
  \A h \in DOMAIN comp : \E c \in B :
    /\ HeightOf[c] = h /\ comp[h].expected = NumTxs(c)
    /\ comp[h].seen <= Cardinality(offsets \cap Messages(c))
    /\ comp[h].rollback => c \notin chain
WellCounted(B) ==
  /\ \A c, d \in B : HeightOf[c] = HeightOf[d] => c = d
  /\ \A c \in B : /\ IsFiniteSet(Messages(c)) /\ Cardinality(Messages(c)) = NumTxs(c)
                  /\ c \in Blocks /\ HeightOf[c] \in Int /\ NumTxs(c) \in Nat

LEMMA MessagesCounted ==
  ASSUME FeedTypeOK, HistoryOK, NEW k \in 1..(Len(blockLog) + 1)
  PROVE  WellCounted(Before(k))
<1>0. Len(blockLog) \in Nat
  BY DEF FeedTypeOK
<1>1. Before(k) \subseteq Blocks
  <2>1. CASE k = 1
    BY <2>1 DEF Before
  <2>2. CASE k # 1
    <3>1. k - 1 \in 1..Len(blockLog)
      BY <1>0, <2>2
    <3>2. blockLog[k - 1] \in BlockMessage
      BY <3>1 DEF FeedTypeOK
    <3> QED BY <2>2, <3>2 DEF Before, BlockMessage
  <2> QED BY <2>1, <2>2
<1>2. ASSUME NEW c \in Before(k)
      PROVE  /\ IsFiniteSet(Messages(c)) /\ Cardinality(Messages(c)) = NumTxs(c)
             /\ c \in Blocks /\ HeightOf[c] \in Int /\ NumTxs(c) \in Nat
  <2>1. PICK i \in 1..(k - 1) : Applies(i, c)
    BY <1>1 DEF HistoryOK, HistoryInv
  <2>2. i \in 1..Len(blockLog)
    BY <1>0
  <2>3. c \in Blocks /\ HeightOf[c] \in Int /\ NumTxs(c) \in Nat
    BY <1>1, HeightTyping DEF Heights
  <2> QED BY <2>1, <2>2, <2>3, MessagesOf
<1>3. \A c, d \in Before(k) : HeightOf[c] = HeightOf[d] => c = d
  BY DEF HistoryOK, OneEachInv
<1> QED BY <1>2, <1>3 DEF WellCounted

(* A count that is full is of all of them.                                 *)
LEMMA CountedFull ==
  ASSUME NEW B, WellCounted(B), NEW offsets, NEW c \in B,
         NumTxs(c) <= Cardinality(offsets \cap Messages(c))
  PROVE  Messages(c) \subseteq offsets
<1> DEFINE S == offsets \cap Messages(c)
<1>1. IsFiniteSet(Messages(c)) /\ Cardinality(Messages(c)) = NumTxs(c)
  BY DEF WellCounted
<1>2. S \subseteq Messages(c) /\ IsFiniteSet(S)
  BY <1>1, FS_Subset
<1>3. Cardinality(S) \in Nat /\ Cardinality(Messages(c)) \in Nat
  BY <1>1, <1>2, FS_CardinalityType
<1>4. S = Messages(c)
  BY <1>1, <1>2, <1>3, FS_Subset
<1> QED BY <1>4

LEMMA CountsGrow ==
  ASSUME NEW B, WellCounted(B), NEW offsets, NEW more, offsets \subseteq more,
         NEW c \in B
  PROVE  /\ Cardinality(offsets \cap Messages(c)) <= Cardinality(more \cap Messages(c))
         /\ Cardinality(offsets \cap Messages(c)) \in Nat
         /\ Cardinality(more \cap Messages(c)) \in Nat
<1>1. IsFiniteSet(Messages(c))
  BY DEF WellCounted
<1>2. IsFiniteSet(more \cap Messages(c)) /\ IsFiniteSet(offsets \cap Messages(c))
  BY <1>1, FS_Subset
<1>3. offsets \cap Messages(c) \subseteq more \cap Messages(c)
  OBVIOUS
<1> QED BY <1>2, <1>3, FS_Subset, FS_CardinalityType

(* The cursor passes a height only when all its block's transactions have  *)
(* been seen.                                                              *)
LEMMA AdvanceSeen ==
  ASSUME NEW comp, CompletedOK(comp), NEW B, WellCounted(B), NEW offsets,
         CountedIn(comp, B, offsets), lastProcessedHeight \in Heights, TryAdvanceCursor(comp)
  PROVE  /\ lastProcessedHeight \in Int /\ lastProcessedHeight' \in Int
         /\ lastProcessedHeight <= lastProcessedHeight'
         /\ lastProcessedHeight' = lastProcessedHeight \/ \E d \in B : lastProcessedHeight' = HeightOf[d]
         /\ \A c \in B \cap chain :
              lastProcessedHeight < HeightOf[c] /\ HeightOf[c] <= lastProcessedHeight' =>
                Messages(c) \subseteq offsets
<1>1. lastProcessedHeight \in Int /\ MaxHeight \in Int
  BY IndexerAssumption, FeedAssumption DEF Heights
<1>2. PICK k \in lastProcessedHeight..MaxHeight : CursorStopsAt(comp, k) /\ lastProcessedHeight' = k
  BY DEF TryAdvanceCursor
<1>3. k \in Int /\ lastProcessedHeight <= k
  BY <1>1
<1>4. \A h \in (lastProcessedHeight + 1)..k : DoneAt(comp, h)
  BY <1>2 DEF CursorStopsAt
<1>5. k = lastProcessedHeight \/ \E d \in B : k = HeightOf[d]
  <2>1. CASE k # lastProcessedHeight
    <3>1. k \in (lastProcessedHeight + 1)..k
      BY <1>1, <1>3, <2>1
    <3>2. k \in DOMAIN comp
      BY <1>4, <3>1 DEF DoneAt
    <3> QED BY <3>2 DEF CountedIn
  <2> QED BY <2>1
<1>6. ASSUME NEW c \in B \cap chain, lastProcessedHeight < HeightOf[c], HeightOf[c] <= k
      PROVE  Messages(c) \subseteq offsets
  <2>1. PICK h \in Int : h = HeightOf[c]
    BY DEF WellCounted
  <2>2. h \in DOMAIN comp /\ Done(comp[h])
    <3>1. h \in (lastProcessedHeight + 1)..k
      BY <1>1, <1>3, <1>6, <2>1
    <3> QED BY <1>4, <3>1 DEF DoneAt
  <2>3. /\ comp[h].expected = NumTxs(c) /\ comp[h].seen <= Cardinality(offsets \cap Messages(c))
        /\ ~comp[h].rollback
    <3>1. PICK d \in B : /\ HeightOf[d] = h /\ comp[h].expected = NumTxs(d)
                         /\ comp[h].seen <= Cardinality(offsets \cap Messages(d))
                         /\ comp[h].rollback => d \notin chain
      BY <2>2 DEF CountedIn
    <3>2. d = c
      BY <2>1, <3>1 DEF WellCounted
    <3> QED BY <3>1, <3>2
  <2>4. NumTxs(c) <= Cardinality(offsets \cap Messages(c))
    BY <2>2, <2>3 DEF Done
  <2> QED BY <2>4, CountedFull
<1> QED BY <1>1, <1>2, <1>3, <1>5, <1>6

LEMMA CountedLess ==
  ASSUME NEW comp, NEW fewer, NEW B, NEW offsets, CountedIn(comp, B, offsets),
         DOMAIN fewer \subseteq DOMAIN comp, \A h \in DOMAIN fewer : fewer[h] = comp[h]
  PROVE  CountedIn(fewer, B, offsets)
BY DEF CountedIn

LEMMA CountedMore ==
  ASSUME NEW comp, CompletedOK(comp), NEW B, WellCounted(B), NEW offsets, NEW more,
         offsets \subseteq more, CountedIn(comp, B, offsets)
  PROVE  CountedIn(comp, B, more)
<1>1. SUFFICES ASSUME NEW h \in DOMAIN comp
               PROVE  \E c \in B : /\ HeightOf[c] = h /\ comp[h].expected = NumTxs(c)
                                   /\ comp[h].seen <= Cardinality(more \cap Messages(c))
                                   /\ comp[h].rollback => c \notin chain
  BY DEF CountedIn
<1>2. PICK c \in B : /\ HeightOf[c] = h /\ comp[h].expected = NumTxs(c)
                     /\ comp[h].seen <= Cardinality(offsets \cap Messages(c))
                     /\ comp[h].rollback => c \notin chain
  BY DEF CountedIn
<1>3. comp[h].seen \in Nat
  BY DEF CompletedOK, BlockState
<1>4. /\ Cardinality(offsets \cap Messages(c)) <= Cardinality(more \cap Messages(c))
      /\ Cardinality(offsets \cap Messages(c)) \in Nat
      /\ Cardinality(more \cap Messages(c)) \in Nat
  BY CountsGrow
<1>5. comp[h].seen <= Cardinality(more \cap Messages(c))
  BY <1>2, <1>3, <1>4
<1> QED BY <1>2, <1>5

(* One more of them processed, one more counted.                           *)
LEMMA CountedOneMore ==
  ASSUME NEW B, WellCounted(B), NEW offsets, NEW c \in B, NEW o \in Messages(c), o \notin offsets
  PROVE  Cardinality((offsets \cup {o}) \cap Messages(c)) = Cardinality(offsets \cap Messages(c)) + 1
<1>1. IsFiniteSet(offsets \cap Messages(c))
  BY FS_Subset DEF WellCounted
<1>2. (offsets \cup {o}) \cap Messages(c) = (offsets \cap Messages(c)) \cup {o}
  OBVIOUS
<1> QED BY <1>1, <1>2, FS_AddElement

LEMMA CountedSet ==
  ASSUME NEW comp, NEW B, NEW offsets, NEW h, NEW st,
         \A k \in DOMAIN comp : k # h => \E c \in B :
           /\ HeightOf[c] = k /\ comp[k].expected = NumTxs(c)
           /\ comp[k].seen <= Cardinality(offsets \cap Messages(c))
           /\ comp[k].rollback => c \notin chain,
         NEW b \in B, HeightOf[b] = h, st.expected = NumTxs(b),
         st.seen <= Cardinality(offsets \cap Messages(b)),
         st.rollback => b \notin chain
  PROVE  CountedIn(SetState(comp, h, st), B, offsets)
<1> SUFFICES ASSUME NEW k \in DOMAIN comp \cup {h}
             PROVE  \E c \in B : /\ HeightOf[c] = k /\ SetState(comp, h, st)[k].expected = NumTxs(c)
                                 /\ SetState(comp, h, st)[k].seen <= Cardinality(offsets \cap Messages(c))
                                 /\ SetState(comp, h, st)[k].rollback => c \notin chain
  BY DEF CountedIn, SetState
<1>1. SetState(comp, h, st)[k] = IF k = h THEN st ELSE comp[k]
  BY DEF SetState
<1>2. CASE k = h
  BY <1>1, <1>2
<1>3. CASE k # h
  BY <1>1, <1>3
<1> QED BY <1>2, <1>3

LEMMA CountedSeenIn == CountedSeen <=> CountedIn(completed, Before(blockIdx), processedTxOffsets)
BY DEF CountedSeen, CountedIn

-------------------------------------------------------------------------------
(* The transaction reader.                                                 *)

LEMMA TxReads ==
  ASSUME HandleTxMessage
  PROVE  /\ processedTxOffsets \subseteq processedTxOffsets'
         /\ txLog[txIdx].kind = "malformed" \/ txIdx \in processedTxOffsets'
         /\ UNCHANGED <<cursorLoaded, lastTxOffset>>
BY DEF HandleTxMessage, SkipMalformedTx, SkipDuplicateTx, SkipAppliedTx, BufferAppliedTx,
       ProcessAppliedTx, SkipUnparsableUnapplied, BufferUnappliedTx, ProcessUnappliedTx, FreshTx, NextTx

(* What a transaction message makes of the state of its height.            *)
LEMMA TxCounts ==
  ASSUME Ground, HandleTxMessage, CountedSeen
  PROVE  \/ UNCHANGED <<lastProcessedHeight, completed>>
         \/ \E comp : /\ CompletedOK(comp) /\ TryAdvanceCursor(comp) /\ completed' = Remaining(comp)
                      /\ CountedIn(comp, Before(blockIdx), processedTxOffsets')
<1>0. TypeInv /\ TypeOK /\ CompletedOK(completed)
  BY DEF Ground, TypeInv, TypeOK, CompletedOK
<1>1. CASE QuietTxStep
  BY <1>0, <1>1, QuietTxTyping
<1>2. CASE ProcessAppliedTx \/ ProcessUnappliedTx
  <2> DEFINE b == txLog[txIdx].block
             h == HeightOf[b]
             B == Before(blockIdx)
  <2>1. /\ b \in emittedBlocks /\ txIdx \notin processedTxOffsets /\ b \in Blocks
        /\ processedTxOffsets' = processedTxOffsets \cup {txIdx} /\ txIdx \in 1..Len(txLog)
        /\ ProcessAppliedTx => txLog[txIdx].kind = "applied"
        /\ ProcessUnappliedTx => txLog[txIdx].kind = "unapplied"
    BY <1>0, <1>2, TxTyping DEF ProcessAppliedTx, ProcessUnappliedTx, FreshTx
  <2>2. WellCounted(B) /\ b \in B
    BY <2>1, GroundFacts, MessagesCounted DEF Ground, IndexInv
  <2>3. CountedIn(completed, B, processedTxOffsets')
    BY <1>0, <2>1, <2>2, CountedSeenIn, CountedMore
  <2>4. CASE h \notin DOMAIN completed
    BY <1>2, <2>4 DEF ProcessAppliedTx, ProcessUnappliedTx
  <2>5. CASE h \in DOMAIN completed
    <3>1. completed[h] \in BlockState /\ h \in Heights
      BY <1>0, <2>1, <2>5, HeightTyping DEF CompletedOK
    <3>2. /\ completed[h].expected = NumTxs(b)
          /\ completed[h].seen <= Cardinality(processedTxOffsets \cap Messages(b))
          /\ completed[h].rollback => b \notin chain
      <4>1. PICK c \in B : /\ HeightOf[c] = h /\ completed[h].expected = NumTxs(c)
                           /\ completed[h].seen <= Cardinality(processedTxOffsets \cap Messages(c))
                           /\ completed[h].rollback => c \notin chain
        BY <2>5 DEF CountedSeen
      <4>2. c = b
        BY <2>2, <4>1 DEF WellCounted
      <4> QED BY <4>1, <4>2
    <3>3. /\ Cardinality(processedTxOffsets \cap Messages(b))
                <= Cardinality(processedTxOffsets' \cap Messages(b))
          /\ Cardinality(processedTxOffsets \cap Messages(b)) \in Nat
          /\ Cardinality(processedTxOffsets' \cap Messages(b)) \in Nat
      BY <2>1, <2>2, CountsGrow
    <3>4. ASSUME NEW st \in BlockState, st.expected = NumTxs(b),
                 st.seen <= Cardinality(processedTxOffsets' \cap Messages(b)),
                 st.rollback => b \notin chain,
                 TryAdvanceCursor(SetState(completed, h, st)),
                 completed' = Remaining(SetState(completed, h, st))
          PROVE  \E comp : /\ CompletedOK(comp) /\ TryAdvanceCursor(comp) /\ completed' = Remaining(comp)
                           /\ CountedIn(comp, B, processedTxOffsets')
      <4>1. CompletedOK(SetState(completed, h, st))
        BY <1>0, <3>1, <3>4, SetStateTyping
      <4>2. CountedIn(SetState(completed, h, st), B, processedTxOffsets')
        <5>1. \A k \in DOMAIN completed : k # h => \E c \in B :
                /\ HeightOf[c] = k /\ completed[k].expected = NumTxs(c)
                /\ completed[k].seen <= Cardinality(processedTxOffsets' \cap Messages(c))
                /\ completed[k].rollback => c \notin chain
          BY <2>3 DEF CountedIn
        <5>2. b \in B /\ HeightOf[b] = h
          BY <2>2
        <5> HIDE DEF b, h, B
        <5> QED BY <3>4, <5>1, <5>2, CountedSet
      <4> HIDE DEF B
      <4> QED BY <3>4, <4>1, <4>2
    <3>5. CASE ProcessAppliedTx
      <4> DEFINE st == [completed[h] EXCEPT !.seen = @ + 1]
      <4>1. /\ TryAdvanceCursor(SetState(completed, h, st))
            /\ completed' = Remaining(SetState(completed, h, st))
        BY <2>5, <3>5 DEF ProcessAppliedTx
      <4>2. st \in BlockState
        BY <3>1, BlockStateUpdates
      <4>3. /\ st.expected = completed[h].expected /\ st.seen = completed[h].seen + 1
            /\ st.rollback = completed[h].rollback /\ completed[h].seen \in Nat
        BY <3>1 DEF BlockState
      <4>4. txIdx \in Messages(b)
        BY <2>1, <3>5 DEF Messages
      <4>5. Cardinality(processedTxOffsets' \cap Messages(b))
              = Cardinality(processedTxOffsets \cap Messages(b)) + 1
        BY <2>1, <2>2, <4>4, CountedOneMore
      <4>6. /\ st.expected = NumTxs(b) /\ st.seen <= Cardinality(processedTxOffsets' \cap Messages(b))
            /\ st.rollback => b \notin chain
        <5> HIDE DEF st, b
        <5> QED BY <3>2, <3>3, <4>3, <4>5
      <4> HIDE DEF st, b, h
      <4> QED BY <3>4, <4>1, <4>2, <4>6
    <3>6. CASE ProcessUnappliedTx
      <4> DEFINE st == [completed[h] EXCEPT !.rollback = TRUE]
      <4>1. /\ TryAdvanceCursor(SetState(completed, h, st))
            /\ completed' = Remaining(SetState(completed, h, st))
        BY <2>5, <3>6 DEF ProcessUnappliedTx
      <4>2. st \in BlockState
        BY <3>1, BlockStateUpdates
      <4>3. /\ st.expected = completed[h].expected /\ st.seen = completed[h].seen
            /\ completed[h].seen \in Nat
        BY <3>1 DEF BlockState
      <4>4. b \notin chain
        BY <2>1, <3>6, NoneUnapplied, GroundFacts DEF Ground
      <4>5. /\ st.expected = NumTxs(b) /\ st.seen <= Cardinality(processedTxOffsets' \cap Messages(b))
        <5> HIDE DEF st, b
        <5> QED BY <3>2, <3>3, <4>3
      <4> HIDE DEF st, b, h
      <4> QED BY <3>4, <4>1, <4>2, <4>4, <4>5
    <3> QED BY <1>2, <3>5, <3>6
  <2> QED BY <2>4, <2>5
<1> QED BY <1>1, <1>2 DEF HandleTxMessage, QuietTxStep

(* A transaction message keeps what is claimed of the cursor.              *)
LEMMA TxLoaded ==
  ASSUME Ground, HandleTxMessage, LoadedInv,
         \A o \in 1..Len(txLog) : SentDown(o) => SentDown(o)'
  PROVE  LoadedInv'
<1>1. UNCHANGED <<txLog, blockLog, blockIdx, emittedBlocks, chain>>
  <2>1. PICK kind \in {"applied", "unapplied", "malformed"} : NextTx(kind)
    BY DEF HandleTxMessage, SkipMalformedTx, SkipDuplicateTx, SkipAppliedTx, BufferAppliedTx,
           ProcessAppliedTx, SkipUnparsableUnapplied, BufferUnappliedTx, ProcessUnappliedTx, FreshTx
  <2> QED BY <2>1, NextTxTyping DEF Ground, TypeInv, NextTx
<1>2. /\ LowCursor /\ PassedSeen /\ CountedSeen /\ AboveEmitted
      /\ processedTxOffsets \subseteq processedTxOffsets'
  BY TxReads DEF LoadedInv
<1>3. \A c : Messages(c)' = Messages(c) /\ Messages(c) \subseteq 1..Len(txLog)
  BY <1>1 DEF Messages
<1>4. Before(blockIdx)' = Before(blockIdx)
  BY <1>1 DEF Before
<1>5. /\ FeedTypeOK /\ HistoryOK /\ blockIdx \in 1..(Len(blockLog) + 1)
      /\ CompletedOK(completed) /\ lastProcessedHeight \in Heights
  BY GroundFacts DEF Ground, TypeInv, TypeOK, CompletedOK
<1>6. WellCounted(Before(blockIdx))
  BY <1>5, MessagesCounted
<1>7. CASE UNCHANGED <<lastProcessedHeight, completed>>
  <2>1. LowCursor' /\ AboveEmitted'
    BY <1>1, <1>2, <1>4, <1>7 DEF LowCursor, AboveEmitted
  <2>2. CountedIn(completed, Before(blockIdx), processedTxOffsets')
    BY <1>2, <1>5, <1>6, CountedMore, CountedSeenIn
  <2>3. CountedSeen'
    BY <1>1, <1>3, <1>4, <1>7, <2>2 DEF CountedSeen, CountedIn
  <2>4. PassedSeen'
    BY <1>1, <1>2, <1>3, <1>4, <1>7 DEF PassedSeen, Indexed
  <2> QED BY <2>1, <2>3, <2>4 DEF LoadedInv
<1>8. ASSUME NEW comp, CompletedOK(comp), TryAdvanceCursor(comp), completed' = Remaining(comp),
             CountedIn(comp, Before(blockIdx), processedTxOffsets')
      PROVE  LoadedInv'
  <2>1. /\ lastProcessedHeight \in Int /\ lastProcessedHeight' \in Int
        /\ lastProcessedHeight <= lastProcessedHeight'
        /\ \/ lastProcessedHeight' = lastProcessedHeight
           \/ \E d \in Before(blockIdx) : lastProcessedHeight' = HeightOf[d]
        /\ \A c \in Before(blockIdx) \cap chain :
             lastProcessedHeight < HeightOf[c] /\ HeightOf[c] <= lastProcessedHeight' =>
               Messages(c) \subseteq processedTxOffsets'
    BY <1>5, <1>6, <1>8, AdvanceSeen
  <2>2. \A c \in Before(blockIdx) : HeightOf[c] \in Int
    BY <1>6 DEF WellCounted
  <2>3. LowCursor'
    BY <1>2, <1>4, <2>1, <2>2 DEF LowCursor
  <2>4. AboveEmitted'
    BY <1>1, <1>2, <1>4, <2>1, <2>2 DEF AboveEmitted
  <2>5. CountedSeen'
    <3>1. CountedIn(Remaining(comp), Before(blockIdx), processedTxOffsets')
      <4>1. DOMAIN Remaining(comp) \subseteq DOMAIN comp
            /\ \A h \in DOMAIN Remaining(comp) : Remaining(comp)[h] = comp[h]
        BY DEF Remaining
      <4> QED BY <1>8, <4>1, CountedLess
    <3> QED BY <1>1, <1>3, <1>4, <1>8, <3>1 DEF CountedSeen, CountedIn
  <2>6. PassedSeen'
    <3>1. SUFFICES ASSUME NEW c \in Before(blockIdx) \cap chain, Indexed(c),
                          HeightOf[c] <= lastProcessedHeight', NEW o \in Messages(c)
                   PROVE  o \in processedTxOffsets' \/ SentDown(o)'
      BY <1>1, <1>3, <1>4 DEF PassedSeen, Indexed
    <3>2. CASE HeightOf[c] <= lastProcessedHeight
      BY <1>2, <1>3, <3>1, <3>2 DEF PassedSeen
    <3>3. CASE lastProcessedHeight < HeightOf[c]
      BY <2>1, <3>1, <3>3
    <3> QED BY <2>1, <2>2, <3>2, <3>3
  <2> QED BY <2>3, <2>4, <2>5, <2>6 DEF LoadedInv
<1> QED BY <1>2, <1>7, <1>8, TxCounts

(* The transaction reader's step.                                          *)
LEMMA TxLife ==
  ASSUME Ground, [Next]_vars, HandleTxMessage, NEW t \in 1..(Len(txLog) + 1), LifeInv(t)
  PROVE  LifeInv(t)'
<1>0. /\ TypeInv /\ Len(txLog) \in Nat /\ chain \subseteq Blocks
      /\ txIdx \in 1..(Len(txLog) + 1) /\ processedTxOffsets \subseteq 1..Len(txLog)
      /\ \A c \in Blocks : HeightOf[c] \in Int
      /\ lastProcessedHeight \in Int /\ InterceptHeight \in Int
  BY GroundFacts, IndexerAssumption DEF Ground
<1>1. /\ UNCHANGED <<txLog, blockLog, blockIdx, emittedBlocks, chain>> /\ txIdx' = txIdx + 1
      /\ txIdx \in 1..Len(txLog)
  <2>1. PICK kind \in {"applied", "unapplied", "malformed"} : NextTx(kind)
    BY DEF HandleTxMessage, SkipMalformedTx, SkipDuplicateTx, SkipAppliedTx, BufferAppliedTx,
           ProcessAppliedTx, SkipUnparsableUnapplied, BufferUnappliedTx, ProcessUnappliedTx, FreshTx
  <2> QED BY <1>0, <2>1, NextTxTyping DEF TypeInv, NextTx
<1>2. /\ processedTxOffsets \subseteq processedTxOffsets'
      /\ txLog[txIdx].kind = "malformed" \/ txIdx \in processedTxOffsets'
      /\ UNCHANGED <<cursorLoaded, lastTxOffset>>
  BY TxReads
<1>3. processedTxOffsets' \subseteq processedTxOffsets \cup {txIdx}
  BY DEF HandleTxMessage, SkipMalformedTx, SkipDuplicateTx, SkipAppliedTx, BufferAppliedTx,
         ProcessAppliedTx, SkipUnparsableUnapplied, BufferUnappliedTx, ProcessUnappliedTx, FreshTx
<1>4. \A o \in 1..Len(txLog) : SentDown(o) => SentDown(o)'
  BY <1>0, SentDownKept
<1>5. \A c : Messages(c)' = Messages(c) /\ Messages(c) \subseteq 1..Len(txLog)
  BY <1>1 DEF Messages
<1>6. EarlierSent(t)'
  BY <1>1, <1>4, <1>5 DEF LifeInv, EarlierSent, Indexed
<1>7. ReadInOrder(t)'
  <2>1. SUFFICES ASSUME NEW o \in processedTxOffsets' \cup {txIdx'}, NEW q \in 1..(o - 1)
                 PROVE  txLog[q].kind = "malformed" \/ q \in processedTxOffsets' \/ (q < t /\ t <= o)
    BY <1>1 DEF ReadInOrder
  <2>2. CASE o \in processedTxOffsets \cup {txIdx}
    BY <1>2, <2>1, <2>2 DEF LifeInv, ReadInOrder
  <2>3. CASE o = txIdx + 1 /\ q = txIdx
    BY <1>2, <2>3
  <2>4. CASE o = txIdx + 1 /\ q # txIdx
    <3>1. q \in 1..(txIdx - 1)
      BY <1>1, <2>1, <2>4
    <3>2. txLog[q].kind = "malformed" \/ q \in processedTxOffsets \/ (q < t /\ t <= txIdx)
      BY <3>1 DEF LifeInv, ReadInOrder
    <3> QED BY <1>1, <1>2, <2>4, <3>2
  <2> QED BY <1>1, <1>3, <2>1, <2>2, <2>3, <2>4
<1>8. DueOnItsWay(t)'
  <2>1. SUFFICES ASSUME NEW c \in chain, Due(c), Indexed(c), NEW o \in Messages(c)
                 PROVE  OnItsWay(o, c)' \/ Missed(o, t)'
    BY <1>1, <1>2, <1>5 DEF DueOnItsWay, Indexed, Due, Before, Applies
  <2>2. OnItsWay(o, c) \/ Missed(o, t)
    BY <2>1 DEF LifeInv, DueOnItsWay
  <2>3. o \in 1..Len(txLog) /\ txLog[o].kind = "applied" /\ txLog[o].block = c /\ c \in Blocks
    BY <1>0, <2>1, MessageIs
  <2>4. SentDown(o) => OnItsWay(o, c)'
    BY <1>0, <2>3, SentDownSent, TxStepSent DEF OnItsWay
  <2>5. CASE Missed(o, t)
    <3>1. CASE o = txIdx
      <4>1. SentDown(o)
        BY <2>1, <2>5, <3>1 DEF Missed, LifeInv, EarlierSent
      <4> QED BY <2>4, <4>1
    <3>2. CASE o # txIdx
      BY <1>3, <2>5, <3>2 DEF Missed
    <3> QED BY <3>1, <3>2
  <2>6. CASE OnItsWay(o, c) /\ (o = txIdx /\ Unread(o) => ~SkippedHeight(HeightOf[c]))
    BY <1>0, <2>3, <2>6, TxStepWay
  <2>7. CASE o = txIdx /\ Unread(o) /\ SkippedHeight(HeightOf[c])
    <3>1. cursorLoaded /\ HeightOf[c] <= lastProcessedHeight
      BY <1>0, <2>1, <2>3, <2>7 DEF SkippedHeight, Indexed
    <3>2. LowCursor /\ PassedSeen
      BY <3>1 DEF LifeInv, LoadedInv
    <3>3. c \in Before(blockIdx)
      BY <2>1, <3>1, <3>2, LowIsRead
    <3>4. SentDown(o)
      BY <2>1, <2>7, <3>1, <3>2, <3>3 DEF PassedSeen, Unread
    <3> QED BY <2>4, <3>4
  <2> QED BY <2>2, <2>5, <2>6, <2>7
<1>9. IF cursorLoaded' THEN LoadedInv' ELSE t = 1
  BY <1>2, <1>4, TxLoaded DEF LifeInv
<1> QED BY <1>2, <1>6, <1>7, <1>8, <1>9 DEF LifeInv

-------------------------------------------------------------------------------
(* The block reader.                                                       *)

(* What waits for a block are messages of its own, all of them processed.  *)
LEMMA EarlyOnes ==
  ASSUME TypeInv, BufferedOnce(pendingApplied), BufferedIn(pendingApplied, processedTxOffsets),
         NEW b \in Blocks, IsFiniteSet(Messages(b))
  PROVE  /\ Len(pendingApplied[b]) \in Nat
         /\ Len(pendingApplied[b]) <= Cardinality(processedTxOffsets \cap Messages(b))
<1> DEFINE n == Len(pendingApplied[b])
           S == processedTxOffsets \cap Messages(b)
           f == [i \in 1..n |-> pendingApplied[b][i]]
<1>1. pendingApplied[b] \in Seq(Nat) /\ n \in Nat
  BY DEF TypeInv, TypeOK
<1>2. \A i \in 1..n : f[i] \in S
  <2>1. \A i \in 1..n : pendingApplied[b][i] \in processedTxOffsets
    BY DEF BufferedIn
  <2>2. \A i \in 1..n : pendingApplied[b][i] \in Messages(b)
    BY DEF TypeInv, HoldsOffsets, Messages
  <2> QED BY <2>1, <2>2
<1>3. \A i, j \in 1..n : f[i] = f[j] => i = j
  BY DEF BufferedOnce
<1>4. f \in Injection(1..n, S)
  <2>1. f \in [1..n -> S]
    BY <1>2
  <2> QED BY <1>3, <2>1 DEF Injection, IsInjective
<1>5. IsFiniteSet(S)
  BY FS_Subset
<1>6. Cardinality(1..n) <= Cardinality(S)
  <2> HIDE DEF f, S, n
  <2> QED BY <1>4, <1>5, FS_Injection
<1>7. Cardinality(1..n) = n
  <2> HIDE DEF n
  <2>1. Cardinality(1..n) = IF 1 > n THEN 0 ELSE n - 1 + 1
    BY <1>1, FS_Interval
  <2> QED BY <1>1, <2>1
<1> QED BY <1>1, <1>6, <1>7

(* A message sent stays sent.                                              *)
LEMMA SentKept ==
  ASSUME TypeInv, Next, UNCHANGED txLog, NEW o \in 1..Len(txLog), Sent(o)
  PROVE  Sent(o)'
<1>1. PICK t \in Seq(DownstreamEvent) : Produced' = Produced \o t
  BY ProducedGrows
<1>2. Produced \in Seq(DownstreamEvent)
  BY ProducedTyping
<1> QED BY <1>1, <1>2, SentStays

(* The parts of emitBlockApply.                                            *)
LEMMA ApplyParts ==
  ASSUME Ground, WithinLimit, EmitBlockApply, NEW b, b = blockLog[blockIdx].block
  PROVE  /\ b \in Blocks /\ blockIdx \in 1..Len(blockLog) /\ blockIdx' = blockIdx + 1
         /\ Applies(blockIdx, b)
         /\ Before(blockIdx)' = Before(blockIdx) \cup {b} /\ Higher(b, Before(blockIdx))
         /\ Before(blockIdx + 1) = Before(blockIdx) \cup {b}
         /\ UNCHANGED <<txLog, blockLog, chain, txIdx, cursorLoaded, lastTxOffset>>
         /\ processedTxOffsets' = processedTxOffsets
         /\ \A c \in emittedBlocks \cup {b} :
              lastProcessedHeight' <= HeightOf[c] => c \in emittedBlocks'
         /\ \/ UNCHANGED lastProcessedHeight
            \/ TryAdvanceCursor(SetState(completed, HeightOf[b], StateAfterReplay(b)))
         /\ DOMAIN completed' \subseteq DOMAIN completed \cup {HeightOf[b]}
         /\ \A h \in DOMAIN completed' :
              completed'[h] = SetState(completed, HeightOf[b], StateAfterReplay(b))[h]
<1> DEFINE h == HeightOf[b]
           comp == SetState(completed, h, StateAfterReplay(b))
           pa == [pendingApplied EXCEPT ![b] = <<>>]
           pu == [pendingUnapplied EXCEPT ![b] = <<>>]
           em == emittedBlocks \cup {b}
           rem == Remaining(comp)
<1>1. TypeInv /\ LogInv /\ NextBlock("apply")
  BY DEF Ground, EmitBlockApply
<1>2. /\ b \in Blocks /\ TypeInv'
  BY <1>1, EmitBlockApplyStep
<1>3. blockIdx \in 1..Len(blockLog) /\ blockIdx' = blockIdx + 1 /\ Len(blockLog) \in Nat
  BY <1>1, NextBlockTyping, GroundFacts DEF NextBlock, TypeInv
<1>4. /\ Before(blockIdx)' = blockLog[blockIdx].chain /\ blockLog[blockIdx].kind = "apply"
      /\ LinkOK(blockIdx)
  BY <1>1, NextBefore
<1>5. blockLog[blockIdx].chain = Before(blockIdx) \cup {b} /\ Higher(b, Before(blockIdx))
  BY <1>4 DEF LinkOK
<1>6. Before(blockIdx + 1) = blockLog[blockIdx].chain
  <2>1. blockIdx + 1 # 1 /\ (blockIdx + 1) - 1 = blockIdx
    BY <1>3
  <2> QED BY <2>1 DEF Before
<1>7. UNCHANGED <<txLog, blockLog, chain, txIdx, cursorLoaded, lastTxOffset>>
  BY <1>1 DEF NextBlock, feedVars
<1>8. /\ PruneOldBuffers(pa, pu, em, rem)
      /\ (UNCHANGED lastProcessedHeight \/ TryAdvanceCursor(comp))
  BY DEF EmitBlockApply
<1>9. processedTxOffsets' = processedTxOffsets
  <2> HIDE DEF pa, pu, em, rem
  <2> QED BY <1>8, PruningKeepsOffsets
<1>10. ASSUME NEW c \in em, lastProcessedHeight' <= HeightOf[c] PROVE c \in emittedBlocks'
  <2>1. HeightOf[c] \in Int /\ lastProcessedHeight' \in Int /\ Lookback \in Nat
    <3>1. c \in Blocks
      BY <1>1, <1>2 DEF TypeInv, TypeOK
    <3>2. lastProcessedHeight' \in Heights
      BY <1>2 DEF TypeInv, TypeOK
    <3> QED BY <3>1, <3>2, HeightTyping, IndexerAssumption DEF Heights
  <2>2. ~Straggler(HeightOf[c])
    BY <1>10, <2>1 DEF Straggler
  <2>3. emittedBlocks' = em \/ emittedBlocks' = {d \in em : ~Straggler(HeightOf[d])}
    <3> HIDE DEF pa, pu, em, rem
    <3> QED BY <1>8 DEF PruneOldBuffers
  <2> QED BY <1>10, <2>2, <2>3
<1>11. DOMAIN completed' \subseteq DOMAIN rem /\ \A k \in DOMAIN completed' : completed'[k] = rem[k]
  <2> HIDE DEF pa, pu, em, rem
  <2> QED BY <1>8, PruningShrinks
<1>12. DOMAIN rem \subseteq DOMAIN comp /\ (\A k \in DOMAIN rem : rem[k] = comp[k])
       /\ DOMAIN comp = DOMAIN completed \cup {h}
  <2>1. DOMAIN comp = DOMAIN completed \cup {h}
    BY DEF SetState
  <2> HIDE DEF comp
  <2>2. DOMAIN rem \subseteq DOMAIN comp /\ (\A k \in DOMAIN rem : rem[k] = comp[k])
    BY DEF Remaining
  <2> QED BY <2>1, <2>2
<1>13. /\ DOMAIN completed' \subseteq DOMAIN completed \cup {h}
       /\ \A k \in DOMAIN completed' : completed'[k] = comp[k]
  <2> HIDE DEF comp, rem
  <2> QED BY <1>11, <1>12
<1>14. Before(blockIdx)' = Before(blockIdx) \cup {b} /\ Before(blockIdx + 1) = Before(blockIdx) \cup {b}
  BY <1>4, <1>5, <1>6
<1>15. Applies(blockIdx, b)
  BY <1>4 DEF Applies
<1> HIDE DEF pa, pu, rem
<1> QED BY <1>2, <1>3, <1>5, <1>7, <1>8, <1>9, <1>10, <1>13, <1>14, <1>15

(* A block message keeps it too, with the block among what has been read.  *)
LEMMA ApplyLoaded ==
  ASSUME Ground, WithinLimit, BufferedOnce(pendingApplied),
         BufferedIn(pendingApplied, processedTxOffsets),
         EmitBlockApply, LoadedInv,
         \A o \in 1..Len(txLog) : SentDown(o) => SentDown(o)'
  PROVE  /\ LoadedInv'
         /\ \A c \in Before(blockIdx + 1) \cap chain :
              Indexed(c) /\ HeightOf[c] <= lastProcessedHeight' =>
                \A o \in Messages(c) : o \in processedTxOffsets \/ SentDown(o)
         /\ \E d \in Before(blockIdx + 1) : lastProcessedHeight' <= HeightOf[d]
<1>1. PICK b : b = blockLog[blockIdx].block
  OBVIOUS
<1> DEFINE h == HeightOf[b]
           st == StateAfterReplay(b)
           comp == SetState(completed, h, st)
           B == Before(blockIdx + 1)
<1>2. /\ b \in Blocks /\ blockIdx \in 1..Len(blockLog) /\ blockIdx' = blockIdx + 1
      /\ Applies(blockIdx, b)
      /\ Before(blockIdx)' = Before(blockIdx) \cup {b} /\ Higher(b, Before(blockIdx))
      /\ B = Before(blockIdx) \cup {b}
      /\ UNCHANGED <<txLog, blockLog, chain>>
      /\ processedTxOffsets' = processedTxOffsets
      /\ \A c \in emittedBlocks \cup {b} : lastProcessedHeight' <= HeightOf[c] => c \in emittedBlocks'
      /\ UNCHANGED lastProcessedHeight \/ TryAdvanceCursor(comp)
      /\ DOMAIN completed' \subseteq DOMAIN completed \cup {h}
      /\ \A k \in DOMAIN completed' : completed'[k] = comp[k]
  BY <1>1, ApplyParts
<1>3. /\ TypeInv /\ FeedTypeOK /\ LogInv /\ HistoryOK /\ CompletedOK(completed)
      /\ lastProcessedHeight \in Heights /\ lastProcessedHeight \in Int /\ Len(blockLog) \in Nat
      /\ \A c \in Blocks : HeightOf[c] \in Int
  BY GroundFacts DEF Ground, TypeInv, TypeOK, CompletedOK
<1>4. LowCursor /\ PassedSeen /\ CountedSeen /\ AboveEmitted
  BY DEF LoadedInv
<1>5. WellCounted(B)
  <2>1. blockIdx + 1 \in 1..(Len(blockLog) + 1)
    BY <1>2, <1>3
  <2> QED BY <1>3, <2>1, MessagesCounted
<1>6. \A c : Messages(c)' = Messages(c) /\ Messages(c) \subseteq 1..Len(txLog)
  BY <1>2 DEF Messages
<1>7. CompletedOK(comp) /\ CountedIn(comp, B, processedTxOffsets)
  <2>1. b \in B /\ NumTxs(b) \in Nat /\ IsFiniteSet(Messages(b)) /\ h \in Heights
    BY <1>2, <1>5, HeightTyping DEF WellCounted
  <2>2. /\ Len(pendingApplied[b]) \in Nat
        /\ Len(pendingApplied[b]) <= Cardinality(processedTxOffsets \cap Messages(b))
    BY <1>2, <1>3, <2>1, EarlyOnes
  <2>3. Cardinality(processedTxOffsets \cap Messages(b)) \in Nat
    BY <2>1, FS_Subset, FS_CardinalityType
  <2>4. pendingUnapplied[b] # <<>> => b \notin chain
    <3>1. SUFFICES ASSUME pendingUnapplied[b] # <<>>, b \in chain PROVE FALSE
      OBVIOUS
    <3>2. pendingUnapplied[b] \in Seq(Nat)
      BY <1>2, <1>3 DEF TypeInv, TypeOK
    <3>3. 1 \in 1..Len(pendingUnapplied[b])
      BY <3>1, <3>2
    <3>4. /\ pendingUnapplied[b][1] \in 1..Len(txLog)
          /\ txLog[pendingUnapplied[b][1]].kind = "unapplied"
          /\ txLog[pendingUnapplied[b][1]].block = b
      BY <1>2, <1>3, <3>3 DEF TypeInv, HoldsOffsets
    <3> QED BY <1>3, <3>1, <3>4, NoneUnapplied
  <2>5. /\ st \in BlockState /\ st.expected = NumTxs(b)
        /\ st.seen <= Cardinality(processedTxOffsets \cap Messages(b))
        /\ st.rollback => b \notin chain
    <3> DEFINE n == Len(pendingApplied[b])
               m == NumTxs(b)
               s1 == [expected |-> m, seen |-> m, rollback |-> FALSE]
               s2 == [expected |-> m, seen |-> n, rollback |-> pendingUnapplied[b] # <<>>]
    <3>1. \/ st = s1 /\ m <= n
          \/ st = s2
      BY DEF StateAfterReplay
    <3> HIDE DEF st
    <3>2. CASE st = s1 /\ m <= n
      <4>1. st.expected = m /\ st.seen = m /\ st.rollback = FALSE /\ st \in BlockState
        BY <2>1, <3>2 DEF BlockState
      <4>2. m <= Cardinality(processedTxOffsets \cap Messages(b))
        BY <2>1, <2>2, <2>3, <3>2
      <4> HIDE DEF s1
      <4> QED BY <4>1, <4>2
    <3>3. CASE st = s2
      <4>1. st.expected = m /\ st.seen = n /\ st \in BlockState
        BY <2>1, <2>2, <3>3 DEF BlockState
      <4>2. st.rollback <=> pendingUnapplied[b] # <<>>
        BY <3>3, Zenon
      <4> HIDE DEF s2
      <4> QED BY <2>2, <2>4, <4>1, <4>2
    <3> QED BY <3>1, <3>2, <3>3
  <2>6. \A k \in DOMAIN completed : k # h => \E c \in B :
          /\ HeightOf[c] = k /\ completed[k].expected = NumTxs(c)
          /\ completed[k].seen <= Cardinality(processedTxOffsets \cap Messages(c))
          /\ completed[k].rollback => c \notin chain
    BY <1>2, <1>4 DEF CountedSeen
  <2>7. HeightOf[b] = h
    OBVIOUS
  <2> HIDE DEF st, h, B
  <2>8. CompletedOK(comp)
    BY <1>3, <2>1, <2>5, SetStateTyping
  <2>9. CountedIn(comp, B, processedTxOffsets)
    BY <2>1, <2>5, <2>6, <2>7, CountedSet
  <2> QED BY <2>8, <2>9
<1>8. /\ lastProcessedHeight' \in Int /\ lastProcessedHeight <= lastProcessedHeight'
      /\ lastProcessedHeight' = lastProcessedHeight \/ \E d \in B : lastProcessedHeight' = HeightOf[d]
      /\ \A c \in B \cap chain :
           lastProcessedHeight < HeightOf[c] /\ HeightOf[c] <= lastProcessedHeight' =>
             Messages(c) \subseteq processedTxOffsets
  <2>1. CASE UNCHANGED lastProcessedHeight
    <3>1. \A c \in B : HeightOf[c] \in Int
      BY <1>5 DEF WellCounted
    <3>2. \A c \in B : ~(lastProcessedHeight < HeightOf[c] /\ HeightOf[c] <= lastProcessedHeight)
      BY <1>3, <3>1
    <3> HIDE DEF comp, B
    <3> QED BY <1>3, <2>1, <3>2
  <2>2. CASE TryAdvanceCursor(comp)
    <3> HIDE DEF comp, B
    <3> QED BY <1>3, <1>5, <1>7, <2>2, AdvanceSeen
  <2> QED BY <1>2, <2>1, <2>2
<1>9. B \subseteq Blocks
  BY <1>5 DEF WellCounted
<1>10. \E d \in B : lastProcessedHeight' <= HeightOf[d]
  BY <1>2, <1>4, <1>8, <1>9, <1>3 DEF LowCursor
<1>11. ASSUME NEW c \in B \cap chain, Indexed(c), HeightOf[c] <= lastProcessedHeight',
              NEW o \in Messages(c)
       PROVE  o \in processedTxOffsets \/ SentDown(o)
  <2>1. CASE lastProcessedHeight < HeightOf[c]
    BY <1>8, <1>11, <2>1
  <2>2. CASE HeightOf[c] <= lastProcessedHeight
    <3>1. c \in Before(blockIdx)
      <4>1. SUFFICES ASSUME c = b PROVE FALSE
        BY <1>2
      <4>2. PICK d \in Before(blockIdx) : lastProcessedHeight <= HeightOf[d]
        BY <1>4 DEF LowCursor
      <4>3. HeightOf[d] < HeightOf[b]
        BY <1>2, <4>2 DEF Higher
      <4>4. HeightOf[d] \in Int /\ HeightOf[b] \in Int
        BY <1>2, <1>3, <1>9
      <4> QED BY <1>3, <2>2, <4>1, <4>2, <4>3, <4>4
    <3> QED BY <1>4, <1>11, <2>2, <3>1 DEF PassedSeen
  <2> QED BY <1>3, <1>9, <2>1, <2>2
<1>12. LowCursor'
  BY <1>2, <1>10 DEF LowCursor
<1>13. PassedSeen'
  BY <1>2, <1>6, <1>11 DEF PassedSeen, Indexed
<1>14. CountedSeen'
  <2>1. CountedIn(completed', B, processedTxOffsets)
    <3>1. DOMAIN completed' \subseteq DOMAIN comp
      BY <1>2 DEF SetState
    <3> HIDE DEF comp, B
    <3> QED BY <1>2, <1>7, <3>1, CountedLess
  <2> QED BY <1>2, <1>6, <2>1 DEF CountedSeen, CountedIn
<1>15. AboveEmitted'
  <2>1. SUFFICES ASSUME NEW c \in B, lastProcessedHeight' < HeightOf[c] PROVE c \in emittedBlocks'
    BY <1>2 DEF AboveEmitted
  <2>2. HeightOf[c] \in Int
    BY <1>3, <1>9
  <2>3. c \in emittedBlocks \cup {b}
    BY <1>2, <1>3, <1>4, <1>8, <2>1, <2>2 DEF AboveEmitted
  <2> QED BY <1>2, <1>8, <2>1, <2>2, <2>3
<1> QED BY <1>10, <1>11, <1>12, <1>13, <1>14, <1>15 DEF LoadedInv

(* The block reader's step, for a block that is applied.                   *)
LEMMA ApplyLife ==
  ASSUME Ground, WithinLimit, BufferedOnce(pendingApplied),
         BufferedIn(pendingApplied, processedTxOffsets),
         Next, EmitBlockApply, ~cursorLoaded => NoStraggler,
         NEW t \in 1..(Len(txLog) + 1), LifeInv(t)
  PROVE  LifeInv(t)'
<1>1. PICK b : b = blockLog[blockIdx].block
  OBVIOUS
<1>2. /\ b \in Blocks /\ blockIdx \in 1..Len(blockLog) /\ blockIdx' = blockIdx + 1
      /\ Applies(blockIdx, b)
      /\ Before(blockIdx)' = Before(blockIdx) \cup {b}
      /\ Before(blockIdx + 1) = Before(blockIdx) \cup {b}
      /\ UNCHANGED <<txLog, blockLog, chain, txIdx, cursorLoaded, lastTxOffset>>
      /\ processedTxOffsets' = processedTxOffsets
  BY <1>1, ApplyParts
<1>3. /\ TypeInv /\ LogInv /\ IndexInv /\ HistoryOK /\ FeedTypeOK /\ Len(blockLog) \in Nat
      /\ chain \subseteq Blocks /\ \A c \in Blocks : HeightOf[c] \in Int
  BY GroundFacts DEF Ground
<1>4. \A o \in 1..Len(txLog) : SentDown(o) => SentDown(o)'
  BY <1>3, SentDownKept
<1>5. \A c : Messages(c)' = Messages(c) /\ Messages(c) \subseteq 1..Len(txLog)
  BY <1>2 DEF Messages
<1>6. EarlierSent(t)'
  BY <1>2, <1>4, <1>5 DEF LifeInv, EarlierSent, Indexed
<1>7. ReadInOrder(t)'
  BY <1>2 DEF LifeInv, ReadInOrder
<1>8. cursorLoaded =>
        /\ LoadedInv'
        /\ \A c \in Before(blockIdx + 1) \cap chain :
             Indexed(c) /\ HeightOf[c] <= lastProcessedHeight' =>
               \A o \in Messages(c) : o \in processedTxOffsets \/ SentDown(o)
        /\ \E d \in Before(blockIdx + 1) : lastProcessedHeight' <= HeightOf[d]
  BY <1>4, ApplyLoaded DEF LifeInv
<1>9. DueOnItsWay(t)'
  <2>1. SUFFICES ASSUME NEW c \in chain, Due(c)', Indexed(c), NEW o \in Messages(c)
                 PROVE  OnItsWay(o, c)' \/ Missed(o, t)'
    BY <1>2, <1>5 DEF DueOnItsWay, Indexed
  <2>2. Due(c)
    <3>1. c \in Before(blockIdx)' => c \in Before(blockIdx) \/ Applies(blockIdx, c)
      BY <1>2
    <3>2. blockLog[blockIdx].kind # "unapply"
      BY <1>2 DEF Applies
    <3> QED BY <1>2, <2>1, <3>1, <3>2, DuePast
  <2>3. OnItsWay(o, c) \/ Missed(o, t)
    BY <2>1, <2>2 DEF LifeInv, DueOnItsWay
  <2>4. Missed(o, t) => Missed(o, t)'
    BY <1>2 DEF Missed
  <2>5. o \in 1..Len(txLog) /\ txLog[o].kind = "applied" /\ txLog[o].block = c /\ c \in Blocks
    BY <1>3, <2>1, MessageIs
  <2>6. CASE /\ OnItsWay(o, c)
             /\ Unread(o) \/ (BufferedAs(o, c) /\ ~Applies(blockIdx, c)) =>
                  lastProcessedHeight' < tipHeight' \/ ~Straggler(HeightOf[c])
    BY <1>3, <2>5, <2>6, AnnouncedWay
  <2>7. CASE /\ OnItsWay(o, c)
             /\ Unread(o) \/ (BufferedAs(o, c) /\ ~Applies(blockIdx, c))
             /\ ~(lastProcessedHeight' < tipHeight' \/ ~Straggler(HeightOf[c]))
    <3>1. cursorLoaded
      BY <2>1, <2>5, <2>7 DEF NoStraggler, Indexed
    <3>2. HeightOf[c] \in Int /\ lastProcessedHeight' \in Int /\ HeightOf[c] < lastProcessedHeight'
      <4>1. HeightOf[c] \in Int /\ Lookback \in Nat
        BY <1>3, <2>5, IndexerAssumption
      <4>2. lastProcessedHeight' \in Heights
        BY <1>3, EmitBlockApplyStep DEF TypeInv, TypeOK
      <4>3. lastProcessedHeight' > HeightOf[c] + Lookback
        BY <2>7 DEF Straggler
      <4> QED BY <4>1, <4>2, <4>3 DEF Heights
    <3>3. c \in Before(blockIdx + 1)
      <4>1. SUFFICES ASSUME c \notin Before(blockIdx + 1) PROVE FALSE
        OBVIOUS
      <4>2. PICK j \in blockIdx..Len(blockLog) :
              Applies(j, c) /\ \A u \in blockIdx..j : blockLog[u].kind # "unapply"
        BY <1>2, <2>2, <3>1, <4>1 DEF Due
      <4>3. j # blockIdx
        BY <1>1, <1>2, <4>1, <4>2 DEF Applies
      <4>4. /\ blockIdx + 1 \in 1..Len(blockLog) /\ j \in (blockIdx + 1)..Len(blockLog)
            /\ \A u \in (blockIdx + 1)..j : u \in blockIdx..j
        BY <1>2, <1>3, <4>2, <4>3
      <4>5. Higher(c, Before(blockIdx + 1))
        BY <1>3, <2>5, <4>2, <4>4, Rises
      <4>6. PICK d \in Before(blockIdx + 1) : lastProcessedHeight' <= HeightOf[d]
        BY <1>8, <3>1
      <4>7. HeightOf[d] < HeightOf[c] /\ HeightOf[d] \in Int
        <5>1. d \in Blocks
          BY <1>2, <4>6, GroundFacts
        <5> QED BY <1>3, <4>5, <4>6, <5>1 DEF Higher
      <4> QED BY <3>2, <4>6, <4>7
    <3>4. o \in processedTxOffsets \/ SentDown(o)
      BY <1>8, <2>1, <3>1, <3>2, <3>3
    <3>5. Sent(o) => OnItsWay(o, c)'
      BY <1>2, <1>3, <2>5, SentKept DEF OnItsWay
    <3>6. CASE Unread(o)
      BY <1>3, <3>4, <3>5, <3>6, SentDownSent DEF Unread
    <3>7. CASE ~Unread(o) /\ BufferedAs(o, c) /\ ~Applies(blockIdx, c)
      <4>1. c \in Before(blockIdx)
        BY <1>2, <3>3, <3>7
      <4>2. ~Awaited(c)
        BY <2>1, <4>1, NotAwaited
      <4> QED BY <2>7, <3>5, <3>7, <4>2 DEF OnItsWay
    <3> QED BY <2>7, <3>6, <3>7
  <2> QED BY <2>3, <2>4, <2>6, <2>7
<1> QED BY <1>2, <1>6, <1>7, <1>8, <1>9 DEF LifeInv

(* ... and for one that is rolled back, which only a process that began with *)
(* the topics survives.                                                    *)
LEMMA RetractLife ==
  ASSUME Ground, WithinLimit, Next, EmitBlockUnapply, ~cursorLoaded, NoStraggler,
         NEW t \in 1..(Len(txLog) + 1), LifeInv(t)
  PROVE  LifeInv(t)'
<1>1. UNCHANGED <<txLog, blockLog, chain, txIdx, cursorLoaded, lastTxOffset>>
  BY DEF EmitBlockUnapply, NextBlock, feedVars
<1>2. processedTxOffsets' = processedTxOffsets
  <2>1. \E pa, pu, em, comp : PruneOldBuffers(pa, pu, em, comp)
    BY DEF EmitBlockUnapply
  <2> QED BY <2>1, PruningKeepsOffsets
<1>3. TypeInv /\ LogInv /\ IndexInv /\ chain \subseteq Blocks
  BY GroundFacts DEF Ground
<1>4. \A o \in 1..Len(txLog) : SentDown(o) => SentDown(o)'
  BY <1>3, SentDownKept
<1>5. \A c : Messages(c)' = Messages(c) /\ Messages(c) \subseteq 1..Len(txLog)
  BY <1>1 DEF Messages
<1>6. EarlierSent(t)'
  BY <1>1, <1>4, <1>5 DEF LifeInv, EarlierSent, Indexed
<1>7. ReadInOrder(t)'
  BY <1>1, <1>2 DEF LifeInv, ReadInOrder
<1>8. DueOnItsWay(t)'
  <2>1. SUFFICES ASSUME NEW c \in chain, Indexed(c), NEW o \in Messages(c)
                 PROVE  OnItsWay(o, c)' \/ Missed(o, t)'
    BY <1>1, <1>5 DEF DueOnItsWay, Indexed
  <2>2. OnItsWay(o, c) \/ Missed(o, t)
    BY <2>1 DEF LifeInv, DueOnItsWay, Due
  <2>3. Missed(o, t) => Missed(o, t)'
    BY <1>2 DEF Missed
  <2>4. o \in 1..Len(txLog) /\ txLog[o].kind = "applied" /\ txLog[o].block = c /\ c \in Blocks
    BY <1>3, <2>1, MessageIs
  <2>5. Unread(o) \/ BufferedAs(o, c) => lastProcessedHeight' < tipHeight' \/ ~Straggler(HeightOf[c])
    BY <2>1, <2>4 DEF NoStraggler, Indexed
  <2> QED BY <1>3, <2>2, <2>3, <2>4, <2>5, RetractedWay
<1> QED BY <1>1, <1>6, <1>7, <1>8 DEF LifeInv

-------------------------------------------------------------------------------
(* From one life to the next.                                              *)

(* A process that has not started its readers remembers nothing; the seek  *)
(* may have left the transaction reader at the message of a point.         *)
WaitInv ==
  ~running =>
    /\ lastTxOffset = 0 /\ ~cursorLoaded
    /\ txIdx = 1 \/ \E p \in cursor : txIdx = p.txOffset
    /\ seek = "none" => blockIdx = 1 /\ txIdx = 1
    /\ processedTxOffsets = {} /\ DOMAIN completed = {} /\ ~downstreamSet
    /\ pendingApplied = [b \in Blocks |-> <<>>] /\ pendingUnapplied = [b \in Blocks |-> <<>>]

RunInv ==
  running => /\ ~downstreamSet => LifeFrom = Len(downstream)
             /\ lives # <<>> /\ lives[Len(lives)].loaded = cursorLoaded

PlaceInv == points \subseteq cursor /\ WaitInv /\ RunInv

LifeRecord(loaded, start, ahead) ==
  [from |-> Len(downstream), loaded |-> loaded, atStart |-> start, ahead |-> ahead]

(* The ways a step of the seek may end: it goes on, the process resumes at *)
(* a point, or it starts without one.                                      *)
SeeksOn ==
  /\ UNCHANGED <<running, lives, lastTxOffset, cursorLoaded>> /\ seek' # "none"
  /\ txIdx' = txIdx \/ \E p \in points : txIdx' = p.txOffset
ResumesAt(p) ==
  /\ running' /\ cursorLoaded'
  /\ \E start, ahead \in BOOLEAN : lives' = Append(lives, LifeRecord(TRUE, start, ahead))
  /\ blockIdx' = p.blockOffset + 1 /\ lastProcessedHeight' = HeightOf[p.block]
  /\ \/ txIdx' = p.txOffset + 1 /\ lastTxOffset' = p.txOffset + 1
     \/ UNCHANGED <<txIdx, lastTxOffset>>
StartsAnew ==
  /\ running' /\ UNCHANGED <<lastTxOffset, cursorLoaded, txIdx>>
  /\ \E start, ahead \in BOOLEAN : /\ lives' = Append(lives, LifeRecord(FALSE, start, ahead))
                                   /\ start <=> blockIdx' = 1 /\ txIdx' = 1

(* A step of the seek is one of them.                                      *)
LEMMA SeekShape ==
  ASSUME ResumeInv, HistoryOK, PlaceInv, SeekStep \/ StartFresh
  PROVE  /\ ~running
         /\ UNCHANGED <<feedVars, completed, bufferVars, sendVars, boundVars, cursor>>
         /\ points' \subseteq points
         /\ SeeksOn \/ StartsAnew \/ \E p \in points : ResumesAt(p)
<1> DEFINE p == Newest(points)
<1>1. ~running
  BY SeekStepSeeks DEF Seeks, StartFresh, StartKafka
<1>2. /\ UNCHANGED <<feedVars, completed, bufferVars, sendVars, boundVars, cursor>>
      /\ points' \subseteq points
  <2>1. SeekStep => points' \subseteq points
    BY SeekStepSeeks DEF Seeks
  <2>2. StartFresh => UNCHANGED points
    BY DEF StartFresh
  <2> QED BY <2>1, <2>2 DEF StartFresh, StartKafka, SeekStep, SeekUsingStoredOffsets, ScanFinds,
         NoValidPoint, SkipPoint, StoredOffsetsFail, ScanGivesUp, ScanFails, CallFails,
         SeekUnchanged
<1>3. lastTxOffset = 0 /\ cursorLoaded = FALSE
  BY <1>1 DEF PlaceInv, WaitInv, ResumeInv, TypeInv, TypeOK
<1>4. points # {} => /\ p \in points
                     /\ FirstApply(p.block) = p.blockOffset
  <2>1. SUFFICES ASSUME points # {} PROVE p \in points /\ FirstApply(p.block) = p.blockOffset
    OBVIOUS
  <2> HIDE DEF p
  <2>2. /\ p \in points /\ p \in CursorPoint /\ GenuinePoint(p)
        /\ FirstApply(p.block) \in 1..Len(blockLog) /\ Applies(FirstApply(p.block), p.block)
    BY <2>1, NewestPoint DEF p
  <2>3. p.blockOffset \in 1..Len(blockLog) /\ Applies(p.blockOffset, p.block) /\ p.block \in Blocks
    BY <2>2 DEF GenuinePoint, StoredPlace, Applies, CursorPoint
  <2> QED BY <2>2, <2>3 DEF HistoryOK, HistoryInv
<1> HIDE DEF p
<1>5. ASSUME SeekUsingStoredOffsets PROVE \E q \in points : ResumesAt(q)
  <2>1. /\ points # {} /\ blockIdx' = p.blockOffset + 1 /\ txIdx' = p.txOffset + 1
        /\ lastTxOffset' = p.txOffset + 1 /\ lastProcessedHeight' = HeightOf[p.block]
        /\ cursorLoaded' = TRUE /\ Run
    BY <1>5 DEF SeekUsingStoredOffsets, SeekBehind, p, Trying
  <2>2. \E start, ahead \in BOOLEAN : lives' = Append(lives, LifeRecord(TRUE, start, ahead))
    BY <2>1 DEF Run, LifeRecord
  <2>3. ResumesAt(p)
    BY <2>1, <2>2 DEF ResumesAt, Run
  <2> QED BY <1>4, <2>1, <2>3
<1>6. ASSUME ScanFinds PROVE \E q \in points : ResumesAt(q)
  <2>1. /\ points # {} /\ blockIdx' = FirstApply(p.block) + 1
        /\ lastProcessedHeight' = HeightOf[p.block]
        /\ cursorLoaded' = TRUE /\ Run /\ UNCHANGED <<txIdx, lastTxOffset>>
    BY <1>6 DEF ScanFinds, p, Trying
  <2>2. \E start, ahead \in BOOLEAN : lives' = Append(lives, LifeRecord(TRUE, start, ahead))
    BY <2>1 DEF Run, LifeRecord
  <2>3. ResumesAt(p)
    BY <1>4, <2>1, <2>2 DEF ResumesAt, Run
  <2> QED BY <1>4, <2>1, <2>3
<1>7. ASSUME NoValidPoint \/ ScanGivesUp PROVE StartsAnew
  <2>1. UNCHANGED <<txIdx, lastTxOffset, cursorLoaded>> /\ Run
    BY <1>7 DEF NoValidPoint, ScanGivesUp
  <2>2. PICK start \in BOOLEAN : start = (blockIdx' = 1 /\ txIdx' = 1)
    OBVIOUS
  <2>3. \E ahead \in BOOLEAN : lives' = Append(lives, LifeRecord(FALSE, start, ahead))
    BY <1>3, <2>1, <2>2 DEF Run, LifeRecord
  <2> QED BY <2>1, <2>2, <2>3 DEF StartsAnew, Run
<1>8. ASSUME StartFresh PROVE StartsAnew
  <2>1. UNCHANGED <<txIdx, blockIdx, lastTxOffset, cursorLoaded>> /\ running' = TRUE /\ seek = "none"
        /\ lives' = Append(lives, LifeRecord(FALSE, TRUE, FALSE))
    BY <1>8 DEF StartFresh, StartKafka, LifeRecord
  <2>2. blockIdx = 1 /\ txIdx = 1
    BY <1>1, <2>1 DEF PlaceInv, WaitInv
  <2> QED BY <2>1, <2>2 DEF StartsAnew
<1>9. ASSUME SkipPoint \/ StoredOffsetsFail \/ ScanFails PROVE SeeksOn
  <2>1. UNCHANGED <<running, lives, lastTxOffset, cursorLoaded>> /\ seek' # "none"
    BY <1>9 DEF SkipPoint, StoredOffsetsFail, ScanFails, Trying, readerVars
  <2>2. SkipPoint \/ ScanFails => txIdx' = txIdx
    BY DEF SkipPoint, ScanFails, readerVars
  <2>3. StoredOffsetsFail => points # {} /\ (txIdx' = txIdx \/ txIdx' = p.txOffset)
    BY DEF StoredOffsetsFail, Trying, p
  <2> QED BY <1>4, <1>9, <2>1, <2>2, <2>3 DEF SeeksOn
<1> QED BY <1>1, <1>2, <1>5, <1>6, <1>7, <1>8, <1>9 DEF SeekStep

LEMMA LifeSteadies ==
  ASSUME LifeStep
  PROVE  /\ UNCHANGED <<running, cursorLoaded, lastTxOffset>>
         /\ ~downstreamSet' => ~downstreamSet /\ UNCHANGED downstream
         /\ ~running => UNCHANGED indexerVars
<1>1. Next /\ running' = running
  BY LifeStepNext
<1>2. ~downstreamSet' => ~downstreamSet /\ UNCHANGED downstream
  <2>1. CASE UNCHANGED sendVars
    BY <2>1 DEF sendVars
  <2>2. CASE SetDownstream
    BY <2>2 DEF SetDownstream
  <2>3. CASE \E events : SendDownstream(events)
    BY <2>3 DEF SendDownstream
  <2> QED BY <1>1, <2>1, <2>2, <2>3, SendCases
<1>3. UNCHANGED <<cursorLoaded, lastTxOffset>>
  BY DEF LifeStep, indexerVars, readerVars, cursorVars, HandleMessage, SetDownstream,
         HandleBlockMessage, SkipMalformedBlock,
         SkipDuplicateApply, DropApplyOnNodeError, EmitBlockApply, EmitBlockUnapply,
         NextBlock, HandleTxMessage, SkipMalformedTx, SkipDuplicateTx, SkipAppliedTx,
         BufferAppliedTx, ProcessAppliedTx, SkipUnparsableUnapplied, BufferUnappliedTx,
         ProcessUnappliedTx, FreshTx, NextTx, HandleMempoolMessage,
         DropMempoolMessage, ForwardMempoolMessage, NextMempool, RestartReader
<1>4. ~running => UNCHANGED indexerVars
  BY DEF LifeStep, HandleMessage, SetDownstream,
         HandleBlockMessage, SkipMalformedBlock,
         SkipDuplicateApply, DropApplyOnNodeError, EmitBlockApply, EmitBlockUnapply,
         NextBlock, HandleTxMessage, SkipMalformedTx, SkipDuplicateTx, SkipAppliedTx,
         BufferAppliedTx, ProcessAppliedTx, SkipUnparsableUnapplied, BufferUnappliedTx,
         ProcessUnappliedTx, FreshTx, NextTx, HandleMempoolMessage,
         DropMempoolMessage, ForwardMempoolMessage, NextMempool, RestartReader
<1> QED BY <1>1, <1>2, <1>3, <1>4

(* Where the readers and the points are is as a seek or a life leaves them. *)
LEMMA PlaceStep ==
  ASSUME ResumeInv, HistoryOK, PlaceInv, [ResumeNext]_resumeVars
  PROVE  PlaceInv'
<1>1. points \subseteq cursor /\ WaitInv /\ RunInv /\ running \in BOOLEAN
      /\ Len(downstream) \in Nat /\ lives \in Seq(Life) /\ cursorLoaded \in BOOLEAN
  BY DEF PlaceInv, ResumeInv, TypeInv, TypeOK, SeekInv
<1>2. CASE UNCHANGED resumeVars
  BY <1>1, <1>2 DEF PlaceInv, WaitInv, RunInv, LifeFrom, resumeVars, vars, indexerVars, readerVars,
                    cursorVars, bufferVars, sendVars, seekVars
<1>3. CASE LifeStep /\ UNCHANGED seekVars
  <2>1. /\ UNCHANGED <<running, cursorLoaded, lastTxOffset, cursor, seek, points, lives>>
        /\ ~downstreamSet' => ~downstreamSet /\ UNCHANGED downstream
        /\ ~running => UNCHANGED indexerVars
    BY <1>3, LifeSteadies DEF seekVars
  <2>2. WaitInv'
    BY <1>1, <2>1 DEF WaitInv, indexerVars, readerVars, cursorVars, bufferVars, sendVars
  <2>3. RunInv'
    BY <1>1, <2>1 DEF RunInv, LifeFrom
  <2> QED BY <1>1, <2>1, <2>2, <2>3 DEF PlaceInv
<1>4. CASE SeekStep \/ StartFresh
  <2>1. /\ ~running
        /\ UNCHANGED <<completed, bufferVars, sendVars, cursor>>
        /\ points' \subseteq points
        /\ SeeksOn \/ StartsAnew \/ \E p \in points : ResumesAt(p)
    BY <1>4, SeekShape
  <2>2. CASE SeeksOn
    <3>1. WaitInv'
      BY <1>1, <2>1, <2>2 DEF WaitInv, SeeksOn, bufferVars, sendVars
    <3>2. ~running'
      BY <2>1, <2>2 DEF SeeksOn
    <3> QED BY <1>1, <2>1, <3>1, <3>2 DEF PlaceInv, RunInv
  <2>3. CASE StartsAnew \/ \E p \in points : ResumesAt(p)
    <3>1. PICK loaded \in BOOLEAN, start \in BOOLEAN, ahead \in BOOLEAN :
            lives' = Append(lives, LifeRecord(loaded, start, ahead)) /\ cursorLoaded' = loaded /\ running'
      <4>1. cursorLoaded = FALSE
        BY <1>1, <2>1 DEF WaitInv
      <4>2. cursorLoaded' \in BOOLEAN
        BY <1>4, ResumeInvStep DEF ResumeNext, Work, ResumeInv, TypeInv, TypeOK
      <4> QED BY <2>3, <4>1, <4>2 DEF StartsAnew, ResumesAt
    <3>2. PICK life : life = LifeRecord(loaded, start, ahead)
      OBVIOUS
    <3>3. life.from = Len(downstream) /\ life.loaded = loaded /\ life \in Life
      BY <1>1, <3>2 DEF LifeRecord, Life
    <3>4. lives' # <<>> /\ lives'[Len(lives')] = life
      BY <1>1, <3>1, <3>2, <3>3
    <3>5. UNCHANGED downstream
      BY <2>1 DEF sendVars
    <3>6. RunInv'
      BY <3>1, <3>3, <3>4, <3>5 DEF RunInv, LifeFrom
    <3> QED BY <1>1, <2>1, <3>1, <3>6 DEF PlaceInv, WaitInv
  <2> QED BY <2>1, <2>2, <2>3
<1>5. CASE Crash
  BY <1>5 DEF Crash, PlaceInv, WaitInv, RunInv
<1> QED BY <1>2, <1>3, <1>4, <1>5, ResumeCases

LEMMA PlaceInit == ResumeInit => PlaceInv
BY DEF ResumeInit, Init, PlaceInv, WaitInv, RunInv

-------------------------------------------------------------------------------
(* The topics, and that the reader of the transactions stays in its own.   *)
TopicsInv ==
  /\ RunsInv /\ HistoryOK /\ nodeErrors \in Nat
  /\ ReadInv /\ lastTxOffset <= Len(txLog) + 1

LEMMA FeedOrNot ==
  ASSUME [ResumeNext]_resumeVars
  PROVE  (FeedNext /\ UNCHANGED <<indexerVars, seekVars>>) \/ UNCHANGED feedVars
<1>1. HandleMessage \/ (\E topic \in RestartTopics : RestartReader(topic)) => UNCHANGED feedVars
  BY DEF HandleMessage, SetDownstream,
         HandleBlockMessage, SkipMalformedBlock,
         SkipDuplicateApply, DropApplyOnNodeError, EmitBlockApply, EmitBlockUnapply,
         NextBlock, HandleTxMessage, SkipMalformedTx, SkipDuplicateTx, SkipAppliedTx,
         BufferAppliedTx, ProcessAppliedTx, SkipUnparsableUnapplied, BufferUnappliedTx,
         ProcessUnappliedTx, FreshTx, NextTx, HandleMempoolMessage,
         DropMempoolMessage, ForwardMempoolMessage, NextMempool, RestartReader
<1>2. StartFresh \/ Crash => UNCHANGED feedVars
  BY DEF StartFresh, StartKafka, Crash
<1>3. SeekStep => UNCHANGED feedVars
  BY DEF SeekStep, SeekUsingStoredOffsets, ScanFinds,
         NoValidPoint, SkipPoint, StoredOffsetsFail, ScanGivesUp, ScanFails, CallFails,
         SeekUnchanged
<1> QED BY <1>1, <1>2, <1>3 DEF ResumeNext, Work, resumeVars, vars

(* The topics keep their history, and the readers stay within them.        *)
LEMMA TopicsStep ==
  ASSUME AppliedOnce, ResumeInv, L!OrderInv, PlaceInv, TopicsInv, [ResumeNext]_resumeVars
  PROVE  TopicsInv'
<1>1. /\ TypeInv /\ FeedTypeOK /\ Len(txLog) \in Nat /\ ChainInv /\ LogInv /\ nodeErrors \in Nat
      /\ lastTxOffset \in Nat
  BY LifeFeedInv DEF ResumeInv, TypeInv, TypeOK, FeedTypeOK, L!OrderInv, TopicsInv
<1>2. RunsInv' /\ HistoryOK'
  <2>1. CASE FeedNext
    <3>1. FeedTypeOK' /\ ChainInv' /\ LogInv'
      BY <1>1, <2>1, FeedTyping, ChainStep
    <3> QED BY <1>1, <2>1, <3>1, RunsStep, HistoryStep DEF TopicsInv
  <2>2. CASE UNCHANGED feedVars
    <3>1. UNCHANGED <<chain, blockLog, txLog, mempoolLog, applies, unapplies>>
      BY <2>2 DEF feedVars
    <3>2. RunsInv'
      BY <3>1 DEF TopicsInv, RunsInv, RunAt
    <3>3. HistoryOK'
      <4>1. HistoryInv' /\ SharedInv' /\ OneEachInv'
        BY <3>1, HistoryQuiet DEF TopicsInv, HistoryOK
      <4>2. RunOrderInv'
        <5>1. RunOrderInv /\ \A b : Messages(b)' = Messages(b)
          BY <3>1 DEF TopicsInv, HistoryOK, Messages
        <5> QED BY <3>1, <5>1, SMTT(30) DEF RunOrderInv, Applies, Unapplies
      <4> QED BY <4>1, <4>2 DEF HistoryOK
    <3> QED BY <3>2, <3>3
  <2> QED BY <2>1, <2>2, FeedOrNot
<1>3. ASSUME UNCHANGED txLog, txIdx' \in {1, txIdx, lastTxOffset} \ {0},
             processedTxOffsets' \subseteq processedTxOffsets, lastTxOffset' \in {0, lastTxOffset}
      PROVE  ReadInv' /\ lastTxOffset' <= Len(txLog') + 1
  BY <1>1, <1>3 DEF ReadInv, TopicsInv
<1>4. ASSUME LifeStep /\ UNCHANGED seekVars PROVE ReadInv' /\ lastTxOffset' <= Len(txLog') + 1
  <2>1. Next /\ lastTxOffset' = lastTxOffset
    BY <1>4, LifeStepNext, LifeSteadies
  <2>2. CASE ControlStep \/ QuietBlockStep \/ HandleMempoolMessage
    <3>1. UNCHANGED <<processedTxOffsets, txLog>> /\ txIdx' \in {1, txIdx, lastTxOffset} \ {0}
      BY <1>1, <2>2 DEF feedVars, readerVars, bufferVars, ControlStep, StartKafka, SetDownstream,
                  RestartReader, ResumeOffset, ReadInv, TopicsInv,
                  QuietBlockStep, SkipMalformedBlock, SkipDuplicateApply, DropApplyOnNodeError,
                  NextBlock, HandleMempoolMessage, DropMempoolMessage,
                  ForwardMempoolMessage, NextMempool
    <3> QED BY <1>3, <2>1, <3>1
  <2>3. CASE EmitBlockApply \/ EmitBlockUnapply
    <3>1. UNCHANGED <<txIdx, txLog>> /\ processedTxOffsets' \subseteq processedTxOffsets
      BY <2>3 DEF EmitBlockApply, EmitBlockUnapply, NextBlock, PruneOldBuffers, KeepNewest, feedVars
    <3>2. txIdx # 0
      BY <1>1 DEF TypeInv, TypeOK
    <3> QED BY <1>3, <2>1, <3>1, <3>2
  <2>4. CASE HandleTxMessage
    <3>1. PICK kind \in {"applied", "unapplied", "malformed"} : NextTx(kind)
      BY <2>4 DEF HandleTxMessage, SkipMalformedTx, SkipDuplicateTx, SkipAppliedTx, BufferAppliedTx,
             ProcessAppliedTx, SkipUnparsableUnapplied, BufferUnappliedTx, ProcessUnappliedTx, FreshTx
    <3>2. txIdx \in 1..Len(txLog) /\ txIdx' = txIdx + 1 /\ UNCHANGED txLog
      BY <1>1, <3>1, NextTxTyping DEF TypeInv
    <3>3. processedTxOffsets' \subseteq processedTxOffsets \cup {txIdx}
      BY <2>4 DEF HandleTxMessage, SkipMalformedTx, SkipDuplicateTx, SkipAppliedTx, BufferAppliedTx,
             ProcessAppliedTx, SkipUnparsableUnapplied, BufferUnappliedTx, ProcessUnappliedTx, FreshTx
    <3> QED BY <1>1, <2>1, <3>2, <3>3 DEF ReadInv, TopicsInv
  <2>5. CASE FeedNext /\ UNCHANGED indexerVars
    <3>1. UNCHANGED <<txIdx, processedTxOffsets>>
      BY <2>5 DEF indexerVars, readerVars, bufferVars
    <3>2. Len(txLog) <= Len(txLog') /\ Len(txLog') \in Nat
      BY <1>1, <2>5, FeedTyping DEF IsGrownFrom, FeedTypeOK
    <3> QED BY <1>1, <2>1, <3>1, <3>2 DEF ReadInv, TopicsInv
  <2> QED BY <2>1, <2>2, <2>3, <2>4, <2>5, StepCases DEF HandleTxMessage, QuietTxStep
<1>5. ASSUME SeekStep \/ StartFresh PROVE ReadInv' /\ lastTxOffset' <= Len(txLog') + 1
  <2>1. /\ UNCHANGED <<feedVars, bufferVars>>
        /\ points' \subseteq points
        /\ SeeksOn \/ StartsAnew \/ \E p \in points : ResumesAt(p)
    BY <1>5, SeekShape DEF TopicsInv
  <2>2. UNCHANGED <<txLog, processedTxOffsets>>
    BY <2>1 DEF feedVars, bufferVars
  <2>3. \A p \in points : p.txOffset \in 1..Len(txLog)
    BY DEF ResumeInv, SeekInv, PointsGenuine, GenuinePoint
  <2>4. txIdx' \in 1..(Len(txLog) + 1) /\ lastTxOffset' \in 0..(Len(txLog) + 1)
    <3>1. txIdx \in 1..(Len(txLog) + 1) /\ lastTxOffset \in 0..(Len(txLog) + 1)
      BY <1>1 DEF TopicsInv, ReadInv
    <3>2. CASE SeeksOn
      BY <1>1, <2>3, <3>1, <3>2 DEF SeeksOn
    <3>3. CASE StartsAnew
      BY <3>1, <3>3 DEF StartsAnew
    <3>4. CASE \E p \in points : ResumesAt(p)
      BY <1>1, <2>3, <3>1, <3>4 DEF ResumesAt
    <3> QED BY <2>1, <3>2, <3>3, <3>4
  <2> QED BY <1>1, <2>2, <2>4 DEF ReadInv, TopicsInv
<1>6. ASSUME Crash PROVE ReadInv' /\ lastTxOffset' <= Len(txLog') + 1
  <2>1. UNCHANGED txLog /\ txIdx' = 1 /\ processedTxOffsets' = {} /\ lastTxOffset' = 0
    BY <1>6 DEF Crash, feedVars
  <2> QED BY <1>3, <2>1
<1>7. ASSUME UNCHANGED resumeVars PROVE ReadInv' /\ lastTxOffset' <= Len(txLog') + 1
  <2>1. UNCHANGED <<txLog, txIdx, processedTxOffsets, lastTxOffset>> /\ txIdx # 0
    BY <1>1, <1>7 DEF resumeVars, vars, feedVars, indexerVars, readerVars, bufferVars, TypeInv, TypeOK
  <2> QED BY <1>3, <2>1
<1>8. ReadInv' /\ lastTxOffset' <= Len(txLog') + 1
  BY <1>4, <1>5, <1>6, <1>7, ResumeCases
<1>9. nodeErrors' \in Nat
  <2>1. CASE LifeStep
    <3>1. CASE FeedNext /\ UNCHANGED indexerVars
      BY <1>1, <3>1 DEF indexerVars, boundVars
    <3>2. CASE SetDownstream \/ \E topic \in RestartTopics : RestartReader(topic)
      BY <1>1, <3>2 DEF SetDownstream, RestartReader, boundVars
    <3>3. CASE HandleBlockMessage
      BY <1>1, <3>3 DEF HandleBlockMessage, SkipMalformedBlock, SkipDuplicateApply,
           DropApplyOnNodeError, EmitBlockApply, EmitBlockUnapply
    <3>4. CASE HandleTxMessage
      BY <1>1, <3>4 DEF HandleTxMessage, SkipMalformedTx, SkipDuplicateTx, SkipAppliedTx,
           BufferAppliedTx, ProcessAppliedTx, SkipUnparsableUnapplied, BufferUnappliedTx,
           ProcessUnappliedTx, FreshTx, NextTx, boundVars
    <3>5. CASE HandleMempoolMessage
      BY <1>1, <3>5 DEF HandleMempoolMessage, DropMempoolMessage, ForwardMempoolMessage,
           NextMempool, boundVars
    <3> QED BY <2>1, <3>1, <3>2, <3>3, <3>4, <3>5 DEF LifeStep, HandleMessage
  <2>2. CASE SeekStep \/ StartFresh
    BY <1>1, <2>2, SeekShape DEF TopicsInv, boundVars
  <2>3. CASE Crash
    BY <1>1, <2>3 DEF Crash, boundVars
  <2>4. CASE UNCHANGED resumeVars
    BY <1>1, <2>4 DEF resumeVars, vars, indexerVars, boundVars
  <2> QED BY <2>1, <2>2, <2>3, <2>4, ResumeCases
<1> QED BY <1>2, <1>8, <1>9 DEF TopicsInv

LEMMA TopicsInit == ResumeInit => TopicsInv
<1> SUFFICES ASSUME ResumeInit PROVE TopicsInv
  OBVIOUS
<1>1. FeedInit /\ txIdx = 1 /\ lastTxOffset = 0 /\ processedTxOffsets = {} /\ nodeErrors = 0
      /\ txLog = <<>>
  BY DEF ResumeInit, Init, FeedInit
<1> QED BY <1>1, RunsInit, HistoryInit DEF TopicsInv, ReadInv

-------------------------------------------------------------------------------
(* What a process remembers and what its strategies know, in its life.     *)
MemoryInv ==
  running => /\ L!DedupInv
             /\ nodeErrors = 0 => L!KnownBlocks \subseteq Before(blockIdx)

LEMMA LifeNext ==
  ASSUME ResumeInv, UNCHANGED lives,
         HandleMessage \/ \E topic \in RestartTopics : RestartReader(topic)
  PROVE  L!Next /\ L!TypeInv
<1>1. TypeInv /\ LifeFrom \in 0..Len(downstream) /\ L!TypeInv
  BY LifeTyping DEF ResumeInv, SeekInv
<1>2. QuietBlockStep => L!HandleBlockMessage
  BY LifeQuietBlock DEF L!QuietBlockStep, L!HandleBlockMessage
<1>3. EmitBlockApply \/ EmitBlockUnapply => L!HandleBlockMessage
  BY <1>1, LifeEmitApply, LifeEmitUnapply DEF L!HandleBlockMessage
<1>4. HandleBlockMessage => L!HandleBlockMessage
  BY <1>2, <1>3 DEF HandleBlockMessage, QuietBlockStep
<1>5. QuietTxStep => L!HandleTxMessage
  BY LifeQuietTx DEF L!QuietTxStep, L!HandleTxMessage
<1>6. ProcessAppliedTx \/ ProcessUnappliedTx => L!HandleTxMessage
  BY <1>1, LifeProcess DEF L!HandleTxMessage
<1>7. HandleTxMessage => L!HandleTxMessage
  BY <1>5, <1>6 DEF HandleTxMessage, QuietTxStep
<1>8. HandleMessage => L!Next
  BY <1>1, <1>4, <1>7, LifeSetDownstream, LifeMempool DEF HandleMessage, L!Next
<1>9. (\E topic \in RestartTopics : RestartReader(topic)) => L!Next
  BY LifeRestart DEF L!Next
<1> QED BY <1>1, <1>8, <1>9

LEMMA LifeSame ==
  ASSUME UNCHANGED <<downstream, lives, pendingDownstream>>
  PROVE  (L!Produced)' = L!Produced /\ (L!KnownBlocks)' = L!KnownBlocks
<1>1. (L!Produced)' = L!Produced
  BY LifeQuiet DEF L!Produced
<1> QED BY <1>1, L!QuietStutters, LAssumptions, FeedAssumption, IndexerAssumption

LEMMA EmptyLife ==
  ASSUME ResumeInv, ~running, UNCHANGED <<downstream, pendingDownstream>>,
         LifeFrom' = Len(downstream)
  PROVE  (L!Produced)' = <<>> /\ (L!KnownBlocks)' = {}
<1>1. Len(downstream) \in Nat /\ downstream \in Seq(DownstreamEvent) /\ pendingDownstream = <<>>
  BY DEF ResumeInv, SeekInv, NothingKept, TypeInv, TypeOK
<1>2. LifePart' = SubSeq(downstream, Len(downstream) + 1, Len(downstream))
  BY DEF LifePart
<1>3. (L!Produced)' = <<>>
  BY <1>1, <1>2 DEF L!Produced
<1>4. (L!KnownBlocks)' = L!KnownIn((L!Produced)')
  BY L!MappingNext, LAssumptions, FeedAssumption, IndexerAssumption
<1>5. L!KnownIn(<<>>) = {}
  BY DEF L!KnownIn, L!OpenIn, L!OpenAt
<1> QED BY <1>3, <1>4, <1>5

LEMMA DedupLifeStep ==
  ASSUME ResumeInv, WithinLimit, running, L!DedupInv, LifeStep, UNCHANGED lives
  PROVE  (L!DedupInv)'
<1>1. CASE FeedNext /\ UNCHANGED indexerVars
  <2>1. UNCHANGED <<downstream, pendingDownstream, pendingApplied, pendingUnapplied, processedTxOffsets>>
    BY <1>1 DEF indexerVars, bufferVars, sendVars
  <2>2. (L!Produced)' = L!Produced
    BY <2>1, LifeSame
  <2> QED BY <2>1, <2>2 DEF L!DedupInv
<1>2. CASE HandleMessage \/ \E topic \in RestartTopics : RestartReader(topic)
  <2>1. L!Next /\ L!TypeInv
    BY <1>2, LifeNext
  <2>2. L!WithinLimit
    BY LifeCardinality DEF L!WithinLimit, WithinLimit
  <2> QED BY <2>1, <2>2, L!DedupStep, LAssumptions, FeedAssumption, IndexerAssumption
<1> QED BY <1>1, <1>2 DEF LifeStep

LEMMA NodeAnswered ==
  ASSUME nodeErrors \in Nat, [Next]_vars, nodeErrors' = 0
  PROVE  nodeErrors = 0 /\ ~DropApplyOnNodeError
<1>1. CASE UNCHANGED vars
  BY <1>1 DEF vars, feedVars, indexerVars, readerVars, boundVars, DropApplyOnNodeError, NextBlock
<1>2. CASE Next
  <2>1. CASE FeedNext /\ UNCHANGED indexerVars
    BY <2>1 DEF indexerVars, boundVars, DropApplyOnNodeError
  <2>2. CASE StartKafka \/ SetDownstream \/ \E topic \in RestartTopics : RestartReader(topic)
    BY <2>2 DEF StartKafka, SetDownstream, RestartReader, boundVars, DropApplyOnNodeError
  <2>3. CASE HandleBlockMessage
    BY <2>3 DEF HandleBlockMessage, SkipMalformedBlock, SkipDuplicateApply, DropApplyOnNodeError,
                EmitBlockApply, EmitBlockUnapply, NextBlock
  <2>4. CASE HandleTxMessage
    BY <2>4 DEF HandleTxMessage, SkipMalformedTx, SkipDuplicateTx, SkipAppliedTx, BufferAppliedTx,
                ProcessAppliedTx, SkipUnparsableUnapplied, BufferUnappliedTx,
                ProcessUnappliedTx, FreshTx, NextTx, boundVars, DropApplyOnNodeError
  <2>5. CASE HandleMempoolMessage
    BY <2>5 DEF HandleMempoolMessage, DropMempoolMessage, ForwardMempoolMessage, NextMempool,
                boundVars, DropApplyOnNodeError
  <2> QED BY <1>2, <2>1, <2>2, <2>3, <2>4, <2>5 DEF Next
<1> QED BY <1>1, <1>2

(* Only the two block handlers change what the strategies know.            *)
LEMMA LifeKnows ==
  ASSUME ResumeInv, L!OrderInv, LifeStep, UNCHANGED lives, ~EmitBlockApply, ~EmitBlockUnapply
  PROVE  (L!KnownBlocks)' = L!KnownBlocks
<1>1. TypeInv /\ LifeFrom \in 0..Len(downstream) /\ L!TypeInv
  BY LifeTyping DEF ResumeInv, SeekInv
<1>2. ASSUME UNCHANGED sendVars PROVE (L!KnownBlocks)' = L!KnownBlocks
  BY <1>2, LifeSame DEF sendVars
<1>3. CASE FeedNext /\ UNCHANGED indexerVars
  BY <1>2, <1>3 DEF indexerVars
<1>4. CASE QuietBlockStep \/ QuietTxStep
  BY <1>1, <1>2, <1>4, QuietBlockTyping, QuietTxTyping
<1>5. CASE \E topic \in RestartTopics : RestartReader(topic)
  BY <1>2, <1>5 DEF RestartReader
<1>6. CASE SetDownstream
  <2>1. L!SetDownstream
    BY <1>1, <1>6, LifeSetDownstream
  <2>2. (L!Produced)' = L!Produced
    BY <1>1, <2>1, L!ControlTyping, LAssumptions, FeedAssumption, IndexerAssumption DEF L!ControlStep
  <2> QED BY <2>2, L!QuietStutters, LAssumptions, FeedAssumption, IndexerAssumption
<1>7. CASE ProcessAppliedTx \/ ProcessUnappliedTx
  <2>1. L!ProcessAppliedTx \/ L!ProcessUnappliedTx
    BY <1>1, <1>7, LifeProcess
  <2> QED BY <1>1, <2>1, L!DeliverStep, LAssumptions, FeedAssumption, IndexerAssumption
<1>8. CASE HandleMempoolMessage
  <2>1. L!HandleMempoolMessage
    BY <1>1, <1>8, LifeMempool
  <2> QED BY <1>1, <2>1, L!MempoolStutters, LAssumptions, FeedAssumption, IndexerAssumption
<1> QED BY <1>3, <1>4, <1>5, <1>6, <1>7, <1>8 DEF LifeStep, HandleMessage, HandleBlockMessage,
           HandleTxMessage, QuietBlockStep, QuietTxStep

LEMMA KnownLifeStep ==
  ASSUME "block" \notin RestartTopics, ResumeInv, L!OrderInv, LifeStep, UNCHANGED lives,
         nodeErrors \in Nat, nodeErrors' = 0, L!KnownBlocks \subseteq Before(blockIdx)
  PROVE  (L!KnownBlocks)' \subseteq Before(blockIdx)'
<1>1. /\ TypeInv /\ LifeFrom \in 0..Len(downstream) /\ L!TypeInv /\ Next
      /\ LogInv /\ IndexInv
  BY LifeTyping, LifeStepNext, LifeFeedInv DEF ResumeInv, SeekInv, L!OrderInv
<1>2. ~DropApplyOnNodeError
  BY <1>1, NodeAnswered
<1>3. Before(blockIdx) \subseteq Blocks /\ \A c \in Blocks : HeightOf[c] \in Int
  BY <1>1, BeforeTyping
<1>4. CASE EmitBlockApply
  <2> PICK b : b = blockLog[blockIdx].block
    OBVIOUS
  <2>1. L!EmitBlockApply
    BY <1>1, <1>4, LifeEmitApply
  <2>2. (L!KnownBlocks)' = {c \in L!KnownBlocks : HeightOf[c] # HeightOf[b]} \cup {b}
    BY <1>1, <2>1, L!AnnounceStep, LAssumptions, FeedAssumption, IndexerAssumption
  <2>3. Before(blockIdx)' = Before(blockIdx) \cup {b}
    BY <1>1, <1>4, NextBefore DEF EmitBlockApply, LinkOK
  <2> QED BY <2>2, <2>3
<1>5. CASE EmitBlockUnapply
  <2> PICK b : b = blockLog[blockIdx].block
    OBVIOUS
  <2>1. L!EmitBlockUnapply
    BY <1>1, <1>5, LifeEmitUnapply
  <2>2. /\ b \in Blocks
        /\ (L!KnownBlocks)' = {c \in L!KnownBlocks : HeightOf[c] < HeightOf[b]}
    BY <1>1, <2>1, L!RetractStep, LAssumptions, FeedAssumption, IndexerAssumption
  <2>3. Before(blockIdx)' = Before(blockIdx) \ {b}
    BY <1>1, <1>5, NextBefore DEF EmitBlockUnapply, LinkOK
  <2> QED BY <1>3, <2>2, <2>3
<1>6. CASE ~EmitBlockApply /\ ~EmitBlockUnapply
  BY <1>1, <1>2, <1>6, BeforeStep, LifeKnows
<1> QED BY <1>4, <1>5, <1>6

(* In each life nothing is sent twice, and the strategies know no block that *)
(* has not been read.                                                      *)
LEMMA MemoryStep ==
  ASSUME "block" \notin RestartTopics, ResumeInv, WithinLimit, L!OrderInv, TopicsInv, PlaceInv,
         MemoryInv, [ResumeNext]_resumeVars
  PROVE  MemoryInv'
<1>1. nodeErrors \in Nat /\ HistoryOK
  BY DEF TopicsInv
<1>2. CASE LifeStep /\ UNCHANGED seekVars
  <2>1. UNCHANGED <<running, lives>> /\ Next
    BY <1>2, LifeSteadies, LifeStepNext DEF seekVars
  <2>2. SUFFICES ASSUME running
                 PROVE  (L!DedupInv)' /\ (nodeErrors' = 0 => (L!KnownBlocks)' \subseteq Before(blockIdx)')
    BY <2>1 DEF MemoryInv
  <2>3. (L!DedupInv)'
    BY <1>2, <2>1, <2>2, DedupLifeStep DEF MemoryInv
  <2>4. ASSUME nodeErrors' = 0 PROVE (L!KnownBlocks)' \subseteq Before(blockIdx)'
    BY <1>1, <1>2, <2>1, <2>2, <2>4, NodeAnswered, KnownLifeStep DEF MemoryInv
  <2> QED BY <2>3, <2>4
<1>3. CASE SeekStep \/ StartFresh
  <2>1. /\ ~running /\ UNCHANGED <<bufferVars, sendVars>>
        /\ SeeksOn \/ StartsAnew \/ \E p \in points : ResumesAt(p)
    BY <1>1, <1>3, SeekShape
  <2>2. CASE SeeksOn
    BY <2>1, <2>2 DEF SeeksOn, MemoryInv
  <2>3. CASE StartsAnew \/ \E p \in points : ResumesAt(p)
    <3>1. LifeFrom' = Len(downstream)
      <4>1. PICK loaded \in BOOLEAN, start \in BOOLEAN, ahead \in BOOLEAN :
              lives' = Append(lives, LifeRecord(loaded, start, ahead))
        BY <2>3 DEF StartsAnew, ResumesAt
      <4>2. PICK life : life = LifeRecord(loaded, start, ahead)
        OBVIOUS
      <4>3. Len(downstream) \in Nat /\ lives \in Seq(Life)
        BY DEF ResumeInv, TypeInv, TypeOK, SeekInv
      <4>4. life.from = Len(downstream) /\ life \in Life
        BY <4>2, <4>3 DEF LifeRecord, Life
      <4>5. lives' # <<>> /\ lives'[Len(lives')] = life
        BY <4>1, <4>2, <4>3, <4>4
      <4> QED BY <4>4, <4>5 DEF LifeFrom
    <3>2. UNCHANGED <<downstream, pendingDownstream, pendingApplied, pendingUnapplied>>
      BY <2>1 DEF bufferVars, sendVars
    <3>3. (L!Produced)' = <<>> /\ (L!KnownBlocks)' = {}
      BY <2>1, <3>1, <3>2, EmptyLife
    <3>4. pendingApplied' = [b \in Blocks |-> <<>>] /\ pendingUnapplied' = [b \in Blocks |-> <<>>]
      BY <2>1, <3>2 DEF PlaceInv, WaitInv
    <3>5. \A type : L!Dedup(type, <<>>, [b \in Blocks |-> <<>>], processedTxOffsets')
      BY DEF L!Dedup, L!SentOnce, L!BufferedOnce, L!Offsets, L!BufferedIn
    <3>6. (L!DedupInv)'
      BY <3>3, <3>4, <3>5 DEF L!DedupInv
    <3> QED BY <3>3, <3>6 DEF MemoryInv
  <2> QED BY <2>1, <2>2, <2>3
<1>4. CASE Crash
  BY <1>4 DEF Crash, MemoryInv
<1>5. CASE UNCHANGED resumeVars
  <2>1. UNCHANGED <<running, downstream, lives, pendingDownstream, pendingApplied, pendingUnapplied,
                    processedTxOffsets, nodeErrors, blockIdx, blockLog>>
    BY <1>5 DEF resumeVars, vars, feedVars, indexerVars, readerVars, bufferVars, sendVars, boundVars, seekVars
  <2>2. (L!Produced)' = L!Produced /\ (L!KnownBlocks)' = L!KnownBlocks
    BY <2>1, LifeSame
  <2>3. Before(blockIdx)' = Before(blockIdx)
    BY <2>1 DEF Before
  <2>4. L!DedupInv => (L!DedupInv)'
    BY <2>1, <2>2 DEF L!DedupInv
  <2> QED BY <2>1, <2>2, <2>3, <2>4 DEF MemoryInv
<1> QED BY <1>2, <1>3, <1>4, <1>5, ResumeCases

(* What the life has announced was read by it, each message once.          *)
LifeEventsInv == running => L!BlockEventsInv

LEMMA LifeEventsStep ==
  ASSUME "block" \notin RestartTopics, ResumeInv, L!OrderInv, LifeEventsInv,
         [ResumeNext]_resumeVars
  PROVE  LifeEventsInv'
<1>1. CASE LifeStep /\ UNCHANGED seekVars
  <2>1. UNCHANGED <<running, lives>> /\ Next
    BY <1>1, LifeSteadies, LifeStepNext DEF seekVars
  <2>2. SUFFICES ASSUME running, L!BlockEventsInv PROVE (L!BlockEventsInv)'
    BY <2>1 DEF LifeEventsInv
  <2>3. CASE FeedNext /\ UNCHANGED indexerVars
    <3>1. UNCHANGED <<downstream, pendingDownstream, blockIdx>>
      BY <2>3 DEF indexerVars, readerVars, sendVars
    <3>2. (L!Produced)' = L!Produced
      BY <2>1, <3>1, LifeQuiet DEF L!Produced
    <3>3. IsGrownFrom(blockLog', blockLog) /\ Len(blockLog) \in Nat /\ Len(blockLog') \in Nat
      BY <2>1, FeedGrows DEF ResumeInv
    <3>4. ASSUME NEW o \in 1..Len(blockLog), NEW b, L!Applies(o, b)
          PROVE  o \in 1..Len(blockLog') /\ (L!Applies(o, b))'
      BY <3>3, <3>4 DEF IsGrownFrom, L!Applies
    <3> QED BY <2>2, <3>1, <3>2, <3>4 DEF L!BlockEventsInv, L!SentOnce
  <2>4. CASE HandleMessage \/ \E topic \in RestartTopics : RestartReader(topic)
    <3>1. L!Next /\ L!TypeInv
      BY <2>1, <2>4, LifeNext
    <3> QED
      BY <2>2, <3>1, L!BlockEventsStep, LAssumptions, FeedAssumption, IndexerAssumption
  <2> QED BY <1>1, <2>3, <2>4 DEF LifeStep
<1>2. CASE StartFresh \/ SeekStep
  <2>1. /\ ~running /\ UNCHANGED <<downstream, pendingDownstream>>
        /\ UNCHANGED running \/ LifeFrom' = Len(downstream)
    <3>1. CASE StartFresh
      BY <3>1, StartFreshResume DEF StartFresh, StartKafka, sendVars
    <3>2. CASE SeekStep
      <4>1. Seeks
        BY <3>2, SeekStepSeeks
      <4>2. Len(downstream) \in Nat /\ lives \in Seq(Life)
        BY DEF ResumeInv, TypeInv, TypeOK, SeekInv
      <4> QED BY <4>1, <4>2, NewLife DEF Seeks, sendVars
    <3> QED BY <1>2, <3>1, <3>2
  <2>2. CASE UNCHANGED running
    BY <2>1, <2>2 DEF LifeEventsInv
  <2>3. CASE LifeFrom' = Len(downstream)
    <3>1. (L!Produced)' = <<>>
      BY <2>1, <2>3, EmptyLife
    <3> QED BY <3>1 DEF LifeEventsInv, L!BlockEventsInv, L!SentOnce
  <2> QED BY <2>1, <2>2, <2>3
<1>3. CASE Crash
  BY <1>3 DEF Crash, LifeEventsInv
<1>4. CASE UNCHANGED resumeVars
  <2>1. UNCHANGED <<running, downstream, lives, pendingDownstream, blockIdx, blockLog>>
    BY <1>4 DEF resumeVars, vars, feedVars, indexerVars, readerVars, sendVars, seekVars
  <2>2. (L!Produced)' = L!Produced
    BY <2>1, LifeQuiet DEF L!Produced
  <2>3. L!BlockEventsInv => (L!BlockEventsInv)'
    BY <2>1, <2>2 DEF L!BlockEventsInv, L!SentOnce, L!Applies
  <2> QED BY <2>1, <2>3 DEF LifeEventsInv
<1> QED BY <1>1, <1>2, <1>3, <1>4, ResumeCases

LEMMA LifeEventsInit == ResumeInit => LifeEventsInv
BY DEF ResumeInit, Init, LifeEventsInv

LEMMA MemoryInit == ResumeInit => MemoryInv
BY DEF ResumeInit, Init, MemoryInv

-------------------------------------------------------------------------------
(* The invariant.                                                          *)

NoRollbackYet ==
  \A i \in (LifeFrom + 1)..Len(Produced) : Produced[i].type # "rollback"
LivesPlaced == \A k \in 1..Len(lives) : lives[k].from <= Len(downstream)
Sound == nodeErrors = 0 /\ ~Gap /\ ~ForkAfterResume

LivesInv ==
  Sound =>
    /\ PointInv
    /\ running /\ (cursorLoaded => NoRollbackYet) =>
         \E t \in 1..(Len(txLog) + 1) : LifeInv(t)

(* What the points stand for is never lost.                                *)
LEMMA PointKept ==
  ASSUME AppliedOnce, TypeInv, ChainInv, LogInv, RunsInv, HistoryOK, LifeStep,
         NEW p, GenuinePoint(p), PointClaim(p)
  PROVE  PointClaim(p)'
<1>1. /\ FeedTypeOK /\ Next /\ Len(blockLog) \in Nat /\ Len(txLog) \in Nat
      /\ p.blockOffset + 1 \in 1..(Len(blockLog) + 1)
  <2>1. FeedTypeOK /\ Len(blockLog) \in Nat /\ Len(txLog) \in Nat
    BY DEF TypeInv, TypeOK, FeedTypeOK
  <2>2. p.blockOffset \in 1..Len(blockLog)
    BY DEF GenuinePoint
  <2>3. Next
    BY LifeStepNext
  <2> QED BY <2>1, <2>2, <2>3
<1>2. \A o \in 1..Len(txLog) : SentDown(o) => SentDown(o)'
  BY <1>1, SentDownKept
<1>3. \A c : Messages(c) \subseteq 1..Len(txLog)
  BY DEF Messages
<1> PICK k : k = p.blockOffset + 1
  OBVIOUS
<1>4. CASE FeedNext
  <2>1. FeedTypeOK' /\ IsGrownFrom(blockLog', blockLog)
    BY <1>1, <1>4, FeedTyping
  <2>2. Before(k)' = Before(k)
    BY <1>1, <2>1, BeforeKept
  <2>3. \A c \in chain' : (c \in chain /\ Messages(c)' = Messages(c)) \/ FreshBlock(c)
    BY <1>1, <1>4, FeedMessages
  <2>4. ASSUME NEW c \in Before(k) PROVE ~FreshBlock(c)
    <3>1. PICK i \in 1..(k - 1) : Applies(i, c)
      BY <1>1 DEF HistoryOK, HistoryInv
    <3>2. i \in 1..Len(blockLog)
      BY <1>1
    <3> QED BY <3>1, <3>2 DEF FreshBlock
  <2> QED BY <1>1, <1>2, <1>3, <2>2, <2>3, <2>4 DEF PointClaim, Indexed, Before
<1>5. CASE UNCHANGED feedVars
  <2>1. UNCHANGED <<chain, blockLog, txLog>>
    BY <1>5 DEF feedVars
  <2>2. Before(k)' = Before(k) /\ \A c : Messages(c)' = Messages(c)
    BY <2>1 DEF Before, Messages
  <2> QED BY <1>2, <1>3, <2>1, <2>2 DEF PointClaim, Indexed, Before
<1>6. FeedNext \/ UNCHANGED feedVars
  BY DEF LifeStep, HandleMessage, SetDownstream,
         HandleBlockMessage, SkipMalformedBlock,
         SkipDuplicateApply, DropApplyOnNodeError, EmitBlockApply, EmitBlockUnapply,
         NextBlock, HandleTxMessage, SkipMalformedTx, SkipDuplicateTx, SkipAppliedTx,
         BufferAppliedTx, ProcessAppliedTx, SkipUnparsableUnapplied, BufferUnappliedTx,
         ProcessUnappliedTx, FreshTx, NextTx, HandleMempoolMessage,
         DropMempoolMessage, ForwardMempoolMessage, NextMempool, RestartReader
<1> QED BY <1>4, <1>5, <1>6

(* A life that has resumed and has had no rollback makes none now.         *)
LEMMA NoRollbackLater ==
  ASSUME ResumeInv, LifeStep, UNCHANGED lives, NoRollbackYet'
  PROVE  NoRollbackYet /\ ~EmitBlockUnapply
<1>1. /\ TypeInv /\ Next /\ Produced \in Seq(DownstreamEvent) /\ LifeFrom' = LifeFrom
      /\ LifeFrom \in 0..Len(downstream) /\ Len(downstream) \in Nat /\ Len(Produced) \in Nat
      /\ LifeFrom <= Len(Produced)
  <2>1. downstream \in Seq(DownstreamEvent) /\ pendingDownstream \in Seq(DownstreamEvent)
    BY DEF ResumeInv, TypeInv, TypeOK
  <2>2. Len(Produced) = Len(downstream) + Len(pendingDownstream)
    BY <2>1 DEF Produced
  <2>3. LifeFrom' = LifeFrom /\ LifeFrom \in 0..Len(downstream)
    BY DEF LifeFrom, ResumeInv, SeekInv
  <2> QED BY <2>1, <2>2, <2>3, LifeStepNext, ProducedTyping DEF ResumeInv
<1>2. PICK t \in Seq(DownstreamEvent) : Produced' = Produced \o t
  BY <1>1, ProducedGrows
<1>3. \A i \in 1..Len(Produced) : i \in 1..Len(Produced') /\ Produced'[i] = Produced[i]
  BY <1>1, <1>2
<1>4. NoRollbackYet
  BY <1>1, <1>3 DEF NoRollbackYet
<1>5. ~EmitBlockUnapply
  <2>1. SUFFICES ASSUME EmitBlockUnapply PROVE FALSE
    OBVIOUS
  <2> PICK b : b = blockLog[blockIdx].block
    OBVIOUS
  <2> DEFINE e == Event("rollback", b, Root, blockIdx, FALSE)
             s == [i \in 1..Len(pendingUnapplied[b]) |-> UnappliedEventAt(pendingUnapplied[b][i])]
  <2>2. b \in Blocks /\ Produced' = Produced \o (<<e>> \o s)
    BY <1>1, <2>1, EmitBlockUnapplyStep
  <2>3. s \in Seq(DownstreamEvent)
    BY <1>1, <2>2, EventsIn
  <2>4. e \in DownstreamEvent /\ e.type = "rollback"
    <3>1. blockIdx \in Nat
      BY <1>1 DEF TypeInv, TypeOK
    <3> QED BY <2>2, <3>1 DEF Event, DownstreamEvent
  <2> HIDE DEF e, s
  <2>5. <<e>> \o s \in Seq(DownstreamEvent) /\ Len(<<e>> \o s) > 0 /\ (<<e>> \o s)[1] = e
    BY <2>3, <2>4
  <2>6. Len(Produced) + 1 \in 1..Len(Produced') /\ Produced'[Len(Produced) + 1] = e
    <3> PICK u \in Seq(DownstreamEvent) : u = <<e>> \o s
      BY <2>5
    <3> QED BY <1>1, <2>2, <2>5
  <2>7. Len(Produced) + 1 \in (LifeFrom' + 1)..Len(Produced')
    BY <1>1, <2>6
  <2> QED BY <2>4, <2>6, <2>7 DEF NoRollbackYet
<1> QED BY <1>4, <1>5

LEMMA GroundHolds ==
  ASSUME ResumeInv, L!OrderInv, TopicsInv
  PROVE  Ground /\ ChainInv /\ RunsInv
BY LifeFeedInv DEF ResumeInv, L!OrderInv, TopicsInv, Ground

(* One life keeps its claim, at every step but its last.                   *)
LEMMA LifeLife ==
  ASSUME "block" \notin RestartTopics, AppliedOnce, ResumeInv, WithinLimit, L!OrderInv,
         TopicsInv, TopicsInv', MemoryInv, running, LifeStep, UNCHANGED lives, nodeErrors' = 0,
         ~cursorLoaded => NoStraggler, cursorLoaded => NoRollbackYet',
         NEW t \in 1..(Len(txLog) + 1), LifeInv(t)
  PROVE  LifeInv(t)'
<1>1. Ground /\ ChainInv /\ RunsInv /\ HistoryOK' /\ Next /\ nodeErrors \in Nat
  BY GroundHolds, LifeStepNext DEF TopicsInv
<1>2. ~DropApplyOnNodeError
  BY <1>1, NodeAnswered
<1>3. CASE FeedNext /\ UNCHANGED indexerVars
  BY <1>1, <1>3, FeedLife
<1>4. CASE ControlStep \/ QuietBlockStep \/ HandleMempoolMessage
  BY <1>1, <1>2, <1>4, QuietLife
<1>5. CASE HandleTxMessage
  BY <1>1, <1>5, TxLife
<1>6. CASE EmitBlockApply
  <2>1. BufferedOnce(pendingApplied) /\ BufferedIn(pendingApplied, processedTxOffsets)
    <3>1. L!BufferedOnce(pendingApplied)
          /\ L!BufferedIn(pendingApplied, processedTxOffsets \ L!Offsets("tx", L!Produced))
      BY DEF MemoryInv, L!DedupInv, L!Dedup
    <3> QED BY <3>1 DEF L!BufferedOnce, L!BufferedIn, BufferedOnce, BufferedIn
  <2> QED BY <1>1, <1>6, <2>1, ApplyLife
<1>7. CASE EmitBlockUnapply
  <2>1. ~cursorLoaded
    BY <1>7, NoRollbackLater
  <2> QED BY <1>1, <1>7, <2>1, RetractLife
<1> QED
  BY <1>1, <1>3, <1>4, <1>5, <1>6, <1>7, StepCases DEF HandleTxMessage, QuietTxStep

(* What may not happen has not happened before.                            *)
LEMMA LivesOf ==
  ASSUME ResumeInv, [ResumeNext]_resumeVars, TopicsInv, PlaceInv
  PROVE  /\ IsGrownFrom(downstream', downstream) /\ Len(downstream) \in Nat /\ Len(downstream') \in Nat
         /\ \/ UNCHANGED lives
            \/ /\ UNCHANGED downstream
               /\ \E loaded, start, ahead \in BOOLEAN : lives' = Append(lives, LifeRecord(loaded, start, ahead))
<1>1. TypeInv /\ Len(downstream) \in Nat /\ cursorLoaded \in BOOLEAN
  BY DEF ResumeInv, TypeInv, TypeOK
<1>2. UNCHANGED downstream => IsGrownFrom(downstream', downstream)
  BY <1>1 DEF IsGrownFrom
<1>3. CASE LifeStep /\ UNCHANGED seekVars
  BY <1>1, <1>3, LifeStepNext, DownstreamGrows DEF seekVars
<1>4. CASE SeekStep \/ StartFresh
  <2>1. UNCHANGED downstream /\ (SeeksOn \/ StartsAnew \/ \E p \in points : ResumesAt(p))
    BY <1>4, SeekShape DEF sendVars, TopicsInv
  <2> QED BY <1>1, <1>2, <2>1 DEF SeeksOn, StartsAnew, ResumesAt
<1>5. CASE Crash
  BY <1>1, <1>2, <1>5 DEF Crash
<1>6. CASE UNCHANGED resumeVars
  BY <1>1, <1>2, <1>6 DEF resumeVars, vars, indexerVars, sendVars, seekVars
<1> QED BY <1>3, <1>4, <1>5, <1>6, ResumeCases

LEMMA LivesTyping ==
  ASSUME lives \in Seq(Life)
  PROVE  \A k \in 1..Len(lives) : lives[k] \in Life /\ lives[k].from \in Nat
<1>1. \A life \in Life : life.from \in Nat
  BY DEF Life
<1> HIDE DEF Life
<1>2. \A k \in 1..Len(lives) : lives[k] \in Life
  OBVIOUS
<1> QED BY <1>1, <1>2

LEMMA PlacedStep ==
  ASSUME ResumeInv, LivesPlaced, [ResumeNext]_resumeVars, TopicsInv, PlaceInv
  PROVE  LivesPlaced'
<1>1. lives \in Seq(Life) /\ \A k \in 1..Len(lives) : lives[k].from \in Nat
  BY LivesTyping DEF ResumeInv, SeekInv
<1>2. Len(downstream) \in Nat /\ Len(downstream') \in Nat /\ Len(downstream) <= Len(downstream')
  BY LivesOf DEF IsGrownFrom
<1>3. CASE UNCHANGED lives
  BY <1>1, <1>2, <1>3 DEF LivesPlaced
<1>4. ASSUME NEW loaded \in BOOLEAN, NEW start \in BOOLEAN, NEW ahead \in BOOLEAN,
             lives' = Append(lives, LifeRecord(loaded, start, ahead))
      PROVE  LivesPlaced'
  <2>1. LifeRecord(loaded, start, ahead).from = Len(downstream)
    BY DEF LifeRecord
  <2> HIDE DEF LifeRecord
  <2>2. ASSUME NEW k \in 1..Len(lives')
        PROVE  (k \in 1..Len(lives) /\ lives'[k] = lives[k]) \/ lives'[k] = LifeRecord(loaded, start, ahead)
    BY <1>1, <1>4
  <2> QED BY <1>1, <1>2, <2>1, <2>2 DEF LivesPlaced
<1> QED BY <1>3, <1>4, LivesOf

LEMMA SoundBefore ==
  ASSUME ResumeInv, LivesPlaced, [ResumeNext]_resumeVars, TopicsInv, PlaceInv, Sound'
  PROVE  Sound
<1>1. /\ lives \in Seq(Life) /\ \A k \in 1..Len(lives) : lives[k].from \in Nat
      /\ nodeErrors \in Nat
  BY LivesTyping DEF ResumeInv, SeekInv, TopicsInv
<1>2. /\ Len(downstream) \in Nat /\ Len(downstream') \in Nat /\ Len(downstream) <= Len(downstream')
      /\ \A i \in 1..Len(downstream) : downstream'[i] = downstream[i]
  BY LivesOf DEF IsGrownFrom
<1>3. nodeErrors' = 0 => nodeErrors = 0
  <2>1. CASE LifeStep
    BY <1>1, <2>1, LifeStepNext, NodeAnswered
  <2>2. CASE SeekStep \/ StartFresh
    BY <2>2, SeekShape DEF TopicsInv, boundVars
  <2>3. CASE Crash \/ UNCHANGED resumeVars
    BY <2>3 DEF Crash, boundVars, resumeVars, vars, indexerVars
  <2> QED BY <2>1, <2>2, <2>3, ResumeCases
<1>4. Len(lives') \in Nat /\ Len(lives) <= Len(lives')
      /\ \A k \in 1..Len(lives) : k \in 1..Len(lives') /\ lives'[k] = lives[k]
  <2>1. ASSUME NEW loaded \in BOOLEAN, NEW start \in BOOLEAN, NEW ahead \in BOOLEAN,
               lives' = Append(lives, LifeRecord(loaded, start, ahead))
        PROVE  Len(lives') \in Nat /\ Len(lives) <= Len(lives')
               /\ \A k \in 1..Len(lives) : k \in 1..Len(lives') /\ lives'[k] = lives[k]
    <3> HIDE DEF LifeRecord
    <3> QED BY <1>1, <2>1
  <2> QED BY <1>1, <2>1, LivesOf
<1>5. ~Gap
  BY <1>4 DEF Sound, Gap
<1>6. ~ForkAfterResume
  <2>1. SUFFICES ASSUME NEW k \in 1..Len(lives), lives[k].loaded,
                        NEW i \in (lives[k].from + 1)..LifeEnd(k), downstream[i].type = "rollback"
                 PROVE  ForkAfterResume'
    BY DEF Sound, ForkAfterResume
  <2>2. k \in 1..Len(lives') /\ lives'[k] = lives[k] /\ LifeEnd(k) \in Nat
    BY <1>1, <1>2, <1>4 DEF LifeEnd
  <2>3. LifeEnd(k) <= Len(downstream) /\ LifeEnd(k) <= LifeEnd(k)' /\ LifeEnd(k)' \in Nat
    <3>1. CASE k # Len(lives)
      <4>1. k + 1 \in 1..Len(lives) /\ k # Len(lives')
        BY <1>1, <1>4, <3>1
      <4>2. lives'[k + 1] = lives[k + 1]
        BY <1>4, <4>1
      <4> QED BY <1>1, <3>1, <4>1, <4>2 DEF LifeEnd, LivesPlaced
    <3>2. CASE k = Len(lives) /\ UNCHANGED lives
      BY <1>2, <3>2 DEF LifeEnd
    <3>3. ASSUME k = Len(lives), UNCHANGED downstream,
                 NEW loaded \in BOOLEAN, NEW start \in BOOLEAN, NEW ahead \in BOOLEAN,
                 lives' = Append(lives, LifeRecord(loaded, start, ahead))
          PROVE  LifeEnd(k) <= Len(downstream) /\ LifeEnd(k) <= LifeEnd(k)' /\ LifeEnd(k)' \in Nat
      <4>1. LifeRecord(loaded, start, ahead).from = Len(downstream)
        BY DEF LifeRecord
      <4> HIDE DEF LifeRecord
      <4>2. Len(lives') = k + 1 /\ lives'[k + 1] = LifeRecord(loaded, start, ahead)
        BY <1>1, <3>3
      <4> QED BY <1>2, <3>3, <4>1, <4>2 DEF LifeEnd
    <3> QED BY <3>1, <3>2, <3>3, LivesOf
  <2>4. i \in 1..Len(downstream) /\ i \in (lives'[k].from + 1)..LifeEnd(k)'
    BY <1>1, <1>2, <2>1, <2>2, <2>3
  <2>5. downstream'[i].type = "rollback"
    BY <1>2, <2>1, <2>4
  <2> QED BY <2>1, <2>2, <2>4, <2>5 DEF ForkAfterResume
<1> QED BY <1>3, <1>5, <1>6 DEF Sound

-------------------------------------------------------------------------------
(* A new life.                                                             *)

(* Where a point is in the topics.                                         *)
LEMMA PointPlace ==
  ASSUME Ground, NEW p, p \in CursorPoint, GenuinePoint(p)
  PROVE  /\ p.block \in Blocks /\ p.blockOffset \in 1..Len(blockLog)
         /\ Applies(p.blockOffset, p.block)
         /\ p.txOffset \in Messages(p.block) /\ p.txOffset \in 1..Len(txLog)
         /\ Before(p.blockOffset + 1) = Before(p.blockOffset) \cup {p.block}
         /\ Higher(p.block, Before(p.blockOffset))
<1>1. /\ p.block \in Blocks /\ p.blockOffset \in 1..Len(blockLog)
      /\ Applies(p.blockOffset, p.block)
      /\ p.txOffset \in Messages(p.block) /\ p.txOffset \in 1..Len(txLog)
  BY DEF CursorPoint, GenuinePoint, StoredPlace, Applies, Messages
<1> PICK j \in 1..Len(blockLog) : j = p.blockOffset
  BY <1>1
<1>2. LinkOK(j) /\ blockLog[j].kind = "apply" /\ blockLog[j].block = p.block
  BY <1>1 DEF Ground, LogInv, Applies
<1>3. Before(j + 1) = blockLog[j].chain
  <2>1. Len(blockLog) \in Nat
    BY GroundFacts
  <2>2. j + 1 # 1 /\ (j + 1) - 1 = j
    BY <2>1
  <2> QED BY <2>2 DEF Before
<1> QED BY <1>1, <1>2, <1>3 DEF LinkOK

(* A message not behind a point's own has been sent.                       *)
LEMMA PointCovers ==
  ASSUME Ground, NEW p, p \in CursorPoint, GenuinePoint(p), PointClaim(p),
         NEW c \in chain, Indexed(c), NEW o \in Messages(c), o <= p.txOffset
  PROVE  SentDown(o)
<1>1. /\ p.block \in Blocks /\ p.blockOffset \in 1..Len(blockLog)
      /\ Applies(p.blockOffset, p.block)
      /\ p.txOffset \in Messages(p.block) /\ p.txOffset \in 1..Len(txLog)
  BY PointPlace
<1>2. FeedTypeOK /\ LogInv /\ HistoryOK /\ Len(blockLog) \in Nat /\ c \in Blocks /\ o \in 1..Len(txLog)
      /\ Len(txLog) \in Nat
  BY GroundFacts, MessageIs DEF Ground
<1>3. PICK i \in 1..Len(blockLog) : Applies(i, c)
  BY <1>2, OnChain
<1>4. ~(p.blockOffset < i)
  <2>1. SUFFICES ASSUME p.blockOffset < i PROVE FALSE
    OBVIOUS
  <2>2. p.txOffset < o
    BY <1>1, <1>2, <1>3, <2>1 DEF HistoryOK, RunOrderInv
  <2> QED BY <1>1, <1>2, <2>2
<1>5. p.blockOffset + 1 \in 1..(Len(blockLog) + 1) /\ i < p.blockOffset + 1
  BY <1>1, <1>2, <1>3, <1>4
<1>6. c \in Before(p.blockOffset + 1)
  BY <1>2, <1>3, <1>5, OnChain
<1> QED BY <1>6 DEF PointClaim

(* A process that starts behind a point, or with the topics, begins with the *)
(* claim.                                                                  *)
LEMMA LifeBegins ==
  ASSUME ResumeInv, Ground, PlaceInv, PointInv, SeekStep \/ StartFresh, ~Gap',
         StartsAnew \/ \E p \in points : ResumesAt(p)
  PROVE  \E t \in 1..(Len(txLog') + 1) : LifeInv(t)'
<1>1. /\ ~running /\ UNCHANGED <<feedVars, completed, bufferVars, sendVars>>
  BY SeekShape DEF Ground
<1>2. /\ UNCHANGED <<chain, blockLog, txLog, processedTxOffsets, completed, emittedBlocks,
                     downstream, pendingDownstream>>
      /\ downstream \in Seq(DownstreamEvent)
  BY <1>1 DEF feedVars, bufferVars, sendVars, ResumeInv, TypeInv, TypeOK
<1>3. /\ lastTxOffset = 0 /\ cursorLoaded = FALSE
      /\ txIdx = 1 \/ \E p \in cursor : txIdx = p.txOffset
      /\ processedTxOffsets = {} /\ DOMAIN completed = {} /\ emittedBlocks = {}
      /\ pendingDownstream = <<>> /\ points \subseteq cursor
  BY <1>1 DEF PlaceInv, WaitInv, ResumeInv, SeekInv, NothingKept, TypeInv, TypeOK
<1>4. /\ Len(blockLog) \in Nat /\ Len(txLog) \in Nat /\ txIdx \in 1..(Len(txLog) + 1)
      /\ \A c \in Blocks : HeightOf[c] \in Int
      /\ chain \subseteq Blocks
  BY GroundFacts
<1>5. \A p \in cursor : p \in CursorPoint /\ GenuinePoint(p) /\ PointClaim(p)
                        /\ p.txOffset \in 1..Len(txLog)
  BY PointPlace DEF ResumeInv, SeekInv, PointsGenuine, PointInv
<1>6. /\ \A o : SentDown(o)' <=> SentDown(o)
      /\ \A o : SentDown(o) => Sent(o)'
      /\ \A c : Messages(c)' = Messages(c) /\ Messages(c) \subseteq 1..Len(txLog)
      /\ \A c : Indexed(c)' <=> Indexed(c)
  <2>1. Produced' = downstream
    BY <1>2, <1>3, ConcatEmptySeq DEF Produced
  <2> QED BY <1>2, <2>1 DEF SentDown, Sent, TxEventAt, Messages, Indexed
<1>7. ASSUME NEW t \in 1..(Len(txLog) + 1), txIdx' = t, lastTxOffset' \in {0, t},
             EarlierSent(t),
             \A c \in Before(blockIdx)' \cap chain : Indexed(c) =>
               \A o \in Messages(c) : SentDown(o)
      PROVE  EarlierSent(t)' /\ ReadInOrder(t)' /\ DueOnItsWay(t)'
  <2>1. EarlierSent(t)'
    BY <1>2, <1>6, <1>7 DEF EarlierSent
  <2>2. ReadInOrder(t)'
    BY <1>2, <1>3, <1>4, <1>7 DEF ReadInOrder
  <2>3. DueOnItsWay(t)'
    <3>1. SUFFICES ASSUME NEW c \in chain, Indexed(c), NEW o \in Messages(c), ~(o < t)
                   PROVE  OnItsWay(o, c)'
      BY <1>2, <1>3, <1>6 DEF DueOnItsWay, Missed
    <3>2. Unread(o)'
      BY <1>2, <1>3, <1>4, <1>6, <1>7, <3>1 DEF Unread
    <3>3. CASE c \in Before(blockIdx)'
      BY <1>6, <1>7, <3>1, <3>3 DEF OnItsWay
    <3>4. CASE c \notin Before(blockIdx)'
      BY <3>2, <3>4 DEF OnItsWay, Awaited
    <3> QED BY <3>3, <3>4
  <2> QED BY <2>1, <2>2, <2>3
<1>8. CASE StartsAnew
  <2>1. PICK start \in BOOLEAN, ahead \in BOOLEAN :
             /\ lives' = Append(lives, LifeRecord(FALSE, start, ahead))
             /\ start <=> blockIdx' = 1 /\ txIdx' = 1
    BY <1>8 DEF StartsAnew
  <2>2. lives \in Seq(Life)
    BY DEF ResumeInv, SeekInv
  <2>3. start
    <3> PICK life : life = LifeRecord(FALSE, start, ahead)
      OBVIOUS
    <3>1. life.loaded = FALSE /\ life.atStart = start /\ life \in Life
      <4>1. Len(downstream) \in Nat
        BY <1>2
      <4> QED BY <4>1 DEF LifeRecord, Life
    <3>2. Len(lives') \in 1..Len(lives') /\ lives'[Len(lives')] = life
      <4>1. lives' = Append(lives, life)
        BY <2>1
      <4>2. \A s \in Seq(Life) : \A e \in Life :
              Len(s) + 1 \in 1..Len(Append(s, e)) /\ Append(s, e)[Len(s) + 1] = e
              /\ Len(Append(s, e)) = Len(s) + 1
        <5> HIDE DEF Life
        <5> QED OBVIOUS
      <4> QED BY <2>2, <3>1, <4>1, <4>2
    <3> QED BY <3>1, <3>2 DEF Gap
  <2>4. Before(blockIdx)' = {} /\ txIdx' = 1 /\ lastTxOffset' = 0 /\ ~cursorLoaded'
    BY <1>3, <1>8, <2>1, <2>3 DEF Before, StartsAnew
  <2>5. EarlierSent(1)
    BY <1>4, <1>6 DEF EarlierSent
  <2>6. 1 \in 1..(Len(txLog) + 1)
    BY <1>4
  <2>7. LifeInv(1)'
    BY <1>7, <2>4, <2>5, <2>6 DEF LifeInv
  <2> QED BY <1>2, <2>6, <2>7
<1>9. ASSUME NEW p \in points, ResumesAt(p)
      PROVE  \E t \in 1..(Len(txLog') + 1) : LifeInv(t)'
  <2>1. /\ p \in cursor /\ p \in CursorPoint /\ GenuinePoint(p) /\ PointClaim(p)
        /\ p.block \in Blocks /\ p.blockOffset \in 1..Len(blockLog)
        /\ p.txOffset \in 1..Len(txLog)
        /\ Before(p.blockOffset + 1) = Before(p.blockOffset) \cup {p.block}
        /\ Higher(p.block, Before(p.blockOffset))
    BY <1>3, <1>5, PointPlace
  <2>2. PICK t \in 1..(Len(txLog) + 1) : t = txIdx'
    BY <1>4, <1>9, <2>1 DEF ResumesAt
  <2>3. lastTxOffset' \in {0, t} /\ (t = 1 \/ \E q \in cursor : t <= q.txOffset + 1)
    <3>1. CASE txIdx' = p.txOffset + 1 /\ lastTxOffset' = p.txOffset + 1
      BY <2>1, <2>2, <3>1
    <3>2. CASE UNCHANGED <<txIdx, lastTxOffset>>
      <4>1. CASE txIdx = 1
        BY <1>3, <2>2, <3>2, <4>1
      <4>2. CASE \E q \in cursor : txIdx = q.txOffset
        BY <1>3, <1>4, <1>5, <2>2, <3>2, <4>2
      <4> QED BY <1>3, <4>1, <4>2
    <3> QED BY <1>9, <3>1, <3>2 DEF ResumesAt
  <2>4. EarlierSent(t)
    <3>1. SUFFICES ASSUME NEW c \in chain, Indexed(c), NEW o \in Messages(c), o < t
                   PROVE  SentDown(o)
      BY DEF EarlierSent
    <3>2. o \in Nat /\ t \in Nat /\ t # 1
      BY <1>4, <1>6, <3>1
    <3>3. PICK q \in cursor : t <= q.txOffset + 1
      BY <2>3, <3>2
    <3>4. o <= q.txOffset
      BY <1>5, <3>1, <3>2, <3>3
    <3> QED BY <1>5, <3>1, <3>4, PointCovers
  <2>5. Before(blockIdx)' = Before(p.blockOffset + 1) /\ cursorLoaded' = TRUE
        /\ lastProcessedHeight' = HeightOf[p.block]
    BY <1>2, <1>9 DEF ResumesAt, Before, TypeInv
  <2>6. \A c \in Before(blockIdx)' \cap chain : Indexed(c) => \A o \in Messages(c) : SentDown(o)
    BY <2>1, <2>5 DEF PointClaim
  <2>7. EarlierSent(t)' /\ ReadInOrder(t)' /\ DueOnItsWay(t)'
    BY <1>7, <2>2, <2>3, <2>4, <2>6
  <2>8. LowCursor' /\ AboveEmitted'
    <3>1. p.block \in Before(blockIdx)' /\ HeightOf[p.block] \in Int
      BY <1>4, <2>1, <2>5
    <3>2. Before(p.blockOffset) \subseteq Blocks
      <4>1. FeedTypeOK /\ p.blockOffset \in 1..(Len(blockLog) + 1)
        BY <1>4, <2>1, GroundFacts
      <4>2. \A k \in 1..Len(blockLog) : blockLog[k] \in BlockMessage
        BY <4>1 DEF FeedTypeOK
      <4>3. \A m \in BlockMessage : m.chain \subseteq Blocks
        BY DEF BlockMessage
      <4>4. PICK n \in 1..(Len(blockLog) + 1) : n = p.blockOffset
        BY <4>1
      <4>5. n # 1 => n - 1 \in 1..Len(blockLog)
        BY <1>4, <4>4
      <4> QED BY <4>2, <4>3, <4>4, <4>5 DEF Before
    <3>3. \A c \in Before(blockIdx)' : ~(HeightOf[p.block] < HeightOf[c])
      BY <1>4, <2>1, <2>5, <3>2 DEF Higher
    <3>4. LowCursor'
      BY <2>5, <3>1 DEF LowCursor
    <3>5. AboveEmitted'
      BY <2>5, <3>3 DEF AboveEmitted
    <3> QED BY <3>4, <3>5
  <2>9. PassedSeen'
    BY <1>2, <1>6, <2>6 DEF PassedSeen
  <2>10. CountedSeen'
    BY <1>2, <1>3 DEF CountedSeen
  <2>11. LifeInv(t)'
    BY <2>3, <2>5, <2>7, <2>8, <2>9, <2>10 DEF LifeInv, LoadedInv
  <2> QED BY <1>2, <2>11
<1> QED BY <1>8, <1>9

-------------------------------------------------------------------------------
(* The end of a life.                                                      *)

(* With the downstream actor known, nothing is held back.                  *)
LEMMA LifeProduced ==
  ASSUME ResumeInv, downstreamSet
  PROVE  /\ Produced = downstream /\ L!Produced = LifePart
         /\ downstream \in Seq(DownstreamEvent) /\ Len(downstream) \in Nat
         /\ LifeFrom \in 0..Len(downstream)
<1>1. /\ downstream \in Seq(DownstreamEvent) /\ pendingDownstream = <<>>
      /\ LifeFrom \in 0..Len(downstream)
  BY DEF ResumeInv, TypeInv, TypeOK, NothingHeldBack, SeekInv
<1>2. LifePart \in Seq(DownstreamEvent)
  BY <1>1, LifePartTyping
<1>3. \A s \in Seq(DownstreamEvent) : s \o <<>> = s
  BY ConcatEmptySeq
<1> QED BY <1>1, <1>2, <1>3 DEF Produced, L!Produced

(* The life of now, when no process that had resumed rolled a block back.  *)
LEMMA NoForkInLife ==
  ASSUME ResumeInv, PlaceInv, ~ForkAfterResume, running, downstreamSet, cursorLoaded
  PROVE  NoRollbackYet
<1>1. /\ Produced = downstream /\ Len(downstream) \in Nat
  BY LifeProduced
<1>2. lives # <<>> /\ lives \in Seq(Life) /\ lives[Len(lives)].loaded
  BY DEF PlaceInv, RunInv, ResumeInv, SeekInv
<1>3. Len(lives) \in 1..Len(lives)
  <2> HIDE DEF Life
  <2> QED BY <1>2
<1>4. LifeEnd(Len(lives)) = Len(downstream) /\ lives[Len(lives)].from = LifeFrom
  BY <1>2 DEF LifeEnd, LifeFrom
<1>5. \A i \in (LifeFrom + 1)..Len(downstream) : downstream[i].type # "rollback"
  BY <1>2, <1>3, <1>4 DEF ForkAfterResume
<1> QED BY <1>1, <1>5 DEF NoRollbackYet

LEMMA LifeOfNow ==
  ASSUME ResumeInv, PlaceInv, LivesInv, Sound, running, downstreamSet
  PROVE  \E t \in 1..(Len(txLog) + 1) : LifeInv(t)
BY NoForkInLife DEF LivesInv, Sound

(* Where the strategies have every transaction of a block.                 *)
LEMMA CompleteSent ==
  ASSUME ResumeInv, Ground, MemoryInv, running, downstreamSet, NEW b \in Complete,
         NEW k \in 1..Len(blockLog), Applies(k, b)
  PROVE  /\ \A o \in Messages(b) : SentDown(o)
         /\ \E o \in Messages(b) : o \in processedTxOffsets
<1>1. /\ Produced = downstream /\ L!Produced = LifePart
      /\ downstream \in Seq(DownstreamEvent) /\ Len(downstream) \in Nat
      /\ LifeFrom \in 0..Len(downstream)
      /\ LifePart \in Seq(DownstreamEvent)
      /\ Len(LifePart) = Len(downstream) - LifeFrom
      /\ \A n \in 1..Len(LifePart) :
           LifeFrom + n \in 1..Len(downstream) /\ LifePart[n] = downstream[LifeFrom + n]
  BY LifeProduced, LifePartTyping
<1>2. L!SentOnce("tx", LifePart) /\ L!Offsets("tx", LifePart) \subseteq processedTxOffsets
  BY <1>1 DEF MemoryInv, L!DedupInv, L!Dedup
<1> DEFINE S == SentSince(b)
<1>3. b \in Blocks /\ NumTxs(b) > 0 /\ Cardinality(S) = NumTxs(b) /\ NumTxs(b) \in Nat
  BY TxsTyping DEF Complete
<1>4. /\ S \subseteq (LifeFrom + 1)..Len(downstream)
      /\ \A i \in S : downstream[i].type = "tx" /\ downstream[i].block = b
  BY DEF SentSince
<1> HIDE DEF S
<1>5. /\ IsFiniteSet(S) /\ S # {}
      /\ IsFiniteSet(Messages(b)) /\ Cardinality(Messages(b)) = NumTxs(b)
  <2>1. LifeFrom + 1 \in Int /\ Len(downstream) \in Int
    BY <1>1
  <2>2. IsFiniteSet((LifeFrom + 1)..Len(downstream))
    BY <2>1, FS_Interval
  <2>3. IsFiniteSet(S)
    BY <1>4, <2>2, FS_Subset
  <2>4. S # {}
    BY <1>3, <2>3, FS_EmptySet
  <2> QED BY <1>3, <2>3, <2>4, GroundFacts, MessagesOf DEF Ground
<1>6. ASSUME NEW i \in S
      PROVE  /\ i \in 1..Len(downstream)
             /\ i - LifeFrom \in 1..Len(LifePart) /\ LifePart[i - LifeFrom] = downstream[i]
             /\ downstream[i].offset \in Messages(b)
             /\ downstream[i] = TxEventAt(downstream[i].offset)
             /\ downstream[i].offset \in processedTxOffsets
  <2>1. i \in 1..Len(downstream) /\ i - LifeFrom \in 1..Len(LifePart)
        /\ LifeFrom + (i - LifeFrom) = i
    BY <1>1, <1>4
  <2>2. GenuineEvent(downstream[i])
    BY <1>1, <2>1 DEF ResumeInv, SeekInv, EventsGenuine
  <2>3. /\ downstream[i].offset \in 1..Len(txLog) /\ downstream[i] = TxEventAt(downstream[i].offset)
        /\ txLog[downstream[i].offset].kind = "applied"
    BY <1>4, <2>2 DEF GenuineEvent
  <2>4. txLog[downstream[i].offset].block = downstream[i].block
    BY <2>3 DEF TxEventAt, Event
  <2>5. LifePart[i - LifeFrom] = downstream[i]
    BY <1>1, <2>1
  <2>6. downstream[i].offset \in processedTxOffsets
    BY <1>2, <1>4, <2>1, <2>5 DEF L!Offsets
  <2> QED BY <1>4, <2>1, <2>3, <2>4, <2>5, <2>6 DEF Messages
<1>7. ASSUME NEW i \in S, NEW j \in S, downstream[i].offset = downstream[j].offset
      PROVE  i = j
  <2>1. i - LifeFrom = j - LifeFrom
    BY <1>2, <1>4, <1>6, <1>7, SMTT(30) DEF L!SentOnce
  <2> QED BY <1>1, <1>6, <2>1
<1>8. \A o \in Messages(b) : \E i \in S : downstream[i].offset = o
  <2> DEFINE f == [i \in S |-> downstream[i].offset]
  <2>1. f \in Injection(S, Messages(b))
    BY <1>6, <1>7, Zenon DEF Injection, IsInjective
  <2>2. f \in Surjection(S, Messages(b))
    BY <1>3, <1>5, <2>1, FS_Injection
  <2> QED BY <2>2 DEF Surjection
<1>9. \A o \in Messages(b) : SentDown(o)
  BY <1>6, <1>8 DEF SentDown
<1>10. \E o \in Messages(b) : o \in processedTxOffsets
  BY <1>5, <1>6
<1> QED BY <1>9, <1>10

(* What a crash leaves in the table stands for what it says: below the block *)
(* of a new row, each transaction was read before the row's own, and is sent. *)
LEMMA CrashPoints ==
  ASSUME ResumeInv, Ground, PlaceInv, MemoryInv, LifeEventsInv, LivesInv, Sound, Crash
  PROVE  PointInv'
<1>1. /\ running /\ cursor' = CursorTable /\ points' = CursorTable
      /\ UNCHANGED <<chain, blockLog, txLog, downstream>>
  BY DEF Crash, feedVars
<1>2. SUFFICES ASSUME NEW p \in CursorTable PROVE PointClaim(p)
  <2>1. \A c : Messages(c)' = Messages(c) /\ (Indexed(c)' <=> Indexed(c))
    BY <1>1 DEF Messages, Indexed
  <2>2. \A o : SentDown(o)' <=> SentDown(o)
    BY <1>1 DEF SentDown, TxEventAt
  <2>3. \A k : Before(k)' = Before(k)
    BY <1>1 DEF Before
  <2> QED BY <1>1, <2>1, <2>2, <2>3 DEF PointInv, PointClaim
<1>3. CASE p \in cursor
  BY <1>3 DEF LivesInv, PointInv
<1>4. ASSUME NEW b \in Complete, p = PointOf(b)
      PROVE  PointClaim(p)
  <2>1. /\ downstream \in Seq(DownstreamEvent) /\ Len(downstream) \in Nat
        /\ LifeFrom \in 0..Len(downstream) /\ LifeFrom \in Nat
    BY DEF ResumeInv, TypeInv, TypeOK, SeekInv
  <2>2. downstreamSet
    <3>1. SUFFICES ASSUME ~downstreamSet PROVE FALSE
      OBVIOUS
    <3>2. LifeFrom = Len(downstream)
      BY <1>1, <3>1 DEF PlaceInv, RunInv
    <3>3. SentSince(b) = {}
      BY <2>1, <3>2 DEF SentSince
    <3>4. NumTxs(b) > 0 /\ NumTxs(b) = 0
      BY <3>3, FS_EmptySet DEF Complete
    <3> QED BY <3>4
  <2>3. /\ p \in CursorPoint /\ GenuinePoint(p) /\ p.block = b /\ StandsAt(p, b)
    BY <1>4, <2>1, SentTxTyping, TableGenuine, PointOfComplete DEF StandsAt
  <2>4. /\ b \in Blocks /\ p.blockOffset \in 1..Len(blockLog) /\ Applies(p.blockOffset, b)
        /\ Before(p.blockOffset + 1) = Before(p.blockOffset) \cup {b}
        /\ Higher(b, Before(p.blockOffset))
    BY <2>3, PointPlace
  <2>5. /\ \A o \in Messages(b) : SentDown(o)
        /\ \E o \in Messages(b) : o \in processedTxOffsets
        /\ p.blockOffset < blockIdx
    <3>1. PICK j \in (LifeFrom + 1)..Len(downstream) :
             downstream[j].type = "block" /\ p.blockOffset = downstream[j].offset
      BY <2>3 DEF StandsAt
    <3>2. /\ L!Produced = LifePart /\ Len(LifePart) = Len(downstream) - LifeFrom
          /\ \A k \in 1..Len(LifePart) : LifePart[k] = downstream[LifeFrom + k]
      BY <2>1, <2>2, LifeProduced, LifePartTyping
    <3>3. j - LifeFrom \in 1..Len(LifePart) /\ LifePart[j - LifeFrom] = downstream[j]
      <4>1. j - LifeFrom \in 1..Len(LifePart) /\ j = LifeFrom + (j - LifeFrom)
        BY <2>1, <3>2
      <4> QED BY <3>2, <4>1
    <3>4. p.blockOffset < blockIdx
      BY <1>1, <3>1, <3>2, <3>3 DEF LifeEventsInv, L!BlockEventsInv
    <3> QED BY <1>1, <2>2, <2>4, <3>4, CompleteSent
  <2>6. PICK t \in 1..(Len(txLog) + 1) : LifeInv(t)
    BY <1>1, <2>2, LifeOfNow
  <2>7. PICK last \in Messages(b) : last \in processedTxOffsets
    BY <2>5
  <2>8. SUFFICES ASSUME NEW c \in Before(p.blockOffset) \cap chain, Indexed(c), c # b,
                        NEW o \in Messages(c)
                 PROVE  SentDown(o)
    BY <2>4, <2>5 DEF PointClaim
  <2>9. /\ FeedTypeOK /\ HistoryOK /\ Len(blockLog) \in Nat /\ blockIdx \in 1..(Len(blockLog) + 1)
        /\ c \in Blocks /\ HeightOf[c] \in Int /\ HeightOf[b] \in Int
        /\ last \in 1..Len(txLog) /\ o \in 1..Len(txLog) /\ Len(txLog) \in Nat
        /\ txLog[o].kind = "applied"
    BY <2>4, GroundFacts, MessageIs, SMTT(30) DEF Ground
  <2>10. c \in Before(blockIdx)
    <3>1. p.blockOffset \in 1..(Len(blockLog) + 1)
      BY <2>4, <2>9
    <3>2. PICK i \in 1..(p.blockOffset - 1) : Applies(i, c)
      BY <2>9, <3>1 DEF HistoryOK, HistoryInv
    <3>3. i \in 1..Len(blockLog) /\ blockIdx \in (i + 1)..(Len(blockLog) + 1)
      BY <2>4, <2>5, <2>9, <3>2
    <3>4. ASSUME NEW u \in (i + 1)..(blockIdx - 1), Unapplies(u, c)
          PROVE  FALSE
      <4>1. u \in 1..Len(blockLog) /\ Len(blockLog) + 1 \in (u + 1)..(Len(blockLog) + 1)
        BY <2>9, <3>3
      <4>2. c \notin Before(Len(blockLog) + 1)
        BY <2>9, <3>4, <4>1 DEF HistoryOK, HistoryInv
      <4> QED BY <2>8, <4>2 DEF Ground, LogInv
    <3> QED BY <2>9, <3>2, <3>3, <3>4 DEF HistoryOK, HistoryInv
  <2>11. o < last
    <3>1. p.blockOffset \in 1..(Len(blockLog) + 1)
      BY <2>4, <2>9
    <3>2. PICK i \in 1..(p.blockOffset - 1) : Applies(i, c)
      BY <2>9, <3>1 DEF HistoryOK, HistoryInv
    <3>3. i \in 1..Len(blockLog) /\ i < p.blockOffset
      BY <2>4, <2>9, <3>2
    <3>4. \A e, d \in Blocks : \A k, j \in 1..Len(blockLog) :
            k < j /\ Applies(k, e) /\ Applies(j, d) =>
              \A x \in Messages(e), q \in Messages(d) : x < q
      BY <2>9 DEF HistoryOK, RunOrderInv
    <3> QED BY <2>4, <2>9, <3>2, <3>3, <3>4
  <2>12. o < t => SentDown(o)
    <3>1. EarlierSent(t)
      BY <2>6 DEF LifeInv
    <3> QED BY <2>8, <3>1 DEF EarlierSent
  <2>13. OnItsWay(o, c) \/ o < t
    <3>1. DueOnItsWay(t)
      BY <2>6 DEF LifeInv
    <3>2. Due(c)
      BY <2>10 DEF Due
    <3>3. OnItsWay(o, c) \/ Missed(o, t)
      BY <2>8, <3>1, <3>2 DEF DueOnItsWay
    <3> QED BY <3>3 DEF Missed
  <2>14. ~Awaited(c)
    BY <2>10, NotAwaited
  <2>15. CASE Sent(o)
    BY <2>2, <2>15, LifeProduced DEF Sent, SentDown
  <2>16. CASE Unread(o)
    <3>1. o \in 1..(last - 1) /\ o \notin processedTxOffsets
      BY <2>9, <2>11, <2>16 DEF Unread
    <3>2. o < t
      BY <2>6, <2>7, <2>9, <3>1 DEF LifeInv, ReadInOrder
    <3> QED BY <2>12, <3>2
  <2> QED BY <2>12, <2>13, <2>14, <2>15, <2>16 DEF OnItsWay
<1> QED BY <1>2, <1>3, <1>4 DEF CursorTable

(* Nothing happens.                                                        *)
LEMMA UnchangedLives ==
  ASSUME UNCHANGED resumeVars, LivesInv
  PROVE  LivesInv'
<1>1. /\ UNCHANGED <<chain, blockLog, txLog, running, blockIdx, txIdx, lastTxOffset,
                     lastProcessedHeight, cursorLoaded, completed, pendingApplied, emittedBlocks,
                     processedTxOffsets, pendingDownstream, downstream>>
      /\ UNCHANGED <<nodeErrors, cursor, points, lives>>
  BY DEF resumeVars, vars, feedVars, indexerVars, readerVars, cursorVars, bufferVars, sendVars,
         boundVars, seekVars
<1>2. /\ \A o : SentDown(o)' <=> SentDown(o)
      /\ \A o : Sent(o)' <=> Sent(o)
      /\ \A c : Indexed(c)' <=> Indexed(c)
      /\ \A c : Messages(c)' = Messages(c)
      /\ \A k : Before(k)' = Before(k)
      /\ Before(blockIdx)' = Before(blockIdx)
  BY <1>1 DEF SentDown, Sent, TxEventAt, Produced, Indexed, Messages, Before
<1>3. /\ \A c : Awaited(c)' <=> Awaited(c)
      /\ \A c : Due(c)' <=> Due(c)
  BY <1>1, <1>2 DEF Awaited, Due, Applies
<1>4. /\ \A o : Unread(o)' <=> Unread(o)
      /\ \A o, c : BufferedAs(o, c)' <=> BufferedAs(o, c)
      /\ \A o, t : Missed(o, t)' <=> Missed(o, t)
  BY <1>1 DEF Unread, BufferedAs, Missed
<1>5. \A o, c : OnItsWay(o, c)' <=> OnItsWay(o, c)
  BY <1>1, <1>2, <1>3, <1>4 DEF OnItsWay
<1>6. PointInv' <=> PointInv
  BY <1>1, <1>2 DEF PointInv, PointClaim
<1>7. ASSUME NEW t
      PROVE  LifeInv(t) => LifeInv(t)'
  <2>1. EarlierSent(t)' <=> EarlierSent(t)
    BY <1>1, <1>2 DEF EarlierSent
  <2>2. ReadInOrder(t)' <=> ReadInOrder(t)
    BY <1>1 DEF ReadInOrder
  <2>3. DueOnItsWay(t)' <=> DueOnItsWay(t)
    BY <1>1, <1>2, <1>3, <1>4, <1>5 DEF DueOnItsWay
  <2>4. /\ LowCursor' <=> LowCursor
        /\ PassedSeen' <=> PassedSeen
        /\ CountedSeen' <=> CountedSeen
        /\ AboveEmitted' <=> AboveEmitted
    BY <1>1, <1>2 DEF LowCursor, PassedSeen, CountedSeen, AboveEmitted
  <2> QED BY <1>1, <2>1, <2>2, <2>3, <2>4 DEF LifeInv, LoadedInv
<1>8. /\ NoRollbackYet' <=> NoRollbackYet
      /\ Sound' <=> Sound
  BY <1>1 DEF NoRollbackYet, LifeFrom, Produced, Sound, Gap, ForkAfterResume, LifeEnd
<1> QED BY <1>1, <1>6, <1>7, <1>8 DEF LivesInv

(* Every step keeps both claims.                                           *)
LEMMA LivesStep ==
  ASSUME "block" \notin RestartTopics, AppliedOnce, ResumeInv, WithinLimit, L!OrderInv, PlaceInv,
         TopicsInv, TopicsInv', MemoryInv, LifeEventsInv, LivesPlaced, LivesInv,
         [ResumeNext]_resumeVars,
         [running /\ ~cursorLoaded => NoStraggler]_resumeVars
  PROVE  LivesInv'
<1>1. CASE UNCHANGED resumeVars
  BY <1>1, UnchangedLives
<1>2. CASE ~UNCHANGED resumeVars
  <2>1. SUFFICES ASSUME Sound'
                 PROVE  /\ PointInv'
                        /\ running' /\ (cursorLoaded' => NoRollbackYet') =>
                             \E t \in 1..(Len(txLog') + 1) : LifeInv(t)'
    BY DEF LivesInv
  <2>2. /\ Sound /\ PointInv /\ Ground /\ ChainInv /\ RunsInv
        /\ TypeInv /\ LogInv /\ HistoryOK /\ nodeErrors' = 0 /\ ~Gap'
    <3>1. Ground /\ ChainInv /\ RunsInv
      BY GroundHolds
    <3> QED BY <2>1, <3>1, SoundBefore DEF Sound, LivesInv, Ground
  <2>3. \A p \in cursor \cup points : GenuinePoint(p) /\ PointClaim(p)
    BY <2>2 DEF ResumeInv, SeekInv, PointsGenuine, PointInv
  <2>4. CASE LifeStep /\ UNCHANGED seekVars
    <3>1. UNCHANGED <<cursor, points, lives>> /\ LifeStep
      BY <2>4 DEF seekVars
    <3>2. PointInv'
      BY <2>2, <2>3, <3>1, PointKept DEF PointInv
    <3>3. ASSUME running', cursorLoaded' => NoRollbackYet'
          PROVE  \E t \in 1..(Len(txLog') + 1) : LifeInv(t)'
      <4>1. running /\ cursorLoaded' = cursorLoaded
        BY <3>1, <3>3, LifeSteadies
      <4>2. cursorLoaded => NoRollbackYet
        BY <3>1, <3>3, <4>1, NoRollbackLater
      <4>3. PICK t \in 1..(Len(txLog) + 1) : LifeInv(t)
        BY <2>2, <4>1, <4>2 DEF LivesInv
      <4>4. LifeInv(t)'
        BY <1>2, <2>2, <3>1, <3>3, <4>1, <4>3, LifeLife
      <4>5. t \in 1..(Len(txLog') + 1)
        <5>1. Len(txLog) \in Nat /\ Len(txLog') \in Nat /\ Len(txLog) <= Len(txLog')
          BY <2>2, <3>1, LifeStepNext, FeedGrows DEF IsGrownFrom
        <5> QED BY <5>1
      <4> QED BY <4>4, <4>5
    <3> QED BY <3>2, <3>3
  <2>5. CASE SeekStep \/ StartFresh
    <3>1. /\ ~running /\ UNCHANGED <<feedVars, completed, bufferVars, sendVars, boundVars, cursor>>
          /\ points' \subseteq points
          /\ SeeksOn \/ StartsAnew \/ \E p \in points : ResumesAt(p)
      BY <2>2, <2>5, SeekShape
    <3>2. PointInv'
      <4>1. UNCHANGED <<chain, blockLog, txLog, downstream, cursor>>
        BY <3>1 DEF feedVars, sendVars
      <4>2. /\ \A c : Messages(c)' = Messages(c) /\ (Indexed(c)' <=> Indexed(c))
            /\ \A o : SentDown(o)' <=> SentDown(o)
            /\ \A k : Before(k)' = Before(k)
        BY <4>1 DEF Messages, Indexed, SentDown, TxEventAt, Before
      <4> QED BY <2>3, <3>1, <4>1, <4>2 DEF PointInv, PointClaim
    <3>3. SeeksOn => running' = FALSE
      BY <3>1 DEF SeeksOn, ResumeInv, TypeInv, TypeOK
    <3>4. StartsAnew \/ (\E p \in points : ResumesAt(p)) =>
            \E t \in 1..(Len(txLog') + 1) : LifeInv(t)'
      BY <2>2, <2>5, LifeBegins
    <3> QED BY <3>1, <3>2, <3>3, <3>4
  <2>6. CASE Crash
    <3>1. PointInv' /\ running' = FALSE
      BY <2>2, <2>6, CrashPoints DEF Crash
    <3> QED BY <3>1
  <2> QED BY <1>2, <2>4, <2>5, <2>6, ResumeCases
<1> QED BY <1>1, <1>2

(* They hold before the first life.                                        *)
LEMMA LivesInit == ResumeInit => LivesPlaced /\ LivesInv
<1>1. SUFFICES ASSUME ResumeInit PROVE LivesPlaced /\ LivesInv
  OBVIOUS
<1>2. lives = <<>> /\ cursor = {} /\ points = {} /\ running = FALSE
  BY <1>1 DEF ResumeInit, Init
<1> QED BY <1>2 DEF LivesPlaced, LivesInv, PointInv

(* Once the process has caught up, nothing is on its way any more.         *)
LEMMA LivesImplies ==
  ASSUME ResumeInv, L!OrderInv, TopicsInv, PlaceInv, LivesInv
  PROVE  LivesMirrorChain
<1>1. SUFFICES ASSUME CaughtUp, Sound,
                      NEW b \in chain, HeightOf[b] >= InterceptHeight, NEW n \in 1..NumTxs(b)
               PROVE  \E i \in 1..Len(downstream) :
                        /\ downstream[i].type = "tx"
                        /\ downstream[i].block = b /\ downstream[i].tx = TxsOf[b][n]
  BY DEF LivesMirrorChain, Sound
<1>2. /\ Ground /\ FeedTypeOK /\ LogInv /\ HistoryOK /\ b \in Blocks
      /\ Len(blockLog) \in Nat /\ Len(txLog) \in Nat
      /\ blockIdx \in 1..(Len(blockLog) + 1) /\ txIdx \in 1..(Len(txLog) + 1)
  BY GroundHolds, GroundFacts DEF Ground
<1>3. blockIdx = Len(blockLog) + 1 /\ txIdx = Len(txLog) + 1 /\ running /\ downstreamSet
  BY <1>1, <1>2 DEF CaughtUp
<1>4. b \in Before(blockIdx)
  BY <1>2, <1>3 DEF LogInv
<1>5. PICK t \in 1..(Len(txLog) + 1) : LifeInv(t)
  BY <1>1, <1>3, LifeOfNow
<1>6. EarlierSent(t) /\ DueOnItsWay(t)
  BY <1>5 DEF LifeInv
<1>7. PICK k \in 1..Len(blockLog) : Applies(k, b)
  BY <1>2, OnChain
<1>8. PICK o \in Messages(b) : txLog[o].tx = TxsOf[b][n]
  BY <1>2, <1>7, MessagesOf
<1>9. o \in 1..Len(txLog) /\ txLog[o].block = b
  BY MessageIs
<1>10. SentDown(o)
  <2>1. OnItsWay(o, b) \/ Missed(o, t)
    <3>1. Due(b) /\ Indexed(b)
      BY <1>1, <1>4 DEF Due, Indexed
    <3> QED BY <1>6, <3>1 DEF DueOnItsWay
  <2>2. CASE Missed(o, t)
    BY <1>1, <1>6, <2>2 DEF Missed, EarlierSent, Indexed
  <2>3. ~Awaited(b) /\ ~Unread(o)
    BY <1>2, <1>3, <1>4, <1>9, NotAwaited DEF Unread
  <2>4. CASE Sent(o)
    BY <1>3, <2>4, LifeProduced DEF Sent, SentDown
  <2> QED BY <2>1, <2>2, <2>3, <2>4 DEF OnItsWay
<1>11. PICK i \in 1..Len(downstream) : downstream[i] = TxEventAt(o)
  BY <1>10 DEF SentDown
<1> QED BY <1>8, <1>9, <1>11 DEF TxEventAt, Event

(* Once it has caught up, the indexer has sent every transaction of the    *)
(* node's chain over all its lives (LivesMirrorChain): for every feed in   *)
(* which no block is applied twice, any number of crashes and failed reads *)
(* and restarted transaction readers, whichever points are tried, however  *)
(* they are found, as long as the offset set is not trimmed and a process  *)
(* that began with the topics prunes nothing it still needs.  Left out, by *)
(* the formula itself: a start that reached no cursor point (Gap), a       *)
(* GetNodeInfo that failed, and a fork read by a process that had resumed  *)
(* (ForkAfterResume), after which transactions are indeed lost             *)
(* (SkippedWasProcessed of ChainEventProcessor shows how).  Forks read by  *)
(* a process that had not resumed are covered.                             *)
THEOREM ResumedLivesMirrorChain ==
  ASSUME "block" \notin RestartTopics, AppliedOnce
  PROVE  /\ ResumeSpec
         /\ []WithinLimit
         /\ [][running /\ ~cursorLoaded => NoStraggler]_resumeVars
         => []LivesMirrorChain
<1> DEFINE Inv == /\ L!OrderInv /\ PlaceInv /\ TopicsInv /\ MemoryInv /\ LifeEventsInv
                  /\ LivesPlaced /\ LivesInv
<1>1. ResumeInit => Inv
  BY LifeOrderInit, PlaceInit, TopicsInit, MemoryInit, LifeEventsInit, LivesInit
<1>2. /\ ResumeInv /\ WithinLimit /\ Inv
      /\ [ResumeNext]_resumeVars /\ [running /\ ~cursorLoaded => NoStraggler]_resumeVars
      => Inv'
  <2> SUFFICES ASSUME ResumeInv, WithinLimit, Inv, [ResumeNext]_resumeVars,
                      [running /\ ~cursorLoaded => NoStraggler]_resumeVars
               PROVE  Inv'
    OBVIOUS
  <2>1. (L!OrderInv)'
    BY LifeOrderStep
  <2>2. TopicsInv'
    BY TopicsStep
  <2>3. PlaceInv' 
    BY PlaceStep DEF TopicsInv
  <2>4. MemoryInv' /\ LifeEventsInv' /\ LivesPlaced'
    BY MemoryStep, LifeEventsStep, PlacedStep
  <2>5. LivesInv'
    BY <2>2, LivesStep
  <2> QED BY <2>1, <2>2, <2>3, <2>4, <2>5
<1>3. ResumeInv /\ Inv => LivesMirrorChain
  BY LivesImplies
<1> HIDE DEF Inv
<1> QED BY <1>1, <1>2, <1>3, ResumeInvariant, PTL DEF ResumeSpec
===============================================================================
