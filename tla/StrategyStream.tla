---------------------------- MODULE StrategyStream ----------------------------
(***************************************************************************)
(* What the IndexerActor promises the strategies, and all that they rely   *)
(* on: at any time there is a set of known blocks, one per height; a block *)
(* is announced, and replaces what was known at its height; a rollback     *)
(* forgets every height from its own on; a transaction message is          *)
(* delivered only while its block is known, and never twice.               *)
(*                                                                         *)
(* The strategies' own map of blocks (ChainEventProcessor's blocks in      *)
(* memory) is exactly known.  Nothing is said of topics, readers, buffers  *)
(* or cursors: Indexer, which has them, is shown to implement this.        *)
(***************************************************************************)
EXTENDS Integers

CONSTANTS Blocks, HeightOf

VARIABLES
  known,      \* the blocks the strategies know
  delivered   \* the deliveries of transaction messages so far

streamVars == <<known, delivered>>

(* One delivery of a transaction message: when, of which block, and which  *)
(* message of the topic.                                                   *)
Delivery == [at : Nat, block : Blocks, offset : Nat]

StreamInit == known = {} /\ delivered = {}

(* Nothing delivered is taken back; what is new is of block b and was not  *)
(* delivered before, nor is it delivered twice now.                        *)
DeliverOf(b) ==
  /\ delivered \subseteq delivered'
  /\ \A d \in delivered' \ delivered :
       /\ d \in Delivery /\ d.block = b
       /\ \A e \in delivered' : e.offset = d.offset => e = d

(* A block, with the transactions of it that were read before it was.      *)
Announce(b) ==
  /\ known' = {c \in known : HeightOf[c] # HeightOf[b]} \cup {b}
  /\ DeliverOf(b)

(* One transaction of a known block.                                       *)
Deliver(b) ==
  /\ b \in known
  /\ DeliverOf(b)
  /\ UNCHANGED known

Retract(b) ==
  /\ known' = {c \in known : HeightOf[c] < HeightOf[b]}
  /\ UNCHANGED delivered

StreamNext == \E b \in Blocks : Announce(b) \/ Deliver(b) \/ Retract(b)

StreamSpec == StreamInit /\ [][StreamNext]_streamVars
==============================================================================
