----------------------------- MODULE IndexerStream -----------------------------
(***************************************************************************)
(* The refinement mapping from Indexer to StrategyStream: both of its      *)
(* variables are read off the events produced so far.  An event that is    *)
(* held back until SetDownstream counts from the moment it was produced;   *)
(* the order is settled then.                                              *)
(***************************************************************************)
EXTENDS Indexer

KnownBlocks == {b \in Blocks : OpenAt(Produced, Len(Produced), b)}

Deliveries ==
  {[at |-> i, block |-> Produced[i].block, offset |-> Produced[i].offset] :
     i \in {j \in 1..Len(Produced) : Produced[j].type = "tx"}}

Stream == INSTANCE StrategyStream WITH known <- KnownBlocks, delivered <- Deliveries

(* Whatever the order in which the two topics are read, and whatever is    *)
(* buffered, replayed, pruned or redelivered meanwhile, every step of the  *)
(* IndexerActor is one announcement, delivery or rollback that the         *)
(* strategies may rely on, or none that they see.                          *)
ImplementsStream == Stream!StreamSpec
==============================================================================
