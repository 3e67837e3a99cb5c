----------------------------- MODULE MCProcessor -----------------------------
(***************************************************************************)
(* Instances of ChainEventProcessor for TLC: the life of a lok, from its   *)
(* genesis g over its mint m and a funding f to its redemption r, along    *)
(* a1 <- a2 <- a3.  g2, m2 and r2 compete with g, m and r in the mempool.  *)
(* The branch a1 <- b2 <- b3 mines m again after a funding of its own, and *)
(* h, the genesis of a second lok.                                         *)
(***************************************************************************)
EXTENDS ChainEventProcessor

MCTree == [a1 |-> <<1, "root", <<"g">>>>,
           a2 |-> <<2, "a1", <<"m", "f">>>>,
           a3 |-> <<3, "a2", <<"r">>>>,
           b2 |-> <<2, "a1", <<"f2", "n">>>>,
           b3 |-> <<3, "b2", <<"m", "h">>>>]

MCAll == {"a1", "a2", "a3", "b2", "b3"}
MCLine == {"a1", "a2", "a3"}
MCFork == {"a1", "a2", "b2", "b3"}
MCTxs == {"g", "g2", "m", "m2", "f", "f2", "r", "r2", "h", "n"}
MCKindOf == [t \in MCTxs |->
  CASE t \in {"g", "g2", "h"} -> "genesis" [] t \in {"m", "m2"} -> "mint"
    [] t \in {"f", "f2"} -> "fund" [] t \in {"r", "r2"} -> "redeem"
    [] OTHER -> "none"]
MCLokOf == [t \in MCTxs |-> IF t = "h" THEN "lok2" ELSE "lok"]

MCHeightOf == [b \in Blocks |-> MCTree[b][1]]
MCParentOf == [b \in Blocks |-> MCTree[b][2]]
MCTxsOf == [b \in Blocks |-> MCTree[b][3]]
==============================================================================
