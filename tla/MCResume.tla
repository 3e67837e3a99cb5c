------------------------------- MODULE MCResume -------------------------------
(***************************************************************************)
(* Instances of Resume for TLC: a1 <- a2 with a fork b2 at height 2, and   *)
(* a line of three blocks.  The index starts at height 1, so that the      *)
(* first cursor point lies below the fork.                                 *)
(***************************************************************************)
EXTENDS Resume

MCTree == [a1 |-> <<1, "root", <<"u">>>>,
           a2 |-> <<2, "a1", <<"v">>>>,
           a3 |-> <<3, "a2", <<"z">>>>,
           b2 |-> <<2, "a1", <<"x">>>>]

MCTxs == {"u", "v", "x", "z"}
MCFork == {"a1", "a2", "b2"}
MCLine == {"a1", "a2", "a3"}

MCHeightOf == [b \in Blocks |-> MCTree[b][1]]
MCParentOf == [b \in Blocks |-> MCTree[b][2]]
MCTxsOf == [b \in Blocks |-> MCTree[b][3]]
==============================================================================
