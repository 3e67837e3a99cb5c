------------------------------ MODULE MCIndexer ------------------------------
(***************************************************************************)
(* Instances of Indexer for TLC.  A chain of up to three heights with a    *)
(* fork at height 2: a1 <- a2 and a1 <- b2 <- b3.  The index starts at     *)
(* height 1 or 2; at 2, a1's transaction is below the intercept height.    *)
(* a2 carries two transactions, so its switch to b2 can be seen half way.  *)
(***************************************************************************)
EXTENDS IndexerStream

MCTree == [a1 |-> <<1, "root", <<"u">>>>,
           a2 |-> <<2, "a1", <<"v", "w">>>>,
           b2 |-> <<2, "a1", <<"x">>>>,
           b3 |-> <<3, "b2", <<"y">>>>]

MCTxs == {"u", "v", "w", "x", "y"}
MCShortFork == {"a1", "a2", "b2", "b3"}
MCFork == {"a1", "a2", "b2"}

MCHeightOf == [b \in Blocks |-> MCTree[b][1]]
MCParentOf == [b \in Blocks |-> MCTree[b][2]]
MCTxsOf == [b \in Blocks |-> MCTree[b][3]]
MCTxsOfEmpty == [a1 |-> <<"u">>, a2 |-> <<"w">>, b2 |-> <<>>]
==============================================================================
