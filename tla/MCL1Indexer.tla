---------------------------- MODULE MCL1Indexer -----------------------------
(* Instances of L1Indexer: one tree of layer-1 blocks with three branches  *)
(* that overtake each other by height and by hash.                         *)
EXTENDS L1Indexer, TLC

CONSTANTS h1, h2

MCHandlers == {h1, h2}
Symmetry == Permutations(MCHandlers)

\* height 1: 3;  height 2: 2 4 5;  height 3: 6 (on 5), 1 (on 4);  height 4: 7 (on 6)
MCBlocks == 1..7
MCParent == <<4, 3, 0, 3, 3, 5, 6>>
MCHeight == <<3, 2, 1, 2, 2, 3, 4>>

=============================================================================
