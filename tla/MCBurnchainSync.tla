-------------------------- MODULE MCBurnchainSync ---------------------------
(* Instances of BurnchainSync on a tree whose three branches overtake each  *)
(* other by height and by hash.                                             *)
EXTENDS BurnchainSync

\* height 1: 4;  height 2: 2 5;  height 3: 3 6 (on 5);  height 4: 1 (on 3), 7 (on 6)
MCBlocks == 1..7
MCParent == <<3, 4, 5, 0, 4, 5, 6>>
MCHeight == <<4, 2, 3, 1, 2, 3, 4>>

\* From is_canonical's answer to read_headers.
Detection == {"height", "walk", "save", "plan", "read"}

AllPhases == Phases
Nowhere == {}
BetweenSyncs == {"start"}

=============================================================================
