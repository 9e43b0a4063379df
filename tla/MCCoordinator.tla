--------------------------- MODULE MCCoordinator ---------------------------
(***************************************************************************)
(* Instances of Coordinator.  L1: Root 1 with child 2, whose children 3    *)
(* and 4 fork; 3 is the better tip at equal height, and 5 extends 4.       *)
(***************************************************************************)
EXTENDS Coordinator

MCBlocks == {1, 2, 3, 4, 5}
MCParent == (1 :> 0) @@ (2 :> 1) @@ (3 :> 2) @@ (4 :> 2) @@ (5 :> 4)
MCHeight == (1 :> 1) @@ (2 :> 2) @@ (3 :> 3) @@ (4 :> 3) @@ (5 :> 4)

\* a and e are children of the boot block, c is a child of a, d is one of c.
MCParentHash ==
    ("a" :> "first") @@ ("e" :> "first") @@ ("c" :> "a") @@ ("d" :> "c")

\* What the L1 blocks elect, in order: the same block on both forks, with a
\* child on one; blocks on the two forks that are at different heights.
MCElections ==
    {<<"first", "a", "c", "c", "d">>, <<"first", "a", "e", "c", None>>}

=============================================================================
