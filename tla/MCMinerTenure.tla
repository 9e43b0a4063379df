--------------------------- MODULE MCMinerTenure ----------------------------
(* Two miners, either of which needs the other's signature, on a chain of   *)
(* L1 blocks or on a fork.                                                  *)
EXTENDS MinerTenure

CONSTANTS alice, bob

MCMinerList == <<alice, bob>>
MCParticipants == [m \in Miners |-> IF m = alice THEN <<bob>> ELSE <<alice>>]

\* The miners are alike: each has the other as its only participant, and of the
\* order of the list the signer rule uses only that no place is taken twice.
MCSymmetry == Permutations(Miners)

\* Bound: the first tenure begins on Root; L1 may move on before it goes on.
FirstOnRoot == begun = 0 => l1' = l1

MCNext == Next /\ FirstOnRoot
MCSpec == Init /\ [][MCNext]_vars

\* A chain of three: 1, 2, 3.
ChainParent == <<0, 1, 2>>
ChainHeight == <<1, 2, 3>>

\* A fork: 1 <- 3 and 1 <- 2 <- 4; block 2 takes over from 3 by its hash, 4 by
\* its height.
ForkParent == <<0, 1, 1, 2>>
ForkHeight == <<1, 2, 2, 3>>

\* One deposit in every block, two in block 2.
MCOps == [stx |-> [b \in Blocks |-> IF b = 2 THEN <<20, 21>> ELSE <<10 * b>>]]

=============================================================================
