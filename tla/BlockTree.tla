----------------------------- MODULE BlockTree -----------------------------
(***************************************************************************)
(* The tree of layer-1 (Stacks) blocks a subnet node observes, and the     *)
(* order in which the node ranks chain tips.  A block is identified by its *)
(* header hash; hashes are natural numbers because all the code uses of a  *)
(* hash is equality and the lexicographic order that breaks ties.          *)
(***************************************************************************)
EXTENDS Integers

CONSTANTS
    Blocks,     \* header hashes of all layer-1 blocks, on every fork
    Parent,     \* Parent[b]: parent_header_hash of b
    Height,     \* Height[b]: L1 height of b
    Root        \* the first block observed (first_burn_header_height)

NoBlock == 0    \* no row / no tip; also the parent of Root

\* Hashes are positive, Root is the lowest block and the only one whose parent
\* is not observed, and a child is exactly one higher than its parent.
ASSUME BlockTreeAssumption ==
    /\ Blocks \subseteq Nat \ {NoBlock}
    /\ Parent \in [Blocks -> Blocks \union {NoBlock}]
    /\ Height \in [Blocks -> Nat \ {0}]
    /\ Root \in Blocks
    /\ Parent[Root] = NoBlock
    /\ \A b \in Blocks \ {Root} : /\ Parent[b] \in Blocks
                                  /\ Height[b] = Height[Parent[b]] + 1
                                  /\ Height[b] > Height[Root]

\* compare_headers(a, b) = Less: a precedes b, by height and then by hash.
Better(a, b) == \/ Height[a] > Height[b]
                \/ Height[a] = Height[b] /\ a < b

\* ORDER BY height DESC, header_hash ASC LIMIT 1 (NoBlock: no row).
TipOf(S) == IF S = {} THEN NoBlock
            ELSE CHOOSE t \in S : \A b \in S : b = t \/ Better(t, b)

\* A block and all its ancestors down to Root.
Ancestry ==
    LET up[b \in Blocks] == IF b = Root THEN {b} ELSE {b} \union up[Parent[b]]
    IN  [b \in Blocks |-> up[b]]

\* C is the path from t down to Root: it holds t and the parent of each of its
\* members but Root, has one member per height, and none above t.
IsPathTo(C, t) ==
    /\ t \in C
    /\ \A c \in C : c = Root \/ Parent[c] \in C
    /\ \A c, d \in C : Height[c] = Height[d] => c = d
    /\ \A c \in C : Height[c] <= Height[t]

=============================================================================
