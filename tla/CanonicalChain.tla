--------------------------- MODULE CanonicalChain ---------------------------
(***************************************************************************)
(* What the layer-1 indexer promises its readers: a growing set of stored  *)
(* headers in which the rows marked canonical are, at every moment, the    *)
(* path from the best stored header down to the first one.  A block that   *)
(* becomes the best header replaces the whole path in one step; any other  *)
(* block leaves the marks alone.  Nobody ever sees a half-done reorg.      *)
(***************************************************************************)
EXTENDS BlockTree

VARIABLES
    stored,     \* hashes in block_index
    canonical   \* hashes in block_index with is_canonical = 1

vars == <<stored, canonical>>

Init == stored = {} /\ canonical = {}

Add(b) ==
    /\ b \in Blocks \ stored
    /\ stored' = stored \union {b}
    /\ IF b = TipOf(stored')
       THEN /\ canonical' \in SUBSET stored'
            /\ IsPathTo(canonical', b)
       ELSE UNCHANGED canonical

Next == \E b \in Blocks : Add(b)

Spec == Init /\ [][Next]_vars

=============================================================================
