------------------------------ MODULE Deposits ------------------------------
(***************************************************************************)
(* The deposit operations of a range of L1 blocks, as setup_block          *)
(* (blocks.rs) collects them with get_ops_between (sortdb.rs) when a       *)
(* subnet block is built and when it is processed.                         *)
(***************************************************************************)
EXTENDS BlockTree, Sequences, SequencesExt

CONSTANT Ops    \* Ops[kind][b]: deposits of a kind in L1 block b, in order

Kinds == DOMAIN Ops     \* deposit_stx, deposit_ft, deposit_nft

\* Mutant: the operations of the ancestor itself are left out.
GetOpsAfter(ancestor, start, kind) ==
    LET collect[b \in Blocks \union {NoBlock}] ==
          IF b = NoBlock \/ b = ancestor THEN <<>>
          ELSE collect[Parent[b]] \o Ops[kind][b]
    IN  collect[start]

\* get_ops_between: the operations from start down to ancestor, both included,
\* in L1 order; all of them, down to the hash of zeroes (NoBlock), when the
\* walk never meets ancestor.
GetOpsBetween(ancestor, start, kind) ==
    LET collect[b \in Blocks \union {NoBlock}] ==
          IF b = NoBlock THEN <<>>
          ELSE IF b = ancestor THEN Ops[kind][b]
          ELSE collect[Parent[b]] \o Ops[kind][b]
    IN  collect[start]

\* The deposits of a kind on the fork of b, from the first L1 block up to b.
DepositsOnFork ==
    [b \in Blocks, kind \in Kinds |->
       FoldLeft(LAMBDA ops, c : ops \o Ops[kind][c], <<>>,
                SetToSortSeq(Ancestry[b],
                             LAMBDA c, d : Height[c] < Height[d]))]

=============================================================================
