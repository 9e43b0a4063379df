----------------------------- MODULE MerkleTree -----------------------------
(***************************************************************************)
(* The Merkle tree of a block's withdrawals (stacks_common hash.rs), the   *)
(* proof that the RPC interface hands out for one of them (net/rpc.rs),    *)
(* and the check of that proof by the L1 contract (subnet.clar).  A hash   *)
(* is the term that was hashed: collisions are left out.                   *)
(***************************************************************************)
EXTENDS Naturals, Sequences, SequencesExt, FiniteSetsExt

\* get_leaf_hash and get_node_hash: tagged, so that neither passes for the other.
LeafHash(data) == <<0, data>>
NodeHash(left, right) == <<1, left, right>>

\* "force even number": the last hash of an odd row is there twice.
ForceEven(row) == IF Len(row) % 2 = 0 THEN row ELSE Append(row, Last(row))

NextRow(row) ==
    LET hashes == [j \in 1..(Len(row) \div 2) |->
                      NodeHash(row[2 * j - 1], row[2 * j])]
    IN  IF Len(hashes) = 1 THEN hashes ELSE ForceEven(hashes)

\* new: nodes[0] has the leaves, the last row only the root.
Nodes(items) ==
    LET height == Min({h \in 1..Len(items) : 2^h >= Len(items)})
        nodes[i \in 0..height] ==
            IF i = 0 THEN ForceEven([j \in DOMAIN items |-> LeafHash(items[j])])
                     ELSE NextRow(nodes[i - 1])
    IN  nodes

EmptyHash == <<>>

Root(items) ==
    IF items = <<>> THEN EmptyHash
    ELSE LET nodes == Nodes(items) IN nodes[Max(DOMAIN nodes)][1]

\* find_hash_index: the first place of a hash that is in the row.
FindHashIndex(row, hash) == Min({i \in DOMAIN row : row[i] = hash})

Siblings(row, i) ==
    IF i % 2 = 1 THEN <<row[i], row[i + 1]>> ELSE <<row[i - 1], row[i]>>

\* path, for data that is one of the items, as handle_get_generic_withdrawal_entry
\* sends it: every sibling, and whether it is the left one.
Path(items, data) ==
    LET nodes == Nodes(items)
        index[i \in DOMAIN nodes] ==
            IF i = 0 THEN FindHashIndex(nodes[0], LeafHash(data))
            ELSE LET pair == Siblings(nodes[i - 1], index[i - 1])
                 IN  FindHashIndex(nodes[i], NodeHash(pair[1], pair[2]))
    IN  [i \in 1..Max(DOMAIN nodes) |->
            LET row == nodes[i - 1]
                pair == Siblings(row, index[i - 1])
            IN  IF row[index[i - 1]] = pair[1]
                THEN [hash |-> pair[2], isLeft |-> FALSE]
                ELSE [hash |-> pair[1], isLeft |-> TRUE]]

\* hash-help with create-node-hash.
HashHelp(curr, sibling) ==
    IF sibling.isLeft THEN NodeHash(sibling.hash, curr)
                      ELSE NodeHash(curr, sibling.hash)

\* check-withdrawal-hashes: the root that a leaf and its siblings lead to.
CalculatedRoot(data, siblings) == FoldLeft(HashHelp, LeafHash(data), siblings)

=============================================================================
