--------------------------- MODULE SortitionTips ---------------------------
(***************************************************************************)
(* The subnet chain tip that the sortition DB memoizes on every snapshot   *)
(* (sortdb.rs): where it comes from when a snapshot is appended, and how   *)
(* it moves when a subnet block is accepted at the canonical burn tip.     *)
(* The two operations map the columns of a sortition DB to the new ones.   *)
(*                                                                         *)
(* A snapshot is known by its L1 block, and so is the subnet block it      *)
(* elects, which the code keys by consensus hash and block hash.  The same *)
(* block hash can win on two L1 forks: a commit transaction names its      *)
(* target tip, and both children of that tip may include it.               *)
(***************************************************************************)
EXTENDS BlockTree, FiniteSets, FiniteSetsExt

CONSTANTS
    First,      \* FIRST_STACKS_BLOCK_HASH, which Root "elects"
    None        \* a snapshot without a sortition

\* The L1 blocks that have a snapshot (snaps) and, for each L1 block b:
\*   winner      winning_stacks_block_hash
\*   height      stacks_block_height, once b's block is accepted
\*   arrival     arrival_index; 0 when b's block is not accepted
\*   memo        the canonical_stacks_tip_* columns
\*   pointer     the tip at which canonical_accepted_stacks_blocks has b's
\*               block, or NoBlock
\*   index       hashes under stacks_block_index in b's MARF
\*   maxArrival  max_arrival_index in b's MARF
NewDB ==
    [snaps |-> {Root},
     winner |-> [b \in Blocks |-> IF b = Root THEN First ELSE None],
     height |-> [b \in Blocks |-> 0],
     arrival |-> [b \in Blocks |-> 0],
     memo |-> [b \in Blocks |-> Root],
     pointer |-> [b \in Blocks |-> NoBlock],
     index |-> [b \in Blocks |-> {}],
     maxArrival |-> [b \in Blocks |-> 0]]

\* get_block_snapshot_for_winning_stacks_block: the last snapshot of b's fork
\* that elected hash h, or NoBlock.
SnapshotFor(winner, b, h) == TipOf({c \in Ancestry[b] : winner[c] = h})

-----------------------------------------------------------------------------
LastArrival(db) == Max({db.arrival[b] : b \in Blocks})

\* Mutant: the newest arrival is left to the next snapshot.
NewArrivalsButLast(db, p) ==
    {c \in Ancestry[p] : /\ db.arrival[c] > 0
                         /\ db.arrival[c] >= db.maxArrival[p]
                         /\ db.arrival[c] < LastArrival(db)}

\* Blocks of p's fork accepted since p's snapshot was made.
NewArrivals(db, p) ==
    {c \in Ancestry[p] : /\ db.arrival[c] > 0
                         /\ db.arrival[c] >= db.maxArrival[p]
                         /\ db.arrival[c] <= LastArrival(db)}

\* process_new_block_arrivals: the first to arrive of the highest arrivals, if
\* it is higher than the tip memoized on p.
BestTip(db, p) ==
    LET new == NewArrivals(db, p)
        top == {c \in new : \A d \in new : db.height[d] <= db.height[c]}
    IN  IF \E c \in new : db.height[c] > db.height[db.memo[p]]
        THEN CHOOSE c \in top : \A d \in top : db.arrival[c] <= db.arrival[d]
        ELSE db.memo[p]

\* append_chain_tip_snapshot of b, which elects hash h, on the parent's.
AppendSnapshot(db, b, h) ==
    LET p == Parent[b] IN
    [db EXCEPT
        !.snaps = @ \union {b},
        !.winner[b] = h,
        !.memo[b] = BestTip(db, p),
        !.index[b] = db.index[p] \union
                         {db.winner[c] : c \in NewArrivals(db, p)},
        !.maxArrival[b] = LastArrival(db)]

-----------------------------------------------------------------------------
\* Rows of canonical_accepted_stacks_blocks for tip t and hash h.
Pointers(db, t, h) == {c \in Blocks : db.pointer[c] = t /\ db.winner[c] = h}

\* The hash of the tip memoized on t is h; nothing says that this tip, or the
\* block that extends it, was elected on the fork of t.
IsMemo(db, t, h) == db.winner[db.memo[t]] = h

\* A block with hash h was accepted at tip t, or before t's snapshot was made.
KnownAt(db, t, h) == Pointers(db, t, h) # {} \/ h \in db.index[t]

\* Mutant: only blocks that build on the tip's fork are marked as accepted.
SetAcceptedOnFork(db, t, b, parent, height) ==
    IF IsMemo(db, t, parent)
    THEN [db EXCEPT !.height[b] = height, !.arrival[b] = LastArrival(db) + 1,
                    !.memo[t] = b, !.pointer[b] = t]
    ELSE IF KnownAt(db, t, parent)
    THEN [db EXCEPT !.height[b] = height, !.arrival[b] = LastArrival(db) + 1,
                    !.memo[t] = IF height > db.height[@] THEN b ELSE @,
                    !.pointer[b] = t]
    ELSE db

\* set_stacks_block_accepted_at_tip, for the block b elects.
SetAccepted(db, t, b, parent, height) ==
    LET marked == [db EXCEPT !.height[b] = height,
                             !.arrival[b] = LastArrival(db) + 1]
    IN  IF IsMemo(db, t, parent)
        THEN [marked EXCEPT !.memo[t] = b, !.pointer[b] = t]
        ELSE IF KnownAt(db, t, parent)
        THEN [marked EXCEPT
                 !.memo[t] = IF height > db.height[@] THEN b ELSE @,
                 !.pointer[b] = t]
        ELSE marked

\* The lookup of the parent's pointer panics when it finds two rows.
PointerLookupPanics(db, t, parent) ==
    ~IsMemo(db, t, parent) /\ Cardinality(Pointers(db, t, parent)) > 1

=============================================================================
