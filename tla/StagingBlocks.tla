--------------------------- MODULE StagingBlocks ---------------------------
(***************************************************************************)
(* Subnet blocks between their arrival and their acceptance (blocks.rs):   *)
(* the staging_blocks table, the chunk store with one file per block, and  *)
(* the headers of accepted blocks.  Rows are keyed like snapshots, by the  *)
(* L1 block whose sortition elected the block.  No block confirms          *)
(* microblocks.                                                            *)
(***************************************************************************)
EXTENDS SortitionTips

CONSTANTS
    ParentHash,     \* ParentHash[h]: header.parent_block of subnet block h
    Elections       \* the outcomes of the sortitions to consider

VARIABLES
    winner,     \* winner[b]: what L1 block b elects
    db,         \* the sortition DB
    invalid,    \* elected blocks that append_block rejects
    rows,       \* rows[b]: b's row in staging_blocks, or None
    file,       \* file[b]: what the chunk store has: none, data or empty
    headers     \* blocks in block_headers

stagingVars == <<rows, file, headers>>

StagingInit ==
    /\ winner \in Elections /\ db = NewDB
    /\ invalid \in SUBSET {b \in Blocks \ {Root} : winner[b] # None}
    /\ rows = [b \in Blocks |-> None]
    /\ file = [b \in Blocks |-> "none"]
    /\ headers = {Root}

\* header.total_work.work
BlockHeight[h \in DOMAIN ParentHash \union {First}] ==
    IF h = First THEN 0 ELSE 1 + BlockHeight[ParentHash[h]]

\* The parent hash in the header of the block b elects, and its snapshot.
ParentOf(b) == ParentHash[winner[b]]
ParentSnap(b) == SnapshotFor(winner, b, ParentOf(b))

Staged == {b \in Blocks : rows[b] # None}
Waiting == {b \in Staged : ~rows[b].processed /\ ~rows[b].orphaned}
Rejected == {b \in Staged : rows[b].processed /\ rows[b].orphaned}
Orphans == {b \in Staged : ~rows[b].processed /\ rows[b].orphaned}

\* Rows whose parent_anchored_block_hash is b's, on every L1 fork; and those
\* whose parent_consensus_hash is b's too.
ChildrenByHash(b) == {c \in Staged : ParentOf(c) = winner[b]}
Children(b) == {c \in Staged : ParentSnap(c) = b}

-----------------------------------------------------------------------------
\* process_new_anchored_block and preprocess_anchored_block go ahead: the
\* snapshot and that of the parent are known, and the block was not stored,
\* accepted or rejected before.
Acceptable(b) ==
    /\ b \in db.snaps \ {Root} /\ winner[b] # None
    /\ ParentSnap(b) # NoBlock
    /\ b \notin Waiting \union Orphans
    /\ file[b] = "none"

\* The parent is the boot block, or is in staging_blocks and was processed or
\* orphaned.
Attachable(b) ==
    \/ ParentOf(b) = First
    \/ ParentSnap(b) \in Staged \ Waiting

\* The rows after the UPDATE of "attachable" in S.
SetAttachable(S, x) ==
    [b \in Blocks |-> IF b \in S THEN [rows[b] EXCEPT !.attachable = x]
                                 ELSE rows[b]]

\* store_staging_block: the children of the hash have to wait for it.
StoreBlock(b) ==
    /\ rows' = [SetAttachable(ChildrenByHash(b), FALSE) EXCEPT
          ![b] = [attachable |-> Attachable(b), processed |-> FALSE,
                  orphaned |-> FALSE]]
    /\ file' = [file EXCEPT ![b] = "data"]
    /\ UNCHANGED headers

-----------------------------------------------------------------------------
\* Mutant: any accepted block with the parent's hash will do.
CanAttachByHash(b) == \E c \in headers : winner[c] = ParentOf(b)

\* find_next_staging_block: the parent is in the headers DB.
CanAttach(b) == ParentOf(b) = First \/ ParentSnap(b) \in headers

\* find_next_staging_block picks one of these at random.
Ready == {b \in Waiting : rows[b].attachable /\ CanAttach(b)}

\* Mutant: the children are not told.
AcceptLeavingChildren(b) ==
    /\ rows' = [rows EXCEPT ![b].processed = TRUE]
    /\ headers' = headers \union {b}
    /\ UNCHANGED file

\* set_block_processed with accept: the children of the hash may be attached.
Accept(b) ==
    /\ rows' = [SetAttachable(ChildrenByHash(b), TRUE) EXCEPT
          ![b].processed = TRUE]
    /\ headers' = headers \union {b}
    /\ UNCHANGED file

\* delete_orphaned_epoch_data: b is rejected, its children are orphaned.
OrphanRows(b) ==
    [c \in Blocks |->
        CASE c = b -> [attachable |-> FALSE, processed |-> TRUE,
                       orphaned |-> TRUE]
          [] c \in Children(b) -> [attachable |-> FALSE, processed |-> FALSE,
                                   orphaned |-> TRUE]
          [] OTHER -> rows[c]]

\* Mutant: a rejected block's file is kept.
RejectKeepingFile(b) ==
    /\ rows' = OrphanRows(b)
    /\ UNCHANGED <<file, headers>>

\* set_block_processed without accept, and the sweep of an orphan.
Reject(b) ==
    /\ rows' = OrphanRows(b)
    /\ file' = [file EXCEPT ![b] = "empty"]
    /\ UNCHANGED headers

-----------------------------------------------------------------------------
\* A block is accepted only on top of its accepted parent on its own L1 fork,
\* though staging_blocks.attachable is kept per block hash, across all forks:
\* in particular no descendant of a rejected block ever is.
AcceptedOnAccepted ==
    \A b \in headers \ {Root} :
        /\ ParentSnap(b) \in headers
        /\ b \notin invalid

=============================================================================
