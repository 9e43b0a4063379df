----------------------------- MODULE L1Indexer ------------------------------
(***************************************************************************)
(* The write side of the layer-1 indexer (db_indexer.rs): the L1 node      *)
(* POSTs its blocks to the observer (l1_observer.rs), a multi-threaded web *)
(* server; every request runs push_block, which                            *)
(*   - reads the canonical tip OUTSIDE any transaction,                    *)
(*   - decides whether the block is canonical and needs a reorg,           *)
(*   - in one SQLite transaction inserts the row and, for a reorg, walks   *)
(*     up from the new tip and then down from the old one.                 *)
(* Every loop iteration of process_reorg is a step, on the transaction's   *)
(* private copy of the marks; the commit publishes it.                     *)
(***************************************************************************)
EXTENDS BlockTree

CONSTANTS
    Handlers,   \* the server's concurrent request handlers
    InOrder     \* TRUE: L1 never skips the parent of a block it posts

ASSUME InOrderAssumption == InOrder \in BOOLEAN

VARIABLES
    stored,     \* block_index: hashes of the committed rows
    canonical,  \* block_index: committed rows with is_canonical = 1
    posting,    \* block the L1 node is posting, or NoBlock
    pc,         \* pc[h]: where handler h is in push_block
    block,      \* block[h]: new_block
    tip,        \* tip[h]: current_canonical_tip_opt
    work,       \* marks inside the open write transaction
    cursor,     \* up_cursor / down_cursor of process_reorg
    gca         \* greatest_common_ancestor

table == <<stored, canonical>>
tx == <<work, cursor, gca>>
vars == <<stored, canonical, posting, pc, block, tip, work, cursor, gca>>

\* A transaction's locals once it is over.
NoTransaction == work' = {} /\ cursor' = NoBlock /\ gca' = NoBlock

InTransaction(h) == pc[h] \in {"up", "down"}

TypeOK ==
    /\ stored \subseteq Blocks /\ canonical \subseteq stored
    /\ posting \in Blocks \union {NoBlock}
    /\ pc \in [Handlers -> {"idle", "insert", "up", "down", "ok", "failed"}]
    /\ block \in [Handlers -> Blocks \union {NoBlock}]
    /\ tip \in [Handlers -> Blocks \union {NoBlock}]
    /\ work \subseteq Blocks
    /\ cursor \in Blocks \union {NoBlock}
    /\ gca \in Blocks \union {NoBlock}

Init ==
    /\ stored = {} /\ canonical = {}
    /\ posting = NoBlock
    /\ pc = [h \in Handlers |-> "idle"]
    /\ block = [h \in Handlers |-> NoBlock]
    /\ tip = [h \in Handlers |-> NoBlock]
    /\ work = {} /\ cursor = NoBlock /\ gca = NoBlock

-----------------------------------------------------------------------------
(* The L1 node (external): posts one block at a time, first Root, and posts *)
(* it again until it gets a 200; the answer may be lost or late.            *)

Dispatch(b) ==
    /\ posting = NoBlock
    /\ stored = {} => b = Root
    /\ InOrder => b = Root \/ Parent[b] \in stored
    /\ posting' = b
    /\ UNCHANGED <<table, pc, block, tip, tx>>

\* The L1 node restarts, or stops retrying: the block may be missing here.
Abandon ==
    /\ posting # NoBlock
    /\ \A h \in Handlers : pc[h] = "idle"
    /\ posting' = NoBlock
    /\ UNCHANGED <<table, pc, block, tip, tx>>

-----------------------------------------------------------------------------
(* push_block, one action per database statement that others can observe.  *)

\* Mutant: the server acknowledges the block before push_block has stored it.
ReadTipAndAck(h) ==
    /\ pc[h] = "idle" /\ posting # NoBlock
    /\ pc' = [pc EXCEPT ![h] = "insert"]
    /\ block' = [block EXCEPT ![h] = posting]
    /\ tip' = [tip EXCEPT ![h] = TipOf(stored)]
    /\ posting' = NoBlock
    /\ UNCHANGED <<table, tx>>

\* handle_new_block starts and push_block reads the tip, with no transaction.
ReadTip(h) ==
    /\ pc[h] = "idle" /\ posting # NoBlock
    /\ pc' = [pc EXCEPT ![h] = "insert"]
    /\ block' = [block EXCEPT ![h] = posting]
    /\ tip' = [tip EXCEPT ![h] = TipOf(stored)]
    /\ UNCHANGED <<table, posting, tx>>

\* Mutant: a block above the tip is taken for its child.
NeedsReorgSameHeight(b, t) ==
    /\ t # NoBlock /\ Parent[b] # t
    /\ Better(b, t) /\ Height[b] # Height[t] + 1

NeedsReorg(b, t) == t # NoBlock /\ Parent[b] # t /\ Better(b, t)

IsCanonical(b, t) == t = NoBlock \/ Parent[b] = t \/ Better(b, t)

\* INSERT takes the write lock; header_hash is the primary key.
InsertDuplicate(h) ==
    /\ pc[h] = "insert" /\ \A g \in Handlers : ~InTransaction(g)
    /\ block[h] \in stored
    /\ pc' = [pc EXCEPT ![h] = "failed"]
    /\ UNCHANGED <<table, posting, block, tip, tx>>

\* INSERT and commit of a block that needs no reorg.
InsertAndCommit(h) ==
    /\ pc[h] = "insert" /\ \A g \in Handlers : ~InTransaction(g)
    /\ block[h] \notin stored
    /\ ~NeedsReorg(block[h], tip[h])
    /\ stored' = stored \union {block[h]}
    /\ canonical' = IF IsCanonical(block[h], tip[h])
                    THEN canonical \union {block[h]} ELSE canonical
    /\ pc' = [pc EXCEPT ![h] = "ok"]
    /\ UNCHANGED <<posting, block, tip, tx>>

\* INSERT of a new best tip on another branch; process_reorg begins.
InsertForReorg(h) ==
    /\ pc[h] = "insert" /\ \A g \in Handlers : ~InTransaction(g)
    /\ block[h] \notin stored
    /\ NeedsReorg(block[h], tip[h])
    /\ work' = canonical \union {block[h]}
    /\ cursor' = Parent[block[h]]
    /\ pc' = [pc EXCEPT ![h] = "up"]
    /\ UNCHANGED <<table, posting, block, tip, gca>>

\* Mutant: every UPDATE of step 1 commits at once (no transaction).
MarkAncestorAutocommit(h) ==
    /\ pc[h] = "up" /\ cursor \in stored \ work
    /\ canonical' = canonical \union {cursor}
    /\ work' = work \union {cursor}
    /\ cursor' = Parent[cursor]
    /\ UNCHANGED <<stored, posting, pc, block, tip, gca>>

\* Step 1, one iteration: mark an ancestor of the new tip.
MarkAncestor(h) ==
    /\ pc[h] = "up" /\ cursor \in stored \ work
    /\ work' = work \union {cursor}
    /\ cursor' = Parent[cursor]
    /\ UNCHANGED <<table, posting, pc, block, tip, gca>>

\* Step 1 ends at the first ancestor already marked.
FoundCommonAncestor(h) ==
    /\ pc[h] = "up" /\ cursor \in stored \intersect work
    /\ gca' = cursor
    /\ cursor' = tip[h]
    /\ pc' = [pc EXCEPT ![h] = "down"]
    /\ UNCHANGED <<table, posting, block, tip, work>>

\* Mutant: step 2 unmarks the common ancestor as well.
UnmarkInclusive(h) ==
    /\ pc[h] = "down" /\ cursor \in stored /\ cursor # Parent[gca]
    /\ work' = work \ {cursor}
    /\ cursor' = Parent[cursor]
    /\ UNCHANGED <<table, posting, pc, block, tip, gca>>

\* Mutant: step 2 never moves its cursor.
UnmarkInPlace(h) ==
    /\ pc[h] = "down" /\ cursor \in stored /\ cursor # gca
    /\ work' = work \ {cursor}
    /\ UNCHANGED <<table, posting, pc, block, tip, cursor, gca>>

\* Step 2, one iteration: unmark a block of the old branch.
UnmarkOldBranch(h) ==
    /\ pc[h] = "down" /\ cursor \in stored /\ cursor # gca
    /\ work' = work \ {cursor}
    /\ cursor' = Parent[cursor]
    /\ UNCHANGED <<table, posting, pc, block, tip, gca>>

\* Step 2 ends at the common ancestor; transaction.commit().
CommitReorg(h) ==
    /\ pc[h] = "down" /\ cursor = gca
    /\ stored' = stored \union {block[h]}
    /\ canonical' = work
    /\ pc' = [pc EXCEPT ![h] = "ok"]
    /\ NoTransaction
    /\ UNCHANGED <<posting, block, tip>>

\* get_header_for_hash finds no row: Err(MissingHeaders), and the transaction
\* is rolled back when it is dropped.
MissingHeaders(h) ==
    /\ InTransaction(h) /\ cursor \notin stored
    /\ pc' = [pc EXCEPT ![h] = "failed"]
    /\ NoTransaction
    /\ UNCHANGED <<table, posting, block, tip>>

\* handle_new_block answers 200 (the answer may be lost) or panics.
Finish(h, received) ==
    /\ pc[h] \in {"ok", "failed"}
    /\ pc' = [pc EXCEPT ![h] = "idle"]
    /\ posting' = IF pc[h] = "ok" /\ received /\ block[h] = posting
                  THEN NoBlock ELSE posting
    /\ block' = [block EXCEPT ![h] = NoBlock]
    /\ tip' = [tip EXCEPT ![h] = NoBlock]
    /\ UNCHANGED <<table, tx>>

\* The node stops: requests die and SQLite rolls the open transaction back.
Crash ==
    /\ \E h \in Handlers : pc[h] # "idle"
    /\ pc' = [h \in Handlers |-> "idle"]
    /\ block' = [h \in Handlers |-> NoBlock]
    /\ tip' = [h \in Handlers |-> NoBlock]
    /\ NoTransaction
    /\ UNCHANGED <<table, posting>>

-----------------------------------------------------------------------------

Push(h) == \/ InsertDuplicate(h) \/ InsertAndCommit(h) \/ InsertForReorg(h)
           \/ MarkAncestor(h) \/ FoundCommonAncestor(h)
           \/ UnmarkOldBranch(h) \/ CommitReorg(h) \/ MissingHeaders(h)

Next == \/ \E b \in Blocks : Dispatch(b)
        \/ Abandon
        \/ \E h \in Handlers : \/ ReadTip(h) \/ Push(h)
                               \/ \E received \in BOOLEAN : Finish(h, received)
        \/ Crash

Spec == Init /\ [][Next]_vars

\* A handler that can run does run: push_block is straight-line synchronous
\* code on a server thread.
FairSpec == Spec /\ \A h \in Handlers :
                       WF_vars(Push(h) \/ \E received \in BOOLEAN : Finish(h, received))

-----------------------------------------------------------------------------

(* "If 1, this block is on the path to the canonical chain tip.  If 0, it's *)
(* not" (BurnBlockIndexRow::is_canonical): whatever the interleaving of      *)
(* retried requests, crashes and reorgs, the committed marks are exactly the *)
(* path from the best stored header to the first one.                        *)
CanonicalMarks ==
    IF stored = {} THEN canonical = {} ELSE IsPathTo(canonical, TipOf(stored))

(* push_block decides on a tip it read before its transaction.  The decision *)
(* is never stale: when the row can still be inserted, the tip read is the   *)
(* tip the transaction finds.                                                *)
TipReadIsCurrent ==
    \A h \in Handlers :
        pc[h] \in {"insert", "up", "down"} /\ block[h] \notin stored
            => tip[h] = TipOf(stored)

(* If L1 never skips a parent, process_reorg never meets a missing header:   *)
(* the only push that fails is that of a block already stored.               *)
OnlyDuplicatesFail ==
    InOrder => \A h \in Handlers : pc[h] = "failed" => block[h] \in stored

(* push_block always answers: both walks of process_reorg terminate.         *)
PushTerminates == \A h \in Handlers : pc[h] # "idle" ~> pc[h] = "idle"

\* The promise to the readers: committed tables behave like CanonicalChain.
Chain == INSTANCE CanonicalChain WITH stored <- stored, canonical <- canonical

(* Every step of the indexer is a step of CanonicalChain on the committed    *)
(* tables or leaves them alone: a reorg becomes visible all at once.         *)
ImplementsCanonicalChain == Chain!Spec

=============================================================================
