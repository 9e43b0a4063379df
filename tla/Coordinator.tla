---------------------------- MODULE Coordinator ----------------------------
(***************************************************************************)
(* The chains coordinator thread (coordinator/mod.rs), the signals that    *)
(* drive it (comm.rs), the threads that store subnet blocks and announce   *)
(* them (relay.rs, neon_node.rs), and crashes of the node, over the        *)
(* sortition DB and the staging blocks.                                    *)
(***************************************************************************)
EXTENDS StagingBlocks, Sequences, SequencesExt

CONSTANTS
    MaxInvalid,     \* bound on the invalid blocks among the elected
    MaxCrashes      \* bound on crashes of the node

VARIABLES
    l1,         \* L1 blocks in the burnchain DB
    signals,    \* the signal bools that are set: burn, stacks
    unannounced,\* blocks were stored and not announced yet
    pc,         \* where the coordinator is: wait, burn, ready, sort, sweep
    todo,       \* sortitions_to_process
    tip,        \* canonical_sortition_tip
    cur,        \* block that process_blocks accepted, or NoBlock
    rejecting,  \* the last call of process_blocks rejected a block
    torn,       \* blocks that a crash left half-stored, -accepted or -rejected
    crashes

elections == <<winner, invalid>>
coordVars == <<pc, todo, tip, cur, rejecting>>
vars == <<elections, db, stagingVars, l1, signals, unannounced,
          coordVars, torn, crashes>>

Init ==
    /\ StagingInit /\ Cardinality(invalid) <= MaxInvalid
    /\ l1 = {Root} /\ signals = {"burn"} /\ unannounced = FALSE
    /\ pc = "wait" /\ todo = <<>> /\ tip = Root
    /\ cur = NoBlock /\ rejecting = FALSE
    /\ torn = {} /\ crashes = 0

-----------------------------------------------------------------------------
\* Burnchain thread: a block of some L1 fork is stored and announced.
NewL1Block(b) ==
    /\ b \notin l1 /\ Parent[b] \in l1
    /\ l1' = l1 \union {b}
    /\ signals' = signals \union {"burn"}
    /\ UNCHANGED <<elections, db, stagingVars, unannounced,
                   coordVars, torn, crashes>>

\* Relayer, p2p or miner thread: a block arrives and is staged.
ReceiveBlock(b) ==
    /\ Acceptable(b)
    /\ StoreBlock(b)
    /\ unannounced' = TRUE
    /\ UNCHANGED <<elections, db, l1, signals, coordVars, torn,
                   crashes>>

\* announce_new_stacks_block, once for all blocks of a network result.
Announce ==
    /\ unannounced
    /\ unannounced' = FALSE
    /\ signals' = signals \union {"stacks"}
    /\ UNCHANGED <<elections, db, stagingVars, l1, coordVars,
                   torn, crashes>>

-----------------------------------------------------------------------------
\* handle_new_burnchain_block: the ancestors of the canonical L1 tip that have
\* no snapshot, lowest first.
Unprocessed ==
    SetToSortSeq(Ancestry[TipOf(l1)] \ db.snaps,
                 LAMBDA b, c : Height[b] < Height[c])

\* wait_on: a burn block goes before subnet blocks.
HandleBurnBlock ==
    /\ pc = "wait" /\ "burn" \in signals
    /\ signals' = signals \ {"burn"}
    /\ todo' = Unprocessed
    /\ pc' = IF Unprocessed = <<>> THEN "wait" ELSE "burn"
    /\ UNCHANGED <<elections, db, stagingVars, l1, unannounced,
                   tip, cur, rejecting, torn, crashes>>

HandleStacksBlock ==
    /\ pc = "wait" /\ signals = {"stacks"}
    /\ signals' = {}
    /\ pc' = "ready"
    /\ UNCHANGED <<elections, db, stagingVars, l1, unannounced,
                   todo, tip, cur, rejecting, torn, crashes>>

EvaluateSortition ==
    /\ pc = "burn"
    /\ db' = AppendSnapshot(db, Head(todo), winner[Head(todo)])
    /\ tip' = Head(todo) /\ todo' = Tail(todo)
    /\ pc' = "ready"
    /\ UNCHANGED <<elections, stagingVars, l1, signals, unannounced,
                   cur, rejecting, torn, crashes>>

\* process_blocks(handle, 1): process_next_staging_block up to the commit of
\* the chainstate transaction.  Instead of this the thread panics, and takes no
\* further step, on a block whose file is empty, and when set_block_processed
\* finds two pointers for the parent.
AcceptBlock ==
    /\ pc = "ready"
    /\ \E b \in Ready \ invalid :
          /\ file[b] = "data" /\ ~PointerLookupPanics(db, tip, ParentOf(b))
          /\ Accept(b) /\ cur' = b
    /\ rejecting' = FALSE
    /\ pc' = "sort"
    /\ UNCHANGED <<elections, db, l1, signals, unannounced, todo,
                   tip, torn, crashes>>

RejectBlock ==
    /\ pc = "ready"
    /\ \E b \in Ready \intersect invalid : file[b] = "data" /\ Reject(b)
    /\ cur' = NoBlock /\ rejecting' = TRUE
    /\ pc' = "sweep"
    /\ UNCHANGED <<elections, db, l1, signals, unannounced, todo,
                   tip, torn, crashes>>

NothingReady ==
    /\ pc = "ready" /\ Ready = {}
    /\ cur' = NoBlock /\ rejecting' = FALSE
    /\ pc' = "sweep"
    /\ UNCHANGED <<elections, db, stagingVars, l1, signals,
                   unannounced, todo, tip, torn, crashes>>

\* ... the commit of the sortition transaction, which nothing reads before.
CommitSortition ==
    /\ pc = "sort"
    /\ db' = SetAccepted(db, tip, cur, ParentOf(cur), BlockHeight[winner[cur]])
    /\ pc' = "sweep"
    /\ UNCHANGED <<elections, stagingVars, l1, signals, unannounced,
                   todo, tip, cur, rejecting, torn, crashes>>

\* Mutant: process_ready_blocks makes only one call.
AgainOnce == FALSE

\* process_ready_blocks calls process_blocks again as long as it accepts.
Again == cur # NoBlock

\* At the end of process_blocks one orphan, picked at random, is swept.
SweepOrphan ==
    /\ pc = "sweep"
    /\ \/ \E b \in Orphans : Reject(b)
       \/ Orphans = {} /\ UNCHANGED stagingVars
    /\ pc' = CASE Again -> "ready"
               [] ~Again /\ todo # <<>> -> "burn"
               [] OTHER -> "wait"
    /\ cur' = NoBlock
    /\ UNCHANGED <<elections, db, l1, signals, unannounced, todo,
                   tip, rejecting, torn, crashes>>

-----------------------------------------------------------------------------
\* The node stops and starts again: what was not committed is lost, and the
\* run loop announces a burn block so that the coordinator catches up.  In
\* "sort" the chainstate is committed and the sortition DB is not.
Restart(hit) ==
    /\ crashes < MaxCrashes
    /\ crashes' = crashes + 1
    /\ torn' = torn \union hit \union (IF pc = "sort" THEN {cur} ELSE {})
    /\ signals' = {"burn"} /\ unannounced' = FALSE
    /\ pc' = "wait" /\ todo' = <<>> /\ tip' = TipOf(db.snaps)
    /\ cur' = NoBlock /\ rejecting' = FALSE
    /\ UNCHANGED <<elections, db, rows, headers, l1>>

Crash == Restart({}) /\ UNCHANGED file

\* The chunk store is not part of the transaction that writes staging_blocks.
CrashWhileStoring(b) ==
    /\ Acceptable(b)
    /\ file' = [file EXCEPT ![b] = "data"]
    /\ Restart({b})

CrashWhileRejecting(b) ==
    /\ \/ pc = "ready" /\ b \in Ready \intersect invalid
       \/ pc = "sweep" /\ b \in Orphans
    /\ file' = [file EXCEPT ![b] = "empty"]
    /\ Restart({b})

CoordinatorStep ==
    \/ HandleBurnBlock \/ HandleStacksBlock \/ EvaluateSortition
    \/ AcceptBlock \/ RejectBlock \/ NothingReady
    \/ CommitSortition \/ SweepOrphan

Next ==
    \/ \E b \in Blocks : NewL1Block(b) \/ ReceiveBlock(b)
    \/ Announce
    \/ CoordinatorStep
    \/ Crash
    \/ \E b \in Blocks : CrashWhileStoring(b) \/ CrashWhileRejecting(b)

Spec == Init /\ [][Next]_vars

\* While a thread can step or a peer has a block to offer, one of them does.
ThreadStep == \/ CoordinatorStep \/ Announce
              \/ \E b \in Blocks : ReceiveBlock(b)

FairSpec == Spec /\ WF_vars(ThreadStep)

-----------------------------------------------------------------------------
\* The tip memoized on a new snapshot is an accepted block (or the boot block),
\* and none that was accepted on its fork by then is higher, whichever tip the
\* others were accepted at (process_new_block_arrivals catches up with them).
TipCoversFork ==
    \A b \in db.snaps \ {Root} :
        /\ db.memo[b] = Root \/ db.arrival[db.memo[b]] > 0
        /\ \A c \in Ancestry[Parent[b]] :
              db.arrival[c] \in 1..db.maxArrival[b] =>
                  db.height[c] <= db.height[db.memo[b]]

\* The sortition DB marks a block as accepted exactly when the chainstate has
\* its header, except for the block whose acceptance a crash cut in two: the
\* two databases are committed one after the other, and the block is not
\* processed again.
AcceptedInBoth ==
    pc # "sort" =>
        \A b \in Blocks \ (torn \union {Root}) :
            b \in headers <=> db.arrival[b] > 0

\* Blocks that wait or were accepted have their data, rejected blocks an empty
\* file that keeps them from being stored again, and others no file, except
\* for blocks that a crash hit: a file without a row is never replaced.
FilesMatchRows ==
    \A b \in Blocks \ torn :
        file[b] = CASE b \in Rejected -> "empty"
                    [] b \in Staged \ Rejected -> "data"
                    [] OTHER -> "none"

\* When the coordinator goes back to waiting with nothing announced, it has
\* processed every block it could; only the rejection of a block makes
\* process_ready_blocks stop early.
DrainsReady ==
    pc = "wait" /\ signals = {} /\ ~unannounced /\ crashes = 0 =>
        Ready = {} \/ rejecting

\* Blocks that win and whose ancestors all won on the same L1 fork.
Deliverable[b \in Blocks] ==
    \/ b = Root
    \/ /\ winner[b] # None
       /\ ParentSnap(b) # NoBlock
       /\ Deliverable[ParentSnap(b)]

\* Without invalid blocks, crashes and the panic, every block that won a
\* sortition the node processed is in the end accepted, in whatever order the blocks of
\* the forks arrive and however the signals to the coordinator coalesce.
WinnersAccepted ==
    <>[](\/ invalid # {} \/ crashes > 0
         \/ \E b \in Ready : PointerLookupPanics(db, tip, ParentOf(b))
         \/ \A b \in db.snaps : Deliverable[b] => b \in headers)

=============================================================================
