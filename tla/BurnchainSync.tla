--------------------------- MODULE BurnchainSync ----------------------------
(***************************************************************************)
(* The read side of the layer-1 chain.  The run loop's burnchain thread    *)
(* copies the blocks the indexer marks canonical into the burnchain DB     *)
(* (sync_with_indexer); the chains coordinator turns them into sortition   *)
(* snapshots (handle_new_burnchain_block); the node restarts.  The indexer *)
(* is CanonicalChain, which L1Indexer is proved to implement: it commits   *)
(* between any two of the sync thread's statements.                        *)
(*                                                                         *)
(* Root stands both for the first L1 block and for the placeholder row of  *)
(* the burnchain DB and the first snapshot, which are its image there.     *)
(***************************************************************************)
EXTENDS BlockTree

CONSTANTS
    CycleLength,    \* pox_constants.reward_cycle_length
    MaxRestarts,    \* how often the node restarts
    CrashPoints,    \* values of pc at which it may stop
    QuietPhases     \* values of pc during which no L1 block arrives

Phases == {"start", "detect", "height", "walk", "save", "plan", "read",
           "pipeline", "wait"}

ASSUME SyncAssumption ==
    /\ CycleLength \in Nat \ {0}
    /\ MaxRestarts \in Nat
    /\ CrashPoints \subseteq Phases /\ QuietPhases \subseteq Phases

VARIABLES
    stored, canonical,  \* the indexer's tables (CanonicalChain)
    cursor,             \* burnchain_cursor: the tip find_chain_reorg saw last
    burnDB,             \* burnchain_db_block_headers
    snapshots,          \* sortition DB: burn blocks with a snapshot
    booted,             \* the run loop is past wait_for_sortitions(None)
    pc,                 \* where the burnchain thread is in receive_blocks
    walk,               \* cursor of find_first_canonical_ancestor
    headersHeight,      \* headers_height of sync_reorg
    reorgHeight,        \* result of find_chain_reorg
    startBlock, endBlock,   \* the interval to download
    pending,            \* headers fed to the downloader, not yet stored
    lastProcessed,      \* last_processed
    burnchainHeight,    \* burnchain_height of the run loop
    newBurnBlock,       \* SignalBools.new_burn_block
    coPc,               \* where the coordinator is
    coCursor,           \* its cursor
    toProcess,          \* sortitions_to_process
    coTip,              \* canonical_sortition_tip
    restarts            \* restarts so far

headers == <<stored, canonical>>
coordinator == <<snapshots, coPc, coCursor, toProcess, coTip>>
detection == <<walk, headersHeight, reorgHeight>>
runLoop == <<booted, burnchainHeight>>
download == <<startBlock, endBlock, pending, lastProcessed, burnDB, newBurnBlock>>
vars == <<headers, cursor, pc, detection, download, runLoop, coordinator, restarts>>

Heights == {0} \union {Height[b] : b \in Blocks}

TypeOK ==
    /\ stored \subseteq Blocks /\ canonical \subseteq stored
    /\ cursor \in stored \union {NoBlock}
    /\ burnDB \subseteq stored \union {Root} /\ Root \in burnDB
    /\ snapshots \subseteq burnDB /\ Root \in snapshots
    /\ booted \in BOOLEAN /\ newBurnBlock \in BOOLEAN
    /\ pc \in Phases
    /\ walk \in Blocks \union {NoBlock}
    /\ headersHeight \in Heights /\ reorgHeight \in Heights
    /\ startBlock \in Heights /\ endBlock \in Heights
    /\ pending \subseteq stored /\ lastProcessed \in burnDB
    /\ burnchainHeight \in Nat
    /\ coPc \in {"down", "idle", "walk", "process"}
    /\ coCursor \in Blocks /\ toProcess \subseteq burnDB /\ coTip \in snapshots
    /\ restarts \in 0..MaxRestarts

Init ==
    /\ stored = {} /\ canonical = {} /\ cursor = NoBlock
    /\ burnDB = {Root} /\ snapshots = {Root}
    /\ booted = FALSE /\ pc = "start" /\ burnchainHeight = 0
    /\ walk = NoBlock /\ headersHeight = 0 /\ reorgHeight = 0
    /\ startBlock = 0 /\ endBlock = 0
    /\ pending = {} /\ lastProcessed = Root
    /\ newBurnBlock = FALSE
    /\ coPc = "down" /\ coCursor = Root /\ toProcess = {} /\ coTip = Root
    /\ restarts = 0

-----------------------------------------------------------------------------
(* The indexer, as its readers see it. *)

Chain == INSTANCE CanonicalChain

\* L1 posts every block after its parent.
AddHeader(b) ==
    /\ b = Root \/ Parent[b] \in stored
    /\ pc \notin QuietPhases
    /\ Chain!Add(b)
    /\ UNCHANGED <<cursor, pc, detection, download, runLoop, coordinator, restarts>>

HighestHeader == IF stored = {} THEN Height[Root] ELSE Height[TipOf(stored)]

-----------------------------------------------------------------------------
(* sync_reorg and find_chain_reorg, one action per query of the indexer.   *)

\* get_highest_header_height in sync_reorg.
BeginSync ==
    /\ pc = "start" /\ pc' = "detect"
    /\ headersHeight' = HighestHeader
    /\ UNCHANGED <<headers, cursor, walk, reorgHeight, download, runLoop,
                   coordinator, restarts>>

\* is_canonical(last_canonical_tip).
CheckCursor ==
    /\ pc = "detect"
    /\ pc' = IF cursor = NoBlock \/ cursor \in canonical THEN "height" ELSE "walk"
    /\ walk' = cursor
    /\ UNCHANGED <<headers, cursor, headersHeight, reorgHeight, download, runLoop,
                   coordinator, restarts>>

\* No reorg: the result is the highest height.
NoReorg ==
    /\ pc = "height" /\ pc' = "save"
    /\ reorgHeight' = HighestHeader
    /\ UNCHANGED <<headers, cursor, walk, headersHeight, download, runLoop,
                   coordinator, restarts>>

\* An iteration of find_first_canonical_ancestor that goes on.
WalkBack ==
    /\ pc = "walk" /\ walk \notin canonical
    /\ walk' = Parent[walk]
    /\ UNCHANGED <<headers, cursor, pc, headersHeight, reorgHeight, download,
                   runLoop, coordinator, restarts>>

\* The iteration that returns.
FoundAncestor ==
    /\ pc = "walk" /\ walk \in canonical
    /\ pc' = "save"
    /\ reorgHeight' = Height[walk]
    /\ UNCHANGED <<headers, cursor, walk, headersHeight, download, runLoop,
                   coordinator, restarts>>

\* set_last_canonical_chain_tip.
SaveCursor ==
    /\ pc = "save" /\ pc' = "plan"
    /\ cursor' = IF stored = {} THEN cursor ELSE TipOf(stored)
    /\ UNCHANGED <<headers, detection, download, runLoop, coordinator, restarts>>

-----------------------------------------------------------------------------
(* The rest of sync_with_indexer and receive_blocks. *)

Lower(a, b) == IF a < b THEN a ELSE b

\* Only this thread writes the burnchain DB, and not before the pipeline runs.
DbHeight == Height[TipOf(burnDB)]

\* While booting, up to one block above the burnchain DB; then one block more
\* than the run loop has seen.
Target == IF booted THEN burnchainHeight + 1 ELSE DbHeight + 1

\* Mutant: the sync resumes at the DB's height, reorg or not.
PlanFromDatabase ==
    /\ pc = "plan"
    /\ startBlock' = DbHeight
    /\ endBlock' = IF DbHeight < Target /\ Target < HighestHeader
                   THEN Target ELSE HighestHeader
    /\ pc' = IF DbHeight = endBlock' THEN "wait" ELSE "read"
    /\ lastProcessed' = TipOf(burnDB)
    /\ walk' = NoBlock /\ headersHeight' = 0 /\ reorgHeight' = 0
    /\ UNCHANGED <<headers, cursor, pending, burnDB, newBurnBlock, runLoop,
                   coordinator, restarts>>

\* Mutant: the target is not compared with the start of the interval.
PlanToTarget ==
    LET start == Lower(DbHeight, Lower(reorgHeight, headersHeight))
        end == Lower(Target, HighestHeader)
    IN  /\ pc = "plan"
        /\ startBlock' = start /\ endBlock' = end
        /\ pc' = IF start = DbHeight /\ DbHeight = end THEN "wait" ELSE "read"
        /\ lastProcessed' = TipOf(burnDB)
        /\ walk' = NoBlock /\ headersHeight' = 0 /\ reorgHeight' = 0
        /\ UNCHANGED <<headers, cursor, pending, burnDB, newBurnBlock, runLoop,
                       coordinator, restarts>>

\* sync_reorg's verdict, sync_headers, and the interval to download.  After a
\* reorg to a shorter chain the code waits for more headers.
Plan ==
    LET didReorg == reorgHeight < headersHeight
        start == Lower(DbHeight, Lower(reorgHeight, headersHeight))
        end == IF start < Target /\ Target < HighestHeader
               THEN Target ELSE HighestHeader
    IN  /\ pc = "plan"
        /\ didReorg => HighestHeader >= DbHeight
        /\ startBlock' = start /\ endBlock' = end
        /\ pc' = IF start = DbHeight /\ DbHeight = end THEN "wait" ELSE "read"
        /\ lastProcessed' = TipOf(burnDB)
        /\ walk' = NoBlock /\ headersHeight' = 0 /\ reorgHeight' = 0
        /\ UNCHANGED <<headers, cursor, pending, burnDB, newBurnBlock, runLoop,
                       coordinator, restarts>>

\* Mutant: the range excludes the end block.
ReadHeadersBelowEnd ==
    /\ pc = "read" /\ pc' = "pipeline"
    /\ pending' = {b \in canonical : startBlock < Height[b] /\ Height[b] < endBlock}
    /\ UNCHANGED <<headers, cursor, detection, startBlock, endBlock, lastProcessed,
                   burnDB, newBurnBlock, runLoop, coordinator, restarts>>

\* read_headers(start_block + 1, end_block + 1).
ReadHeaders ==
    /\ pc = "read" /\ pc' = "pipeline"
    /\ pending' = {b \in canonical : startBlock < Height[b] /\ Height[b] <= endBlock}
    /\ UNCHANGED <<headers, cursor, detection, startBlock, endBlock, lastProcessed,
                   burnDB, newBurnBlock, runLoop, coordinator, restarts>>

Lowest(S) == CHOOSE b \in S : \A c \in S : Height[b] <= Height[c]

\* Mutant: the block is announced and not stored.
AnnounceBlock ==
    LET b == Lowest(pending)
    IN  /\ pc = "pipeline" /\ pending # {}
        /\ newBurnBlock' = TRUE
        /\ lastProcessed' = b
        /\ pending' = pending \ {b}
        /\ UNCHANGED <<headers, cursor, pc, detection, startBlock, endBlock, burnDB,
                       runLoop, coordinator, restarts>>

\* The downloader, parser and DB threads hand the headers over in order;
\* process_block stores the next one, or finds it, and announces it.
StoreBlock ==
    LET b == Lowest(pending)
    IN  /\ pc = "pipeline" /\ pending # {}
        /\ burnDB' = burnDB \union {b}
        /\ newBurnBlock' = TRUE
        /\ lastProcessed' = b
        /\ pending' = pending \ {b}
        /\ UNCHANGED <<headers, cursor, pc, detection, startBlock, endBlock,
                       runLoop, coordinator, restarts>>

\* The threads are joined; TrySyncAgain if the last block is too low.
EndSync ==
    /\ pc = "pipeline" /\ pending = {}
    /\ pc' = IF Height[lastProcessed] < endBlock THEN "start" ELSE "wait"
    /\ UNCHANGED <<headers, cursor, detection, download, runLoop, coordinator,
                   restarts>>

\* wait_for_sortitions, with no height to wait for while booting.
Caught == LET tip == Height[TipOf(snapshots)]
          IN  \/ DbHeight = tip
              \/ booted /\ tip >= Height[lastProcessed]

\* reward_cycle_to_block_height(block_height_to_reward_cycle(h)).
CycleStart(h) ==
    Height[Root] + ((h - Height[Root]) \div CycleLength) * CycleLength + 1

\* The sortitions are there: the run loop moves on.  It starts at the first
\* block of the reward cycle of the canonical subnet tip's snapshot.
FinishSync ==
    /\ pc = "wait" /\ coPc # "down" /\ Caught
    /\ pc' = "start"
    /\ booted' = TRUE
    /\ IF booted
       THEN burnchainHeight' = Lower(burnchainHeight + 1, HighestHeader)
       ELSE \E s \in snapshots : burnchainHeight' = CycleStart(Height[s])
    /\ startBlock' = 0 /\ endBlock' = 0 /\ lastProcessed' = Root
    /\ UNCHANGED <<headers, cursor, detection, pending, burnDB, newBurnBlock,
                   coordinator, restarts>>

\* Not yet: sleep and look again.
Poll == pc = "wait" /\ coPc # "down" /\ ~Caught /\ UNCHANGED vars

Sync == \/ BeginSync \/ CheckCursor \/ NoReorg \/ WalkBack \/ FoundAncestor
        \/ SaveCursor \/ Plan \/ ReadHeaders \/ StoreBlock \/ EndSync
        \/ FinishSync \/ Poll

-----------------------------------------------------------------------------
(* The chains coordinator. *)

\* Spawned after the boot sync, and told to resume prior work.
SpawnCoordinator ==
    /\ coPc = "down" /\ pc = "wait"
    /\ coPc' = "idle"
    /\ coTip' = TipOf(snapshots)
    /\ newBurnBlock' = TRUE
    /\ UNCHANGED <<headers, cursor, pc, detection, startBlock, endBlock, pending,
                   lastProcessed, burnDB, runLoop, snapshots, coCursor, toProcess,
                   restarts>>

\* wait_on takes the signal; handle_new_burnchain_block starts at the DB's tip.
Wake ==
    /\ coPc = "idle" /\ newBurnBlock
    /\ newBurnBlock' = FALSE
    /\ coPc' = "walk"
    /\ coCursor' = TipOf(burnDB)
    /\ UNCHANGED <<headers, cursor, pc, detection, startBlock, endBlock, pending,
                   lastProcessed, burnDB, runLoop, snapshots, toProcess, coTip,
                   restarts>>

\* The search for a processed ancestor, one block at a time.  (The children of
\* the first block end it at the first snapshot, here Root.)
QueueAncestor ==
    /\ coPc = "walk" /\ coCursor \in burnDB \ snapshots
    /\ toProcess' = toProcess \union {coCursor}
    /\ coCursor' = Parent[coCursor]
    /\ UNCHANGED <<headers, cursor, pc, detection, download, runLoop, snapshots,
                   coPc, coTip, restarts>>

FoundProcessed ==
    /\ coPc = "walk" /\ coCursor \in snapshots
    /\ coPc' = "process"
    /\ UNCHANGED <<headers, cursor, pc, detection, download, runLoop, snapshots,
                   coCursor, toProcess, coTip, restarts>>

\* Mutant: the queued blocks are processed although one is missing.
ProcessAnyway ==
    /\ coPc = "walk" /\ coCursor \notin burnDB
    /\ coPc' = "process"
    /\ UNCHANGED <<headers, cursor, pc, detection, download, runLoop, snapshots,
                   coCursor, toProcess, coTip, restarts>>

\* Err(NonContiguousBurnchainBlock): logged, and nothing is processed.
NonContiguous ==
    /\ coPc = "walk" /\ coCursor \notin burnDB
    /\ coPc' = "idle" /\ coCursor' = Root /\ toProcess' = {}
    /\ UNCHANGED <<headers, cursor, pc, detection, download, runLoop, snapshots,
                   coTip, restarts>>

\* Mutant: the canonical tip stays behind.
ProcessWithoutBump ==
    LET b == Lowest(toProcess)
    IN  /\ coPc = "process" /\ toProcess # {}
        /\ snapshots' = snapshots \union {b}
        /\ toProcess' = toProcess \ {b}
        /\ UNCHANGED <<headers, cursor, pc, detection, download, runLoop, coPc,
                       coCursor, coTip, restarts>>

\* evaluate_sortition of the next block, and the canonical tip moves to it.
ProcessSortition ==
    LET b == Lowest(toProcess)
    IN  /\ coPc = "process" /\ toProcess # {}
        /\ snapshots' = snapshots \union {b}
        /\ coTip' = b
        /\ toProcess' = toProcess \ {b}
        /\ UNCHANGED <<headers, cursor, pc, detection, download, runLoop, coPc,
                       coCursor, restarts>>

EndHandle ==
    /\ coPc = "process" /\ toProcess = {}
    /\ coPc' = "idle" /\ coCursor' = Root
    /\ UNCHANGED <<headers, cursor, pc, detection, download, runLoop, snapshots,
                   toProcess, coTip, restarts>>

Coordinate == \/ SpawnCoordinator \/ Wake \/ QueueAncestor \/ FoundProcessed
              \/ NonContiguous \/ ProcessSortition \/ EndHandle

-----------------------------------------------------------------------------

\* The node stops and starts again: the databases stay, memory is lost.
Restart ==
    /\ restarts < MaxRestarts /\ pc \in CrashPoints
    /\ restarts' = restarts + 1
    /\ pc' = "start" /\ booted' = FALSE /\ burnchainHeight' = 0
    /\ walk' = NoBlock /\ headersHeight' = 0 /\ reorgHeight' = 0
    /\ startBlock' = 0 /\ endBlock' = 0 /\ pending' = {} /\ lastProcessed' = Root
    /\ newBurnBlock' = FALSE
    /\ coPc' = "down" /\ coCursor' = Root /\ toProcess' = {} /\ coTip' = Root
    /\ UNCHANGED <<headers, cursor, burnDB, snapshots>>

Next == (\E b \in Blocks : AddHeader(b)) \/ Sync \/ Coordinate \/ Restart

Spec == Init /\ [][Next]_vars

\* Both threads loop without blocking each other: they run when they can.
FairSpec == Spec /\ WF_vars(Sync) /\ WF_vars(Coordinate)

-----------------------------------------------------------------------------

(* Whenever a sync begins, a canonical block that the burnchain DB has grown *)
(* past without storing it is still going to be fetched: the cursor is off   *)
(* the canonical chain, and find_chain_reorg goes back below that block.     *)
ReorgsAreNoticed ==
    pc = "start" =>
        \A b \in canonical \ burnDB :
            Height[b] <= DbHeight =>
                cursor \notin canonical \union {NoBlock} /\ b \notin Ancestry[cursor]

(* handle_new_burnchain_block gives every snapshot a processed parent: no    *)
(* sortition is evaluated on a fork with a hole, whatever sync and restarts  *)
(* do.                                                                       *)
SnapshotsContiguous == \A b \in snapshots : b = Root \/ Parent[b] \in snapshots

(* Between two events the coordinator's canonical_sortition_tip, in memory,  *)
(* is the tip the sortition DB reports to everybody else.                    *)
CoordinatorTipIsCanonical == coPc = "idle" => coTip = TipOf(snapshots)

(* The indexer never falls behind the burnchain DB, so the sync thread never *)
(* waits for a fork to outgrow the one it invalidated, nor returns early     *)
(* with an interval that is empty the wrong way round.                       *)
HeadersCoverDatabase ==
    /\ DbHeight <= HighestHeader
    /\ pc \in {"read", "pipeline"} => startBlock < endBlock

(* Once L1 stops, every node catches up: the sortition DB's tip becomes and  *)
(* stays the canonical tip of L1.                                            *)
CatchesUp == <>[](stored = {} \/ TipOf(snapshots) = TipOf(stored))

=============================================================================
