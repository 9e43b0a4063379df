---------------------------- MODULE BlockBuilder ----------------------------
(***************************************************************************)
(* How a miner fills a block (StacksBlockBuilder::build_anchored_block, the*)
(* mempool's iterate_candidates and try_mine_tx_with_len) while the pool   *)
(* changes under its walk.                                                 *)
(***************************************************************************)
EXTENDS MemPool

CONSTANTS
    MayFail,     \* transactions that may turn out to be invalid in a block
    Budget,      \* the block's limit of the execution cost
    MaxSize,     \* MAX_EPOCH_SIZE
    Coinbase,    \* size of the coinbase transaction
    Heuristic,   \* TX_BLOCK_LIMIT_PROPORTION_HEURISTIC
    MaxBlocks    \* bound: blocks, the first one included

VARIABLES
    phase,       \* where the relayer's thread is
    next,        \* the row that get_next_tx_to_consider returned
    needs,       \* accounts whose nonce that row lacks
    remembered,  \* remember_start_with_estimate
    building,    \* the block: parent, nonces, txs, cost, bytes, limit
    considered,  \* ids tried for this block
    invalidated, \* ids to drop from the pool
    progress,    \* num_considered > 0 in this walk
    late         \* the closure has found the deadline over

walkVars == <<next, needs, remembered>>
blockVars == <<building, considered, invalidated, progress, late>>
vars == <<poolVars, phase, walkVars, blockVars>>

Empty(b) == [parent |-> b, nonces |-> blocks[b].nonces, txs |-> <<>>,
             cost |-> 0, bytes |-> Coinbase, limit |-> "none"]

Init ==
    /\ PoolInit
    /\ phase = "idle" /\ next = None /\ needs = {} /\ remembered = None
    /\ building = Empty(1)
    /\ considered = {} /\ invalidated = {} /\ progress = FALSE /\ late = FALSE

-----------------------------------------------------------------------------
\* build_anchored_block up to the first walk: the coinbase, the nonces of the
\* last walk forgotten, and estimate_tx_rates for the rows without one.
BuildAnchoredBlock ==
    /\ phase = "idle" /\ Len(blocks) < MaxBlocks
    /\ phase' = "walk"
    /\ building' = Empty(tip)
    /\ considered' = {} /\ invalidated' = {}
    /\ progress' = FALSE /\ late' = FALSE /\ remembered' = None
    /\ known' = ResetLastKnownNonces
    /\ \E more \in SUBSET ((rows \cap Estimable) \ estimated) : estimated' = estimated \union more
    /\ UNCHANGED <<rows, at, blocks, tip, submits, next, needs>>

\* max_walk_time_ms is over.
WalkTimeout ==
    /\ phase = "walk" /\ phase' = "walked"
    /\ UNCHANGED <<poolVars, walkVars, blockVars>>

NoTransactions ==
    /\ phase = "walk" /\ Candidates = {}
    /\ phase' = "walked"
    /\ UNCHANGED <<poolVars, walkVars, blockVars>>

\* A row is read; one with both nonces is considered, for others they are read.
\* The class to start with is sampled anew for every row considered.
SelectNext ==
    /\ phase = "walk"
    /\ \E start \in IF remembered = None THEN BOOLEAN ELSE {remembered} :
       \E t \in NextTxToConsider(start) :
          LET lacks == (IF known[t].origin = None THEN {Tx[t].origin} ELSE {})
                  \union (IF known[t].sponsor = None THEN {Tx[t].sponsor} ELSE {})
          IN  /\ next' = t /\ needs' = lacks
              /\ phase' = IF lacks = {} THEN "todo" ELSE "update"
              /\ remembered' = IF lacks = {} THEN None ELSE start
    /\ UNCHANGED <<poolVars, blockVars>>

\* The nonces are those of the block under construction.
UpdateNonces ==
    /\ phase = "update" /\ phase' = "walk"
    /\ known' = UpdateLastKnownNonces(needs, building.nonces)
    /\ next' = None /\ needs' = {}
    /\ UNCHANGED <<rows, estimated, at, blocks, tip, submits, remembered, blockVars>>

\* max_miner_time_ms is over, as the closure finds now or found before.
StopWalk ==
    /\ phase = "todo" /\ late' = TRUE
    /\ phase' = "walked" /\ next' = None
    /\ UNCHANGED <<poolVars, needs, remembered,
                   building, considered, invalidated, progress>>

\* Tried for this block already, or a nonce used in it.
SeenBefore(t) ==
    \/ t \in considered
    \/ \E i \in DOMAIN building.txs :
          LET u == building.txs[i]
          IN  \/ /\ Tx[u].origin = Tx[t].origin
                 /\ Tx[u].originNonce >= Tx[t].originNonce
              \/ /\ Tx[u].sponsored /\ Tx[t].sponsored
                 /\ Tx[u].sponsor = Tx[t].sponsor
                 /\ Tx[u].sponsorNonce >= Tx[t].sponsorNonce

\* Mutant: the walk goes on without the row's nonces being bumped.
SkipWithoutBump ==
    /\ phase = "todo" /\ ~late /\ SeenBefore(next)
    /\ phase' = "walk" /\ next' = None
    /\ UNCHANGED <<poolVars, needs, remembered, blockVars>>

\* Early return of the closure; iterate_candidates bumps the nonces all the same.
Skip ==
    /\ phase = "todo" /\ ~late /\ SeenBefore(next)
    /\ phase' = "bump"
    /\ UNCHANGED <<poolVars, walkVars, blockVars>>

\* process_transaction refuses a nonce that is not the account's.
NoncesMatch(t) ==
    /\ Tx[t].originNonce = building.nonces[Tx[t].origin]
    /\ Tx[t].sponsorNonce = building.nonces[Tx[t].sponsor]

\* proportion_largest_dimension of the budget.
Proportion(cost) ==
    cost \div (IF Budget \div 100 > 1 THEN Budget \div 100 ELSE 1)

\* The transaction that overflows the budget is invalid if little was spent
\* before it.
CostOverflow(t) ==
    IF Proportion(building.cost) < Heuristic THEN "tx-too-big" ELSE "block-too-big"

\* try_mine_tx_with_len: its possible results.
TryMineTx(t) ==
    IF building.bytes + Tx[t].size >= MaxSize THEN {"block-too-big"}
    ELSE IF building.limit = "contract" /\ Tx[t].contract THEN {"skipped"}
    ELSE IF ~NoncesMatch(t) THEN {"invalid"}
    ELSE (IF t \in MayFail THEN {"invalid"} ELSE {})
         \union {IF building.cost + Tx[t].cost > Budget THEN CostOverflow(t)
                 ELSE "success"}

\* The block with t appended, its accounts' nonces used.
Including(t) ==
    [building EXCEPT
        !.txs = Append(@, t), !.cost = @ + Tx[t].cost, !.bytes = @ + Tx[t].size,
        !.nonces = [a \in Accounts |->
                       IF a \in {Tx[t].origin, Tx[t].sponsor} THEN @[a] + 1
                       ELSE @[a]]]

\* The closure of build_anchored_block on a row that is new to the block.
Consider ==
    /\ phase = "todo" /\ ~late /\ ~SeenBefore(next)
    /\ considered' = considered \union {next} /\ progress' = TRUE
    /\ \E result \in TryMineTx(next) :
          /\ building' =
                CASE result = "success" -> Including(next)
                  [] result = "block-too-big" ->
                        [building EXCEPT !.limit =
                            IF @ = "none" THEN "contract" ELSE "reached"]
                  [] OTHER -> building
          /\ invalidated' = IF result = "tx-too-big" THEN invalidated \union {next}
                            ELSE invalidated
          /\ phase' = IF building'.limit = "reached" THEN "walked" ELSE "bump"
    /\ UNCHANGED <<poolVars, walkVars, late>>

\* The walk counts the row's nonces as used, whatever became of the row.
Bump ==
    /\ phase = "bump" /\ phase' = "walk"
    /\ known' = LET k == BumpLastKnownNonces(known, Tx[next].origin)
                IN  IF Tx[next].sponsored
                    THEN BumpLastKnownNonces(k, Tx[next].sponsor) ELSE k
    /\ next' = None
    /\ UNCHANGED <<rows, estimated, at, blocks, tip, submits,
                   needs, remembered, blockVars>>

\* Walks go on as long as they find something to try.
WalkAgain ==
    /\ phase = "walked" /\ progress /\ building.limit # "reached"
    /\ phase' = "walk" /\ progress' = FALSE
    /\ remembered' = None /\ next' = None
    /\ UNCHANGED <<poolVars, needs, building, considered, invalidated, late>>

\* drop_txs, and the block is mined.
Finish ==
    /\ phase = "walked" /\ (~progress \/ building.limit = "reached")
    /\ phase' = "idle" /\ remembered' = None /\ next' = None
    /\ Without(rows \cap invalidated)
    /\ blocks' = Append(blocks, [parent |-> building.parent,
                                 height |-> blocks[building.parent].height + 1,
                                 nonces |-> building.nonces])
    /\ building' = Empty(1) /\ considered' = {} /\ invalidated' = {}
    /\ progress' = FALSE /\ late' = FALSE
    /\ UNCHANGED <<tip, submits, needs>>

BuilderStep ==
    \/ NoTransactions \/ SelectNext \/ UpdateNonces \/ StopWalk \/ Skip
    \/ Consider \/ Bump \/ WalkAgain \/ Finish

Next ==
    \/ BuildAnchoredBlock \/ WalkTimeout
    \/ BuilderStep
    \/ /\ \/ \E t \in Txs : Submit(t)
          \/ phase = "idle" /\ GarbageCollect
          \/ NewTip
       /\ UNCHANGED <<phase, walkVars, blockVars>>

\* The relayer's thread goes on until the block is done; nothing else is fair.
Spec == Init /\ [][Next]_vars
FairSpec == Spec /\ WF_vars(BuilderStep)

-----------------------------------------------------------------------------
\* The transactions tried for this block that are not in it.
Failed == considered \ {building.txs[i] : i \in DOMAIN building.txs}

\* iterate_candidates: when a walk ends for want of transactions, every row
\* whose nonces are the accounts' was tried for this block, unless a transaction
\* that failed in it has used up the nonce of one of its accounts for the walk.
MinableTried ==
    [][NoTransactions =>
          \A t \in rows : NoncesMatch(t) =>
             \/ t \in considered
             \/ \E f \in Failed : {Tx[f].origin, Tx[f].sponsor}
                                    \cap {Tx[t].origin, Tx[t].sponsor} # {}
      ]_vars

\* A row leaves the pool for a reason: it is older than MaxAge blocks; or it
\* alone takes more of the block's budget than the heuristic leaves; or another
\* has its sponsor's nonce; or another has its origin's nonce, and pays more or
\* comes from another fork.
LeavesForReason ==
    [][\A t \in rows \ rows' :
          \/ blocks[at[t]].height + MaxAge < blocks[tip].height
          \/ 100 * Tx[t].cost > (100 - Heuristic) * Budget
          \/ \E n \in rows' \ rows :
                IF SameOrigin(n, t)
                THEN Tx[n].fee > Tx[t].fee \/ ~InSameFork(at[t], tip)
                ELSE SameSponsor(n, t)
      ]_vars

\* However the pool changes meanwhile, the miner finishes the block it has begun
\* (also without the help of its deadlines).
BlockFinished == phase # "idle" ~> phase = "idle"

=============================================================================
