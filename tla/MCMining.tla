----------------------------- MODULE MCMining ------------------------------
(***************************************************************************)
(* What must happen in the end, on both sides of mining, explored one at a *)
(* time: the tenures of two miners on a chain of L1 blocks (MinerTenure),  *)
(* and the filling of one miner's blocks (BlockBuilder).                   *)
(***************************************************************************)
EXTENDS MCMinerTenure

CONSTANTS
    Txs, Accounts, Estimable, MayFail, MaxAge, MaxChaining, MaxSubmits,
    Budget, MaxSize, Coinbase, Heuristic, MaxBlocks

VARIABLES
    rows, known, estimated, at, blocks, tip, submits, phase, next, needs,
    remembered, building, considered, invalidated, progress, late,
    part    \* the side that is explored

Unsponsored(a, n, fee, cost, size, contract) ==
    [origin |-> a, originNonce |-> n, sponsored |-> FALSE, sponsor |-> a,
     sponsorNonce |-> n, fee |-> fee, cost |-> cost, size |-> size,
     contract |-> contract]

\* Two transactions with one nonce of a, of which one takes most of a block;
\* the next of a; two with one nonce of b, of which a sponsors one.
MCTx ==
    LET t1 == Unsponsored("a", 0, 1, 30, 1, FALSE)
        t2 == Unsponsored("a", 0, 2, 90, 1, TRUE)
        t3 == Unsponsored("a", 1, 1, 75, 2, TRUE)
        t4 == Unsponsored("b", 0, 3, 10, 1, FALSE)
        t5 == [Unsponsored("b", 0, 2, 60, 1, TRUE) EXCEPT
                  !.sponsored = TRUE, !.sponsor = "a", !.sponsorNonce = 1]
    IN  <<t1, t2, t3, t4, t5>>

BB == INSTANCE BlockBuilder WITH Tx <- MCTx

bbVars ==
    <<rows, known, estimated, at, blocks, tip, submits, phase, next, needs,
      remembered, building, considered, invalidated, progress, late>>
allVars == <<vars, bbVars, part>>

BothInit == Init /\ BB!Init /\ part \in {"tenures", "block"}

\* The miners are alike, and symmetry is not for liveness: let alice be the one
\* that begins the first tenure.
AliceFirst == begun = 0 => tenure'[bob] = None

BothNext ==
    \/ part = "tenures" /\ MCNext /\ AliceFirst /\ UNCHANGED <<bbVars, part>>
    \/ part = "block" /\ BB!Next /\ UNCHANGED <<vars, part>>

Threads ==
    \/ part = "tenures" /\ ThreadStep /\ UNCHANGED <<bbVars, part>>
    \/ part = "block" /\ BB!BuilderStep /\ UNCHANGED <<vars, part>>

BothSpec == BothInit /\ [][BothNext]_allVars /\ WF_allVars(Threads)

\* Rows that could be mined were tried when a walk finds no more (BlockBuilder).
MinableTried == BB!MinableTried

\* A row leaves the pool for a reason (BlockBuilder).
LeavesForReason == BB!LeavesForReason

\* A block that was begun is finished (BlockBuilder).
BlockFinished == BB!BlockFinished

=============================================================================
