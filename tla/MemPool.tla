------------------------------ MODULE MemPool ------------------------------
(***************************************************************************)
(* The mempool's table (core/mempool.rs): admission, replacement and       *)
(* garbage collection of transactions, and the columns in which a walk of  *)
(* the miner keeps the nonces it knows of.  The network's thread submits   *)
(* transactions over its own connection while the relayer's walks: every   *)
(* SQL transaction, and every statement outside of one, is a step.         *)
(***************************************************************************)
EXTENDS Integers, Sequences, FiniteSets

CONSTANTS
    Txs,         \* transaction ids
    Tx,          \* Tx[t]: its origin and sponsor, their nonces, fee, size...
    Accounts,
    Estimable,   \* transactions the estimator may have a fee rate for
    None,        \* NULL
    MaxAge,      \* MEMPOOL_MAX_TRANSACTION_AGE
    MaxChaining, \* MAXIMUM_MEMPOOL_TX_CHAINING
    MaxSubmits   \* bound: accepted submissions

VARIABLES
    rows,        \* ids in the table
    known,       \* last_known_origin_nonce and last_known_sponsor_nonce
    estimated,   \* ids with a fee_rate in fee_estimates
    at,          \* the chain tip a row was submitted at
    blocks,      \* subnet blocks: parent, height and the accounts' nonces
    tip,         \* the canonical one
    submits

poolVars == <<rows, known, estimated, at, blocks, tip, submits>>

Unknown == [origin |-> None, sponsor |-> None]

PoolInit ==
    /\ rows = {} /\ estimated = {} /\ submits = 0
    /\ known = [t \in Txs |-> Unknown] /\ at = [t \in Txs |-> None]
    /\ blocks = <<[parent |-> 0, height |-> 0, nonces |-> [a \in Accounts |-> 0]]>>
    /\ tip = 1

-----------------------------------------------------------------------------
\* Get_ancestor_block_height finds a block on the fork of another.
Forebears(b) ==
    LET f[c \in 1..b] ==
            {c} \union IF blocks[c].parent = 0 THEN {} ELSE f[blocks[c].parent]
    IN  f[b]

InSameFork(b, c) == b \in Forebears(c) \/ c \in Forebears(b)

SameOrigin(t, u) ==
    Tx[t].origin = Tx[u].origin /\ Tx[t].originNonce = Tx[u].originNonce

SameSponsor(t, u) ==
    Tx[t].sponsor = Tx[u].sponsor /\ Tx[t].sponsorNonce = Tx[u].sponsorNonce

\* Step 4 of can_include_tx: the first mismatch that check_transaction_nonces
\* meets, the sponsor's before the origin's, must be with a nonce in the future;
\* no nonce may be too far in the future.  (Every t in Txs is well-formed and
\* pays its fee, the other steps.)
WillAdmit(t) ==
    LET n == blocks[tip].nonces
        sponsorOff == Tx[t].sponsored /\ Tx[t].sponsorNonce # n[Tx[t].sponsor]
    IN  /\ IF sponsorOff THEN Tx[t].sponsorNonce > n[Tx[t].sponsor]
           ELSE Tx[t].originNonce >= n[Tx[t].origin]
        /\ Tx[t].originNonce <= n[Tx[t].origin] + 1 + MaxChaining
        /\ Tx[t].sponsored =>
               Tx[t].sponsorNonce <= n[Tx[t].sponsor] + 1 + MaxChaining

\* Mutant: the row with the sponsor's nonce is looked for first.
PriorBySponsor(t) ==
    LET found == {r \in rows : SameSponsor(r, t)}
    IN  IF found # {} THEN found ELSE {r \in rows : SameOrigin(r, t)}

\* The row a submission is compared with, if any.
PriorTx(t) ==
    LET found == {r \in rows : SameOrigin(r, t)}
    IN  IF found # {} THEN found ELSE {r \in rows : SameSponsor(r, t)}

\* Replace-by-fee, or replace-across-fork.
MayReplace(t) ==
    \A p \in PriorTx(t) :
        Tx[t].fee > Tx[p].fee \/ ~InSameFork(at[p], tip)

\* INSERT OR REPLACE: every row that violates one of the UNIQUE clauses goes.
Conflicting(t) == {r \in rows : r = t \/ SameOrigin(r, t) \/ SameSponsor(r, t)}

\* Rows are deleted, with what refers to them.
Without(gone) ==
    /\ known' = [t \in Txs |-> IF t \in gone THEN Unknown ELSE known[t]]
    /\ at' = [t \in Txs |-> IF t \in gone THEN None ELSE at[t]]
    /\ estimated' = estimated \ gone
    /\ rows' = rows \ gone

\* submit: tx_submit and try_add_tx, in one transaction.  The estimator may or
\* may not have a fee rate for t.
Submit(t) ==
    /\ submits < MaxSubmits
    /\ WillAdmit(t) /\ MayReplace(t)
    /\ LET gone == Conflicting(t)
       IN  /\ rows' = (rows \ gone) \union {t}
           /\ known' = [u \in Txs |-> IF u \in gone THEN Unknown ELSE known[u]]
           /\ at' = [u \in Txs |-> IF u = t THEN tip
                                   ELSE IF u \in gone THEN None ELSE at[u]]
           /\ \E e \in SUBSET ({t} \cap Estimable) : estimated' = (estimated \ gone) \union e
    /\ submits' = submits + 1
    /\ UNCHANGED <<blocks, tip>>

\* process_transactions of the relayer, when it has stored what came in.
GarbageCollect ==
    /\ blocks[tip].height > MaxAge
    /\ Without({r \in rows : blocks[at[r]].height < blocks[tip].height - MaxAge})
    /\ UNCHANGED <<blocks, tip, submits>>

\* The coordinator moves the tip, on the same fork or to another; bound: never
\* back to an earlier block.
NewTip ==
    /\ \E b \in DOMAIN blocks : b > tip /\ tip' = b
    /\ UNCHANGED <<rows, known, estimated, at, blocks, submits>>

-----------------------------------------------------------------------------
\* The statements of a walk.

ResetLastKnownNonces == [t \in Txs |-> Unknown]

\* Mutant: the account's nonce is bumped where it is the origin only.
BumpOrigins(k, a) ==
    [t \in Txs |->
        IF Tx[t].origin = a /\ k[t].origin # None
        THEN [k[t] EXCEPT !.origin = @ + 1] ELSE k[t]]

BumpLastKnownNonces(k, a) ==
    [t \in Txs |->
        [origin |-> IF Tx[t].origin = a /\ k[t].origin # None
                    THEN k[t].origin + 1 ELSE k[t].origin,
         sponsor |-> IF Tx[t].sponsor = a /\ k[t].sponsor # None
                     THEN k[t].sponsor + 1 ELSE k[t].sponsor]]

\* Of the accounts in as, which have nonces n.
UpdateLastKnownNonces(as, n) ==
    [t \in Txs |->
        IF t \notin rows THEN Unknown
        ELSE [origin |-> IF Tx[t].origin \in as THEN n[Tx[t].origin]
                         ELSE known[t].origin,
              sponsor |-> IF Tx[t].sponsor \in as THEN n[Tx[t].sponsor]
                          ELSE known[t].sponsor]]

\* The WHERE clause of both queries.
Candidates ==
    {t \in rows : \/ None \in {known[t].origin, known[t].sponsor}
                  \/ /\ Tx[t].originNonce = known[t].origin
                     /\ Tx[t].sponsorNonce = known[t].sponsor}

\* The rows without an estimate are ordered by fee; a fee rate is whatever the
\* estimator says, so any of the others may be the first.
NextNoEstimate ==
    {t \in Candidates \ estimated :
        \A u \in Candidates \ estimated : Tx[u].fee <= Tx[t].fee}

NextWithEstimate == Candidates \cap estimated

\* get_next_tx_to_consider: the rows it may return.
NextTxToConsider(startWithNoEstimate) ==
    LET first == IF startWithNoEstimate THEN NextNoEstimate ELSE NextWithEstimate
    IN  IF first # {} THEN first ELSE NextNoEstimate \union NextWithEstimate

=============================================================================
