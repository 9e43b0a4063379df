-------------------------- MODULE MCSubnetContract --------------------------
(* Three state machines that handle deposits and withdrawals, explored one at *)
(* a time: subnet.clar with two users, one NFT and two subnet blocks that     *)
(* withdraw every kind of asset; multi-miner.clar with three accounts, of     *)
(* which set-miners may choose any list; and the execution of a subnet block  *)
(* of two transactions, where withdrawals come from.                          *)
EXTENDS SubnetContract, TLC

CONSTANTS alice, bob, carol, n1, b1, b2, Stranger, Malformed, sponsor, vault

VARIABLES
    mmHeight, miners, mmCommits,
    store, lookup, edits, pending, contexts, pc, tx, failing, outcome, receipts,
    ops

MM == INSTANCE MultiMiner WITH
         height <- mmHeight, commits <- mmCommits,
         Principals <- {alice, bob, carol}, SubnetBlocks <- {b1},
         SignersRequired <- 2, MaxSigs <- 2, MaxHeight <- 2

mmVars == <<mmHeight, miners, mmCommits>>

\* A user, a sponsor and a contract without STX of its own.
TxBalance == (alice :> 2) @@ (sponsor :> 1) @@ (vault :> 0)

TxOf(origin, payer, mode, conditions) ==
    [origin |-> origin, payer |-> payer, mode |-> mode,
     conditions |-> conditions]
TxKinds ==
    {TxOf(alice, alice, "deny",
          <<[who |-> alice, code |-> "le", amount |-> 1]>>),
     TxOf(alice, sponsor, "allow", <<>>),
     TxOf(sponsor, sponsor, "deny", <<>>)}

TxKeys == {<<"balance", a>> : a \in {alice, sponsor, vault}}
            \cup {<<"nonce", a>> : a \in {alice, sponsor}}
            \cup {<<"supply", None>>}

TX == INSTANCE TxExecution WITH
         Keys <- TxKeys, Values <- 0..5, Users <- {alice, sponsor},
         Contracts <- {vault}, InitBalance <- TxBalance, MaxU128 <- 3, Fee <- 1,
         Transactions <- TxKinds, MaxTxs <- 2, MaxOps <- 4, MaxDepth <- 4

txVars == <<store, lookup, edits, pending, contexts, pc, tx, failing, outcome,
            receipts, ops>>

Withdrawal(asset, amount, recipient, id) ==
    [asset |-> asset, amount |-> amount, recipient |-> recipient, id |-> id]

\* The second block withdraws more of the fungible token than was deposited.
MCRootOf ==
    (b1 :> {Withdrawal("stx", 1, alice, 1), Withdrawal(n1, 1, bob, 2)}) @@
    (b2 :> {Withdrawal("ft", 2, bob, 3)})

\* Two blocks of one height: the first withdrawal of both is the same.
SharedRootOf ==
    (b1 :> {Withdrawal("stx", 1, alice, 1)}) @@
    (b2 :> {Withdrawal("stx", 1, alice, 1), Withdrawal("ft", 2, bob, 2)})

MCEndowment == (alice :> 1) @@ (bob :> 0)

MCInit == Init /\ MM!Init /\ TX!Init

\* The two users differ only in what they own at the start: one of them is the
\* miner.
MinerIsAlice == miner' \in {None, alice}

MCNext ==
    \/ MM!Init /\ TX!Init /\ Next /\ MinerIsAlice /\ UNCHANGED <<mmVars, txVars>>
    \/ Init /\ TX!Init /\ MM!Next /\ UNCHANGED <<vars, txVars>>
    \/ Init /\ MM!Init /\ TX!Next /\ UNCHANGED <<vars, mmVars>>

MCSpec == MCInit /\ [][MCNext]_<<vars, mmVars, txVars>>

\* multi-miner.clar records commits of a quorum only, and check-miners accepts
\* every quorum (MultiMiner).
CommitsNeedQuorum == MM!CommitsNeedQuorum

\* The RollbackWrapper is a store with nested transactions (TxExecution).
ImplementsNestedStore == TX!ImplementsNestedStore

\* Executing transactions neither creates nor loses STX (TxExecution).
SupplyConserved == TX!SupplyConserved

\* process_transaction accepts an account's nonce once (TxExecution).
NoncesUsedOnce == TX!NoncesUsedOnce

\* Receipts report what left the supply (TxExecution).
ReceiptsMatchSupply == TX!ReceiptsMatchSupply

\* The proof of a withdrawal leads to the block's withdrawal root (TxExecution).
WithdrawalsProvable == TX!WithdrawalsProvable

\* A failed or aborted transaction changes fee and nonces only (TxExecution).
OnlyFeeOnFailure == TX!OnlyFeeOnFailure

\* Deny mode protects accounts that no condition names (TxExecution).
DenyModeProtects == TX!DenyModeProtects

\* The withdrawals of a block destroyed the assets they stand for (TxExecution).
WithdrawalsDestroyAssets == TX!WithdrawalsDestroyAssets

=============================================================================
