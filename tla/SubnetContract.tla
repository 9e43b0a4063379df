--------------------------- MODULE SubnetContract ---------------------------
(***************************************************************************)
(* The L1 side of the peg: subnet.clar, on one L1 fork.  A Clarity public  *)
(* function runs alone and, when it returns an error, changes nothing: so  *)
(* every public function is one action, enabled for the inputs it accepts. *)
(*                                                                         *)
(* Hashes are injective: a leaf hash is the withdrawal it hashes, a root   *)
(* is the set of withdrawals of its Merkle tree, and a list of siblings    *)
(* leads from a leaf to a root exactly when the leaf is in that set.       *)
(*                                                                         *)
(* The tokens move only at their holder's word, as SIP-009 and SIP-010 ask *)
(* of a token contract: that is up to the contracts a miner registers.     *)
(* The mint contract of a withdrawal is neither registered nor compared    *)
(* with the token: the caller names it, and it runs with the contract as   *)
(* tx-sender.  It is the token's own, or any other; of another one nothing *)
(* is assumed but what Clarity enforces: it cannot call back into          *)
(* subnet.clar, and what users own does not move without them.             *)
(***************************************************************************)
EXTENDS Integers

CONSTANTS
    Users,          \* principals
    Contract,       \* CONTRACT_ADDRESS
    None,           \* Clarity's none
    Nfts,           \* token ids of simple-nft
    Registrable,    \* contracts registered one by one
    SubnetBlocks,   \* hashes of subnet blocks
    RootOf,         \* RootOf[b]: the withdrawals in b's Merkle tree
    Amounts,        \* what users deposit or transfer at a time
    Endowment,      \* Endowment[u]: what u has of both tokens at the start
    MaxHeight       \* bound on the height of L1

Holders == Users \union {Contract}
AssetContracts == {"simple-ft", "simple-nft", "simple-nft-no-mint"}
Assets == {"stx", "ft"} \union Nfts

\* The tuples that leaf-hash-withdraw-stx, -ft and -nft hash: withdrawal-id and
\* height are the id; an NFT withdrawal is one of amount 1 of the asset nft-id.
Withdrawals == [asset : Assets, amount : Nat, recipient : Users, id : Nat]

Roots == {RootOf[b] : b \in SubnetBlocks}
Leaves == UNION Roots

ASSUME ContractAssumption ==
    /\ Contract \notin Users /\ None \notin Holders \union SubnetBlocks
    /\ "stx" \notin Nfts /\ "ft" \notin Nfts
    /\ Registrable \subseteq AssetContracts
    /\ RootOf \in [SubnetBlocks -> SUBSET Withdrawals]
    /\ Amounts \subseteq Nat \ {0} /\ Endowment \in [Users -> Nat]
    /\ MaxHeight \in Nat

VARIABLES
    height,     \* block-height of the L1 block being executed
    miner,      \* data-var miner
    allowed,    \* keys of allowed-contracts
    commits,    \* map block-commits
    roots,      \* keys of withdrawal-roots-map
    processed,  \* keys of processed-withdrawal-leaves-map
    stx, ft,    \* balances
    nft,        \* owners
    deposited,  \* total of the printed deposit events of an asset
    paid,       \* total of the finished withdrawals of an asset
    asked,      \* what mint contracts were asked to mint of an asset
    foreign,    \* a mint contract other than the token's own was asked
    payouts     \* how often a withdrawal was paid with a root

chain == <<height, commits, roots>>
governance == <<miner, allowed>>
balances == <<stx, ft, nft>>
ledger == <<deposited, paid, asked, foreign, payouts>>
vars == <<chain, governance, processed, balances, ledger>>

TypeOK ==
    /\ height \in 0..MaxHeight
    /\ miner \in Users \union {None}
    /\ allowed \subseteq AssetContracts
    /\ commits \in [0..MaxHeight -> SubnetBlocks \union {None}]
    /\ roots \subseteq Roots
    /\ processed \subseteq Leaves \X Roots
    /\ stx \in [Holders -> Nat] /\ ft \in [Holders -> Nat]
    /\ nft \in [Nfts -> Holders \union {None}]
    /\ deposited \in [Assets -> Nat] /\ paid \in [Assets -> Nat]
    /\ asked \in [Assets -> Nat] /\ foreign \in BOOLEAN
    /\ payouts \in [Leaves \X Roots -> Nat]

Init ==
    /\ height = 0 /\ miner = None /\ allowed = {}
    /\ commits = [h \in 0..MaxHeight |-> None] /\ roots = {} /\ processed = {}
    /\ stx = [h \in Holders |-> IF h = Contract THEN 0 ELSE Endowment[h]]
    /\ ft = stx
    /\ nft = [n \in Nfts |-> None]
    /\ deposited = [a \in Assets |-> 0] /\ paid = deposited
    /\ asked = deposited /\ foreign = FALSE
    /\ payouts = [x \in Leaves \X Roots |-> 0]

-----------------------------------------------------------------------------
(* L1 around the contract: its blocks and its tokens. *)

NewL1Block ==
    /\ height < MaxHeight
    /\ height' = height + 1
    /\ UNCHANGED <<commits, roots, governance, processed, balances, ledger>>

\* stx-transfer?, ft-transfer? of amount a: positive, covered, and not to oneself.
CanTransfer(balance, a, from, to) == 0 < a /\ a <= balance[from] /\ from # to

Transfer(balance, a, from, to) ==
    [balance EXCEPT ![from] = @ - a, ![to] = @ + a]

\* Transfers that do not go through the contract, by the holder.
UserTransfer(from, to) ==
    /\ \/ /\ \E a \in Amounts : /\ CanTransfer(stx, a, from, to)
                                /\ stx' = Transfer(stx, a, from, to)
          /\ UNCHANGED <<ft, nft>>
       \/ /\ \E a \in Amounts : /\ CanTransfer(ft, a, from, to)
                                /\ ft' = Transfer(ft, a, from, to)
          /\ UNCHANGED <<stx, nft>>
       \/ /\ from # to
          /\ \E n \in Nfts : nft[n] = from /\ nft' = [nft EXCEPT ![n] = to]
          /\ UNCHANGED <<stx, ft>>
    /\ UNCHANGED <<chain, governance, processed, ledger>>

\* simple-nft's gift-nft, open to everybody.
GiftNft(recipient, n) ==
    /\ nft[n] = None
    /\ nft' = [nft EXCEPT ![n] = recipient]
    /\ UNCHANGED <<chain, governance, processed, stx, ft, ledger>>

-----------------------------------------------------------------------------
(* Set-up and block commits. *)

SetSubnetMiner(m) ==
    /\ miner = None
    /\ miner' = m
    /\ UNCHANGED <<allowed, chain, processed, balances, ledger>>

\* Any of the three that is already allowed fails the call.
SetupAllowedContracts(sender) ==
    /\ sender \in {Contract, miner}
    /\ allowed = {}
    /\ allowed' = AssetContracts
    /\ UNCHANGED <<miner, chain, processed, balances, ledger>>

\* register-new-ft-contract, register-new-nft-contract.
RegisterContract(sender, c) ==
    /\ sender = miner
    /\ c \notin allowed
    /\ allowed' = allowed \union {c}
    /\ UNCHANGED <<miner, chain, processed, balances, ledger>>

\* Mutant: the height is not checked.
CanCommitAgain(sender, caller, target) ==
    /\ height > 0 /\ target = height - 1
    /\ sender = miner /\ caller = miner

\* can-commit-block?; a chain tip on this fork is known by its height.
CanCommitBlock(sender, caller, target) ==
    /\ commits[height] = None
    /\ height > 0 /\ target = height - 1
    /\ sender = miner /\ caller = miner

CommitBlock(sender, caller, b, target) ==
    /\ CanCommitBlock(sender, caller, target)
    /\ commits' = [commits EXCEPT ![height] = b]
    /\ roots' = roots \union {RootOf[b]}
    /\ UNCHANGED <<height, governance, processed, balances, ledger>>

-----------------------------------------------------------------------------
(* Deposits. *)

Deposited(asset, amount) ==
    /\ deposited' = [deposited EXCEPT ![asset] = @ + amount]
    /\ UNCHANGED <<chain, governance, processed, paid, asked, foreign, payouts>>

DepositStx(u, a) ==
    /\ CanTransfer(stx, a, u, Contract)
    /\ stx' = Transfer(stx, a, u, Contract)
    /\ Deposited("stx", a)
    /\ UNCHANGED <<ft, nft>>

DepositFt(u, a) ==
    /\ "simple-ft" \in allowed
    /\ CanTransfer(ft, a, u, Contract)
    /\ ft' = Transfer(ft, a, u, Contract)
    /\ Deposited("ft", a)
    /\ UNCHANGED <<stx, nft>>

DepositNft(u, n) ==
    /\ "simple-nft" \in allowed
    /\ nft[n] = u
    /\ nft' = [nft EXCEPT ![n] = Contract]
    /\ Deposited(n, 1)
    /\ UNCHANGED <<stx, ft>>

-----------------------------------------------------------------------------
(* Withdrawals.  The caller supplies the withdrawal w, the hash of a leaf,  *)
(* a root and the sibling hashes.                                          *)

\* check-withdrawal-hashes.
CheckWithdrawalHashes(leaf, root) ==
    /\ root \in roots
    /\ <<leaf, root>> \notin processed
    /\ leaf \in root

\* The checks common to the three withdraw functions.
ValidWithdrawal(w, leaf, root) ==
    /\ CheckWithdrawalHashes(leaf, root)
    /\ leaf = w

\* Mutant: the leaf is not recorded.
FinishWithoutRecord(w, leaf, root) ==
    /\ processed' = processed
    /\ paid' = [paid EXCEPT ![w.asset] = @ + w.amount]
    /\ payouts' = [payouts EXCEPT ![<<w, root>>] = @ + 1]
    /\ UNCHANGED <<chain, governance, deposited>>

\* finish-withdraw, whose map-insert fails for a pair already there.
FinishWithdraw(w, leaf, root) ==
    /\ <<leaf, root>> \notin processed
    /\ processed' = processed \union {<<leaf, root>>}
    /\ paid' = [paid EXCEPT ![w.asset] = @ + w.amount]
    /\ payouts' = [payouts EXCEPT ![<<w, root>>] = @ + 1]
    /\ UNCHANGED <<chain, governance, deposited>>

WithdrawStx(w, leaf, root) ==
    /\ w.asset = "stx"
    /\ ValidWithdrawal(w, leaf, root)
    /\ CanTransfer(stx, w.amount, Contract, w.recipient)
    /\ stx' = Transfer(stx, w.amount, Contract, w.recipient)
    /\ FinishWithdraw(w, leaf, root)
    /\ UNCHANGED <<ft, nft, asked, foreign>>

-----------------------------------------------------------------------------
(* mint-from-subnet of the contract the caller names: the token's "own" or  *)
(* an "other" one.                                                          *)

MintContracts == {"own", "other"}

\* What is asked of the mint contract named by the caller.
Ask(asset, amount, mint) ==
    /\ asked' = [asked EXCEPT ![asset] = @ + amount]
    /\ foreign' = (foreign \/ mint = "other")

NothingAsked == UNCHANGED <<asked, foreign>>

\* Another contract, with the contract as tx-sender and ftLeft the balances of the
\* FT: it may hand out any part of what the contract owns, have tokens minted, and
\* give away or mint any NFT that no user owns; or do nothing.  All goes to one
\* user, who may pass it on.
OtherContract(ftLeft, user) ==
    /\ \E a \in 0..stx[Contract] : stx' = Transfer(stx, a, Contract, user)
    /\ \E a \in 0..ftLeft[Contract], more \in Amounts \union {0} :
          ft' = [Transfer(ftLeft, a, Contract, user) EXCEPT ![user] = @ + more]
    /\ \E given \in SUBSET {n \in Nfts : nft[n] \in {Contract, None}} :
          nft' = [n \in Nfts |-> IF n \in given THEN user ELSE nft[n]]

\* Mutant: the whole amount is minted, whatever the contract holds.
MintWhole(amount, recipient, mint) ==
    /\ Ask("ft", amount, mint)
    /\ ft' = [ft EXCEPT ![recipient] = @ + amount]
    /\ UNCHANGED <<stx, nft>>

\* Mutant: amount-to-mint does not subtract what is transferred.
MintAmount(amount, recipient, mint) ==
    LET transfer == IF amount <= ft[Contract] THEN amount ELSE ft[Contract]
    IN  /\ Ask("ft", amount, mint)
        /\ ft' = [ft EXCEPT ![Contract] = @ - transfer, ![recipient] = @ + amount]
        /\ UNCHANGED <<stx, nft>>

\* inner-transfer-or-mint-ft-asset and inner-mint-ft-asset: what the contract
\* holds is transferred, the mint contract is asked for the rest.
TransferOrMintFt(amount, recipient, mint) ==
    LET transfer == IF amount <= ft[Contract] THEN amount ELSE ft[Contract]
        rest == amount - transfer
    IN  \/ /\ rest = 0
           /\ ft' = Transfer(ft, amount, Contract, recipient)
           /\ NothingAsked
           /\ UNCHANGED <<stx, nft>>
        \/ /\ rest > 0 /\ mint = "own"
           /\ Ask("ft", rest, mint)
           /\ ft' = [ft EXCEPT ![Contract] = 0, ![recipient] = @ + amount]
           /\ UNCHANGED <<stx, nft>>
        \/ /\ rest > 0 /\ mint = "other"
           /\ Ask("ft", rest, mint)
           /\ OtherContract(Transfer(ft, transfer, Contract, recipient), recipient)

\* withdraw-ft-asset with inner-withdraw-ft-asset.
WithdrawFt(w, leaf, root, mint) ==
    /\ w.asset = "ft" /\ w.amount > 0
    /\ "simple-ft" \in allowed
    /\ ValidWithdrawal(w, leaf, root)
    /\ TransferOrMintFt(w.amount, w.recipient, mint)
    /\ FinishWithdraw(w, leaf, root)

\* inner-transfer-or-mint-nft-asset with inner-mint-nft-asset, or
\* inner-transfer-without-mint-nft-asset when the caller names no mint contract.
TransferOrMintNft(n, recipient, mint) ==
    \/ /\ nft[n] = Contract
       /\ nft' = [nft EXCEPT ![n] = recipient]
       /\ NothingAsked
       /\ UNCHANGED <<stx, ft>>
    \/ /\ nft[n] = None /\ mint = "own"
       /\ Ask(n, 1, mint)
       /\ nft' = [nft EXCEPT ![n] = recipient]
       /\ UNCHANGED <<stx, ft>>
    \/ /\ nft[n] = None /\ mint = "other"
       /\ Ask(n, 1, mint)
       /\ OtherContract(ft, recipient)

\* inner-withdraw-nft-asset, a public function: it may be called by itself, for
\* a token that is not registered too, and then prints no event.
InnerWithdrawNft(w, leaf, root, mint) ==
    /\ w.asset \in Nfts /\ w.amount = 1
    /\ ValidWithdrawal(w, leaf, root)
    /\ TransferOrMintNft(w.asset, w.recipient, mint)
    /\ FinishWithdraw(w, leaf, root)

WithdrawNft(w, leaf, root, mint) ==
    /\ "simple-nft" \in allowed
    /\ InnerWithdrawNft(w, leaf, root, mint)

-----------------------------------------------------------------------------
Next ==
    \/ NewL1Block
    \/ \E from \in Users, to \in Holders : UserTransfer(from, to)
    \/ \E h \in Holders, n \in Nfts : GiftNft(h, n)
    \/ \E m \in Users : SetSubnetMiner(m)
    \/ \E s \in Users : SetupAllowedContracts(s)
    \/ \E s \in Users, c \in Registrable : RegisterContract(s, c)
    \/ \E s \in Users, caller \in Users, b \in SubnetBlocks, t \in 0..MaxHeight :
           CommitBlock(s, caller, b, t)
    \/ \E u \in Users, a \in Amounts : DepositStx(u, a)
    \/ \E u \in Users, a \in Amounts : DepositFt(u, a)
    \/ \E u \in Users, n \in Nfts : DepositNft(u, n)
    \/ \E w \in Leaves, leaf \in Leaves, r \in Roots : WithdrawStx(w, leaf, r)
    \/ \E w \in Leaves, leaf \in Leaves, r \in Roots, mint \in MintContracts :
           WithdrawFt(w, leaf, r, mint)
    \/ \E w \in Leaves, leaf \in Leaves, r \in Roots, mint \in MintContracts \union {None} :
           WithdrawNft(w, leaf, r, mint) \/ InnerWithdrawNft(w, leaf, r, mint)

Spec == Init /\ [][Next]_vars

-----------------------------------------------------------------------------
(* Properties. *)

\* A withdrawal is paid at most once with a root, and only with a committed one:
\* the check in check-withdrawal-hashes and the record of finish-withdraw.
PaidOncePerRoot ==
    \A w \in Leaves, r \in Roots :
        payouts[<<w, r>>] <= 1 /\ (payouts[<<w, r>>] = 1 => r \in roots)

\* finish-withdraw "ensures that this withdrawal leaf can't be used again to
\* withdraw additional funds" (subnet.clar:583): a leaf is paid with one root at
\* most.  A leaf names its subnet block's height and its index there, so trees of
\* two blocks of one height may share it.
PaidOnce ==
    \A w \in Leaves, r, s \in Roots :
        payouts[<<w, r>>] > 0 /\ payouts[<<w, s>>] > 0 => r = s

Holding(a) ==
    IF a = "stx" THEN stx[Contract]
    ELSE IF a = "ft" THEN ft[Contract]
    ELSE IF nft[a] = Contract THEN 1 ELSE 0

\* Custody: as long as withdrawals name the token's own mint contract, what was
\* deposited or minted for the subnet and was not paid out is in the contract's
\* hands, for each asset, also when inner-withdraw-nft-asset is called by itself.
CustodyBacked ==
    ~foreign => \A a \in Assets : deposited[a] + asked[a] <= paid[a] + Holding(a)

\* The roots that withdrawals may use are exactly those of the recorded block
\* commits: no commit is replaced by another that leaves its root behind.
RootsMatchCommits ==
    roots = {RootOf[commits[h]] : h \in {i \in 0..MaxHeight : commits[i] # None}}

\* A mint contract, whichever the caller names and whatever it then does, is asked
\* only for what the contract cannot hand over: what it held and what is asked add
\* up to the withdrawal, and an NFT that is asked for has no owner.
MintsShortfallOnly ==
    [][\A a \in Assets : asked'[a] # asked[a] =>
           /\ paid'[a] - paid[a] = Holding(a) + (asked'[a] - asked[a])
           /\ a \in Nfts => nft[a] = None]_vars

=============================================================================
