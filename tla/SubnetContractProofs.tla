------------------------ MODULE SubnetContractProofs ------------------------
(***************************************************************************)
(* The properties of SubnetContract for any users, trees, amounts and      *)
(* heights.  The inductive invariant adds to the checked properties that   *)
(* the record of finish-withdraw is exactly the set of payouts.            *)
(***************************************************************************)
EXTENDS SubnetContract, TLAPS

USE DEF chain, governance, balances, ledger

\* processed-withdrawal-leaves-map is the characteristic set of the payouts, and
\* every recorded leaf is in its recorded root, which was committed.
RecordIsPayouts ==
    /\ \A x \in Leaves \X Roots : payouts[x] = IF x \in processed THEN 1 ELSE 0
    /\ \A w \in Leaves, r \in Roots : <<w, r>> \in processed => r \in roots /\ w \in r

Custody(a) == deposited[a] + asked[a] <= paid[a] + Holding(a)

IInv == TypeOK /\ RecordIsPayouts /\ CustodyBacked /\ RootsMatchCommits

-----------------------------------------------------------------------------
(* Facts about the constants. *)

\* A leaf of a committed tree is a withdrawal tuple of subnet.clar.
LEMMA LeafType ==
    ASSUME NEW w \in Leaves
    PROVE  /\ w.asset \in Assets /\ w.amount \in Nat /\ w.recipient \in Users
           /\ w.recipient \in Holders /\ w.recipient # Contract
BY ContractAssumption DEF Leaves, Roots, Withdrawals, Holders

\* The principals and the assets of the contract are pairwise distinct.
LEMMA ConstantsDistinct ==
    /\ Contract \in Holders /\ Contract # None
    /\ \A u \in Users : u \in Holders /\ u # Contract /\ u # None
    /\ "stx" \in Assets /\ "ft" \in Assets
    /\ \A n \in Nfts : n \in Assets /\ n # "stx" /\ n # "ft"
    /\ \A a \in Assets : a = "stx" \/ a = "ft" \/ a \in Nfts
BY ContractAssumption DEF Holders, Assets

\* stx-transfer? and ft-transfer? keep every balance a natural number.
LEMMA TransferType ==
    ASSUME NEW balance \in [Holders -> Nat], NEW a \in Nat,
           NEW from \in Holders, NEW to \in Holders,
           CanTransfer(balance, a, from, to),
           NEW new, new = Transfer(balance, a, from, to)
    PROVE  /\ new \in [Holders -> Nat]
           /\ new[from] = balance[from] - a /\ new[to] = balance[to] + a
           /\ \A h \in Holders \ {from} : new[h] >= balance[h]
BY DEF CanTransfer, Transfer

\* What the contract holds of each asset.
LEMMA HoldingIs ==
    /\ Holding("stx") = stx[Contract]
    /\ Holding("ft") = ft[Contract]
    /\ \A n \in Nfts : Holding(n) = IF nft[n] = Contract THEN 1 ELSE 0
BY ConstantsDistinct DEF Holding

-----------------------------------------------------------------------------
(* What the actions have in common. *)

\* A valid withdrawal is recorded once, in the record and in the payouts.
LEMMA FinishKeepsRecord ==
    ASSUME TypeOK, RecordIsPayouts,
           NEW w \in Leaves, NEW leaf \in Leaves, NEW r \in Roots,
           ValidWithdrawal(w, leaf, r), FinishWithdraw(w, leaf, r)
    PROVE  /\ RecordIsPayouts'
           /\ processed' \subseteq Leaves \X Roots
           /\ paid' \in [Assets -> Nat]
           /\ payouts' \in [Leaves \X Roots -> Nat]
<1>1. /\ leaf = w /\ w \in r /\ r \in roots
      /\ <<w, r>> \notin processed
      /\ processed' = processed \union {<<w, r>>}
      /\ payouts' = [payouts EXCEPT ![<<w, r>>] = @ + 1]
      /\ roots' = roots
  BY DEF ValidWithdrawal, CheckWithdrawalHashes, FinishWithdraw
<1>2. <<w, r>> \in Leaves \X Roots
  OBVIOUS
<1>3. payouts' \in [Leaves \X Roots -> Nat]
  <2> HIDE DEF Leaves, Roots
  <2> QED  BY <1>1, <1>2 DEF TypeOK
<1>4. ASSUME NEW x \in Leaves \X Roots
      PROVE  payouts'[x] = IF x \in processed' THEN 1 ELSE 0
  BY <1>1, <1>2 DEF TypeOK, RecordIsPayouts
<1>5. \A v \in Leaves, s \in Roots :
          <<v, s>> \in processed' => s \in roots' /\ v \in s
  BY <1>1 DEF RecordIsPayouts
<1>6. processed' \subseteq Leaves \X Roots
  BY <1>1, <1>2 DEF TypeOK
<1>7. paid' \in [Assets -> Nat]
  BY LeafType, SMTT(30) DEF TypeOK, FinishWithdraw
<1> QED  BY <1>3, <1>4, <1>5, <1>6, <1>7 DEF RecordIsPayouts

\* The record and the commits depend on four variables only.
LEMMA RecordUnchanged ==
    ASSUME RecordIsPayouts, UNCHANGED <<processed, payouts, roots>>
    PROVE  RecordIsPayouts'
BY DEF RecordIsPayouts

\* The commits and their roots do not depend on anything else.
LEMMA CommitsUnchanged ==
    ASSUME RootsMatchCommits, UNCHANGED <<commits, roots>>
    PROVE  RootsMatchCommits'
BY DEF RootsMatchCommits

\* Custody holds for an asset whose totals do not change and of which the
\* contract does not hold less.
LEMMA CustodyKept ==
    ASSUME NEW a \in Assets, Custody(a),
           Holding(a) \in Int, Holding(a)' \in Int, Holding(a)' >= Holding(a),
           deposited[a] \in Nat, asked[a] \in Nat, paid[a] \in Nat,
           deposited'[a] = deposited[a], asked'[a] = asked[a],
           paid'[a] = paid[a]
    PROVE  Custody(a)'
BY DEF Custody

\* An asset is held in natural amounts.
LEMMA HoldingType ==
    ASSUME TypeOK, NEW a \in Assets
    PROVE  Holding(a) \in Nat
BY ConstantsDistinct DEF Holding, TypeOK

\* Custody does not depend on anything but the balances and the totals.
LEMMA CustodyUnchanged ==
    ASSUME CustodyBacked,
           UNCHANGED <<stx, ft, nft, asked, deposited, paid, foreign>>
    PROVE  CustodyBacked'
BY DEF CustodyBacked, Holding

\* The totals of the printed events and of the mints stay natural numbers.
LEMMA TotalType ==
    ASSUME NEW total \in [Assets -> Nat], NEW a \in Assets, NEW k \in Nat,
           NEW new, new = [total EXCEPT ![a] = @ + k]
    PROVE  /\ new \in [Assets -> Nat] /\ new[a] = total[a] + k
           /\ \A b \in Assets : b # a => new[b] = total[b]
OBVIOUS

-----------------------------------------------------------------------------
(* Transfer or mint. *)

AssetsTyped ==
    /\ stx \in [Holders -> Nat] /\ ft \in [Holders -> Nat]
    /\ nft \in [Nfts -> Holders \union {None}]
    /\ asked \in [Assets -> Nat] /\ foreign \in BOOLEAN

\* Whatever another mint contract does, balances stay natural numbers.
LEMMA OtherTyped ==
    ASSUME TypeOK, NEW left \in [Holders -> Nat], NEW u \in Users,
           OtherContract(left, u)
    PROVE  /\ stx' \in [Holders -> Nat] /\ ft' \in [Holders -> Nat]
           /\ nft' \in [Nfts -> Holders \union {None}]
<1> USE ConstantsDistinct
<1>1. stx' \in [Holders -> Nat]
  <2>1. PICK m \in 0..stx[Contract] : stx' = Transfer(stx, m, Contract, u)
    BY DEF OtherContract
  <2>2. stx \in [Holders -> Nat] /\ u \in Holders /\ u # Contract
    BY DEF TypeOK
  <2> QED  BY <2>1, <2>2 DEF Transfer
<1>2. ft' \in [Holders -> Nat]
  <2>1. PICK m \in 0..left[Contract], more \in Amounts \union {0} :
            ft' = [Transfer(left, m, Contract, u) EXCEPT ![u] = @ + more]
    BY DEF OtherContract
  <2>2. u \in Holders /\ u # Contract /\ more \in Nat
    BY ContractAssumption
  <2>3. Transfer(left, m, Contract, u) \in [Holders -> Nat]
    BY <2>1, <2>2 DEF Transfer
  <2> HIDE DEF Transfer
  <2> QED  BY <2>1, <2>2, <2>3
<1>3. nft' \in [Nfts -> Holders \union {None}]
  BY DEF OtherContract, TypeOK
<1> QED  BY <1>1, <1>2, <1>3

\* What is asked of a mint contract is added to the total of the asset.
LEMMA AskTyped ==
    ASSUME TypeOK, NEW a \in Assets, NEW k \in Nat, NEW mint, Ask(a, k, mint)
    PROVE  /\ asked' \in [Assets -> Nat] /\ foreign' \in BOOLEAN
           /\ asked'[a] = asked[a] + k
           /\ \A b \in Assets : b # a => asked'[b] = asked[b]
<1>1. asked \in [Assets -> Nat] /\ asked' = [asked EXCEPT ![a] = @ + k]
  BY DEF TypeOK, Ask
<1>2. foreign' \in BOOLEAN
  BY DEF Ask
<1> QED  BY <1>1, <1>2, TotalType

\* inner-transfer-or-mint-ft-asset keeps the types of what it changes.
LEMMA FtTyped ==
    ASSUME TypeOK, NEW k \in Nat, NEW u \in Users, NEW mint,
           TransferOrMintFt(k, u, mint)
    PROVE  AssetsTyped'
<1> USE ConstantsDistinct
<1> DEFINE transfer == IF k <= ft[Contract] THEN k ELSE ft[Contract]
<1>1. /\ stx \in [Holders -> Nat] /\ ft \in [Holders -> Nat]
      /\ nft \in [Nfts -> Holders \union {None}]
      /\ asked \in [Assets -> Nat] /\ foreign \in BOOLEAN
  BY DEF TypeOK
<1>2. /\ transfer \in Nat /\ transfer <= ft[Contract]
      /\ k - transfer = 0 => transfer = k
      /\ k - transfer > 0 => k - transfer \in Nat
  BY <1>1
<1>3. ASSUME NEW m \in Nat, m <= ft[Contract]
      PROVE  Transfer(ft, m, Contract, u) \in [Holders -> Nat]
  BY <1>1, <1>3 DEF Transfer
<1> HIDE DEF Transfer
<1>4. \/ /\ k - transfer = 0 /\ ft' = Transfer(ft, k, Contract, u)
         /\ UNCHANGED <<asked, foreign, stx, nft>>
      \/ /\ k - transfer > 0 /\ Ask("ft", k - transfer, mint)
         /\ ft' = [ft EXCEPT ![Contract] = 0, ![u] = @ + k]
         /\ UNCHANGED <<stx, nft>>
      \/ /\ k - transfer > 0 /\ Ask("ft", k - transfer, mint)
         /\ OtherContract(Transfer(ft, transfer, Contract, u), u)
  BY Zenon DEF TransferOrMintFt, NothingAsked
<1> HIDE DEF transfer
<1>5. CASE k - transfer = 0 /\ ft' = Transfer(ft, k, Contract, u)
           /\ UNCHANGED <<asked, foreign, stx, nft>>
  BY <1>1, <1>2, <1>3, <1>5 DEF AssetsTyped
<1>6. CASE k - transfer > 0 /\ Ask("ft", k - transfer, mint)
           /\ ft' = [ft EXCEPT ![Contract] = 0, ![u] = @ + k]
           /\ UNCHANGED <<stx, nft>>
  <2>1. ft' \in [Holders -> Nat]
    BY <1>1, <1>6
  <2>2. asked' \in [Assets -> Nat] /\ foreign' \in BOOLEAN
    BY <1>2, <1>6, AskTyped
  <2> QED  BY <1>1, <1>6, <2>1, <2>2 DEF AssetsTyped
<1>7. CASE k - transfer > 0 /\ Ask("ft", k - transfer, mint)
           /\ OtherContract(Transfer(ft, transfer, Contract, u), u)
  <2>1. asked' \in [Assets -> Nat] /\ foreign' \in BOOLEAN
    BY <1>2, <1>7, AskTyped
  <2>2. Transfer(ft, transfer, Contract, u) \in [Holders -> Nat]
    BY <1>2, <1>3
  <2> QED  BY <1>7, <2>1, <2>2, OtherTyped DEF AssetsTyped
<1> QED  BY <1>4, <1>5, <1>6, <1>7

\* With the token's own mint contract the contract hands over what it holds and
\* has the rest minted.
LEMMA FtOwn ==
    ASSUME TypeOK, NEW k \in Nat, NEW u \in Users, NEW mint,
           TransferOrMintFt(k, u, mint), ~foreign'
    PROVE  /\ ~foreign /\ UNCHANGED <<stx, nft>>
           /\ ft'[Contract] + k = ft[Contract] + (asked'["ft"] - asked["ft"])
           /\ \A b \in Assets : b # "ft" => asked'[b] = asked[b]
<1> USE ConstantsDistinct
<1> DEFINE transfer == IF k <= ft[Contract] THEN k ELSE ft[Contract]
<1>1. ft \in [Holders -> Nat] /\ asked \in [Assets -> Nat]
  BY DEF TypeOK
<1>2. \/ /\ k - transfer = 0 /\ ft' = Transfer(ft, k, Contract, u)
         /\ UNCHANGED <<asked, foreign, stx, nft>>
      \/ /\ k - transfer > 0 /\ Ask("ft", k - transfer, mint)
         /\ ft' = [ft EXCEPT ![Contract] = 0, ![u] = @ + k]
         /\ ~foreign /\ UNCHANGED <<stx, nft>>
  BY Zenon DEF TransferOrMintFt, NothingAsked, Ask
<1>3. CASE k - transfer = 0 /\ ft' = Transfer(ft, k, Contract, u)
           /\ UNCHANGED <<asked, foreign, stx, nft>>
  BY <1>1, <1>3 DEF Transfer
<1>4. CASE k - transfer > 0 /\ Ask("ft", k - transfer, mint)
           /\ ft' = [ft EXCEPT ![Contract] = 0, ![u] = @ + k]
           /\ ~foreign /\ UNCHANGED <<stx, nft>>
  <2>1. transfer = ft[Contract] /\ k - transfer \in Nat
    BY <1>1, <1>4
  <2> HIDE DEF transfer
  <2>2. /\ asked'["ft"] = asked["ft"] + (k - transfer)
        /\ \A b \in Assets : b # "ft" => asked'[b] = asked[b]
    BY <1>4, <2>1, AskTyped
  <2>3. ft'[Contract] = 0 /\ ft[Contract] \in Nat /\ asked["ft"] \in Nat
    BY <1>1, <1>4
  <2>4. ft'[Contract] + k = ft[Contract] + (asked'["ft"] - asked["ft"])
    BY <2>1, <2>2, <2>3
  <2> QED  BY <1>4, <2>2, <2>4
<1> QED  BY <1>2, <1>3, <1>4

\* inner-transfer-or-mint-nft-asset keeps the types of what it changes.
LEMMA NftTyped ==
    ASSUME TypeOK, NEW n \in Nfts, NEW u \in Users, NEW mint,
           TransferOrMintNft(n, u, mint)
    PROVE  AssetsTyped'
<1> USE ConstantsDistinct
<1>1. /\ stx \in [Holders -> Nat] /\ ft \in [Holders -> Nat]
      /\ nft \in [Nfts -> Holders \union {None}]
      /\ asked \in [Assets -> Nat] /\ foreign \in BOOLEAN
  BY DEF TypeOK
<1>2. \/ UNCHANGED <<asked, foreign>>
      \/ Ask(n, 1, mint)
  BY Zenon DEF TransferOrMintNft, NothingAsked
<1>3. asked' \in [Assets -> Nat] /\ foreign' \in BOOLEAN
  BY <1>1, <1>2, AskTyped
<1>4. \/ nft' = [nft EXCEPT ![n] = u] /\ UNCHANGED <<stx, ft>>
      \/ OtherContract(ft, u)
  BY Zenon DEF TransferOrMintNft
<1>5. /\ stx' \in [Holders -> Nat] /\ ft' \in [Holders -> Nat]
      /\ nft' \in [Nfts -> Holders \union {None}]
  BY <1>1, <1>4, OtherTyped
<1> QED  BY <1>3, <1>5 DEF AssetsTyped

-----------------------------------------------------------------------------
(* The inductive invariant. *)

\* The contract as it is published.
LEMMA InitIInv == Init => IInv
<1> SUFFICES ASSUME Init PROVE IInv
  OBVIOUS
<1>1. TypeOK
  <2>1. /\ asked \in [Assets -> Nat] /\ deposited \in [Assets -> Nat]
        /\ paid \in [Assets -> Nat] /\ foreign \in BOOLEAN
    BY DEF Init
  <2>2. stx \in [Holders -> Nat] /\ ft \in [Holders -> Nat]
    BY ContractAssumption DEF Init, Holders
  <2>3. nft \in [Nfts -> Holders \union {None}]
    BY DEF Init, Holders
  <2> QED  BY <2>1, <2>2, <2>3, ContractAssumption DEF Init, TypeOK
<1>2. RecordIsPayouts
  BY DEF Init, RecordIsPayouts
<1>3. CustodyBacked
  <2> SUFFICES ASSUME NEW a \in Assets
               PROVE  deposited[a] + asked[a] <= paid[a] + Holding(a)
    BY DEF CustodyBacked
  <2>1. deposited[a] = 0 /\ asked[a] = 0 /\ paid[a] = 0
    BY DEF Init
  <2>2. Holding(a) \in Nat
    BY <1>1, HoldingType
  <2> QED  BY <2>1, <2>2
<1>4. RootsMatchCommits
  BY DEF Init, RootsMatchCommits
<1> QED  BY <1>1, <1>2, <1>3, <1>4 DEF IInv

\* Every public function of the contract, and all that L1 does around it.
LEMMA NextIInv == IInv /\ [Next]_vars => IInv'
<1> SUFFICES ASSUME IInv, [Next]_vars PROVE IInv'
  OBVIOUS
<1> USE ConstantsDistinct
<1>0. /\ TypeOK /\ RecordIsPayouts /\ CustodyBacked /\ RootsMatchCommits
      /\ \A a \in Assets : /\ deposited[a] \in Nat /\ asked[a] \in Nat
                            /\ paid[a] \in Nat
      /\ stx[Contract] \in Nat /\ ft[Contract] \in Nat
      /\ ~foreign => \A a \in Assets : Custody(a)
  BY SMTT(30) DEF IInv, TypeOK, CustodyBacked, Custody
\* Custody, asset by asset.
<1>a. ASSUME ~foreign' => \A a \in Assets : Custody(a)'
      PROVE  CustodyBacked'
  BY <1>a DEF Custody, CustodyBacked
\* An action that moves no asset of the contract.
<1>b. ASSUME TypeOK', UNCHANGED <<asked, deposited, paid, foreign>>,
             stx'[Contract] >= stx[Contract], ft'[Contract] >= ft[Contract],
             \A n \in Nfts : nft[n] = Contract => nft'[n] = Contract
      PROVE  CustodyBacked'
  <2> SUFFICES ASSUME ~foreign', NEW a \in Assets PROVE Custody(a)'
    BY <1>a
  <2>0. Custody(a)
    BY <1>0, <1>b
  <2>1. Holding(a) \in Nat /\ Holding(a)' \in Nat
    BY <1>b, <1>0, HoldingType DEF Holding, TypeOK
  <2>2. Holding(a)' >= Holding(a)
    BY <1>b, <1>0, SMTT(30) DEF Holding, TypeOK
  <2> QED  BY <1>b, <1>0, <2>0, <2>1, <2>2, CustodyKept
<1>1. CASE NewL1Block
  <2>1. TypeOK'
    BY <1>0, <1>1, ContractAssumption, SMTT(30) DEF NewL1Block, TypeOK
  <2>2. RecordIsPayouts' /\ RootsMatchCommits'
    BY <1>0, <1>1, RecordUnchanged, CommitsUnchanged DEF NewL1Block
  <2>3. CustodyBacked'
    BY <1>0, <1>1, CustodyUnchanged DEF NewL1Block
  <2> QED  BY <1>a, <2>1, <2>2, <2>3 DEF IInv
<1>2. ASSUME NEW from \in Users, NEW to \in Holders, UserTransfer(from, to)
      PROVE  IInv'
  <2>1. PICK d \in {"stx", "ft", "nft"} :
            \/ /\ d = "stx"
               /\ \E m \in Amounts : /\ CanTransfer(stx, m, from, to)
                                     /\ stx' = Transfer(stx, m, from, to)
               /\ UNCHANGED <<ft, nft>>
            \/ /\ d = "ft"
               /\ \E m \in Amounts : /\ CanTransfer(ft, m, from, to)
                                     /\ ft' = Transfer(ft, m, from, to)
               /\ UNCHANGED <<stx, nft>>
            \/ /\ d = "nft" /\ from # to
               /\ \E n \in Nfts : nft[n] = from /\ nft' = [nft EXCEPT ![n] = to]
               /\ UNCHANGED <<stx, ft>>
    BY <1>2 DEF UserTransfer
  <2>2. /\ stx' \in [Holders -> Nat] /\ ft' \in [Holders -> Nat]
        /\ stx'[Contract] >= stx[Contract] /\ ft'[Contract] >= ft[Contract]
    <3>1. \A m \in Amounts : m \in Nat
      BY ContractAssumption
    <3>2. CASE d = "stx"
      <4>1. PICK m \in Amounts : /\ CanTransfer(stx, m, from, to)
                                 /\ stx' = Transfer(stx, m, from, to)
        BY <2>1, <3>2
      <4>2. stx \in [Holders -> Nat]
        BY <1>0 DEF TypeOK
      <4>3. /\ stx' \in [Holders -> Nat]
            /\ \A h \in Holders \ {from} : stx'[h] >= stx[h]
        BY <3>1, <4>1, <4>2, TransferType
      <4>4. stx'[Contract] >= stx[Contract]
        <5>1. Contract \in Holders \ {from}
          OBVIOUS
        <5> QED  BY <4>3, <5>1
      <4>5. UNCHANGED ft /\ ft \in [Holders -> Nat] /\ ft[Contract] >= ft[Contract]
        BY <1>0, <2>1, <3>2, SMTT(30) DEF TypeOK
      <4> QED  BY <4>3, <4>4, <4>5
    <3>3. CASE d = "ft"
      <4>1. PICK m \in Amounts : /\ CanTransfer(ft, m, from, to)
                                 /\ ft' = Transfer(ft, m, from, to)
        BY <2>1, <3>3
      <4>2. ft \in [Holders -> Nat]
        BY <1>0 DEF TypeOK
      <4>3. /\ ft' \in [Holders -> Nat]
            /\ \A h \in Holders \ {from} : ft'[h] >= ft[h]
        BY <3>1, <4>1, <4>2, TransferType
      <4>4. ft'[Contract] >= ft[Contract]
        <5>1. Contract \in Holders \ {from}
          OBVIOUS
        <5> QED  BY <4>3, <5>1
      <4>5. UNCHANGED stx /\ stx \in [Holders -> Nat] /\ stx[Contract] >= stx[Contract]
        BY <1>0, <2>1, <3>3, SMTT(30) DEF TypeOK
      <4> QED  BY <4>3, <4>4, <4>5
    <3>4. CASE d = "nft"
      <4>1. UNCHANGED <<stx, ft>>
        BY <2>1, <3>4
      <4>2. stx \in [Holders -> Nat] /\ ft \in [Holders -> Nat]
        BY <1>0, SMTT(30) DEF TypeOK
      <4>3. stx[Contract] \in Nat /\ ft[Contract] \in Nat
        BY <4>2, Contract \in Holders
      <4> QED  BY <4>1, <4>2, <4>3
    <3> QED  BY <3>2, <3>3, <3>4
  <2>3. /\ nft' \in [Nfts -> Holders \union {None}]
        /\ \A n \in Nfts : nft[n] = Contract => nft'[n] = Contract
    BY <1>0, <2>1 DEF TypeOK
  <2>4. TypeOK'
    BY <1>0, <1>2, <2>2, <2>3 DEF UserTransfer, TypeOK
  <2>5. RecordIsPayouts' /\ RootsMatchCommits'
    BY <1>0, <1>2, RecordUnchanged, CommitsUnchanged DEF UserTransfer
  <2>6. CustodyBacked'
    BY <1>2, <1>b, <2>2, <2>3, <2>4 DEF UserTransfer
  <2> QED  BY <1>a, <2>4, <2>5, <2>6 DEF IInv
<1>3. ASSUME NEW h \in Holders, NEW n \in Nfts, GiftNft(h, n)
      PROVE  IInv'
  <2>1. TypeOK'
    BY <1>0, <1>3 DEF GiftNft, TypeOK
  <2>2. RecordIsPayouts' /\ RootsMatchCommits'
    BY <1>0, <1>3, RecordUnchanged, CommitsUnchanged DEF GiftNft
  <2>3. CustodyBacked'
    <3>1. /\ UNCHANGED <<asked, deposited, paid, foreign, stx, ft>>
          /\ \A k \in Nfts : nft[k] = Contract => nft'[k] = Contract
      BY <1>0, <1>3 DEF GiftNft, TypeOK
    <3> QED  BY <1>0, <1>b, <2>1, <3>1
  <2> QED  BY <1>a, <2>1, <2>2, <2>3 DEF IInv
<1>4. ASSUME NEW m \in Users, SetSubnetMiner(m) \/ SetupAllowedContracts(m)
      PROVE  IInv'
  <2>1. TypeOK'
    BY <1>0, <1>4, SMTT(30) DEF SetSubnetMiner, SetupAllowedContracts, TypeOK
  <2>2. RecordIsPayouts' /\ RootsMatchCommits'
    BY <1>0, <1>4, RecordUnchanged, CommitsUnchanged
    DEF SetSubnetMiner, SetupAllowedContracts
  <2>3. CustodyBacked'
    BY <1>0, <1>4, CustodyUnchanged DEF SetSubnetMiner, SetupAllowedContracts
  <2> QED  BY <1>a, <2>1, <2>2, <2>3 DEF IInv
<1>5. ASSUME NEW m \in Users, NEW c \in Registrable, RegisterContract(m, c)
      PROVE  IInv'
  <2>1. TypeOK'
    BY <1>0, <1>5, ContractAssumption DEF RegisterContract, TypeOK
  <2>2. RecordIsPayouts' /\ RootsMatchCommits'
    BY <1>0, <1>5, RecordUnchanged, CommitsUnchanged DEF RegisterContract
  <2>3. CustodyBacked'
    BY <1>0, <1>5, CustodyUnchanged DEF RegisterContract
  <2> QED  BY <1>a, <2>1, <2>2, <2>3 DEF IInv
<1>6. ASSUME NEW s \in Users, NEW c \in Users, NEW b \in SubnetBlocks,
             NEW t \in 0..MaxHeight, CommitBlock(s, c, b, t)
      PROVE  IInv'
  <2>1. /\ height \in 0..MaxHeight /\ commits[height] = None
        /\ commits' = [commits EXCEPT ![height] = b]
        /\ roots' = roots \union {RootOf[b]}
        /\ UNCHANGED <<height, miner, allowed, processed, stx, ft, nft, asked,
                       deposited, paid, foreign, payouts>>
    BY <1>0, <1>6 DEF CommitBlock, CanCommitBlock, TypeOK
  <2>2. TypeOK'
    <3>1. RootOf[b] \in Roots
      BY DEF Roots
    <3> QED  BY <1>0, <2>1, <3>1 DEF TypeOK
  <2>3. RecordIsPayouts'
    BY <1>0, <2>1 DEF RecordIsPayouts
  <2>4. RootsMatchCommits'
    <3>1. b # None
      BY ContractAssumption
    <3>2. \A h \in 0..MaxHeight :
              commits'[h] = IF h = height THEN b ELSE commits[h]
      BY <1>0, <2>1 DEF TypeOK
    <3> QED  BY <1>0, <2>1, <3>1, <3>2 DEF RootsMatchCommits
  <2>5. CustodyBacked'
    BY <1>0, <2>1, CustodyUnchanged
  <2> QED  BY <1>a, <2>2, <2>3, <2>4, <2>5 DEF IInv
<1>7. ASSUME NEW u \in Users, NEW m \in Amounts, DepositStx(u, m)
      PROVE  IInv'
  <2>1. /\ m \in Nat
        /\ stx' \in [Holders -> Nat] /\ stx'[Contract] = stx[Contract] + m
    <3>1. m \in Nat
      BY ContractAssumption
    <3>2. stx \in [Holders -> Nat]
      BY <1>0 DEF TypeOK
    <3>3. CanTransfer(stx, m, u, Contract) /\ stx' = Transfer(stx, m, u, Contract)
      BY <1>7 DEF DepositStx
    <3> QED  BY <3>1, <3>2, <3>3, TransferType
  <2>d. /\ deposited' \in [Assets -> Nat]
        /\ deposited'["stx"] = deposited["stx"] + m
        /\ \A b \in Assets : b # "stx" => deposited'[b] = deposited[b]
    <3>1. deposited' = [deposited EXCEPT !["stx"] = @ + m]
      BY <1>7 DEF DepositStx, Deposited
    <3>2. deposited \in [Assets -> Nat]
      BY <1>0 DEF TypeOK
    <3> QED  BY <2>1, <3>1, <3>2, TotalType
  <2>2. TypeOK'
    BY <1>0, <1>7, <2>1, <2>d DEF DepositStx, Deposited, TypeOK
  <2>3. RecordIsPayouts' /\ RootsMatchCommits'
    BY <1>0, <1>7, RecordUnchanged, CommitsUnchanged DEF DepositStx, Deposited
  <2>4. ASSUME ~foreign', NEW a \in Assets PROVE Custody(a)'
    <3>0. Custody(a)
      BY <1>0, <1>7, <2>4, Zenon DEF DepositStx, Deposited
    <3>1. CASE a = "stx"
      <4>1. UNCHANGED <<asked, paid>>
        BY <1>7 DEF DepositStx, Deposited
      <4>2. deposited[a] + asked[a] <= paid[a] + stx[Contract]
        BY <1>0, <3>1, <3>0, HoldingIs DEF Custody
      <4>3. Holding(a)' = stx'[Contract]
        BY <3>1 DEF Holding
      <4> QED  BY <1>0, <2>1, <2>d, <3>1, <4>1, <4>2, <4>3 DEF Custody
    <3>2. CASE a # "stx"
      BY <1>0, <1>7, <3>0, <3>2, HoldingType
      DEF DepositStx, Deposited, TypeOK, Custody, Holding
    <3> QED  BY <3>1, <3>2
  <2> QED  BY <1>a, <2>2, <2>3, <2>4 DEF IInv
<1>8. ASSUME NEW u \in Users, NEW m \in Amounts, DepositFt(u, m)
      PROVE  IInv'
  <2>1. /\ m \in Nat
        /\ ft' \in [Holders -> Nat] /\ ft'[Contract] = ft[Contract] + m
    <3>1. m \in Nat
      BY ContractAssumption
    <3>2. ft \in [Holders -> Nat]
      BY <1>0 DEF TypeOK
    <3>3. CanTransfer(ft, m, u, Contract) /\ ft' = Transfer(ft, m, u, Contract)
      BY <1>8 DEF DepositFt
    <3> QED  BY <3>1, <3>2, <3>3, TransferType
  <2>d. /\ deposited' \in [Assets -> Nat]
        /\ deposited'["ft"] = deposited["ft"] + m
        /\ \A b \in Assets : b # "ft" => deposited'[b] = deposited[b]
    <3>1. deposited' = [deposited EXCEPT !["ft"] = @ + m]
      BY <1>8, SMTT(30) DEF DepositFt, Deposited
    <3>2. deposited \in [Assets -> Nat]
      BY <1>0 DEF TypeOK
    <3> QED  BY <2>1, <3>1, <3>2, TotalType
  <2>2. TypeOK'
    BY <1>0, <1>8, <2>1, <2>d DEF DepositFt, Deposited, TypeOK
  <2>3. RecordIsPayouts' /\ RootsMatchCommits'
    BY <1>0, <1>8, RecordUnchanged, CommitsUnchanged DEF DepositFt, Deposited
  <2>4. ASSUME ~foreign', NEW a \in Assets PROVE Custody(a)'
    <3>0. Custody(a)
      BY <1>0, <1>8, <2>4, Zenon DEF DepositFt, Deposited
    <3>1. CASE a = "ft"
      <4>1. UNCHANGED <<asked, paid>>
        BY <1>8 DEF DepositFt, Deposited
      <4>2. deposited[a] + asked[a] <= paid[a] + ft[Contract]
        BY <1>0, <3>1, <3>0, HoldingIs DEF Custody
      <4>3. Holding(a)' = ft'[Contract]
        BY <3>1, SMTT(30) DEF Holding
      <4> QED  BY <1>0, <2>1, <2>d, <3>1, <4>1, <4>2, <4>3 DEF Custody
    <3>2. CASE a # "ft"
      BY <1>0, <1>8, <3>0, <3>2, HoldingType
      DEF DepositFt, Deposited, TypeOK, Custody, Holding
    <3> QED  BY <3>1, <3>2
  <2> QED  BY <1>a, <2>2, <2>3, <2>4 DEF IInv
<1>9. ASSUME NEW u \in Users, NEW n \in Nfts, DepositNft(u, n)
      PROVE  IInv'
  <2>1. /\ nft[n] = u /\ nft' = [nft EXCEPT ![n] = Contract]
        /\ nft' \in [Nfts -> Holders \union {None}]
    BY <1>0, <1>9 DEF DepositNft, TypeOK
  <2>d. /\ deposited' \in [Assets -> Nat]
        /\ deposited'[n] = deposited[n] + 1
        /\ \A b \in Assets : b # n => deposited'[b] = deposited[b]
    <3>1. deposited' = [deposited EXCEPT ![n] = @ + 1]
      BY <1>9 DEF DepositNft, Deposited
    <3>2. deposited \in [Assets -> Nat]
      BY <1>0 DEF TypeOK
    <3> QED  BY <3>1, <3>2, TotalType
  <2>2. TypeOK'
    BY <1>0, <1>9, <2>1, <2>d DEF DepositNft, Deposited, TypeOK
  <2>3. RecordIsPayouts' /\ RootsMatchCommits'
    BY <1>0, <1>9, RecordUnchanged, CommitsUnchanged DEF DepositNft, Deposited
  <2>4. ASSUME ~foreign', NEW a \in Assets PROVE Custody(a)'
    <3>0. Custody(a)
      BY <1>0, <1>9, <2>4, Zenon DEF DepositNft, Deposited
    <3>1. CASE a = n
      <4>1. UNCHANGED <<asked, paid>>
        BY <1>9 DEF DepositNft, Deposited
      <4>2. deposited[a] + asked[a] <= paid[a]
        BY <1>0, <2>1, <3>1, <3>0, HoldingIs DEF Custody
      <4>3. Holding(a)' = 1
        BY <1>0, <2>1, <3>1, SMTT(30) DEF Holding, TypeOK
      <4> QED  BY <1>0, <2>d, <3>1, <4>1, <4>2, <4>3 DEF Custody
    <3>2. CASE a # n
      BY <1>0, <1>9, <2>1, <3>0, <3>2, HoldingType
      DEF DepositNft, Deposited, TypeOK, Custody, Holding
    <3> QED  BY <3>1, <3>2
  <2> QED  BY <1>a, <2>2, <2>3, <2>4 DEF IInv
<1>10. ASSUME NEW w \in Leaves, NEW leaf \in Leaves, NEW r \in Roots,
              WithdrawStx(w, leaf, r)
       PROVE  IInv'
  <2>1. /\ w.asset = "stx" /\ w.amount \in Nat
        /\ ValidWithdrawal(w, leaf, r) /\ FinishWithdraw(w, leaf, r)
        /\ UNCHANGED <<ft, nft, asked, foreign, deposited, commits, roots, height,
                       miner, allowed>>
        /\ paid' = [paid EXCEPT !["stx"] = @ + w.amount]
    BY <1>10, LeafType DEF WithdrawStx, FinishWithdraw
  <2>2. stx' \in [Holders -> Nat] /\ stx'[Contract] = stx[Contract] - w.amount
    <3>1. /\ w.recipient \in Holders
          /\ CanTransfer(stx, w.amount, Contract, w.recipient)
          /\ stx' = Transfer(stx, w.amount, Contract, w.recipient)
      BY <1>10, LeafType DEF WithdrawStx
    <3>2. stx \in [Holders -> Nat]
      BY <1>0 DEF TypeOK
    <3>3. w.amount \in Nat
      BY <2>1, SMTT(30)
    <3> QED  BY <3>1, <3>2, <3>3, TransferType
  <2>3. /\ RecordIsPayouts' /\ processed' \subseteq Leaves \X Roots
        /\ paid' \in [Assets -> Nat] /\ payouts' \in [Leaves \X Roots -> Nat]
    BY <1>0, <2>1, FinishKeepsRecord
  <2>4. TypeOK' /\ RootsMatchCommits'
    BY <1>0, <2>1, <2>2, <2>3, CommitsUnchanged DEF TypeOK
  <2>5. ASSUME ~foreign', NEW a \in Assets PROVE Custody(a)'
    <3>0. Custody(a)
      BY <1>0, <2>1, <2>5
    <3>1. CASE a = "stx"
      BY <1>0, <2>1, <2>2, <3>0, <3>1, SMTT(60) DEF TypeOK, Custody, Holding
    <3>2. CASE a # "stx"
      BY <1>0, <2>1, <3>0, <3>2, HoldingType DEF TypeOK, Custody, Holding
    <3> QED  BY <3>1, <3>2
  <2> QED  BY <1>a, <2>3, <2>4, <2>5 DEF IInv
<1>11. ASSUME NEW w \in Leaves, NEW leaf \in Leaves, NEW r \in Roots,
              NEW mint \in MintContracts, WithdrawFt(w, leaf, r, mint)
       PROVE  IInv'
  <2>1. /\ w.asset = "ft" /\ w.amount \in Nat
        /\ ValidWithdrawal(w, leaf, r) /\ FinishWithdraw(w, leaf, r)
        /\ UNCHANGED <<deposited, commits, roots, height, miner, allowed>>
        /\ paid' = [paid EXCEPT !["ft"] = @ + w.amount]
    BY <1>11, LeafType DEF WithdrawFt, FinishWithdraw
  <2>2. AssetsTyped'
    BY <1>0, <1>11, <2>1, LeafType, FtTyped DEF WithdrawFt
  <2>3. /\ RecordIsPayouts' /\ processed' \subseteq Leaves \X Roots
        /\ paid' \in [Assets -> Nat] /\ payouts' \in [Leaves \X Roots -> Nat]
    BY <1>0, <2>1, FinishKeepsRecord
  <2>4. TypeOK' /\ RootsMatchCommits'
    BY <1>0, <2>1, <2>2, <2>3, CommitsUnchanged DEF TypeOK, AssetsTyped
  <2>5. ASSUME ~foreign', NEW a \in Assets PROVE Custody(a)'
    <3>1. /\ ~foreign /\ UNCHANGED <<stx, nft>>
          /\ ft'[Contract] + w.amount = ft[Contract] + (asked'["ft"] - asked["ft"])
          /\ \A b \in Assets : b # "ft" => asked'[b] = asked[b]
      BY <1>0, <1>11, <2>1, <2>5, LeafType, FtOwn DEF WithdrawFt
    <3>2. Custody(a)
      BY <1>0, <3>1
    <3>3. CASE a = "ft"
      <4>1. paid'[a] = paid[a] + w.amount /\ deposited'[a] = deposited[a]
        BY <1>0, <2>1, <3>3, SMTT(30) DEF TypeOK
      <4>2. deposited[a] + asked[a] <= paid[a] + ft[Contract]
        BY <3>2, <3>3, HoldingIs DEF Custody
      <4>3. Holding(a)' = ft'[Contract]
        BY <3>3 DEF Holding
      <4>4. /\ deposited[a] \in Nat /\ asked[a] \in Nat /\ paid[a] \in Nat
            /\ ft[Contract] \in Nat /\ ft'[Contract] \in Nat /\ asked'[a] \in Nat
        BY <1>0, <2>4 DEF TypeOK
      <4>5. deposited[a] + asked'[a] <= (paid[a] + w.amount) + ft'[Contract]
        <5>1. ft'[Contract] + w.amount = ft[Contract] + (asked'[a] - asked[a])
          BY <3>1, <3>3
        <5> QED  BY <2>1, <4>2, <4>4, <5>1
      <4>6. deposited'[a] + asked'[a] <= paid'[a] + Holding(a)'
        BY <4>1, <4>3, <4>5
      <4> QED  BY <4>6 DEF Custody
    <3>4. CASE a # "ft"
      BY <1>0, <2>1, <3>1, <3>2, <3>4, HoldingType DEF TypeOK, Custody, Holding
    <3> QED  BY <3>3, <3>4
  <2> QED  BY <1>a, <2>3, <2>4, <2>5 DEF IInv
<1>12. ASSUME NEW w \in Leaves, NEW leaf \in Leaves, NEW r \in Roots,
              NEW mint \in MintContracts \union {None},
              InnerWithdrawNft(w, leaf, r, mint)
       PROVE  IInv'
  <2> DEFINE n == w.asset
  <2>1. /\ n \in Nfts /\ w.amount = 1
        /\ ValidWithdrawal(w, leaf, r) /\ FinishWithdraw(w, leaf, r)
        /\ TransferOrMintNft(n, w.recipient, mint)
        /\ UNCHANGED <<deposited, commits, roots, height, miner, allowed>>
        /\ paid' = [paid EXCEPT ![n] = @ + 1]
    BY <1>12 DEF InnerWithdrawNft, FinishWithdraw
  <2>2. w.recipient \in Users /\ w.recipient \in Holders /\ w.recipient # Contract
    BY LeafType
  <2> HIDE DEF n
  <2>3. AssetsTyped'
    BY <1>0, <2>1, <2>2, NftTyped
  <2>4. /\ RecordIsPayouts' /\ processed' \subseteq Leaves \X Roots
        /\ paid' \in [Assets -> Nat] /\ payouts' \in [Leaves \X Roots -> Nat]
    BY <1>0, <2>1, FinishKeepsRecord
  <2>5. TypeOK' /\ RootsMatchCommits'
    BY <1>0, <2>1, <2>3, <2>4, CommitsUnchanged DEF TypeOK, AssetsTyped
  <2>6. ASSUME ~foreign', NEW a \in Assets PROVE Custody(a)'
    <3>1. /\ ~foreign /\ UNCHANGED <<stx, ft>>
          /\ nft' = [nft EXCEPT ![n] = w.recipient]
          /\ \/ nft[n] = Contract /\ asked' = asked
             \/ nft[n] = None /\ asked' = [asked EXCEPT ![n] = @ + 1]
      <4>1. CASE /\ nft[n] = Contract /\ nft' = [nft EXCEPT ![n] = w.recipient]
                 /\ NothingAsked /\ UNCHANGED <<stx, ft>>
        BY <2>6, <4>1 DEF NothingAsked
      <4>2. CASE /\ nft[n] = None /\ nft' = [nft EXCEPT ![n] = w.recipient]
                 /\ Ask(n, 1, mint) /\ UNCHANGED <<stx, ft>>
        BY <2>6, <4>2 DEF Ask
      <4>3. CASE mint = "other" /\ Ask(n, 1, mint)
        BY <2>6, <4>3 DEF Ask
      <4> QED  BY <2>1, <4>1, <4>2, <4>3, Zenon DEF TransferOrMintNft
    <3>0. Custody(a)
      BY <1>0, <3>1
    <3>2. CASE a = n
      <4>1. /\ paid'[a] = paid[a] + 1 /\ deposited'[a] = deposited[a]
            /\ nft'[a] # Contract
        BY <1>0, <2>1, <2>2, <3>1, <3>2 DEF TypeOK
      <4>a. a # "stx" /\ a # "ft"
        BY <2>1, <3>2, SMTT(30)
      <4>2. Holding(a)' = 0 /\ Holding(a) = IF nft[a] = Contract THEN 1 ELSE 0
        BY <4>1, <4>a, ZenonT(30) DEF Holding
      <4>3. asked'[a] = IF nft[a] = Contract THEN asked[a] ELSE asked[a] + 1
        BY <1>0, <2>1, <3>1, <3>2, SMTT(30) DEF TypeOK
      <4>4. deposited[a] + asked[a] <= paid[a] + Holding(a)
        BY <3>0 DEF Custody
      <4>5. deposited[a] \in Nat /\ asked[a] \in Nat /\ paid[a] \in Nat
        BY <1>0 DEF TypeOK
      <4>6. deposited[a] + asked'[a] <= (paid[a] + 1) + 0
        BY <4>2, <4>3, <4>4, <4>5, SMTT(30)
      <4> QED  BY <4>1, <4>2, <4>6 DEF Custody
    <3>3. CASE a # n
      BY <1>0, <2>1, <3>0, <3>1, <3>3, HoldingType DEF TypeOK, Custody, Holding
    <3> QED  BY <3>2, <3>3
  <2> QED  BY <1>a, <2>4, <2>5, <2>6 DEF IInv
<1>13. CASE UNCHANGED vars
  <2>1. TypeOK'
    BY <1>0, <1>13, SMTT(30) DEF vars, TypeOK
  <2>2. RecordIsPayouts' /\ RootsMatchCommits'
    BY <1>0, <1>13, RecordUnchanged, CommitsUnchanged DEF vars
  <2>3. CustodyBacked'
    BY <1>0, <1>13, CustodyUnchanged DEF vars
  <2> QED  BY <1>a, <2>1, <2>2, <2>3 DEF IInv
<1> QED
  BY <1>1, <1>2, <1>3, <1>4, <1>5, <1>6, <1>7, <1>8, <1>9, <1>10, <1>11, <1>12,
     <1>13 DEF Next, WithdrawNft

-----------------------------------------------------------------------------
(* Theorems. *)

\* IInv holds in every state the contract can reach.
LEMMA Invariance == Spec => []IInv
BY InitIInv, NextIInv, PTL DEF Spec

\* Balances stay natural numbers and every map stays well typed, whatever is
\* called in whatever order.
THEOREM TypeCorrect == Spec => []TypeOK
<1>1. IInv => TypeOK
  BY DEF IInv
<1> QED  BY <1>1, Invariance, PTL

\* No withdrawal is paid twice with a root, and none with a root that was not
\* committed.
THEOREM NoSecondPayout == Spec => []PaidOncePerRoot
<1>1. IInv => PaidOncePerRoot
  <2> SUFFICES ASSUME IInv, NEW w \in Leaves, NEW r \in Roots
               PROVE  /\ payouts[<<w, r>>] <= 1
                      /\ payouts[<<w, r>>] = 1 => r \in roots
    BY DEF PaidOncePerRoot
  <2>1. payouts[<<w, r>>] = IF <<w, r>> \in processed THEN 1 ELSE 0
    BY DEF IInv, RecordIsPayouts
  <2> QED  BY <2>1 DEF IInv, RecordIsPayouts
<1> QED  BY <1>1, Invariance, PTL

\* The contract holds whatever was deposited or asked and not yet paid, for
\* every asset, as long as no withdrawal names another mint contract than the
\* token's own.
THEOREM Custodial == Spec => []CustodyBacked
<1>1. IInv => CustodyBacked
  BY DEF IInv
<1> QED  BY <1>1, Invariance, PTL

\* The usable withdrawal roots are those of the recorded commits.
THEOREM CommittedRoots == Spec => []RootsMatchCommits
<1>1. IInv => RootsMatchCommits
  BY DEF IInv
<1> QED  BY <1>1, Invariance, PTL

\* transfer-or-mint: whichever mint contract the caller names and whatever it does,
\* it is asked for what the contract does not hold, and for no NFT with an owner.
THEOREM MintsOnlyShortfall == Spec => MintsShortfallOnly
<1> DEFINE Minting == \A a \in Assets : asked'[a] # asked[a] =>
                          /\ paid'[a] - paid[a] = Holding(a) + (asked'[a] - asked[a])
                          /\ a \in Nfts => nft[a] = None
<1>1. IInv /\ [Next]_vars => [Minting]_vars
  <2> SUFFICES ASSUME IInv, Next PROVE Minting
    BY DEF vars
  <2> USE ConstantsDistinct
  <2>0. /\ TypeOK
        /\ ft[Contract] \in Nat /\ asked \in [Assets -> Nat] /\ paid \in [Assets -> Nat]
    BY SMTT(30) DEF IInv, TypeOK
  <2>1. CASE asked' = asked
    BY <2>1
  <2>2. ASSUME NEW w \in Leaves, NEW leaf \in Leaves, NEW r \in Roots,
               NEW mint \in MintContracts, WithdrawFt(w, leaf, r, mint)
        PROVE  Minting
    <3> DEFINE k == w.amount
               transfer == IF k <= ft[Contract] THEN k ELSE ft[Contract]
    <3>1. k \in Nat /\ paid' = [paid EXCEPT !["ft"] = @ + k]
      BY <2>2, LeafType DEF WithdrawFt, FinishWithdraw
    <3>2. asked' = asked \/ (k - transfer > 0 /\ Ask("ft", k - transfer, mint))
      BY <2>2, Zenon DEF WithdrawFt, TransferOrMintFt, NothingAsked
    <3> HIDE DEF k
    <3>3. CASE k - transfer > 0 /\ Ask("ft", k - transfer, mint)
      <4>1. k - transfer = k - ft[Contract] /\ k - ft[Contract] \in Nat
        BY <2>0, <3>1, <3>3
      <4> HIDE DEF transfer
      <4>2. Ask("ft", k - ft[Contract], mint)
        BY <3>3, <4>1
      <4>3. /\ asked'["ft"] = asked["ft"] + (k - ft[Contract])
            /\ \A b \in Assets : b # "ft" => asked'[b] = asked[b]
        BY <2>0, <4>1, <4>2, AskTyped
      <4>4. paid'["ft"] = paid["ft"] + k /\ Holding("ft") = ft[Contract]
        BY <2>0, <3>1, HoldingIs
      <4>5. asked["ft"] \in Nat /\ paid["ft"] \in Nat
        BY <2>0
      <4>6. paid'["ft"] - paid["ft"] = Holding("ft") + (asked'["ft"] - asked["ft"])
        BY <2>0, <3>1, <4>3, <4>4, <4>5
      <4> QED  BY <4>3, <4>6
    <3> QED  BY <2>1, <3>2, <3>3
  <2>3. ASSUME NEW w \in Leaves, NEW leaf \in Leaves, NEW r \in Roots,
               NEW mint \in MintContracts \union {None},
               InnerWithdrawNft(w, leaf, r, mint)
        PROVE  Minting
    <3> DEFINE n == w.asset
    <3>1. n \in Nfts /\ paid' = [paid EXCEPT ![n] = @ + 1]
      BY <2>3 DEF InnerWithdrawNft, FinishWithdraw
    <3>2. asked' = asked \/ (nft[n] = None /\ Ask(n, 1, mint))
      BY <2>3, Zenon DEF InnerWithdrawNft, TransferOrMintNft, NothingAsked
    <3> HIDE DEF n
    <3>3. CASE nft[n] = None /\ Ask(n, 1, mint)
      <4>1. /\ asked'[n] = asked[n] + 1
            /\ \A b \in Assets : b # n => asked'[b] = asked[b]
        BY <2>0, <3>1, <3>3, AskTyped
      <4>2. paid'[n] = paid[n] + 1 /\ Holding(n) = 0
        BY <2>0, <3>1, <3>3, HoldingIs
      <4>3. asked[n] \in Nat /\ paid[n] \in Nat
        BY <2>0, <3>1
      <4>4. paid'[n] - paid[n] = Holding(n) + (asked'[n] - asked[n])
        BY <4>1, <4>2, <4>3
      <4> QED  BY <3>3, <4>1, <4>4
    <3> QED  BY <2>1, <3>2, <3>3
  <2>4. ASSUME NewL1Block PROVE Minting
    <3>1. asked' = asked
      BY <2>4 DEF NewL1Block
    <3> QED  BY <2>1, <3>1
  <2>5. ASSUME NEW from \in Users, NEW to \in Holders, UserTransfer(from, to)
        PROVE  Minting
    <3>1. asked' = asked
      BY <2>5 DEF UserTransfer
    <3> QED  BY <2>1, <3>1
  <2>6. ASSUME NEW u \in Users,
               \/ SetSubnetMiner(u) \/ SetupAllowedContracts(u)
               \/ \E n \in Nfts : DepositNft(u, n)
               \/ \E c \in Registrable : RegisterContract(u, c)
               \/ \E a \in Amounts : DepositStx(u, a) \/ DepositFt(u, a)
        PROVE  Minting
    <3>1. asked' = asked
      BY <2>6 DEF SetSubnetMiner, SetupAllowedContracts, RegisterContract,
                  DepositStx, DepositFt, DepositNft, Deposited
    <3> QED  BY <2>1, <3>1
  <2>7. ASSUME NEW s \in Users, NEW c \in Users, NEW b \in SubnetBlocks,
               NEW t \in 0..MaxHeight, CommitBlock(s, c, b, t)
        PROVE  Minting
    <3>1. asked' = asked
      BY <2>7 DEF CommitBlock
    <3> QED  BY <2>1, <3>1
  <2>8. ASSUME NEW w \in Leaves, NEW leaf \in Leaves, NEW r \in Roots,
               WithdrawStx(w, leaf, r)
        PROVE  Minting
    <3>1. asked' = asked
      BY <2>8 DEF WithdrawStx
    <3> QED  BY <2>1, <3>1
  <2>9. ASSUME NEW h \in Holders, NEW n \in Nfts, GiftNft(h, n) PROVE Minting
    <3>1. asked' = asked
      BY <2>9 DEF GiftNft
    <3> QED  BY <2>1, <3>1
  <2> QED
    BY <2>2, <2>3, <2>4, <2>5, <2>6, <2>7, <2>8, <2>9, ZenonT(30)
    DEF Next, WithdrawNft
<1> QED  BY <1>1, Invariance, PTL DEF Spec, MintsShortfallOnly

=============================================================================
