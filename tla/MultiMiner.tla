----------------------------- MODULE MultiMiner -----------------------------
(***************************************************************************)
(* multi-miner.clar as the miner of subnet.clar, on one L1 fork: a commit  *)
(* is recorded when enough miners stand behind it and subnet.clar accepts  *)
(* it.  Public functions run alone; a call that fails changes nothing.     *)
(***************************************************************************)
EXTENDS SignerCheck

CONSTANTS
    Principals,     \* accounts that call the contract or sign
    None,           \* Clarity's none
    SubnetBlocks,   \* block and withdrawal-root of a commit
    MaxSigs,        \* bound on the signatures of a call (9 in the contract)
    MaxHeight       \* bound on the height of L1

\* block-data; a target tip is the height of the L1 block it names.
BlockData == [block : SubnetBlocks, target : 0..MaxHeight]
Signatures == [signer : Principals, data : BlockData] \union {Malformed}

VARIABLES
    height,     \* block-height of the L1 block being executed
    miners,     \* data-var miners
    commits     \* block-commits of subnet.clar, with who approved each

vars == <<height, miners, commits>>

Init ==
    /\ height = 1 /\ miners = None
    /\ commits = [h \in 1..MaxHeight |-> None]

\* L1 moves on; what it executes next sees the new height.
NewL1Block ==
    /\ height < MaxHeight
    /\ height' = height + 1
    /\ UNCHANGED <<miners, commits>>

\* set-miners succeeds once.
SetMiners ==
    /\ miners = None
    /\ \E list \in BoundedSeq(Principals, Cardinality(Principals)) :
          miners' = list
    /\ UNCHANGED <<height, commits>>

\* subnet.clar's can-commit-block?, for the contract that is its miner.
CanCommitBlock(target) ==
    /\ commits[height] = None
    /\ target = height - 1

\* The principals that stand behind a call: its sender and everyone who signed
\* exactly the data of the call.
Approvers(sender, sigs, data) ==
    {sender} \union {s.signer : s \in {x \in ToSet(sigs) : x.data = data}}

\* get-miners panics when the list is unset.  The caller is direct: a call
\* through another contract ends in ERR_UNAUTHORIZED_CONTRACT_CALLER.
CommitBlock(sender, sigs, data) ==
    /\ miners # None
    /\ Authorized(miners, sender, sigs, data)
    /\ CanCommitBlock(data.target)
    /\ commits' = [commits EXCEPT
          ![height] = [data |-> data,
                       approvers |-> Approvers(sender, sigs, data)]]
    /\ UNCHANGED <<height, miners>>

Next ==
    \/ NewL1Block
    \/ SetMiners
    \/ \E sender \in Principals, data \in BlockData :
          \E sigs \in BoundedSeq(Signatures, MaxSigs) :
             CommitBlock(sender, sigs, data)

Spec == Init /\ [][Next]_vars

-----------------------------------------------------------------------------
\* commit-block: whatever list of miners was set, a recorded commit has the
\* approval, for its own block, root and target, of signers-required different
\* miners; repeated signatures and those of strangers count for nothing.  And
\* check-miners refuses no quorum for the order, or the company, in which it
\* signs: the provided miners, wherever they stand among strangers, need only be
\* pairwise different and at least signers-required.
CommitsNeedQuorum ==
    /\ \A h \in 1..MaxHeight : commits[h] # None =>
          Cardinality(commits[h].approvers \intersect ToSet(miners))
             >= SignersRequired
    /\ miners # None =>
          \A p \in BoundedSeq(Principals \union {Stranger}, MaxSigs + 1) :
             CheckMiners(miners, p) <=>
                LET Known == {i \in DOMAIN p : p[i] \in ToSet(miners)}
                IN  /\ \A i, j \in Known : p[i] = p[j] => i = j
                    /\ Cardinality(Known) >= SignersRequired

=============================================================================
