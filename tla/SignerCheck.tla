---------------------------- MODULE SignerCheck ----------------------------
(***************************************************************************)
(* The signer rule of multi-miner.clar: which callers and signatures make  *)
(* a block commit acceptable.  A signature is the pair of the key that made*)
(* it and the block data it covers: recovered over other data it yields a  *)
(* key that no miner has.                                                  *)
(***************************************************************************)
EXTENDS Integers, SequencesExt

CONSTANTS
    Stranger,           \* what a signature over other data recovers to
    Malformed,          \* a signature secp256k1-recover? rejects
    SignersRequired     \* signers-required

ASSUME SignersRequiredAssumption == SignersRequired \in Nat \ {0}

\* The principal secp256k1-recover? and principal-of? find behind sig.
RecoverSigner(sig, data) == IF sig.data = data THEN sig.signer ELSE Stranger

\* verify-sign-helper over all signatures; for well-formed ones only.
RecoverSigners(sigs, data) ==
    [i \in DOMAIN sigs |-> RecoverSigner(sigs[i], data)]

\* index-of: the first position of p in the list of miners, 0 for none.
IndexOfMiner(miners, p) ==
    IF p \in ToSet(miners) THEN SelectInSeq(miners, LAMBDA x : x = p) ELSE 0

\* Mutant: the last two items are compared, not all of them.
UniqueNeighbours(accum, item) ==
    IF ~accum.allUnique \/ (accum.priors # <<>> /\ item = Last(accum.priors))
    THEN [allUnique |-> FALSE, priors |-> <<>>]
    ELSE [allUnique |-> TRUE, priors |-> Append(accum.priors, item)]

\* unique-helper: whether all items so far differ, and those items.
UniqueHelper(accum, item) ==
    IF ~accum.allUnique \/ item \in ToSet(accum.priors)
    THEN [allUnique |-> FALSE, priors |-> <<>>]
    ELSE [allUnique |-> TRUE, priors |-> Append(accum.priors, item)]

\* provided-checked: the positions of the provided principals that are miners.
ProvidedChecked(miners, provided) ==
    SelectSeq([i \in DOMAIN provided |-> IndexOfMiner(miners, provided[i])],
              LAMBDA i : i # 0)

AllUnique(indices) ==
    FoldLeft(UniqueHelper, [allUnique |-> TRUE, priors |-> <<>>],
             indices).allUnique

CheckMiners(miners, provided) ==
    /\ AllUnique(ProvidedChecked(miners, provided))
    /\ Len(ProvidedChecked(miners, provided)) >= SignersRequired

\* commit-block's own checks: every signature recovers, the signers and the
\* sender together pass check-miners.
Authorized(miners, sender, sigs, data) ==
    /\ Malformed \notin ToSet(sigs)
    /\ CheckMiners(miners, Append(RecoverSigners(sigs, data), sender))

=============================================================================
