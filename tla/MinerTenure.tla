---------------------------- MODULE MinerTenure ----------------------------
(***************************************************************************)
(* Mining with two-phase commit: every miner's run loop and relayer thread *)
(* (neon.rs, neon_node.rs), the proposals miners sign for each other       *)
(* (commitment.rs, miner.rs), and the L1 chain that takes at most one      *)
(* commit per block.  Of the coordinator there is what a tenure reads: the *)
(* snapshots, the accepted blocks and the memoized tip (SortitionTips).    *)
(*                                                                         *)
(* The hash of a subnet block is its index in "made".  A block that won is *)
(* known by the L1 block of the sortition, which is what its consensus     *)
(* hash stands for; Root stands for the boot block.  One hash can win on   *)
(* two L1 forks.  The sortition DB's burn tip is its best block (TipOf).   *)
(***************************************************************************)
EXTENDS Deposits, SortitionTips, SignerCheck

CONSTANTS
    Miners,         \* the nodes; also their L1 accounts
    MinerList,      \* data-var miners of multi-miner.clar
    Participants,   \* Participants[m]: other_participants, in order
    Outcomes,       \* of a submission: subset of accepted, refused, lost
    MaxTenures,     \* bound on the tenures begun, by all miners
    MaxRestarts     \* bound on restarts of miners

VARIABLES
    l1,         \* L1 blocks mined so far
    commits,    \* commits[b]: the commit transaction b includes, or None
    txs,        \* commit transactions L1 has accepted
    made,       \* subnet blocks built so far
    db,         \* db[m]: m's sortition DB
    seen,       \* seen[m]: sortition_db_height of m's run loop
    queue,      \* queue[m]: ProcessTenure directives, as L1 blocks
    stored,     \* stored[m][b]: parent_consensus_hash of the block that won b
                \* in staging_blocks, as an L1 block, or None
    lastMined,  \* lastMined[m][b]: last_mined_blocks of burn block b
    tenure,     \* tenure[m]: locals of relayer_run_tenure, or None
    begun, restarts

layer1 == <<l1, commits, txs>>
chainstate == <<db, stored>>
counters == <<begun, restarts>>
vars == <<layer1, made, chainstate, seen, queue, lastMined, tenure, counters>>

Init ==
    /\ l1 = {Root} /\ commits = [b \in Blocks |-> None]
    /\ txs = {} /\ made = <<>>
    /\ db = [m \in Miners |-> NewDB]
    /\ seen = [m \in Miners |-> Height[Root]]
    /\ queue = [m \in Miners |-> <<>>]
    /\ stored = [m \in Miners |-> [b \in Blocks |-> None]]
    /\ lastMined = [m \in Miners |-> [b \in Blocks |-> <<>>]]
    /\ tenure = [m \in Miners |-> None]
    /\ begun = 0 /\ restarts = 0

-----------------------------------------------------------------------------
\* Layer 1.

CommitData(tx) == [block |-> tx.block, target |-> tx.target]

\* What the two contracts accept in a child of L1 block p.
Acceptable(tx, p) ==
    /\ tx.target = p
    /\ Authorized(MinerList, tx.miner, tx.sigs, CommitData(tx))

\* L1 mines a block, perhaps on a fork, with one of the commits or with none.
MineL1Block(b) ==
    /\ b \notin l1 /\ Parent[b] \in l1
    /\ l1' = l1 \union {b}
    /\ \E tx \in {t \in txs : Acceptable(t, Parent[b])} \union {None} :
          commits' = [commits EXCEPT ![b] = tx]
    /\ UNCHANGED <<txs, made, chainstate, seen, queue, lastMined, tenure,
                   counters>>

\* The nonce of a commit is the one L1 has confirmed on its canonical fork: it
\* takes the place of the miner's commits that are not mined there, whatever
\* their target.
Replaced(tx) ==
    {t \in txs : /\ t.miner = tx.miner
                 /\ \A b \in Ancestry[TipOf(l1)] : commits[b] # t}

\* Of these, those that may have been mined all the same, without effect.
MayHaveFailed(tx) == {t \in Replaced(tx) : t.target # TipOf(l1)}

-----------------------------------------------------------------------------
\* What a node derives from its databases.

BurnTip(m) == TipOf(db[m].snaps)
Sortition(b) == b \in l1 /\ commits[b] # None

\* The block that won b, and the sortition whose block it was built on.
Winner(b) == made[commits[b].block]
BuiltOn(b) == Winner(b).parent

\* Blocks that m's coordinator has accepted.
Processed(m) == {b \in Blocks : db[m].arrival[b] > 0}

\* get_stacks_chain_tip: the tip memoized on the burn tip.  It is only when that
\* is the boot block that there is no row for it in staging_blocks.
StacksTip(m) == db[m].memo[BurnTip(m)]
HasStacksTip(m) == StacksTip(m) # Root

-----------------------------------------------------------------------------
\* Run loop and coordinator.

\* The next L1 block of the canonical fork gets a snapshot.
ProcessL1Block(m) ==
    /\ \E b \in Ancestry[TipOf(l1)] \ db[m].snaps :
          /\ Parent[b] \in db[m].snaps
          /\ db' = [db EXCEPT ![m] = AppendSnapshot(@, b,
                IF commits[b] = None THEN None ELSE commits[b].block)]
    /\ UNCHANGED <<layer1, made, stored, seen, queue, lastMined, tenure,
                   counters>>

\* Mutant: the first of the new heights is skipped.
SortitionsAfter(b, low) ==
    SetToSortSeq({c \in Ancestry[b] : Height[c] > low /\ Sortition(c)},
                 LAMBDA c, d : Height[c] < Height[d])

\* The L1 blocks of b's fork from height low on that have a sortition, lowest
\* first.
SortitionsFrom(b, low) ==
    SetToSortSeq({c \in Ancestry[b] : Height[c] >= low /\ Sortition(c)},
                 LAMBDA c, d : Height[c] < Height[d])

\* Each height above sortition_db_height is announced to the relayer.
NotifyRelayer(m) ==
    /\ Height[BurnTip(m)] > seen[m]
    /\ queue' = [queue EXCEPT
          ![m] = @ \o SortitionsFrom(BurnTip(m), seen[m] + 1)]
    /\ seen' = [seen EXCEPT ![m] = Height[BurnTip(m)]]
    /\ UNCHANGED <<layer1, made, chainstate, lastMined, tenure, counters>>

\* Mutant: the parent is looked up among the stored blocks of every fork.
ParentAmongStored(m, b) ==
    TipOf({c \in db[m].snaps : /\ c = Root \/ stored[m][c] # None
                               /\ db[m].winner[c] = Winner(b).parentHash})

\* process_new_anchored_block: the parent is looked up, by its hash, among the
\* snapshots of b's own fork.
ParentOnFork(m, b) == SnapshotFor(db[m].winner, b, Winner(b).parentHash)

\* A block that another miner stored reaches m; it is dropped when the parent is
\* not found.
ReceiveBlock(m) ==
    /\ \E n \in Miners \ {m}, b \in db[m].snaps :
          /\ stored[n][b] # None /\ stored[m][b] = None
          /\ ParentOnFork(m, b) # NoBlock
          /\ stored' = [stored EXCEPT ![m][b] = ParentOnFork(m, b)]
    /\ UNCHANGED <<layer1, made, db, seen, queue, lastMined, tenure, counters>>

\* setup_block in the miner: the deposits up to the burn tip of pre_epoch_begin.
MinedOps(block, kind) ==
    GetOpsBetween(block.parent, block.burnTip, kind)

\* Mutant: the range ends with the block of the sortition.
AppendedOpsOwnBlock(m, b, kind) == GetOpsBetween(stored[m][b], b, kind)

\* setup_block in append_block: up to the burn block before the sortition.
AppendedOps(m, b, kind) == GetOpsBetween(stored[m][b], Parent[b], kind)

\* The coordinator accepts a stored block whose parent it has accepted.  With
\* deposits other than its miner's the state root differs and it is rejected.
AcceptBlock(m) ==
    /\ \E b \in Blocks \ Processed(m) :
          /\ stored[m][b] # None
          /\ stored[m][b] \in Processed(m) \union {Root}
          /\ \A kind \in Kinds :
                AppendedOps(m, b, kind) = MinedOps(Winner(b), kind)
          /\ LET h == Winner(b).parentHash
             IN  /\ ~PointerLookupPanics(db[m], BurnTip(m), h)
                 /\ db' = [db EXCEPT ![m] =
                       SetAccepted(@, BurnTip(m), b, h, Winner(b).height)]
    /\ UNCHANGED <<layer1, made, stored, seen, queue, lastMined, tenure,
                   counters>>

\* Bound: only restarts that lose blocks in flight are explored; one that loses
\* just a tenure leaves what giving up the tenure does.
LosesWork(m) == \E b \in Blocks : lastMined[m][b] # <<>>

\* m stops and starts again: what was only in memory is gone, and the run loop
\* starts from the first block of the reward cycle, here Root.
Restart(m) ==
    /\ restarts < MaxRestarts
    /\ restarts' = restarts + 1
    /\ seen' = [seen EXCEPT ![m] = Height[Root]]
    /\ queue' = [queue EXCEPT ![m] = <<>>]
    /\ lastMined' = [lastMined EXCEPT ![m] = [b \in Blocks |-> <<>>]]
    /\ tenure' = [tenure EXCEPT ![m] = None]
    /\ LosesWork(m)
    /\ UNCHANGED <<layer1, made, chainstate, begun>>

-----------------------------------------------------------------------------
\* Relayer thread: one directive at a time.

Idle(m) == tenure[m] = None

\* Mutant: the blocks in flight are looked up under the sortition's own block.
WonUnderOwnHash(m, b) ==
    \E e \in ToSet(lastMined[m][b]) : e.block = commits[b].block

\* The block that won b is among those in flight for b's parent.
Won(m, b) ==
    \E e \in ToSet(lastMined[m][Parent[b]]) : e.block = commits[b].block

\* ProcessTenure: all blocks in flight for the parent of b are dropped; the one
\* that won b, if it is among them, is stored on the parent it was built on,
\* whatever its fork, and advertised.
ProcessTenure(m) ==
    /\ Idle(m) /\ queue[m] # <<>>
    /\ LET b == Head(queue[m])
       IN  /\ lastMined' = [lastMined EXCEPT ![m][Parent[b]] = <<>>]
           /\ stored' = [stored EXCEPT ![m][b] =
                 IF Won(m, b) /\ @ = None THEN BuiltOn(b) ELSE @]
    /\ queue' = [queue EXCEPT ![m] = Tail(@)]
    /\ UNCHANGED <<layer1, made, db, seen, tenure, counters>>

\* The tenure ends without a commit.
Abandon(m) ==
    /\ tenure' = [tenure EXCEPT ![m] = None]
    /\ UNCHANGED <<layer1, made, chainstate, seen, queue, lastMined, counters>>

\* RunTenure: the burn tip is read.
RunTenure(m) ==
    /\ Idle(m) /\ begun < MaxTenures
    /\ begun' = begun + 1
    /\ tenure' = [tenure EXCEPT ![m] = [at |-> "begun", burn |-> BurnTip(m)]]
    /\ UNCHANGED <<layer1, made, chainstate, seen, queue, lastMined, restarts>>

\* One block in flight, in the loop that counts attempts.  "best" is the best
\* attempt, -1 when the tenure is to be given up; "open" while the loop runs.
Consider(acc, prev, count, parent, newMicroblocks) ==
    IF ~acc.open THEN acc
    ELSE IF prev.empty /\ count = 1 THEN [best |-> 1, open |-> FALSE]
    ELSE IF prev.empty /\ prev.attempt = 1 THEN [acc EXCEPT !.best = 1]
    ELSE IF made[prev.block].parent = parent /\ ~newMicroblocks
         THEN [best |-> -1, open |-> FALSE]
    ELSE [acc EXCEPT !.best = Max({@, prev.attempt})]

\* The number of this attempt; 0 when there is nothing new to mine.
Attempt(m, burn, parent, newMicroblocks) ==
    LET prevs == lastMined[m][burn]
    IN  FoldLeft(LAMBDA acc, prev :
                    Consider(acc, prev, Len(prevs), parent, newMicroblocks),
                 [best |-> 0, open |-> TRUE], prevs).best + 1

\* The subnet tip is read; the first block of all needs none, and only the
\* others compare the burn tip with the one the tenure began on.
ChooseParent(m) ==
    /\ ~Idle(m) /\ tenure[m].at = "begun"
    /\ \E newMicroblocks \in BOOLEAN :
          LET parent == StacksTip(m)
              attempt == Attempt(m, tenure[m].burn, parent, newMicroblocks)
          IN  IF \/ HasStacksTip(m) /\ BurnTip(m) # tenure[m].burn
                 \/ attempt = 0
              THEN Abandon(m)
              ELSE /\ tenure' = [tenure EXCEPT
                         ![m] = [at |-> "chosen", burn |-> @.burn,
                                 parent |-> parent, attempt |-> attempt]]
                   /\ UNCHANGED <<layer1, made, chainstate, seen, queue,
                                  lastMined, counters>>

\* The block is built, with the burn tip of this moment.
BuildBlock(m) ==
    /\ ~Idle(m) /\ tenure[m].at = "chosen"
    /\ LET parent == tenure[m].parent
       IN  made' = Append(made, [parent |-> parent,
                                 parentHash |-> db[m].winner[parent],
                                 height |-> db[m].height[parent] + 1,
                                 burnTip |-> BurnTip(m)])
    /\ tenure' = [tenure EXCEPT
          ![m] = [at |-> "built", burn |-> @.burn, parent |-> @.parent,
                  attempt |-> @.attempt, block |-> Len(made'),
                  burnTip |-> BurnTip(m), sigs |-> <<>>]]
    /\ UNCHANGED <<layer1, chainstate, seen, queue, lastMined, counters>>

\* Proposal::validate at p: p has processed the parent and knows the burn block
\* the proposal names.
Validates(p, t) ==
    /\ t.parent \in Processed(p) \union {Root}
    /\ t.burnTip \in db[p].snaps

\* The next of the first signers-required - 1 participants is asked; without
\* its signature there will not be enough.
ProposeBlock(m) ==
    /\ ~Idle(m) /\ tenure[m].at = "built"
    /\ Len(tenure[m].sigs) < SignersRequired - 1
    /\ LET t == tenure[m]
           i == Len(t.sigs) + 1
       IN  IF i \in DOMAIN Participants[m] /\ Validates(Participants[m][i], t)
           THEN /\ tenure' = [tenure EXCEPT ![m].sigs =
                      Append(@, [signer |-> Participants[m][i],
                                 data |-> [block |-> t.block,
                                           target |-> t.burnTip]])]
                /\ UNCHANGED <<layer1, made, chainstate, seen, queue,
                               lastMined, counters>>
           ELSE Abandon(m)

\* Mutant: only the subnet tip is compared.
LastChanceNoBurnTip(m) ==
    HasStacksTip(m) => tenure[m].parent = StacksTip(m)

\* The last-chance check; without a subnet tip nothing is checked.
LastChance(m) ==
    HasStacksTip(m) => /\ tenure[m].parent = StacksTip(m)
                       /\ tenure[m].burn = BurnTip(m)

\* Mutant: a second commit for the same tip is sent.
CanCommitAlways(attempt) == TRUE

\* make_commit_tx refuses to commit twice for one tip.
CanCommit(attempt) == attempt <= 1

\* submit_commit, and the block is remembered unless it reports an error, with
\* whether it holds only the coinbase: until then nothing depends on it.
SubmitCommit(m) ==
    /\ ~Idle(m) /\ tenure[m].at = "built"
    /\ Len(tenure[m].sigs) = SignersRequired - 1
    /\ IF ~LastChance(m) \/ ~CanCommit(tenure[m].attempt) THEN Abandon(m)
       ELSE \E outcome \in Outcomes, empty \in BOOLEAN :
          LET t == tenure[m]
              tx == [miner |-> m, block |-> t.block, target |-> t.burn,
                     sigs |-> t.sigs, checked |-> HasStacksTip(m),
                     answered |-> outcome = "accepted"]
          IN  /\ IF outcome = "refused" THEN UNCHANGED txs
                 ELSE \E failed \in SUBSET MayHaveFailed(tx) :
                    txs' = (txs \ (Replaced(tx) \ failed)) \union {tx}
              /\ lastMined' = IF outcome # "accepted" THEN lastMined
                              ELSE [lastMined EXCEPT ![m][t.burn] =
                                 Append(@, [block |-> t.block,
                                            empty |-> empty,
                                            attempt |-> t.attempt])]
              /\ tenure' = [tenure EXCEPT ![m] = None]
              /\ UNCHANGED <<l1, commits, made, chainstate, seen, queue,
                             counters>>

RelayerStep(m) ==
    \/ ProcessTenure(m)
    \/ ChooseParent(m)
    \/ BuildBlock(m)
    \/ ProposeBlock(m)
    \/ SubmitCommit(m)

Next ==
    \/ \E b \in Blocks : MineL1Block(b)
    \/ \E m \in Miners :
          \/ ProcessL1Block(m)
          \/ NotifyRelayer(m)
          \/ ReceiveBlock(m)
          \/ AcceptBlock(m)
          \/ Restart(m)
          \/ RunTenure(m)
          \/ RelayerStep(m)

Spec == Init /\ [][Next]_vars

\* While a thread can step or a peer has a block to hand over, one of them does:
\* less than the scheduler gives to each.  L1 owes nothing, and no tenure has to
\* begin.
ThreadStep == \E m \in Miners : \/ ProcessL1Block(m) \/ NotifyRelayer(m)
                                \/ ReceiveBlock(m) \/ AcceptBlock(m)
                                \/ RelayerStep(m)

Fairness == WF_vars(ThreadStep)

FairSpec == Spec /\ Fairness

-----------------------------------------------------------------------------
\* relayer_run_tenure: the tip a commit names and the tip its signatures cover
\* are read at different moments, yet in a commit that is sent they are the
\* same, so L1 never refuses it for its signatures.  This rests on the check
\* before the submission, which is made only when there is a subnet tip.
SignaturesCoverTarget ==
    \A tx \in txs : tx.checked =>
       Authorized(MinerList, tx.miner, tx.sigs, CommitData(tx))

\* make_commit_tx: a commit takes the place of the miner's last one, but in a
\* miner that did not restart never of one that was answered and that L1's next
\* block could still include, whatever becomes of the two tips.
LiveCommitsKept ==
    [][restarts = 0 =>
         \A tx \in txs : tx.answered /\ tx.target = TipOf(l1) => tx \in txs']_vars

\* The tip a committed block was built on was elected on the block's own fork.
OnFork(b) == BuiltOn(b) \in Ancestry[Parent[b]]

\* The memoized tip can be a block elected on another L1 fork, and so a commit
\* can win for a block built on one.  Nobody but its miner accepts such a block:
\* the others look for the parent on its own fork.
ForksNotMixed ==
    \A m \in Miners : \A b \in Processed(m) :
       OnFork(b) \/ m = commits[b].miner

\* setup_block: of a block built on its own fork, all who store it find the
\* deposits its miner applied, though the burn tip may have moved while it was
\* built and the miner knew the parent by the sortition, the others by its hash.
MinerAndFollowersAgree ==
    \A m \in Miners, b \in Blocks :
       stored[m][b] # None /\ OnFork(b) =>
          \A kind \in Kinds :
             AppendedOps(m, b, kind) = MinedOps(Winner(b), kind)

\* The ancestors of b's block, as m stored them, all won on b's fork.
ChainOnFork(m, b) ==
    LET on[c \in Blocks] ==
          \/ c = Root
          \/ stored[m][c] \in Ancestry[Parent[c]] /\ on[stored[m][c]]
    IN  on[b]

\* The deposits of a kind m applied from the first subnet block to b's.
AppliedUpTo(m, b, kind) ==
    LET applied[c \in Blocks] ==
          IF c = Root THEN <<>>
          ELSE applied[stored[m][c]] \o AppendedOps(m, c, kind)
    IN  applied[b]

\* get_ops_between: along every chain of blocks a node has accepted on one L1
\* fork, each deposit of that fork is applied exactly once, in the order of L1,
\* whichever L1 blocks had no sortition and whatever other forks there were.
DepositsOnceInOrder ==
    \A m \in Miners : \A b \in Processed(m) :
       ChainOnFork(m, b) =>
          \A kind \in Kinds :
             AppliedUpTo(m, b, kind) = DepositsOnFork[Parent[b], kind]

\* Nothing has happened that loses blocks in flight: L1 has not forked and no
\* miner has restarted.
Undisturbed ==
    /\ restarts = 0
    /\ \A b, c \in l1 : Height[b] = Height[c] => b = c

\* ProcessTenure: while L1 does not fork and no miner restarts, the miner of a
\* committed block can still produce it: the block is stored, or in flight
\* until its ProcessTenure.  (Until then nobody else has it.)
WinnerKeepsBlock ==
    Undisturbed =>
       \A b \in l1 : Sortition(b) /\ commits[b].answered =>
          \/ \E m \in Miners : stored[m][b] # None
          \/ \E e \in ToSet(lastMined[commits[b].miner][Parent[b]]) :
                e.block = commits[b].block

\* On the same terms every block that wins a sortition is in the end processed
\* by every miner, and stays so.
WinnersSpread ==
    <>[](Undisturbed /\ (\A b \in l1 : Sortition(b) => commits[b].answered) =>
            \A b \in l1, m \in Miners : Sortition(b) => b \in Processed(m))

=============================================================================
