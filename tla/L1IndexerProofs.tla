-------------------------- MODULE L1IndexerProofs ---------------------------
(***************************************************************************)
(* For every tree of layer-1 blocks, every number of request handlers and  *)
(* every order of delivery: the committed marks are the canonical path,    *)
(* the tip push_block read is never stale, only duplicates fail when L1    *)
(* skips nothing, and the tables implement CanonicalChain.                 *)
(***************************************************************************)
EXTENDS L1Indexer, TLAPS

\* t is the best member of S.
BestIn(t, S) == t \in S /\ \A b \in S : b = t \/ Better(t, b)

\* The rows a reorg has marked so far (not canonical before) are a branch from
\* block[h] down to, and excluding, base.
NewBranch(h, base) ==
    LET M == work \ canonical
    IN  /\ block[h] \in M
        /\ M \subseteq stored \union {block[h]}
        /\ \A m \in M : /\ Height[base] < Height[m]
                        /\ Height[m] <= Height[block[h]]
                        /\ Parent[m] \in M \/ Parent[m] = base
        /\ \A m, n \in M : Height[m] = Height[n] => m = n

\* Loop invariant of process_reorg, step 1.
UpInv(h) ==
    /\ cursor \in Blocks
    /\ canonical \subseteq work
    /\ NewBranch(h, cursor)
    /\ InOrder => cursor \in stored

\* Loop invariant of process_reorg, step 2.
DownInv(h) ==
    /\ gca \in canonical /\ cursor \in canonical
    /\ Height[gca] <= Height[cursor]
    /\ \A c \in canonical : c \in work <=> Height[c] <= Height[cursor]
    /\ NewBranch(h, gca)

\* The committed tables between transactions.
TableInv ==
    /\ stored = {} => canonical = {}
    /\ stored # {} => /\ BestIn(TipOf(stored), stored)
                      /\ IsPathTo(canonical, TipOf(stored))
                      /\ Root \in canonical
    /\ InOrder => \A s \in stored : s = Root \/ Parent[s] \in stored

\* A request carries the block being posted or one that is already stored.
RequestInv ==
    /\ posting # NoBlock =>
          /\ stored = {} => posting = Root
          /\ InOrder => posting = Root \/ Parent[posting] \in stored
    /\ \A h \in Handlers : pc[h] # "idle" =>
          /\ block[h] \in Blocks
          /\ block[h] \in stored \/ block[h] = posting
          /\ pc[h] = "ok" => block[h] \in stored

\* An open transaction is the only one and works on a block not yet stored.
TransactionInv ==
    \A h \in Handlers : InTransaction(h) =>
        /\ \A g \in Handlers : InTransaction(g) => g = h
        /\ block[h] \notin stored
        /\ NeedsReorg(block[h], tip[h])
        /\ pc[h] = "up" => UpInv(h)
        /\ pc[h] = "down" => DownInv(h)

IInv == /\ TypeOK /\ TableInv /\ RequestInv /\ TransactionInv
        /\ TipReadIsCurrent /\ OnlyDuplicatesFail

-----------------------------------------------------------------------------
(* The ranking of tips. *)

(* Heights are natural numbers.                                            *)
LEMMA HeightType == \A b \in Blocks : Height[b] \in Nat
BY BlockTreeAssumption

(* Every block but the first has a parent, one below it.                   *)
LEMMA ParentBelow ==
    ASSUME NEW b \in Blocks, b # Root
    PROVE  /\ Parent[b] \in Blocks
           /\ Height[Parent[b]] < Height[b]
           /\ Height[b] = Height[Parent[b]] + 1
           /\ Height[Root] < Height[b]
<1>1. /\ Parent[b] \in Blocks
      /\ Height[b] = Height[Parent[b]] + 1
      /\ Height[b] > Height[Root]
  BY BlockTreeAssumption
<1>2. Height[b] \in Nat /\ Height[Parent[b]] \in Nat /\ Height[Root] \in Nat
  BY <1>1, HeightType, BlockTreeAssumption
<1> QED
  BY <1>1, <1>2

(* get_canonical_chain_tip returns the best row whenever there is one:     *)
(* height and hash leave no ties.                                          *)
LEMMA BestIsTip ==
    ASSUME NEW S \in SUBSET Blocks, NEW t, BestIn(t, S)
    PROVE  TipOf(S) = t
<1>1. S # {} /\ t \in S /\ t \in Blocks
  BY DEF BestIn
<1>2. \A u \in S : (\A b \in S : b = u \/ Better(u, b)) => u = t
  BY <1>1, BlockTreeAssumption DEF BestIn, Better, NoBlock
<1>3. t \in S /\ \A b \in S : b = t \/ Better(t, b)
  BY DEF BestIn
<1> QED
  BY <1>1, <1>2, <1>3 DEF TipOf

(* The first row is the tip.                                               *)
LEMMA FirstIsBest ==
    ASSUME NEW b \in Blocks
    PROVE  BestIn(b, {} \union {b})
BY DEF BestIn

(* A row that precedes the tip becomes the tip.                            *)
LEMMA BetterIsBest ==
    ASSUME NEW S \in SUBSET Blocks, NEW t, BestIn(t, S),
           NEW b \in Blocks, Better(b, t)
    PROVE  BestIn(b, S \union {b})
<1> SUFFICES ASSUME NEW s \in S
             PROVE  s = b \/ Better(b, s)
  BY DEF BestIn
<1> QED
  BY BlockTreeAssumption DEF BestIn, Better

(* Any other row leaves the tip where it was.                              *)
LEMMA WorseKeepsBest ==
    ASSUME NEW S \in SUBSET Blocks, NEW t, BestIn(t, S),
           NEW b \in Blocks, ~Better(b, t)
    PROVE  BestIn(t, S \union {b})
<1>1. b = t \/ Better(t, b)
  BY BlockTreeAssumption DEF BestIn, Better, NoBlock
<1> QED
  BY <1>1 DEF BestIn

(* A child of the tip precedes it.                                         *)
LEMMA ChildIsBetter ==
    ASSUME NEW b \in Blocks, NEW t \in Blocks, Parent[b] = t
    PROVE  Better(b, t) /\ b # Root /\ Height[b] = Height[t] + 1
BY BlockTreeAssumption DEF Better, NoBlock

-----------------------------------------------------------------------------

(* The indexer starts with empty tables and no request.                    *)
LEMMA InitIInv == Init => IInv
<1> SUFFICES ASSUME Init PROVE IInv
  OBVIOUS
<1>1. \A h \in Handlers : pc[h] = "idle" /\ ~InTransaction(h)
  BY DEF Init, InTransaction
<1>2. TypeOK
  BY DEF Init, TypeOK
<1>3. TableInv
  BY DEF Init, TableInv
<1> QED
  BY <1>1, <1>2, <1>3 DEF Init, IInv, RequestInv, TransactionInv,
     TipReadIsCurrent, OnlyDuplicatesFail

(* Steps that leave the tables and the transaction alone keep what is said *)
(* of them.                                                                *)
LEMMA TablesUntouched ==
    ASSUME IInv, UNCHANGED <<table, tx>>,
           \A h \in Handlers : \/ pc'[h] = pc[h] /\ block'[h] = block[h] /\ tip'[h] = tip[h]
                              \/ ~InTransaction(h)'
    PROVE  TableInv' /\ TransactionInv'
<1> USE DEF table, tx
<1>1. TableInv'
  BY DEF IInv, TableInv, BestIn, IsPathTo
<1>2. TransactionInv'
  <2> SUFFICES ASSUME NEW h \in Handlers, InTransaction(h)'
               PROVE  /\ \A g \in Handlers : InTransaction(g)' => g = h
                      /\ block'[h] \notin stored'
                      /\ NeedsReorg(block'[h], tip'[h])
                      /\ pc'[h] = "up" => UpInv(h)'
                      /\ pc'[h] = "down" => DownInv(h)'
    BY DEF TransactionInv, NeedsReorg, Better
  <2>1. pc'[h] = pc[h] /\ block'[h] = block[h] /\ tip'[h] = tip[h] /\ InTransaction(h)
    BY DEF InTransaction
  <2>2. \A g \in Handlers : InTransaction(g)' => InTransaction(g)
    BY DEF InTransaction
  <2>3. pc[h] = "up" => UpInv(h)'
    BY <2>1 DEF IInv, TransactionInv, UpInv, NewBranch
  <2>4. pc[h] = "down" => DownInv(h)'
    BY <2>1 DEF IInv, TransactionInv, DownInv, NewBranch
  <2> QED
    BY <2>1, <2>2, <2>3, <2>4 DEF IInv, TransactionInv
<1> QED
  BY <1>1, <1>2

(* A handler inserts only the block being posted, so once a block is stored *)
(* every request still holding a tip read before is for a stored block.     *)
LEMMA OthersHoldStoredBlocks ==
    ASSUME IInv, NEW h \in Handlers, pc[h] # "idle", block[h] \notin stored,
           NEW g \in Handlers, pc[g] # "idle"
    PROVE  block[g] \in stored \union {block[h]}
BY DEF IInv, RequestInv

-----------------------------------------------------------------------------
(* One lemma per action that writes the tables or the transaction.          *)

(* A child of the tip extends the path.                                     *)
LEMMA ExtendPath ==
    ASSUME NEW C \in SUBSET Blocks, NEW t \in Blocks, IsPathTo(C, t),
           NEW b \in Blocks, Parent[b] = t
    PROVE  IsPathTo(C \union {b}, b)
<1> DEFINE D == C \union {b}
<1>1. Height[b] = Height[t] + 1 /\ Height[t] \in Nat
  BY ChildIsBetter, BlockTreeAssumption
<1>2. \A c \in C : Height[c] \in Nat /\ Height[c] <= Height[t]
  BY BlockTreeAssumption DEF IsPathTo
<1>3. b \in D /\ \A c \in D : c = Root \/ Parent[c] \in D
  BY DEF IsPathTo
<1>4. \A c \in D : Height[c] <= Height[b]
  BY <1>1, <1>2
<1>5. \A c, d \in D : Height[c] = Height[d] => c = d
  <2> SUFFICES ASSUME NEW c \in D, NEW d \in D, Height[c] = Height[d]
               PROVE  c = d
    OBVIOUS
  <2>1. c \in C <=> d \in C
    BY <1>1, <1>2
  <2> QED
    BY <2>1 DEF IsPathTo
<1> QED
  BY <1>3, <1>4, <1>5 DEF IsPathTo

(* The row of a block that needs no reorg keeps the canonical path.         *)
LEMMA InsertAndCommitIInv ==
    ASSUME IInv, NEW h \in Handlers, InsertAndCommit(h)
    PROVE  IInv'
<1> DEFINE b == block[h]
           t == TipOf(stored)
<1>1. /\ b \in Blocks \ stored /\ tip[h] = t /\ b = posting /\ posting # NoBlock
      /\ pc[h] = "insert"
      /\ stored' = stored \union {b}
      /\ \A g \in Handlers : ~InTransaction(g)
  BY BlockTreeAssumption DEF IInv, InsertAndCommit, RequestInv, TipReadIsCurrent, NoBlock, TypeOK
<1>2. TypeOK'
  BY <1>1 DEF IInv, TypeOK, InsertAndCommit, tx
<1>3. TableInv'
  <2>1. CASE stored = {}
    <3>1. b = Root /\ t = NoBlock /\ canonical = {} /\ canonical' = {b} /\ stored' = {b}
      BY <1>1, <2>1 DEF IInv, RequestInv, TableInv, TipOf, InsertAndCommit, IsCanonical
    <3>2. BestIn(b, stored') /\ TipOf(stored') = b
      BY <1>1, <2>1, <3>1, FirstIsBest, BestIsTip
    <3> QED
      BY <1>1, <3>1, <3>2, BlockTreeAssumption DEF TableInv, IsPathTo
  <2>2. CASE stored # {} /\ Parent[b] = t
    <3>1. t \in stored /\ t \in Blocks /\ BestIn(t, stored) /\ IsPathTo(canonical, t) /\ Root \in canonical
          /\ canonical \subseteq stored /\ stored \subseteq Blocks
      BY <2>2 DEF IInv, TableInv, BestIn, TypeOK
    <3>2. Better(b, t) /\ b # Root /\ Height[b] = Height[t] + 1
      BY <1>1, <2>2, <3>1, ChildIsBetter
    <3>3. BestIn(b, stored') /\ TipOf(stored') = b
      BY <1>1, <3>1, <3>2, BetterIsBest, BestIsTip
    <3>4. canonical' = canonical \union {b}
      BY <1>1, <2>2 DEF InsertAndCommit, IsCanonical
    <3>5. IsPathTo(canonical', b)
      BY <1>1, <2>2, <3>1, <3>4, ExtendPath
    <3>6. InOrder => \A s \in stored' : s = Root \/ Parent[s] \in stored'
      BY <1>1, <2>2, <3>1 DEF IInv, TableInv
    <3> QED
      BY <1>1, <3>1, <3>3, <3>4, <3>5, <3>6 DEF TableInv
  <2>3. CASE stored # {} /\ Parent[b] # t
    <3>1. t \in stored /\ t \in Blocks /\ BestIn(t, stored) /\ t # NoBlock
          /\ stored \subseteq Blocks
      BY <2>3, BlockTreeAssumption DEF IInv, TableInv, BestIn, TypeOK
    <3>2. ~Better(b, t) /\ canonical' = canonical
      BY <1>1, <2>3, <3>1 DEF InsertAndCommit, NeedsReorg, IsCanonical
    <3>3. BestIn(t, stored') /\ TipOf(stored') = t
      BY <1>1, <3>1, <3>2, WorseKeepsBest, BestIsTip
    <3>4. InOrder => \A s \in stored' : s = Root \/ Parent[s] \in stored'
      BY <1>1 DEF IInv, TableInv, RequestInv
    <3> QED
      BY <1>1, <2>3, <3>2, <3>3, <3>4 DEF IInv, TableInv, IsPathTo
  <2> QED
    BY <2>1, <2>2, <2>3
<1>4. RequestInv'
  BY <1>1 DEF IInv, RequestInv, InsertAndCommit, TypeOK
<1>5. TransactionInv'
  <2>1. \A g \in Handlers : ~InTransaction(g)'
    BY <1>1 DEF IInv, TypeOK, InsertAndCommit, InTransaction
  <2> QED
    BY <2>1 DEF TransactionInv
<1>6. TipReadIsCurrent'
  <2>1. \A g \in Handlers : pc'[g] \in {"insert", "up", "down"} => block'[g] \in stored'
    BY <1>1, OthersHoldStoredBlocks DEF IInv, TypeOK, InsertAndCommit
  <2> QED
    BY <2>1 DEF TipReadIsCurrent
<1>7. OnlyDuplicatesFail'
  BY <1>1 DEF IInv, TypeOK, OnlyDuplicatesFail, InsertAndCommit
<1> QED
  BY <1>2, <1>3, <1>4, <1>5, <1>6, <1>7 DEF IInv

(* A handler whose block is not stored is posting it, and read the tip.      *)
LEMMA InsertingHandler ==
    ASSUME IInv, NEW h \in Handlers, pc[h] \in {"insert", "up", "down"},
           block[h] \notin stored, NeedsReorg(block[h], tip[h])
    PROVE  /\ block[h] \in Blocks /\ block[h] = posting
           /\ tip[h] = TipOf(stored) /\ tip[h] \in stored /\ stored # {}
           /\ tip[h] \in Blocks
           /\ BestIn(tip[h], stored) /\ IsPathTo(canonical, tip[h])
           /\ Root \in canonical /\ block[h] # Root
           /\ canonical \subseteq stored /\ stored \subseteq Blocks
<1>1. /\ block[h] \in Blocks /\ block[h] = posting /\ tip[h] = TipOf(stored)
      /\ canonical \subseteq stored /\ stored \subseteq Blocks
  BY DEF IInv, RequestInv, TipReadIsCurrent, TypeOK
<1>2. stored # {}
  BY <1>1 DEF NeedsReorg, TipOf
<1> QED
  BY <1>1, <1>2 DEF IInv, TableInv, BestIn

(* A step of the transaction that leaves the tables alone keeps all but      *)
(* what is said of the transaction itself.                                   *)
LEMMA WithinTransaction ==
    ASSUME IInv, NEW h \in Handlers, pc[h] \in {"insert", "up", "down"},
           NEW p \in {"up", "down"}, pc' = [pc EXCEPT ![h] = p],
           UNCHANGED <<table, posting, block, tip>>,
           \A g \in Handlers : InTransaction(g) => g = h,
           block[h] \notin stored,
           NeedsReorg(block[h], tip[h]),
           work' \in SUBSET Blocks, cursor' \in Blocks, gca' \in Blocks \union {NoBlock},
           p = "up" => UpInv(h)',
           p = "down" => DownInv(h)'
    PROVE  IInv'
<1>1. TypeOK'
  BY DEF IInv, TypeOK, table
<1>2. TableInv'
  BY DEF IInv, TableInv, BestIn, IsPathTo, table
<1>3. RequestInv'
  BY DEF IInv, RequestInv, TypeOK, table
<1>4. TransactionInv'
  <2>1. \A g \in Handlers : InTransaction(g)' => g = h
    BY DEF IInv, TypeOK, InTransaction
  <2>2. block'[h] \notin stored' /\ NeedsReorg(block[h], tip[h])' /\ pc'[h] = p
    BY DEF IInv, TypeOK, NeedsReorg, Better, table
  <2> QED
    BY <2>1, <2>2 DEF TransactionInv
<1>5. TipReadIsCurrent'
  BY DEF IInv, TipReadIsCurrent, TypeOK, table
<1>6. OnlyDuplicatesFail'
  BY SMTT(30) DEF IInv, OnlyDuplicatesFail, TypeOK, table
<1> QED
  BY <1>1, <1>2, <1>3, <1>4, <1>5, <1>6 DEF IInv

(* The new tip alone is a branch above its parent.                           *)
LEMMA InsertForReorgIInv ==
    ASSUME IInv, NEW h \in Handlers, InsertForReorg(h)
    PROVE  IInv'
<1> DEFINE b == block[h]
<1>1. /\ b \in Blocks \ stored /\ b # Root /\ b = posting
      /\ canonical \subseteq stored /\ stored \subseteq Blocks /\ stored # {}
  BY InsertingHandler DEF InsertForReorg
<1>2. Parent[b] \in Blocks /\ Height[Parent[b]] < Height[b] /\ Height[b] <= Height[b]
  BY <1>1, ParentBelow, HeightType
<1>3. work' \ canonical' = {b} /\ block'[h] = b
  BY <1>1 DEF InsertForReorg, table
<1>4. InOrder => Parent[b] \in stored
  BY <1>1, BlockTreeAssumption DEF IInv, RequestInv
<1>5. UpInv(h)'
  BY <1>1, <1>2, <1>3, <1>4 DEF UpInv, NewBranch, InsertForReorg, table
<1> QED
  BY <1>1, <1>2, <1>5, WithinTransaction DEF InsertForReorg, IInv, TypeOK

(* Marking the parent grows the branch downwards.                            *)
LEMMA MarkAncestorIInv ==
    ASSUME IInv, NEW h \in Handlers, MarkAncestor(h)
    PROVE  IInv'
<1> DEFINE M == work \ canonical
<1>1. /\ UpInv(h) /\ block[h] \notin stored /\ NeedsReorg(block[h], tip[h])
      /\ \A g \in Handlers : InTransaction(g) => g = h
      /\ pc[h] = "up"
  BY DEF IInv, TransactionInv, MarkAncestor, InTransaction
<1>2. /\ Root \in canonical /\ canonical \subseteq stored /\ stored \subseteq Blocks
      /\ block[h] \in Blocks
  BY <1>1, InsertingHandler
<1>3. cursor \in Blocks /\ cursor \in stored /\ cursor \notin work /\ cursor # Root
  BY <1>1, <1>2 DEF UpInv, MarkAncestor
<1>4. Parent[cursor] \in Blocks /\ Height[Parent[cursor]] < Height[cursor]
  BY <1>3, ParentBelow
<1>5. /\ M \subseteq Blocks
      /\ \A m \in M \union {cursor} : Height[m] \in Int
      /\ Height[Parent[cursor]] \in Int /\ Height[block[h]] \in Int
  <2>1. M \subseteq Blocks
    BY <1>1, <1>2 DEF UpInv, NewBranch
  <2> QED
    BY <1>2, <1>3, <1>4, <2>1, HeightType
<1>6. work' \ canonical' = M \union {cursor} /\ cursor' = Parent[cursor]
      /\ block' = block /\ stored' = stored /\ canonical' = canonical
  BY <1>1, <1>3 DEF MarkAncestor, UpInv, table
<1>7. NewBranch(h, cursor)'
  <2>1. block[h] \in M /\ M \subseteq stored \union {block[h]}
    BY <1>1 DEF UpInv, NewBranch
  <2>2. \A m \in M : /\ Height[cursor] < Height[m]
                     /\ Height[m] <= Height[block[h]]
                     /\ Parent[m] \in M \/ Parent[m] = cursor
    BY <1>1 DEF UpInv, NewBranch
  <2>3. \A m, n \in M : Height[m] = Height[n] => m = n
    BY <1>1 DEF UpInv, NewBranch
  <2>4. \A m \in M \union {cursor} :
           /\ Height[Parent[cursor]] < Height[m]
           /\ Height[m] <= Height[block[h]]
           /\ Parent[m] \in M \union {cursor} \/ Parent[m] = Parent[cursor]
    BY <1>4, <1>5, <2>1, <2>2
  <2>5. \A m, n \in M \union {cursor} : Height[m] = Height[n] => m = n
    BY <1>5, <2>2, <2>3
  <2> QED
    BY <1>3, <1>6, <2>1, <2>4, <2>5 DEF NewBranch
<1>8. InOrder => Parent[cursor] \in stored
  BY <1>3 DEF IInv, TableInv
<1>9. UpInv(h)'
  BY <1>1, <1>4, <1>6, <1>7, <1>8 DEF UpInv, MarkAncestor
<1>10. pc' = [pc EXCEPT ![h] = "up"]
  BY <1>1, SMTT(30) DEF MarkAncestor, IInv, TypeOK
<1> QED
  BY <1>1, <1>3, <1>4, <1>9, <1>10, WithinTransaction DEF MarkAncestor, IInv, TypeOK

(* The first marked ancestor is on the old path, and the walk down starts at *)
(* the old tip.                                                              *)
LEMMA FoundCommonAncestorIInv ==
    ASSUME IInv, NEW h \in Handlers, FoundCommonAncestor(h)
    PROVE  IInv'
<1>1. /\ UpInv(h) /\ block[h] \notin stored /\ NeedsReorg(block[h], tip[h])
      /\ \A g \in Handlers : InTransaction(g) => g = h
      /\ pc[h] = "up"
  BY DEF IInv, TransactionInv, FoundCommonAncestor, InTransaction
<1>2. /\ canonical \subseteq stored /\ stored \subseteq Blocks
      /\ IsPathTo(canonical, tip[h]) /\ tip[h] \in Blocks
  BY <1>1, InsertingHandler
<1>3. cursor \in Blocks /\ cursor \in work
  BY <1>1 DEF UpInv, FoundCommonAncestor
<1>4. cursor \in canonical
  <2>1. cursor \in work \ canonical => Height[cursor] < Height[cursor]
    BY <1>1 DEF UpInv, NewBranch
  <2> QED
    BY <1>3, <2>1, HeightType
<1>5. /\ gca' = cursor /\ cursor' = tip[h] /\ work' = work /\ canonical' = canonical
      /\ block' = block /\ stored' = stored
  BY DEF FoundCommonAncestor, table
<1>6. /\ tip[h] \in canonical
      /\ \A c \in canonical : c \in work /\ Height[c] <= Height[tip[h]]
  BY <1>1, <1>2, SMTT(30) DEF IsPathTo, UpInv
<1>7. NewBranch(h, gca)'
  BY <1>1, <1>5 DEF UpInv, NewBranch
<1>8. DownInv(h)'
  BY <1>4, <1>5, <1>6, <1>7, SMTT(30) DEF DownInv
<1> QED
  BY <1>1, <1>2, <1>3, <1>8, WithinTransaction DEF FoundCommonAncestor, IInv, TypeOK

(* Unmarking the cursor lowers the top of what is left of the old path.      *)
LEMMA UnmarkOldBranchIInv ==
    ASSUME IInv, NEW h \in Handlers, UnmarkOldBranch(h)
    PROVE  IInv'
<1>1. /\ DownInv(h) /\ block[h] \notin stored /\ NeedsReorg(block[h], tip[h])
      /\ \A g \in Handlers : InTransaction(g) => g = h
      /\ pc[h] = "down"
  BY DEF IInv, TransactionInv, UnmarkOldBranch, InTransaction
<1>2. /\ canonical \subseteq stored /\ stored \subseteq Blocks
      /\ IsPathTo(canonical, tip[h]) /\ tip[h] \in Blocks
  BY <1>1, InsertingHandler
<1>3. /\ cursor \in canonical /\ gca \in canonical /\ cursor # gca
      /\ cursor \in Blocks /\ gca \in Blocks
  BY <1>1, <1>2 DEF DownInv, UnmarkOldBranch
<1>4. Height[gca] < Height[cursor] /\ Height[cursor] \in Nat /\ Height[gca] \in Nat
  <2>1. Height[gca] # Height[cursor] /\ Height[gca] <= Height[cursor]
    BY <1>1, <1>2, <1>3 DEF IsPathTo, DownInv
  <2> QED
    BY <1>3, <2>1, HeightType
<1>5. cursor # Root
  <2>1. gca = Root \/ Height[Root] < Height[gca]
    BY <1>3, ParentBelow
  <2> QED
    BY <1>3, <1>4, <2>1, HeightType
<1>6. /\ Parent[cursor] \in canonical /\ Parent[cursor] \in Blocks
      /\ Height[cursor] = Height[Parent[cursor]] + 1
      /\ Height[Parent[cursor]] \in Nat
  BY <1>2, <1>3, <1>5, ParentBelow, HeightType DEF IsPathTo
<1>7. /\ gca' = gca /\ cursor' = Parent[cursor] /\ work' = work \ {cursor}
      /\ canonical' = canonical /\ block' = block /\ stored' = stored
  BY DEF UnmarkOldBranch, table
<1>8. Height[gca] <= Height[Parent[cursor]]
  BY <1>4, <1>6
<1>9. \A c \in canonical : c \in work' <=> Height[c] <= Height[Parent[cursor]]
  <2> SUFFICES ASSUME NEW c \in canonical
               PROVE  c \in work' <=> Height[c] <= Height[Parent[cursor]]
    OBVIOUS
  <2>1. Height[c] \in Nat
    BY <1>2, HeightType
  <2>2. c \in work <=> Height[c] <= Height[cursor]
    BY <1>1 DEF DownInv
  <2>3. c = cursor <=> Height[c] = Height[cursor]
    BY <1>2, <1>3 DEF IsPathTo
  <2> QED
    BY <1>4, <1>6, <1>7, <2>1, <2>2, <2>3
<1>10. NewBranch(h, gca)'
  <2>1. work' \ canonical' = work \ canonical
    BY <1>3, <1>7
  <2> QED
    BY <1>1, <1>7, <2>1 DEF DownInv, NewBranch
<1>11. DownInv(h)'
  BY <1>3, <1>6, <1>7, <1>8, <1>9, <1>10 DEF DownInv
<1>12. pc' = [pc EXCEPT ![h] = "down"]
  BY <1>1 DEF UnmarkOldBranch, IInv, TypeOK
<1> QED
  BY <1>1, <1>6, <1>11, <1>12, WithinTransaction DEF UnmarkOldBranch, IInv, TypeOK

(* When both walks are done the marks are the path to the new tip: the part  *)
(* of the old path up to the common ancestor and the new branch above it.    *)
LEMMA ReorgPath ==
    ASSUME IInv, NEW h \in Handlers, CommitReorg(h)
    PROVE  /\ IsPathTo(work, block[h]) /\ Root \in work
           /\ work \subseteq stored \union {block[h]}
<1> DEFINE b == block[h]
           M == work \ canonical
<1>1. DownInv(h) /\ b \notin stored /\ NeedsReorg(b, tip[h]) /\ pc[h] = "down"
      /\ cursor = gca
  BY DEF IInv, TransactionInv, CommitReorg, InTransaction
<1>2. /\ canonical \subseteq stored /\ stored \subseteq Blocks /\ b \in Blocks
      /\ IsPathTo(canonical, tip[h]) /\ tip[h] \in Blocks /\ Root \in canonical
  BY <1>1, InsertingHandler, SMTT(30)
<1>3. /\ gca \in canonical /\ gca \in Blocks
      /\ \A c \in canonical : c \in work <=> Height[c] <= Height[gca]
      /\ b \in M /\ M \subseteq stored \union {b}
      /\ \A m \in M : /\ Height[gca] < Height[m]
                      /\ Height[m] <= Height[b]
                      /\ Parent[m] \in M \/ Parent[m] = gca
      /\ \A m, n \in M : Height[m] = Height[n] => m = n
  BY <1>1, <1>2 DEF DownInv, NewBranch
<1>4. work \subseteq Blocks /\ \A c \in work : Height[c] \in Nat
  BY <1>2, <1>3, HeightType
<1>5. Height[gca] \in Nat /\ Height[b] \in Nat /\ gca \in work
  BY <1>2, <1>3, HeightType
<1>6. ASSUME NEW c \in work
      PROVE  c = Root \/ Parent[c] \in work
  <2>1. CASE c \in M
    BY <1>3, <1>5, <2>1
  <2>2. CASE c \in canonical /\ c # Root
    <3>1. Parent[c] \in canonical /\ Height[Parent[c]] < Height[c] /\ Height[c] <= Height[gca]
      BY <1>2, <1>3, <1>4, <2>2, ParentBelow DEF IsPathTo
    <3>2. Height[Parent[c]] \in Nat /\ Height[c] \in Nat
      BY <1>2, <1>4, <3>1, HeightType
    <3>3. Height[Parent[c]] <= Height[gca]
      BY <1>5, <3>1, <3>2
    <3> QED
      BY <1>3, <3>1, <3>3
  <2> QED
    BY <2>1, <2>2
<1>7. ASSUME NEW c \in work, NEW d \in work, Height[c] = Height[d]
      PROVE  c = d
  <2>1. c \in M <=> d \in M
    BY <1>3, <1>4, <1>5, <1>7
  <2> QED
    BY <1>2, <1>3, <1>7, <2>1 DEF IsPathTo
<1>8. ASSUME NEW c \in work
      PROVE  Height[c] <= Height[b]
  BY <1>3, <1>4, <1>5
<1>9. Root \in work
  <2>1. gca = Root \/ Height[Root] < Height[gca]
    BY <1>3, ParentBelow
  <2>2. Height[Root] <= Height[gca]
    BY <1>2, <1>5, <2>1, HeightType
  <2> QED
    BY <1>2, <1>3, <2>2
<1>10. IsPathTo(work, b)
  BY <1>3, <1>6, <1>7, <1>8 DEF IsPathTo
<1> QED
  BY <1>2, <1>3, <1>9, <1>10, SMTT(30)

(* The commit of a reorg publishes the new path.                             *)
LEMMA CommitReorgIInv ==
    ASSUME IInv, NEW h \in Handlers, CommitReorg(h)
    PROVE  IInv' /\ BestIn(block[h], stored')
<1> DEFINE b == block[h]
           t == TipOf(stored)
<1>1. /\ b \notin stored /\ NeedsReorg(b, tip[h]) /\ pc[h] = "down"
      /\ \A g \in Handlers : InTransaction(g) => g = h
  BY DEF IInv, TransactionInv, CommitReorg, InTransaction
<1>2. /\ b \in Blocks /\ b = posting /\ tip[h] = t /\ t \in stored
      /\ BestIn(t, stored) /\ stored \subseteq Blocks
  BY <1>1, InsertingHandler
<1>3. stored' = stored \union {b} /\ canonical' = work /\ pc' = [pc EXCEPT ![h] = "ok"]
  BY DEF CommitReorg
<1>4. BestIn(b, stored') /\ TipOf(stored') = b
  BY <1>1, <1>2, <1>3, BetterIsBest, BestIsTip DEF NeedsReorg
<1>5. TypeOK'
  BY <1>2, <1>3, ReorgPath DEF CommitReorg, NoTransaction, IInv, TypeOK
<1>6. TableInv'
  <2>1. InOrder => \A s \in stored' : s = Root \/ Parent[s] \in stored'
    BY <1>2, <1>3, BlockTreeAssumption, SMTT(30) DEF IInv, TableInv, RequestInv
  <2>2. IsPathTo(canonical', TipOf(stored')) /\ Root \in canonical'
    BY <1>3, <1>4, ReorgPath
  <2> QED
    BY <1>2, <1>3, <1>4, <2>1, <2>2 DEF TableInv
<1>7. RequestInv'
  BY <1>1, <1>2, <1>3 DEF IInv, RequestInv, CommitReorg, TypeOK
<1>8. TransactionInv'
  <2>1. \A g \in Handlers : ~InTransaction(g)'
    BY <1>1, <1>3 DEF IInv, TypeOK, InTransaction
  <2> QED
    BY <2>1 DEF TransactionInv
<1>9. TipReadIsCurrent'
  <2>1. \A g \in Handlers : pc'[g] \in {"insert", "up", "down"} => block'[g] \in stored'
    BY <1>1, <1>3, OthersHoldStoredBlocks DEF IInv, TypeOK, CommitReorg
  <2> QED
    BY <2>1 DEF TipReadIsCurrent
<1>10. OnlyDuplicatesFail'
  BY <1>3 DEF IInv, TypeOK, OnlyDuplicatesFail, CommitReorg
<1> QED
  BY <1>4, <1>5, <1>6, <1>7, <1>8, <1>9, <1>10 DEF IInv

(* A walk that meets a missing header rolls back; L1 skipped a parent.       *)
LEMMA MissingHeadersIInv ==
    ASSUME IInv, NEW h \in Handlers, MissingHeaders(h)
    PROVE  IInv'
<1>1. \A g \in Handlers : InTransaction(g) => g = h
  BY DEF IInv, TransactionInv, MissingHeaders
<1>2. pc' = [pc EXCEPT ![h] = "failed"] /\ UNCHANGED <<table, posting, block, tip>>
  BY DEF MissingHeaders
<1>3. TypeOK'
  BY <1>2 DEF MissingHeaders, NoTransaction, IInv, TypeOK, table
<1>4. TableInv'
  BY <1>2 DEF IInv, TableInv, BestIn, IsPathTo, table
<1>5. RequestInv'
  BY <1>2 DEF IInv, RequestInv, TypeOK, MissingHeaders, InTransaction, table
<1>6. TransactionInv'
  <2>1. \A g \in Handlers : ~InTransaction(g)'
    BY <1>1, <1>2 DEF IInv, TypeOK, InTransaction
  <2> QED
    BY <2>1 DEF TransactionInv
<1>7. TipReadIsCurrent'
  BY <1>2 DEF IInv, TipReadIsCurrent, TypeOK, table
<1>8. ~InOrder
  <2>1. cursor \notin stored /\ InTransaction(h)
    BY DEF MissingHeaders
  <2>2. canonical \subseteq stored
    BY DEF IInv, TypeOK
  <2> QED
    BY <2>1, <2>2 DEF IInv, TransactionInv, InTransaction, UpInv, DownInv
<1>9. OnlyDuplicatesFail'
  BY <1>8 DEF OnlyDuplicatesFail
<1> QED
  BY <1>3, <1>4, <1>5, <1>6, <1>7, <1>9 DEF IInv

-----------------------------------------------------------------------------
(* The steps that leave the tables and the transaction alone.               *)

(* A request picks up the posted block and the current tip.                 *)
LEMMA ReadTipIInv ==
    ASSUME IInv, NEW h \in Handlers, ReadTip(h)
    PROVE  IInv'
<1>1. /\ pc' = [pc EXCEPT ![h] = "insert"] /\ block' = [block EXCEPT ![h] = posting]
      /\ tip' = [tip EXCEPT ![h] = TipOf(stored)] /\ UNCHANGED <<table, posting, tx>>
      /\ posting # NoBlock /\ posting \in Blocks
  BY SMTT(30) DEF ReadTip, IInv, TypeOK
<1>2. TipOf(stored) \in Blocks \union {NoBlock}
  BY DEF IInv, TypeOK, TableInv, BestIn, TipOf
<1>3. TypeOK'
  BY <1>1, <1>2 DEF IInv, TypeOK, table, tx
<1>4. TableInv' /\ TransactionInv'
  <2>1. \A g \in Handlers : \/ pc'[g] = pc[g] /\ block'[g] = block[g] /\ tip'[g] = tip[g]
                            \/ ~InTransaction(g)'
    BY <1>1, SMTT(30) DEF IInv, TypeOK, InTransaction
  <2> QED
    BY <1>1, <2>1, TablesUntouched
<1>5. RequestInv'
  BY <1>1 DEF IInv, RequestInv, TypeOK, table
<1>6. TipReadIsCurrent'
  BY <1>1 DEF IInv, TipReadIsCurrent, TypeOK, table
<1>7. OnlyDuplicatesFail'
  BY <1>1 DEF IInv, OnlyDuplicatesFail, TypeOK, table
<1> QED
  BY <1>3, <1>4, <1>5, <1>6, <1>7 DEF IInv

(* A duplicate fails on the primary key.                                    *)
LEMMA InsertDuplicateIInv ==
    ASSUME IInv, NEW h \in Handlers, InsertDuplicate(h)
    PROVE  IInv'
<1>1. /\ pc' = [pc EXCEPT ![h] = "failed"] /\ UNCHANGED <<table, posting, block, tip, tx>>
      /\ block[h] \in stored /\ pc[h] = "insert"
  BY DEF InsertDuplicate
<1>2. TypeOK'
  BY <1>1 DEF IInv, TypeOK, table, tx
<1>3. TableInv' /\ TransactionInv'
  <2>1. \A g \in Handlers : \/ pc'[g] = pc[g] /\ block'[g] = block[g] /\ tip'[g] = tip[g]
                            \/ ~InTransaction(g)'
    BY <1>1, SMTT(30) DEF IInv, TypeOK, InTransaction
  <2> QED
    BY <1>1, <2>1, TablesUntouched
<1>4. RequestInv'
  BY <1>1 DEF IInv, RequestInv, TypeOK, table
<1>5. TipReadIsCurrent' /\ OnlyDuplicatesFail'
  BY <1>1 DEF IInv, TipReadIsCurrent, OnlyDuplicatesFail, TypeOK, table
<1> QED
  BY <1>2, <1>3, <1>4, <1>5 DEF IInv

(* The answer ends a request; an acknowledged block is stored.              *)
LEMMA FinishIInv ==
    ASSUME IInv, NEW h \in Handlers, NEW received \in BOOLEAN, Finish(h, received)
    PROVE  IInv'
<1>1. /\ pc' = [pc EXCEPT ![h] = "idle"] /\ block' = [block EXCEPT ![h] = NoBlock]
      /\ tip' = [tip EXCEPT ![h] = NoBlock] /\ UNCHANGED <<table, tx>>
      /\ posting' = posting \/ (posting' = NoBlock /\ posting \in stored)
  BY DEF Finish, IInv, RequestInv
<1>2. TypeOK'
  BY <1>1 DEF IInv, TypeOK, table, tx
<1>3. TableInv' /\ TransactionInv'
  <2>1. \A g \in Handlers : \/ pc'[g] = pc[g] /\ block'[g] = block[g] /\ tip'[g] = tip[g]
                            \/ ~InTransaction(g)'
    BY <1>1, SMTT(30) DEF IInv, TypeOK, InTransaction
  <2> QED
    BY <1>1, <2>1, TablesUntouched
<1>4. RequestInv'
  BY <1>1 DEF IInv, RequestInv, TypeOK, table
<1>5. TipReadIsCurrent' /\ OnlyDuplicatesFail'
  BY <1>1 DEF IInv, TipReadIsCurrent, OnlyDuplicatesFail, TypeOK, table
<1> QED
  BY <1>2, <1>3, <1>4, <1>5 DEF IInv

(* The L1 node moves on only when no request of its is left.                *)
LEMMA EnvironmentIInv ==
    ASSUME IInv, Abandon \/ (\E b \in Blocks : Dispatch(b))
    PROVE  IInv'
<1>1. UNCHANGED <<table, pc, block, tip, tx>>
  BY SMTT(30) DEF Abandon, Dispatch
<1>2. TypeOK'
  BY <1>1 DEF IInv, TypeOK, Abandon, Dispatch, table, tx
<1>3. TableInv' /\ TransactionInv'
  BY <1>1, TablesUntouched, SMTT(30)
<1>4. RequestInv'
  <2>1. posting = NoBlock => \A h \in Handlers : pc[h] # "idle" => block[h] \in stored
    BY BlockTreeAssumption DEF IInv, RequestInv
  <2> QED
    BY <1>1, <2>1 DEF IInv, RequestInv, TypeOK, Abandon, Dispatch, table
<1>5. TipReadIsCurrent' /\ OnlyDuplicatesFail'
  BY <1>1 DEF IInv, TipReadIsCurrent, OnlyDuplicatesFail, table
<1> QED
  BY <1>2, <1>3, <1>4, <1>5 DEF IInv

(* A crash drops every request and rolls the transaction back.              *)
LEMMA CrashIInv == ASSUME IInv, Crash PROVE IInv'
<1>1. /\ \A h \in Handlers : pc'[h] = "idle" /\ ~InTransaction(h)'
      /\ UNCHANGED <<table, posting>>
  BY DEF Crash, InTransaction
<1>2. TypeOK'
  BY DEF Crash, NoTransaction, IInv, TypeOK, table
<1>3. TableInv'
  BY <1>1 DEF IInv, TableInv, BestIn, IsPathTo, table
<1> QED
  BY <1>1, <1>2, <1>3 DEF IInv, RequestInv, TransactionInv,
     TipReadIsCurrent, OnlyDuplicatesFail, table

(* Every step keeps the inductive invariant.                                *)
LEMMA NextIInv == IInv /\ [Next]_vars => IInv'
<1> SUFFICES ASSUME IInv, [Next]_vars PROVE IInv'
  BY SMTT(30)
<1>1. CASE UNCHANGED vars
  <2>1. TableInv' /\ TransactionInv'
    BY <1>1, TablesUntouched DEF vars, table, tx
  <2> QED
    BY <1>1, <2>1, SMTT(30) DEF IInv, vars, TypeOK, RequestInv, TipReadIsCurrent, OnlyDuplicatesFail
<1>2. CASE Abandon \/ (\E b \in Blocks : Dispatch(b))
  BY <1>2, EnvironmentIInv
<1>3. CASE Crash
  BY <1>3, CrashIInv
<1>4. ASSUME NEW h \in Handlers,
             ReadTip(h) \/ Push(h) \/ (\E received \in BOOLEAN : Finish(h, received))
      PROVE  IInv'
  BY <1>4, ReadTipIInv, InsertDuplicateIInv, InsertAndCommitIInv, InsertForReorgIInv,
     MarkAncestorIInv, FoundCommonAncestorIInv, UnmarkOldBranchIInv, CommitReorgIInv,
     MissingHeadersIInv, FinishIInv DEF Push
<1> QED
  BY <1>1, <1>2, <1>3, <1>4 DEF Next

(* The inductive invariant holds in every reachable state.                  *)
LEMMA Invariance == Spec => []IInv
BY InitIInv, NextIInv, PTL DEF Spec

(* The tables and locals of push_block keep their types.                    *)
THEOREM TypeCorrect == Spec => []TypeOK
<1>1. IInv => TypeOK
  BY DEF IInv
<1> QED
  BY <1>1, Invariance, PTL

(* The rows marked is_canonical = 1 are always exactly the path from the    *)
(* best stored header to the first one.                                     *)
THEOREM CanonicalMarksCorrect == Spec => []CanonicalMarks
<1>1. IInv => CanonicalMarks
  BY DEF IInv, TableInv, CanonicalMarks
<1> QED
  BY <1>1, Invariance, PTL

(* The canonical tip push_block read before its transaction is never stale  *)
(* when the transaction uses it.                                            *)
THEOREM TipNeverStale == Spec => []TipReadIsCurrent
<1>1. IInv => TipReadIsCurrent
  BY DEF IInv
<1> QED
  BY <1>1, Invariance, PTL

(* With in-order delivery process_reorg never returns MissingHeaders.       *)
THEOREM OnlyDuplicatesAreRefused == Spec => []OnlyDuplicatesFail
<1>1. IInv => OnlyDuplicatesFail
  BY DEF IInv
<1> QED
  BY <1>1, Invariance, PTL

-----------------------------------------------------------------------------
(* Refinement of CanonicalChain. *)

(* The abstract module ranks tips and describes paths as this one does.     *)
LEMMA SameTree ==
    /\ \A S : Chain!TipOf(S) = TipOf(S)
    /\ \A C, t : Chain!IsPathTo(C, t) <=> IsPathTo(C, t)
BY SMTT(30) DEF Chain!TipOf, TipOf, Chain!Better, Better, Chain!NoBlock, NoBlock,
       Chain!IsPathTo, IsPathTo

(* Storing a block without a reorg is one step of the abstract chain.       *)
LEMMA InsertAndCommitAdds ==
    ASSUME IInv, NEW h \in Handlers, InsertAndCommit(h)
    PROVE  Chain!Add(block[h])
<1> DEFINE b == block[h]
           t == TipOf(stored)
<1>1. /\ b \in Blocks /\ b \notin stored /\ tip[h] = t /\ stored \subseteq Blocks
      /\ stored' = stored \union {b}
  BY SMTT(30) DEF IInv, InsertAndCommit, RequestInv, TipReadIsCurrent, TypeOK
<1>2. /\ canonical' \in SUBSET stored'
      /\ IsPathTo(canonical', TipOf(stored'))
  BY <1>1, InsertAndCommitIInv, SMTT(30) DEF IInv, TypeOK, TableInv
<1>3. ASSUME canonical' # canonical
      PROVE  b = TipOf(stored')
  <2>1. IsCanonical(b, t) /\ ~NeedsReorg(b, t)
    BY <1>1, <1>3, SMTT(30) DEF InsertAndCommit
  <2>2. CASE stored = {}
    BY <1>1, <2>2, FirstIsBest, BestIsTip, SMTT(30)
  <2>3. CASE stored # {}
    <3>1. BestIn(t, stored) /\ t \in Blocks /\ t # NoBlock
      BY <1>1, <2>3, BlockTreeAssumption, SMTT(30) DEF IInv, TableInv, BestIn
    <3>2. Parent[b] = t
      BY <2>1, <3>1, SMTT(30) DEF IsCanonical, NeedsReorg
    <3>3. Better(b, t)
      BY <1>1, <3>1, <3>2, ChildIsBetter, SMTT(30)
    <3>4. BestIn(b, stored')
      BY <1>1, <3>1, <3>3, BetterIsBest
    <3> QED
      BY <1>1, <3>4, BestIsTip, SMTT(30)
  <2> QED
    BY <2>2, <2>3
<1> QED
  BY <1>1, <1>2, <1>3, SameTree, SMTT(30) DEF Chain!Add

(* The commit of a reorg is one step of the abstract chain.                 *)
LEMMA CommitReorgAdds ==
    ASSUME IInv, NEW h \in Handlers, CommitReorg(h)
    PROVE  Chain!Add(block[h])
<1> DEFINE b == block[h]
<1>1. b \notin stored /\ b \in Blocks /\ stored' = stored \union {b} /\ canonical' = work
  BY SMTT(30) DEF IInv, TransactionInv, RequestInv, CommitReorg, InTransaction
<1>2. stored' \subseteq Blocks /\ canonical' \in SUBSET stored' /\ BestIn(b, stored')
  BY CommitReorgIInv DEF IInv, TypeOK
<1>3. b = TipOf(stored') /\ IsPathTo(canonical', b)
  BY <1>1, <1>2, BestIsTip, ReorgPath
<1> QED
  BY <1>1, <1>2, <1>3, SameTree, SMTT(30) DEF Chain!Add

(* The committed tables implement CanonicalChain: whatever the handlers,    *)
(* crashes and retries do, readers see whole blocks and whole reorgs.       *)
THEOREM Refinement == Spec => ImplementsCanonicalChain
<1>1. Init => Chain!Init
  BY DEF Init, Chain!Init
<1>2. IInv /\ [Next]_vars => [Chain!Next]_(Chain!vars)
  <2> SUFFICES ASSUME IInv, [Next]_vars
               PROVE  Chain!Next \/ UNCHANGED table
    BY DEF Chain!vars, table
  <2>1. CASE UNCHANGED vars \/ Abandon \/ Crash \/ (\E b \in Blocks : Dispatch(b))
    BY <2>1, SMTT(30) DEF vars, table, Abandon, Crash, Dispatch
  <2>2. ASSUME NEW h \in Handlers,
               ReadTip(h) \/ Push(h) \/ (\E received \in BOOLEAN : Finish(h, received))
        PROVE  Chain!Next \/ UNCHANGED table
    <3>1. CASE InsertAndCommit(h) \/ CommitReorg(h)
      <4>1. Chain!Add(block[h])
        BY <3>1, InsertAndCommitAdds, CommitReorgAdds
      <4>2. block[h] \in Blocks
        BY <4>1 DEF Chain!Add
      <4> QED
        BY <4>1, <4>2 DEF Chain!Next
    <3> QED
      BY <2>2, <3>1, SMTT(30) DEF Push, ReadTip, InsertDuplicate, InsertForReorg, MarkAncestor,
         FoundCommonAncestor, UnmarkOldBranch, MissingHeaders, Finish
  <2> QED
    BY <2>1, <2>2 DEF Next
<1> QED
  BY <1>1, <1>2, Invariance, PTL DEF Spec, ImplementsCanonicalChain, Chain!Spec

=============================================================================
