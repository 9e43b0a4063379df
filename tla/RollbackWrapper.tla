-------------------------- MODULE RollbackWrapper --------------------------
(***************************************************************************)
(* The write buffer of the Clarity database (key_value_wrapper.rs): one    *)
(* history of pending values per key, and a stack of nested contexts that  *)
(* say which keys were edited where.  Of the list of a context's edits, the *)
(* number of times that it has each key is kept: the code only pops as many *)
(* values, or hands the list on.  The metadata of contracts is kept by the *)
(* same code in a second pair of structures.                               *)
(***************************************************************************)
EXTENDS Naturals, Sequences, SequencesExt

CONSTANTS Keys, Values

VARIABLES
    store,      \* the ClarityBackingStore
    lookup,     \* lookup_map: pending values of a key, oldest first
    edits,      \* stack: how often each context edited each key
    pending     \* query_pending_data: reads see pending values

wrapperVars == <<store, lookup, edits, pending>>

NoHistory == [k \in Keys |-> <<>>]
NoEdits == [k \in Keys |-> 0]

WrapperInit ==
    /\ store \in [Keys -> Values]
    /\ lookup = NoHistory /\ edits = <<>> /\ pending = TRUE

-----------------------------------------------------------------------------
\* nest, n times.
Nest(n) ==
    /\ edits' = edits \o [i \in 1..n |-> NoEdits]
    /\ UNCHANGED <<store, lookup>>

\* Mutant: the edit is noted in the first context, not in the last.
PutAllFirst(f) ==
    /\ edits # <<>>
    /\ lookup' = [k \in Keys |-> IF k \in DOMAIN f THEN Append(lookup[k], f[k])
                                                   ELSE lookup[k]]
    /\ edits' = [edits EXCEPT ![1] =
                    [k \in Keys |-> @[k] + (IF k \in DOMAIN f THEN 1 ELSE 0)]]
    /\ UNCHANGED store

\* put, for every key of f.
PutAll(f) ==
    /\ edits # <<>>
    /\ lookup' = [k \in Keys |-> IF k \in DOMAIN f THEN Append(lookup[k], f[k])
                                                   ELSE lookup[k]]
    /\ edits' = [edits EXCEPT ![Len(edits)] =
                    [k \in Keys |-> @[k] + (IF k \in DOMAIN f THEN 1 ELSE 0)]]
    /\ UNCHANGED store

\* get and get_value.
Get(k) ==
    IF pending /\ lookup[k] # <<>> THEN Last(lookup[k]) ELSE store[k]

\* rollback: every edit of the last context takes the newest value off the
\* history of its key.
Rollback ==
    /\ edits # <<>>
    /\ lookup' = [k \in Keys |->
          SubSeq(lookup[k], 1,
                 Len(lookup[k]) - Last(edits)[k])]
    /\ edits' = Front(edits)
    /\ UNCHANGED store

\* commit: to the store, where the newest value of a key is put last, or to
\* the context below.
Commit ==
    \/ /\ Len(edits) = 1
       /\ store' = [k \in Keys |->
             IF lookup[k] = <<>> THEN store[k] ELSE Last(lookup[k])]
       /\ lookup' = NoHistory /\ edits' = <<>>
    \/ /\ Len(edits) > 1
       /\ edits' = [Front(edits) EXCEPT ![Len(edits) - 1] =
                       [k \in Keys |-> @[k] + Last(edits)[k]]]
       /\ UNCHANGED <<store, lookup>>

-----------------------------------------------------------------------------
\* The edits of a key in the first i contexts.
EditsUpTo(i, k) ==
    LET sum[j \in 0..i] == IF j = 0 THEN 0 ELSE sum[j - 1] + edits[j][k]
    IN  sum[i]

\* What the context at level i sees: the values put by it and by those below.
ViewAt(i) ==
    [k \in Keys |->
        LET n == EditsUpTo(i, k)
        IN  IF n = 0 THEN store[k] ELSE lookup[k][n]]

=============================================================================
