---------------------------- MODULE NestedStore ----------------------------
(***************************************************************************)
(* What a key-value store with nested transactions promises: each level    *)
(* sees its own copy of the data, a commit replaces the copy below, and a  *)
(* rollback forgets the level.                                             *)
(***************************************************************************)
EXTENDS Naturals, Sequences, SequencesExt

CONSTANTS Keys, Values, MaxBegin

VARIABLES
    base,       \* the committed data
    layers      \* layers[i]: the data that level i sees

Data == [Keys -> Values]

View == IF layers = <<>> THEN base ELSE Last(layers)

Init == base \in Data /\ layers = <<>>

\* Up to MaxBegin new levels, which see what the present one sees.
Begin ==
    /\ UNCHANGED base
    /\ \E n \in 1..MaxBegin : layers' = layers \o [i \in 1..n |-> View]

Write ==
    /\ layers # <<>>
    /\ Len(layers') = Len(layers) /\ Front(layers') = Front(layers)
    /\ Last(layers') \in Data
    /\ UNCHANGED base

Commit ==
    \/ /\ Len(layers) = 1
       /\ base' = View /\ layers' = <<>>
    \/ /\ Len(layers) > 1
       /\ layers' = [Front(layers) EXCEPT ![Len(layers) - 1] = View]
       /\ UNCHANGED base

Rollback ==
    /\ layers # <<>>
    /\ layers' = Front(layers)
    /\ UNCHANGED base

\* Every level is forgotten.
Abandon == layers' = <<>> /\ UNCHANGED base

Next == Begin \/ Write \/ Commit \/ Rollback \/ Abandon

Spec == Init /\ [][Next]_<<base, layers>>

=============================================================================
