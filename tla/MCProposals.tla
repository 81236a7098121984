----------------------------- MODULE MCProposals -----------------------------
(***************************************************************************)
(* Two participants.  Two bodies compete for the first state of the thread *)
(* and a third one fits the next.  One body lists both signers, the others *)
(* one of them.                                                            *)
(***************************************************************************)
EXTENDS Proposals, TLC

CONSTANTS ann, bob, row1, row2, first, rival, later

MCKey == {ann, bob}
MCRow == {row1, row2}
MCBody == {first, rival, later}
MCBase == first :> 0 @@ rival :> 0 @@ later :> 1
MCListed == first :> {ann, bob} @@ rival :> {ann} @@ later :> {}

RowsAreAlike == Permutations(MCRow)

\* Once there are two rows, one request or submission runs at a time, and the
\* thread has moved at most once.
OneAtATime ==
  Cardinality(used) > 1 =>
    /\ Cardinality(requests) + Cardinality(submits) <= 1
    /\ tip <= 1
=============================================================================
