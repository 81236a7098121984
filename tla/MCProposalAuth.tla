--------------------------- MODULE MCProposalAuth ---------------------------
(* Attempts are interchangeable, and so are challenges. *)
EXTENDS ProposalAuth, TLC

Symmetry == Permutations(Attempt) \cup Permutations(Challenge)
=============================================================================
