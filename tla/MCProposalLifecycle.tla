------------------------ MODULE MCProposalLifecycle ------------------------
(* Small instances of ProposalLifecycle for TLC. *)
EXTENDS ProposalLifecycle, TLC

Symmetry == Permutations(Proposals) \cup Permutations(Requests)
=============================================================================
