---------------------- MODULE MCRepositoryTransactions ----------------------
(* Instances of RepositoryTransactions for TLC. *)
EXTENDS RepositoryTransactions, TLC

CONSTANTS w1, w2, p1, p2, r1, i1

Symmetry ==
  Permutations(Workers) \cup Permutations(Recoverers)
=============================================================================
