------------------------ MODULE MCExecutionRepository ------------------------
(* Instances of ExecutionRepository for TLC. *)
EXTENDS ExecutionRepository, TLC

CONSTANTS w1, w2, n1, n2, i1, i2

Symmetry == Permutations(Workers) \cup Permutations(Inputs)
=============================================================================
