--------------------------- MODULE MCAgentRuntime ---------------------------
(* Instances of AgentRuntime for TLC. *)
EXTENDS AgentRuntime, TLC

CONSTANTS j1, j2, r1, r2, t1, t2, c1, c2

Symmetry == Permutations(Clients) \cup Permutations(Threads)
=============================================================================
