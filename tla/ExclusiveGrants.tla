--------------------------- MODULE ExclusiveGrants ---------------------------
(* What the execution repository promises to the workers of a run, without    *)
(* rows, statuses, leases and clocks: work on a node is granted to one worker *)
(* at a time, a grant can be revoked whatever its worker believes, and in     *)
(* every round of a node exactly one grant can commit, the last one.          *)
(*                                                                            *)
(* A worker keeps the ticket <<n, k>> of its grant, the k-th on node n, until *)
(* it commits, gives up or forgets it; a revoked ticket is worth nothing.     *)
EXTENDS Integers

CONSTANTS Nodes, Workers

VARIABLES
  held,       \* by node, whether a grant on it is out
  grants,     \* by node, how many grants have been made
  round,      \* by node, the round its work is in, 0 before the first
  result,     \* by node, the grant that has committed in this round, 0 for none
  committed,  \* by node, the rounds in which a grant has committed
  ticket      \* by worker, the set of the ticket it keeps

vars == <<held, grants, round, result, committed, ticket>>

Init ==
  /\ held = [n \in Nodes |-> FALSE]
  /\ grants = [n \in Nodes |-> 0]
  /\ round = [n \in Nodes |-> 0]
  /\ result = [n \in Nodes |-> 0]
  /\ committed = [n \in Nodes |-> {}]
  /\ ticket = [w \in Workers |-> {}]

\* A round begins: the first, or another one for work that has to be done again.
Renew(n) ==
  /\ ~held[n]
  /\ round' = [round EXCEPT ![n] = @ + 1]
  /\ result' = [result EXCEPT ![n] = 0]
  /\ UNCHANGED <<held, grants, committed, ticket>>

Grant(w, n) ==
  /\ ticket[w] = {} /\ ~held[n] /\ round[n] # 0 /\ result[n] = 0
  /\ held' = [held EXCEPT ![n] = TRUE]
  /\ grants' = [grants EXCEPT ![n] = @ + 1]
  /\ ticket' = [ticket EXCEPT ![w] = {<<n, grants[n] + 1>>}]
  /\ UNCHANGED <<round, result, committed>>

\* The ticket of w is that of the grant on n that is out.
Holds(w, n) == held[n] /\ ticket[w] = {<<n, grants[n]>>}

\* The only grant that can commit is the last one, and no round commits twice.
Commit(w, n) ==
  /\ Holds(w, n) /\ round[n] \notin committed[n]
  /\ held' = [held EXCEPT ![n] = FALSE]
  /\ result' = [result EXCEPT ![n] = grants[n]]
  /\ committed' = [committed EXCEPT ![n] = @ \cup {round[n]}]
  /\ ticket' = [ticket EXCEPT ![w] = {}]
  /\ UNCHANGED <<grants, round>>

GiveUp(w, n) ==
  /\ Holds(w, n)
  /\ held' = [held EXCEPT ![n] = FALSE]
  /\ ticket' = [ticket EXCEPT ![w] = {}]
  /\ UNCHANGED <<grants, round, result, committed>>

\* Grants are revoked without their workers.
Revoke ==
  /\ \E S \in SUBSET Nodes : held' = [n \in Nodes |-> held[n] /\ n \notin S]
  /\ UNCHANGED <<grants, round, result, committed, ticket>>

Forget(w) ==
  /\ ticket' = [ticket EXCEPT ![w] = {}]
  /\ UNCHANGED <<held, grants, round, result, committed>>

Next ==
  \/ \E n \in Nodes : Renew(n)
  \/ \E w \in Workers, n \in Nodes : Grant(w, n) \/ Commit(w, n) \/ GiveUp(w, n)
  \/ Revoke
  \/ \E w \in Workers : Forget(w)

Spec == Init /\ [][Next]_vars
=============================================================================
