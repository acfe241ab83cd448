----------------------------- MODULE PythonLists -----------------------------
(* What the models of the matchers and of the appraisal share: Python's None *)
(* for a name, and lists that are sorted or filtered.  Both are arrangements *)
(* of the positions of a list.                                               *)
EXTENDS Integers, Sequences, FiniteSets

None == "none"

\* list.sort: S in the order of the pairs <<earlier, later>> of before.
Arranged(S, before) ==
  [n \in 1..Cardinality(S) |->
     CHOOSE i \in S : Cardinality({j \in S : <<j, i>> \in before}) = n - 1]

\* A comprehension with a condition: what the list has at the positions in S.
Picked(list, S) ==
  LET order == Arranged(S, {pair \in S \X S : pair[1] < pair[2]})
  IN  [n \in DOMAIN order |-> list[order[n]]]
=============================================================================
