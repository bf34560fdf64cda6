-------------------------- MODULE MCRuleDeployment --------------------------
EXTENDS RuleDeployment, TLC
CONSTANTS amy, bob, w1, w2, c1, c2

(* Everybody has data for each version but the second.                     *)
AllButSecond == [n \in Version |-> IF n = 2 THEN {} ELSE Target]
Everybody == [n \in Version |-> Target]

Interchangeable == Permutations(Worker) \cup Permutations(Trigger)
=============================================================================
