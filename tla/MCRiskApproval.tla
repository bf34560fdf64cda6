--------------------------- MODULE MCRiskApproval ---------------------------
EXTENDS RiskApproval, TLC
CONSTANTS ann, ben, low, high

(* A chain of two, shortened to one.                                       *)
Shrinking == [v \in Version |-> IF v = 1 THEN 1 ELSE 2]

(* A level, a lock until the first time or the second, or an unlock.       *)
Asked ==
  [level : Level, lock : {"keep"}, release : {0}]
    \cup [level : {Same}, lock : {"lock"}, release : Release]
    \cup [level : {Same}, lock : {"free"}, release : {0}]

Interchangeable == {p @@ q : p \in Permutations(Reviewer), q \in Permutations(Level)}
=============================================================================
