--------------------------- MODULE MCCaseCreation ---------------------------
EXTENDS CaseCreation, TLC
CONSTANTS ann, bob, ann1, ann2, bob1, t1, t2, r1, r2, r3, p1, p2

(* ann has two versions.                                                   *)
Users == (ann1 :> ann) @@ (ann2 :> ann) @@ (bob1 :> bob)
Hit(k, rules) == [key |-> k, rules |-> rules]

(* t1 is hit again after its user changed.  t2 is from ann to bob: it hits *)
(* r3, and when it comes again, other rules, and bob's side as well.  By   *)
(* then the rule r1 may have an alert of t1 in the case that has the alert *)
(* of r3 for t2: the filter for duplicates then drops the new hit.  The    *)
(* three rules together are one more than a case of ann can hold.          *)
Hits ==
  (t1 :> << <<Hit(ann1, {r1})>>, <<Hit(ann2, {r1})>> >>)
  @@ (t2 :> << <<Hit(ann1, {r3})>>, <<Hit(ann1, {r1, r2}), Hit(bob1, {r1})>> >>)

Consumers == Permutations(Proc)
=============================================================================
