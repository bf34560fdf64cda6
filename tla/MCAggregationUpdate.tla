------------------------ MODULE MCAggregationUpdate -------------------------
EXTENDS AggregationUpdate, TLC
CONSTANTS p1, p2, p3, b1, t0, t1, t2

(* Two processes for one transaction and one for another of the same user. *)
TwoAndOne == (p1 :> t1) @@ (p2 :> t1) @@ (p3 :> t2)
=============================================================================
