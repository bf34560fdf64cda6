----------------------------- MODULE Filtering -----------------------------
(* The elements of a sequence that are in a set, in their order: what a    *)
(* filter keeps.  It is written as a recursive function, of which the      *)
(* prover knows more than of SelectSeq.                                    *)
EXTENDS Naturals, Sequences

Keep(s, R) ==
  LET kept[n \in 0..Len(s)] ==
        IF n = 0 THEN <<>>
        ELSE IF s[n] \in R THEN Append(kept[n - 1], s[n]) ELSE kept[n - 1]
  IN  kept[Len(s)]
=============================================================================
