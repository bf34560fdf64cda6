------------------------- MODULE MCAsyncRuleRunner -------------------------
EXTENDS AsyncRuleRunner, TLC
CONSTANTS w1, w2, alice, bob, g1, g2, r1, r2, r3

(* g1 is the group of Alice and g2 that of Bob: the group of a transaction *)
(* is its origin user.  r1 goes from Alice to Bob, r2 from Bob to Alice    *)
(* and r3 from Alice to Alice.                                             *)
TwoGroups == (g1 :> <<r1, r3>>) @@ (g2 :> <<r2>>)
Crossing == (r1 :> <<alice, bob>>) @@ (r2 :> <<bob, alice>>) @@ (r3 :> <<alice, alice>>)
=============================================================================
