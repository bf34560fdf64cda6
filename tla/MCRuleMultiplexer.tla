------------------------- MODULE MCRuleMultiplexer -------------------------
EXTENDS RuleMultiplexer, TLC
CONSTANTS a, b, c, x, y, n, z, g1, g2, g3

ThreeRecords == <<a, b, c>>

(* a and b are unrelated until c comes along.  n is an identifier of b and *)
(* c of a type that the runner does not unmark: b stays in its set, and    *)
(* takes c to the group b was in.  z is one of c that the runner unmarks,  *)
(* of a type that the tenant has no variable of.                           *)
Bridge == (a :> {x}) @@ (b :> {y, n}) @@ (c :> {x, y, n})
BridgeRun == (a :> {x}) @@ (b :> {y}) @@ (c :> {x, y, z})

(* a and b share x, and c is on its own.  Once it has run it is left in    *)
(* the set of n.                                                           *)
Pair == (a :> {x}) @@ (b :> {x}) @@ (c :> {n})
PairRun == (a :> {x}) @@ (b :> {x}) @@ (c :> {z})

Groups == Permutations({g1, g2, g3})
=============================================================================
