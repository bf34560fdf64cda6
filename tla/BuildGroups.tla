---------------------------- MODULE BuildGroups ----------------------------
(***************************************************************************)
(* buildGroups of src/tarpon/src/services/transaction-multiplexer/         *)
(* multiplexer-utils.ts over the disjoint sets of utils/dsu.ts: one pass   *)
(* over the messages of a batch unites the identifiers of each, a second   *)
(* one puts each message into the group of its first identifier's root.    *)
(*                                                                         *)
(* RuleMultiplexer handles the groups of a batch concurrently and takes    *)
(* them for the connected components of the records; this module is about  *)
(* whether they are.                                                       *)
(***************************************************************************)
EXTENDS Naturals, Sequences, SequencesExt, FiniteSets

CONSTANTS
  Identifier,
  MaxMessages,    \* bound on the length of a batch
  MaxConnectors   \* bound on the identifiers of a message

ASSUME BoundAssumption == MaxMessages \in Nat /\ MaxConnectors \in Nat

VARIABLES
  connectors,  \* per message of the batch, what getConnectors returns
  parent,      \* the DSU's map
  at,          \* the index of the message the pass is at
  pass,        \* "union", "group" or "done"
  groups       \* Map from root to the messages and identifiers pushed

vars == <<connectors, parent, at, pass, groups>>

Message == DOMAIN connectors
Ids(m) == ToSet(connectors[m])

(* A Map after set(x, value).                                              *)
SetTo(f, x, value) == [y \in DOMAIN f \cup {x} |-> IF y = x THEN value ELSE f[y]]

-----------------------------------------------------------------------------
(* The disjoint sets                                                       *)

(* find's recursion: the identifiers visited on the way to the root.       *)
Path(p, x) ==
  LET way[y \in DOMAIN p] == IF p[y] = y THEN <<y>> ELSE <<y>> \o way[p[y]]
  IN  way[x]

Root(p, x) == Last(Path(p, x))

(* get, and set(x, x) when there is nothing.                               *)
Known(p, x) == IF x \in DOMAIN p THEN p ELSE SetTo(p, x, x)

(* Mutant: the root is never reached, x becomes one itself.                *)
CompressedToItself(p, x) == [p EXCEPT ![x] = x]

(* Path compression: every identifier on the way is set to the root.       *)
Compressed(p, x) ==
  [y \in DOMAIN p |-> IF y \in ToSet(Path(p, x)) THEN Root(p, x) ELSE p[y]]

(* The map after find(x).                                                  *)
Find(p, x) == LET q == Known(p, x) IN Compressed(q, x)

(* Mutant: a itself is set, not its root.                                  *)
UnionOfElement(p, a, b) ==
  LET q == Find(Find(p, a), b) IN [q EXCEPT ![a] = Root(q, b)]

Union(p, a, b) ==
  LET q == Find(Find(p, a), b) IN [q EXCEPT ![Root(q, a)] = Root(q, b)]

(* for (const c of rest) dsu.union(base, c)                                *)
UnionAll(p, s) ==
  LET after[n \in 1..Len(s)] ==
        IF n = 1 THEN p ELSE Union(after[n - 1], s[1], s[n])
  IN  after[Len(s)]

-----------------------------------------------------------------------------
Batches == UNION {[1..n -> SeqOf(Identifier, MaxConnectors)] : n \in 1..MaxMessages}

Init ==
  /\ connectors \in Batches
  /\ parent = <<>>
  /\ at = 1
  /\ pass = "union"
  /\ groups = <<>>

(* Mutant: the loop goes one past the batch.                               *)
AdvancePastTheEnd(next) ==
  IF at <= Len(connectors) THEN at' = at + 1 /\ pass' = pass
                           ELSE at' = 1 /\ pass' = next

Advance(next) ==
  IF at < Len(connectors) THEN at' = at + 1 /\ pass' = pass
                          ELSE at' = 1 /\ pass' = next

(* Step 1: union all related identifiers.                                  *)
Unite ==
  /\ pass = "union"
  /\ parent' = IF connectors[at] = <<>> THEN parent ELSE UnionAll(parent, connectors[at])
  /\ Advance("group")
  /\ UNCHANGED <<connectors, groups>>

(* Mutant: the group is built backwards.                                   *)
PushedInFront(key, m) ==
  IF key \in DOMAIN groups
  THEN [groups EXCEPT ![key] = [msgs |-> <<m>> \o @.msgs, ids |-> @.ids \cup Ids(m)]]
  ELSE SetTo(groups, key, [msgs |-> <<m>>, ids |-> Ids(m)])

Pushed(key, m) ==
  IF key \in DOMAIN groups
  THEN [groups EXCEPT ![key] = [msgs |-> Append(@.msgs, m), ids |-> @.ids \cup Ids(m)]]
  ELSE SetTo(groups, key, [msgs |-> <<m>>, ids |-> Ids(m)])

(* A message without identifiers has a group of its own, under a uuid().   *)
PlaceAlone ==
  /\ pass = "group"
  /\ connectors[at] = <<>>
  /\ groups' = Pushed(<<"uuid", at>>, at)
  /\ Advance("done")
  /\ UNCHANGED <<connectors, parent>>

(* Mutant: the key is the identifier, not its root.                        *)
PlaceWithoutFind ==
  /\ pass = "group"
  /\ connectors[at] # <<>>
  /\ groups' = Pushed(<<"id", connectors[at][1]>>, at)
  /\ parent' = parent
  /\ Advance("done")
  /\ UNCHANGED connectors

(* Step 2: group messages by the root of the first identifier.             *)
Place ==
  /\ pass = "group"
  /\ connectors[at] # <<>>
  /\ parent' = Find(parent, connectors[at][1])
  /\ groups' = Pushed(<<"id", Root(parent', connectors[at][1])>>, at)
  /\ Advance("done")
  /\ UNCHANGED connectors

Next == Unite \/ PlaceAlone \/ Place

Spec == Init /\ [][Next]_vars

-----------------------------------------------------------------------------
Key == {<<"id", x>> : x \in Identifier} \cup {<<"uuid", m>> : m \in Message}

TypeOK ==
  /\ connectors \in Batches
  /\ DOMAIN parent \subseteq Identifier
  /\ Range(parent) \subseteq DOMAIN parent
  /\ at \in Message
  /\ pass \in {"union", "group", "done"}
  /\ DOMAIN groups \subseteq Key
  /\ \A k \in DOMAIN groups :
       ToSet(groups[k].msgs) \subseteq Message /\ groups[k].ids \subseteq Identifier

(* Reference: y is in every set of identifiers that x is in and that no    *)
(* message of M straddles.                                                 *)
Linked(x, y, M) ==
  \A C \in SUBSET Identifier :
    x \in C /\ (\A m \in M : Ids(m) \subseteq C \/ Ids(m) \cap C = {}) => y \in C

United == IF pass = "union" THEN 1..(at - 1) ELSE Message

(* At every step of both passes, unions and path compressions in whatever  *)
(* order, two identifiers have one root exactly when the messages united   *)
(* so far link them.                                                       *)
RootsAreComponents ==
  \A x, y \in DOMAIN parent : Root(parent, x) = Root(parent, y) <=> Linked(x, y, United)

Together(m, n) == \E k \in DOMAIN groups : {m, n} \subseteq ToSet(groups[k].msgs)

(* The groups are the connected components of the batch: two messages are  *)
(* in one group exactly when they are linked, which RuleMultiplexer takes  *)
(* for granted.                                                            *)
GroupsAreComponents ==
  pass = "done" =>
    \A m, n \in Message :
      Together(m, n) <=> m = n \/ \E x \in Ids(m), y \in Ids(n) : Linked(x, y, Message)

(* Groups are handled concurrently; no identifier's item is read and       *)
(* marked by two of them.                                                  *)
GroupsShareNoIdentifier ==
  \A k, l \in DOMAIN groups : k # l => groups[k].ids \cap groups[l].ids = {}

(* A group is sent in the order of the batch, which is the order of the    *)
(* tenant's message group: no record overtakes one of the same user.       *)
BatchOrderKept ==
  \A k \in DOMAIN groups :
    \A i, j \in DOMAIN groups[k].msgs : i < j => groups[k].msgs[i] < groups[k].msgs[j]
=============================================================================
