------------------------- MODULE BuildGroupsProofs -------------------------
(***************************************************************************)
(* The groups of buildGroups (src/tarpon/src/services/transaction-         *)
(* multiplexer/multiplexer-utils.ts) are the connected components of the   *)
(* batch, for every set of identifiers, every length of a batch and of its *)
(* messages.                                                               *)
(*                                                                         *)
(* The argument, from the bottom up:                                       *)
(*  - The DSU's map is a forest: there is a representative of every        *)
(*    identifier and a rank that falls on the way to it (Ranked), so that  *)
(*    find's recursion ends, and at the representative.                    *)
(*  - Path compression leaves the representatives as they are; union gives *)
(*    those of one tree the representative of another.                     *)
(*  - Hence uniting the identifiers of a message gives them one root, keeps*)
(*    what was together together, and joins no two trees the message does  *)
(*    not touch (UnitedIn).                                                *)
(*  - So at every step the identifiers of a message that was united have   *)
(*    one root (Joins), and no tree crosses a set of identifiers that no   *)
(*    message united so far straddles (Apart); and the groups hold the     *)
(*    messages placed so far, each under its own root's key, in the order  *)
(*    of the batch (Grouped).  That is the invariant.                      *)
(***************************************************************************)
EXTENDS BuildGroups, SequenceLemmas

-----------------------------------------------------------------------------
(* The forest                                                              *)

(* Every identifier has a representative, which is its own parent, and the *)
(* ranks, of which there are N and one more, fall on the way there.        *)
Ranked(p, rep, rank, N) ==
  /\ N \in Nat
  /\ p = [y \in DOMAIN p |-> p[y]]
  /\ \A y \in DOMAIN p :
       /\ p[y] \in DOMAIN p /\ rep[y] \in DOMAIN p /\ rank[y] \in 0..N
       /\ p[rep[y]] = rep[y]
       /\ \/ p[y] = y /\ rep[y] = y
          \/ /\ rank[p[y]] < rank[y] /\ rank[rep[y]] < rank[y]
             /\ rep[p[y]] = rep[y]

Forest(p, rep) == \E rank, N : Ranked(p, rep, rank, N)

(* The function find's way to the root is defined by.                      *)
NextWay(w, p, y) == IF p[y] = y THEN <<y>> ELSE <<y>> \o w[p[y]]

IsWay(w, p) == w = [y \in DOMAIN p |-> NextWay(w, p, y)]

LEMMA PathIsWay ==
  ASSUME NEW p, NEW x
  PROVE  Path(p, x) = (CHOOSE w : IsWay(w, p))[x]
BY DEF Path, IsWay, NextWay

(* There is such a function: from below a rank it goes on to the next.     *)
Below(p, rank, n) == {y \in DOMAIN p : rank[y] < n}

IsWayBelow(w, p, rank, n) == w = [y \in Below(p, rank, n) |-> NextWay(w, p, y)]

LEMMA WayExists ==
  ASSUME NEW p, NEW rep, NEW rank, NEW N, Ranked(p, rep, rank, N)
  PROVE  \E w : IsWay(w, p)
<1>. DEFINE Good == {n \in Nat : \E w : IsWayBelow(w, p, rank, n)}
<1>0. N \in Nat /\ \A y \in DOMAIN p : rank[y] \in 0..N /\ p[y] \in DOMAIN p
  BY DEF Ranked
<1>1. 0 \in Good
  <2>1. Below(p, rank, 0) = {}  BY <1>0 DEF Below
  <2>2. PICK w : w = [y \in {} |-> <<>>]  OBVIOUS
  <2>3. w = [y \in {} |-> NextWay(w, p, y)]  BY <2>2
  <2>4. IsWayBelow(w, p, rank, 0)  BY <2>1, <2>3 DEF IsWayBelow
  <2>. QED  BY <2>4
<1>2. ASSUME NEW n \in Nat, n \in Good  PROVE n + 1 \in Good
  <2>1. PICK w : IsWayBelow(w, p, rank, n)  BY <1>2
  <2>2. PICK g : g = [y \in Below(p, rank, n + 1) |-> NextWay(w, p, y)]  OBVIOUS
  <2>3. ASSUME NEW y \in Below(p, rank, n)  PROVE g[y] = w[y]
    <3>1. y \in Below(p, rank, n + 1)  BY <1>0 DEF Below
    <3>2. w[y] = NextWay(w, p, y)  BY <2>1 DEF IsWayBelow
    <3>. QED  BY <2>2, <3>1, <3>2
  <2>4. ASSUME NEW y \in Below(p, rank, n + 1)  PROVE NextWay(g, p, y) = NextWay(w, p, y)
    <3>1. CASE p[y] = y  BY <3>1 DEF NextWay
    <3>2. CASE p[y] # y
      <4>1. rank[p[y]] < rank[y] /\ rank[y] < n + 1 /\ y \in DOMAIN p
        BY <3>2 DEF Ranked, Below
      <4>2. p[y] \in Below(p, rank, n)  BY <1>0, <4>1 DEF Below
      <4>. QED  BY <2>3, <4>2 DEF NextWay
    <3>. QED  BY <3>1, <3>2
  <2>5. g = [y \in Below(p, rank, n + 1) |-> NextWay(g, p, y)]
    BY <2>2, <2>4
  <2>6. IsWayBelow(g, p, rank, n + 1)  BY <2>5 DEF IsWayBelow
  <2>. QED  BY <2>6
<1>. HIDE DEF Good
<1>3. N + 1 \in Good
  <2>1. Nat \subseteq Good  BY <1>1, <1>2, Induction
  <2>. QED  BY <1>0, <2>1
<1>4. Below(p, rank, N + 1) = DOMAIN p
  <2>1. \A y \in DOMAIN p : rank[y] < N + 1  BY <1>0
  <2>. QED  BY <2>1 DEF Below
<1>5. PICK w : IsWayBelow(w, p, rank, N + 1)  BY <1>3 DEF Good
<1>. QED  BY <1>4, <1>5 DEF IsWayBelow, IsWay

(* The way ends at the representative, and stays with those who have the   *)
(* same.                                                                   *)
Ends(way, p, rep, y) ==
  /\ way \in Seq(DOMAIN p) /\ way # <<>>
  /\ Last(way) = rep[y]
  /\ \A z \in ToSet(way) : z \in DOMAIN p /\ rep[z] = rep[y]

LEMMA OneStep ==
  ASSUME NEW S, NEW y \in S
  PROVE  <<y>> \in Seq(S) /\ <<y>> # <<>> /\ Last(<<y>>) = y /\ ToSet(<<y>>) = {y}
         /\ Len(<<y>>) = 1
<1>1. <<y>> \in Seq(S) /\ Len(<<y>>) = 1 /\ DOMAIN <<y>> = {1} /\ <<y>>[1] = y  OBVIOUS
<1>2. <<y>> # <<>>  OBVIOUS
<1>. QED  BY <1>1, <1>2 DEF Last, ToSet

LEMMA LastOfConcat ==
  ASSUME NEW S, NEW s \in Seq(S), NEW t \in Seq(S), t # <<>>
  PROVE  s \o t # <<>> /\ Last(s \o t) = Last(t)
<1>. DEFINE u == s \o t
<1>1. /\ u \in Seq(S) /\ Len(u) = Len(s) + Len(t)
      /\ \A i \in 1..(Len(s) + Len(t)) :
           u[i] = IF i <= Len(s) THEN s[i] ELSE t[i - Len(s)]
  BY ConcatProperties
<1>2. Len(s) \in Nat /\ Len(t) \in Nat /\ Len(t) # 0  BY LenProperties, EmptySeq
<1>3. PICK m \in Nat, n \in Nat : m = Len(s) /\ n = Len(t)  BY <1>2
<1>. HIDE DEF u
<1>4. n # 0 /\ m + n \in 1..(m + n) /\ ~(m + n <= m) /\ m + n - m = n  BY <1>2, <1>3
<1>5. u[m + n] = t[n] /\ Len(u) = m + n  BY <1>1, <1>3, <1>4
<1>6. u # <<>>
  <2>1. Len(u) # 0  BY <1>4, <1>5
  <2>. QED  BY <2>1, EmptySeq
<1>. QED  BY <1>3, <1>5, <1>6 DEF Last, u

LEMMA WayEnds ==
  ASSUME NEW p, NEW rep, NEW rank, NEW N, Ranked(p, rep, rank, N), NEW w, IsWay(w, p)
  PROVE  \A y \in DOMAIN p : Ends(w[y], p, rep, y)
<1>. DEFINE Good == {n \in Nat : \A y \in Below(p, rank, n) : Ends(w[y], p, rep, y)}
<1>0. N \in Nat /\ \A y \in DOMAIN p : rank[y] \in 0..N /\ p[y] \in DOMAIN p
  BY DEF Ranked
<1>1. 0 \in Good  BY <1>0 DEF Below
<1>2. ASSUME NEW n \in Nat, n \in Good  PROVE n + 1 \in Good
  <2>. SUFFICES ASSUME NEW y \in Below(p, rank, n + 1)  PROVE Ends(w[y], p, rep, y)
    OBVIOUS
  <2>1. y \in DOMAIN p /\ rank[y] < n + 1 /\ w[y] = NextWay(w, p, y)  BY DEF Below, IsWay
  <2>2. CASE p[y] = y
    <3>1. rep[y] = y  BY <1>0, <2>1, <2>2 DEF Ranked
    <3>2. w[y] = <<y>>  BY <2>1, <2>2 DEF NextWay
    <3>. QED  BY <2>1, <3>1, <3>2, OneStep DEF Ends
  <2>3. CASE p[y] # y
    <3>1. rank[p[y]] < rank[y] /\ rep[p[y]] = rep[y]  BY <2>1, <2>3 DEF Ranked
    <3>2. p[y] \in Below(p, rank, n)  BY <1>0, <2>1, <3>1 DEF Below
    <3>3. Ends(w[p[y]], p, rep, p[y])  BY <1>2, <3>2
    <3>4. PICK s, t : s = <<y>> /\ t = w[p[y]] /\ w[y] = s \o t
      BY <2>1, <2>3 DEF NextWay
    <3>5. s \in Seq(DOMAIN p) /\ ToSet(s) = {y}  BY <2>1, <3>4, OneStep
    <3>6. t \in Seq(DOMAIN p) /\ t # <<>>  BY <3>3, <3>4 DEF Ends
    <3>7. w[y] \in Seq(DOMAIN p) /\ ToSet(w[y]) = {y} \cup ToSet(t)
      <4>1. s \o t \in Seq(DOMAIN p) /\ ToSet(s \o t) = ToSet(s) \cup ToSet(t)
        BY <3>5, <3>6, ToSetConcat
      <4>. QED  BY <3>4, <3>5, <4>1, Zenon
    <3>8. w[y] # <<>> /\ Last(w[y]) = Last(t)
      <4>1. s \o t # <<>> /\ Last(s \o t) = Last(t)
        BY <3>5, <3>6, LastOfConcat
      <4>. QED  BY <3>4, <4>1, Zenon
    <3>. QED  BY <2>1, <3>1, <3>3, <3>4, <3>7, <3>8 DEF Ends
  <2>. QED  BY <2>2, <2>3
<1>. HIDE DEF Good
<1>3. N + 1 \in Good
  <2>1. Nat \subseteq Good  BY <1>1, <1>2, Induction
  <2>. QED  BY <1>0, <2>1
<1>4. Below(p, rank, N + 1) = DOMAIN p
  <2>1. \A y \in DOMAIN p : rank[y] < N + 1  BY <1>0
  <2>. QED  BY <2>1 DEF Below
<1>. QED  BY <1>3, <1>4 DEF Good

(* find returns the representative.                                        *)
LEMMA RootIsRep ==
  ASSUME NEW p, NEW rep, Forest(p, rep), NEW x \in DOMAIN p
  PROVE  /\ Root(p, x) = rep[x]
         /\ \A z \in ToSet(Path(p, x)) : z \in DOMAIN p /\ rep[z] = rep[x]
<1>1. PICK rank, N : Ranked(p, rep, rank, N)  BY DEF Forest
<1>2. IsWay(CHOOSE w : IsWay(w, p), p)  BY <1>1, WayExists
<1>3. Ends(Path(p, x), p, rep, x)  BY <1>1, <1>2, WayEnds, PathIsWay
<1>. QED  BY <1>3 DEF Ends, Root

-----------------------------------------------------------------------------
(* The operations on the forest                                            *)

LEMMA RepOfRep ==
  ASSUME NEW p, NEW rep, NEW rank, NEW N, Ranked(p, rep, rank, N), NEW y \in DOMAIN p
  PROVE  rep[y] \in DOMAIN p /\ rep[rep[y]] = rep[y] /\ p[rep[y]] = rep[y]
<1>1. rep[y] \in DOMAIN p /\ p[rep[y]] = rep[y] /\ rank[rep[y]] \in 0..N /\ N \in Nat
  BY DEF Ranked
<1>2. ~(rank[p[rep[y]]] < rank[rep[y]])  BY <1>1
<1>. QED  BY <1>1, <1>2 DEF Ranked

LEMMA CompressedForest ==
  ASSUME NEW p, NEW rep, Forest(p, rep), NEW x \in DOMAIN p
  PROVE  Forest(Compressed(p, x), rep) /\ DOMAIN Compressed(p, x) = DOMAIN p
<1>1. PICK rank, N : Ranked(p, rep, rank, N)  BY DEF Forest
<1>2. PICK q : q = Compressed(p, x)  OBVIOUS
<1>3. /\ DOMAIN q = DOMAIN p /\ q = [y \in DOMAIN q |-> q[y]]
      /\ \A y \in DOMAIN p : \/ q[y] = p[y]
                             \/ rep[y] = rep[x] /\ q[y] = rep[y]
  BY <1>2, RootIsRep DEF Compressed
<1>4. ASSUME NEW y \in DOMAIN p
      PROVE  /\ q[y] \in DOMAIN q /\ rep[y] \in DOMAIN q /\ rank[y] \in 0..N
             /\ q[rep[y]] = rep[y]
             /\ \/ q[y] = y /\ rep[y] = y
                \/ /\ rank[q[y]] < rank[y] /\ rank[rep[y]] < rank[y]
                   /\ rep[q[y]] = rep[y]
  <2>1. /\ p[y] \in DOMAIN p /\ rank[y] \in 0..N
        /\ \/ p[y] = y /\ rep[y] = y
           \/ /\ rank[p[y]] < rank[y] /\ rank[rep[y]] < rank[y]
              /\ rep[p[y]] = rep[y]
    BY <1>1 DEF Ranked
  <2>2. rep[y] \in DOMAIN p /\ rep[rep[y]] = rep[y] /\ p[rep[y]] = rep[y]
    BY <1>1, RepOfRep
  <2>3. q[rep[y]] = rep[y]  BY <1>3, <2>2
  <2>. QED  BY <1>3, <2>1, <2>2, <2>3
<1>5. Ranked(q, rep, rank, N)
  <2>1. N \in Nat  BY <1>1 DEF Ranked
  <2>. QED  BY <1>3, <1>4, <2>1 DEF Ranked
<1>. QED  BY <1>2, <1>3, <1>5 DEF Forest

(* q is p with x, who is alone if it is new.                               *)
With(q, p, rep, x) ==
  /\ DOMAIN q = DOMAIN p \cup {x}
  /\ \E new : /\ Forest(q, new)
              /\ \A y \in DOMAIN p : new[y] = rep[y]
              /\ x \notin DOMAIN p => new[x] = x

LEMMA KnownForest ==
  ASSUME NEW p, NEW rep, Forest(p, rep), NEW x
  PROVE  With(Known(p, x), p, rep, x)
<1>1. CASE x \in DOMAIN p
  <2>1. Known(p, x) = p /\ DOMAIN p = DOMAIN p \cup {x}  BY <1>1 DEF Known
  <2>. QED  BY <1>1, <2>1 DEF With
<1>2. CASE x \notin DOMAIN p
  <2>1. PICK rank, N : Ranked(p, rep, rank, N)  BY DEF Forest
  <2>2. PICK q : q = Known(p, x)  OBVIOUS
  <2>3. /\ DOMAIN q = DOMAIN p \cup {x} /\ q = [y \in DOMAIN q |-> q[y]]
        /\ q[x] = x /\ \A y \in DOMAIN p : q[y] = p[y]
    BY <1>2, <2>2 DEF Known, SetTo
  <2>4. PICK new : new = [y \in DOMAIN q |-> IF y = x THEN x ELSE rep[y]]  OBVIOUS
  <2>5. PICK high : high = [y \in DOMAIN q |-> IF y = x THEN 0 ELSE rank[y]]  OBVIOUS
  <2>6. /\ new[x] = x /\ high[x] = 0
        /\ \A y \in DOMAIN p : y # x /\ new[y] = rep[y] /\ high[y] = rank[y]
    BY <1>2, <2>3, <2>4, <2>5
  <2>7. N \in Nat  BY <2>1 DEF Ranked
  <2>8. ASSUME NEW y \in DOMAIN q
        PROVE  /\ q[y] \in DOMAIN q /\ new[y] \in DOMAIN q /\ high[y] \in 0..N
               /\ q[new[y]] = new[y]
               /\ \/ q[y] = y /\ new[y] = y
                  \/ /\ high[q[y]] < high[y] /\ high[new[y]] < high[y]
                     /\ new[q[y]] = new[y]
    <3>1. CASE y = x  BY <2>3, <2>6, <2>7, <3>1
    <3>2. CASE y \in DOMAIN p
      <4>1. /\ p[y] \in DOMAIN p /\ rep[y] \in DOMAIN p /\ rank[y] \in 0..N
            /\ p[rep[y]] = rep[y]
            /\ \/ p[y] = y /\ rep[y] = y
               \/ /\ rank[p[y]] < rank[y] /\ rank[rep[y]] < rank[y]
                  /\ rep[p[y]] = rep[y]
        BY <2>1, <3>2 DEF Ranked
      <4>. QED  BY <2>3, <2>6, <3>2, <4>1
    <3>. QED  BY <2>3, <3>1, <3>2
  <2>9. Ranked(q, new, high, N)  BY <2>3, <2>7, <2>8 DEF Ranked
  <2>10. Forest(q, new)  BY <2>9 DEF Forest
  <2>. QED  BY <1>2, <2>2, <2>3, <2>6, <2>10 DEF With
<1>. QED  BY <1>1, <1>2

LEMMA FindForest ==
  ASSUME NEW p, NEW rep, Forest(p, rep), NEW x
  PROVE  With(Find(p, x), p, rep, x)
<1>1. PICK q : q = Known(p, x)  OBVIOUS
<1>2. With(q, p, rep, x)  BY <1>1, KnownForest
<1>3. PICK new : /\ Forest(q, new)
                 /\ \A y \in DOMAIN p : new[y] = rep[y]
                 /\ x \notin DOMAIN p => new[x] = x
  BY <1>2 DEF With
<1>4. Find(p, x) = Compressed(q, x)  BY <1>1 DEF Find
<1>5. Forest(Compressed(q, x), new) /\ DOMAIN Compressed(q, x) = DOMAIN q
  <2>1. x \in DOMAIN q  BY <1>2 DEF With
  <2>. QED  BY <1>3, <2>1, CompressedForest
<1>. QED  BY <1>2, <1>3, <1>4, <1>5 DEF With

(* The root of one tree is put under the root of another.                  *)
IsLinked(u, new, q, rep, a, b) ==
  /\ u = [q EXCEPT ![rep[a]] = rep[b]]
  /\ new = [y \in DOMAIN q |-> IF rep[y] = rep[a] THEN rep[b] ELSE rep[y]]

LEMMA LinkedForest ==
  ASSUME NEW q, NEW rep, Forest(q, rep), NEW a \in DOMAIN q, NEW b \in DOMAIN q,
         NEW u, NEW new, IsLinked(u, new, q, rep, a, b)
  PROVE  Forest(u, new) /\ DOMAIN u = DOMAIN q
<1>0. /\ u = [q EXCEPT ![rep[a]] = rep[b]]
      /\ new = [y \in DOMAIN q |-> IF rep[y] = rep[a] THEN rep[b] ELSE rep[y]]
  BY DEF IsLinked
<1>1. PICK rank, N : Ranked(q, rep, rank, N)  BY DEF Forest
<1>2. N \in Nat /\ q = [y \in DOMAIN q |-> q[y]]  BY <1>1 DEF Ranked
<1>3. \A y \in DOMAIN q :
        /\ q[y] \in DOMAIN q /\ rank[y] \in 0..N
        /\ rep[y] \in DOMAIN q /\ rep[rep[y]] = rep[y] /\ q[rep[y]] = rep[y]
        /\ \/ q[y] = y /\ rep[y] = y
           \/ /\ rank[q[y]] < rank[y] /\ rank[rep[y]] < rank[y]
              /\ rep[q[y]] = rep[y]
  BY <1>1, RepOfRep DEF Ranked
<1>4. PICK ra, rb : ra = rep[a] /\ rb = rep[b]  OBVIOUS
<1>5. /\ ra \in DOMAIN q /\ rep[ra] = ra /\ q[ra] = ra
      /\ rb \in DOMAIN q /\ rep[rb] = rb /\ q[rb] = rb
  BY <1>3, <1>4
<1>6. /\ DOMAIN u = DOMAIN q /\ u = [y \in DOMAIN u |-> u[y]]
      /\ u[ra] = rb /\ \A y \in DOMAIN q : y # ra => u[y] = q[y]
  BY <1>0, <1>4, <1>5
<1>7. /\ \A y \in DOMAIN q : rep[y] = ra => new[y] = rb
      /\ \A y \in DOMAIN q : rep[y] # ra => new[y] = rep[y]
  BY <1>0, <1>4
<1>8. CASE ra = rb
  <2>1. \A y \in DOMAIN q : u[y] = q[y] /\ new[y] = rep[y]
    BY <1>5, <1>6, <1>7, <1>8
  <2>2. Ranked(u, new, rank, N)  BY <1>2, <1>3, <1>6, <2>1 DEF Ranked
  <2>. QED  BY <1>6, <2>2 DEF Forest
<1>9. CASE ra # rb
  <2>1. PICK high : high = [y \in DOMAIN q |->
                              IF rep[y] = ra THEN rank[y] + N + 1 ELSE rank[y]]
    OBVIOUS
  <2>2. /\ \A y \in DOMAIN q : rep[y] = ra => high[y] = rank[y] + N + 1
        /\ \A y \in DOMAIN q : rep[y] # ra => high[y] = rank[y]
    BY <2>1
  <2>3. high[rb] = rank[rb] /\ rank[rb] \in 0..N /\ new[rb] = rb
    BY <1>3, <1>5, <1>7, <1>9, <2>2
  <2>4. ASSUME NEW y \in DOMAIN q
        PROVE  /\ u[y] \in DOMAIN u /\ new[y] \in DOMAIN u /\ high[y] \in 0..(2 * N + 1)
               /\ u[new[y]] = new[y]
               /\ \/ u[y] = y /\ new[y] = y
                  \/ /\ high[u[y]] < high[y] /\ high[new[y]] < high[y]
                     /\ new[u[y]] = new[y]
    <3>1. CASE y = ra
      <4>1. high[y] = rank[y] + N + 1 /\ rank[y] \in 0..N /\ new[y] = rb /\ u[y] = rb
        BY <1>3, <1>5, <1>6, <1>7, <2>2, <3>1
      <4>2. high[rb] < high[y] /\ high[y] \in 0..(2 * N + 1)
        BY <1>2, <2>3, <4>1
      <4>3. u[rb] = rb  BY <1>5, <1>6, <1>9
      <4>. QED  BY <1>5, <1>6, <2>3, <4>1, <4>2, <4>3
    <3>2. CASE y # ra /\ rep[y] = ra
      <4>1. /\ q[y] \in DOMAIN q /\ rank[q[y]] < rank[y] /\ rep[q[y]] = ra
            /\ rank[y] \in 0..N /\ rank[q[y]] \in 0..N
        BY <1>3, <3>2
      <4>2. /\ u[y] = q[y] /\ new[y] = rb /\ new[u[y]] = rb
            /\ high[y] = rank[y] + N + 1 /\ high[u[y]] = rank[q[y]] + N + 1
        BY <1>6, <1>7, <2>2, <3>2, <4>1
      <4>3. high[rb] < high[y] /\ high[y] \in 0..(2 * N + 1) /\ high[u[y]] < high[y]
        BY <1>2, <2>3, <4>1, <4>2
      <4>4. u[rb] = rb  BY <1>5, <1>6, <1>9
      <4>. QED  BY <1>5, <1>6, <4>1, <4>2, <4>3, <4>4
    <3>3. CASE rep[y] # ra
      <4>1. y # ra /\ u[y] = q[y] /\ new[y] = rep[y] /\ high[y] = rank[y]
        BY <1>5, <1>6, <1>7, <2>2, <3>3
      <4>2. rep[y] # ra /\ rep[rep[y]] # ra /\ rep[y] \in DOMAIN q
        BY <1>3, <3>3
      <4>3. u[rep[y]] = rep[y] /\ high[rep[y]] = rank[rep[y]]
        BY <1>3, <1>6, <2>2, <4>2
      <4>4. rank[y] \in 0..(2 * N + 1)
        <5>1. rank[y] \in 0..N  BY <1>3
        <5>. QED  BY <1>2, <5>1
      <4>5. CASE q[y] = y /\ rep[y] = y
        BY <1>6, <4>1, <4>2, <4>3, <4>4, <4>5
      <4>6. CASE /\ rank[q[y]] < rank[y] /\ rank[rep[y]] < rank[y]
                 /\ rep[q[y]] = rep[y]
        <5>1. q[y] \in DOMAIN q  BY <1>3
        <5>2. high[q[y]] = rank[q[y]] /\ new[q[y]] = rep[y]
          BY <1>7, <2>2, <3>3, <4>6, <5>1
        <5>. QED  BY <1>6, <4>1, <4>2, <4>3, <4>4, <4>6, <5>1, <5>2
      <4>. QED  BY <1>3, <4>5, <4>6
    <3>. QED  BY <3>1, <3>2, <3>3
  <2>5. 2 * N + 1 \in Nat  BY <1>2
  <2>6. Ranked(u, new, high, 2 * N + 1)  BY <1>6, <2>4, <2>5 DEF Ranked
  <2>. QED  BY <1>6, <2>6 DEF Forest
<1>. QED  BY <1>8, <1>9

-----------------------------------------------------------------------------
(* What find and union do to the roots                                     *)

IsForest(p) == \E rep : Forest(p, rep)

LEMMA RootInForest ==
  ASSUME NEW p, IsForest(p), NEW y \in DOMAIN p
  PROVE  /\ p[y] \in DOMAIN p
         /\ Root(p, y) \in DOMAIN p /\ Root(p, Root(p, y)) = Root(p, y)
<1>1. PICK rep : Forest(p, rep)  BY DEF IsForest
<1>2. PICK rank, N : Ranked(p, rep, rank, N)  BY <1>1 DEF Forest
<1>3. rep[y] \in DOMAIN p /\ rep[rep[y]] = rep[y]  BY <1>2, RepOfRep
<1>4. Root(p, y) = rep[y] /\ Root(p, rep[y]) = rep[rep[y]]  BY <1>1, <1>3, RootIsRep
<1>5. p[y] \in DOMAIN p  BY <1>2 DEF Ranked
<1>. QED  BY <1>3, <1>4, <1>5

(* find adds x, alone, when it is new, and leaves the roots as they are.   *)
FoundRoots(q, p, x) ==
  /\ IsForest(q) /\ DOMAIN q = DOMAIN p \cup {x}
  /\ \A y \in DOMAIN p : Root(q, y) = Root(p, y)
  /\ x \notin DOMAIN p => Root(q, x) = x

LEMMA FindRoots ==
  ASSUME NEW p, IsForest(p), NEW x
  PROVE  FoundRoots(Find(p, x), p, x)
<1>1. PICK rep : Forest(p, rep)  BY DEF IsForest
<1>2. PICK q : q = Find(p, x)  OBVIOUS
<1>3. With(q, p, rep, x)  BY <1>1, <1>2, FindForest
<1>4. PICK new : /\ Forest(q, new)
                 /\ \A y \in DOMAIN p : new[y] = rep[y]
                 /\ x \notin DOMAIN p => new[x] = x
  BY <1>3 DEF With
<1>5. DOMAIN q = DOMAIN p \cup {x}  BY <1>3 DEF With
<1>6. \A y \in DOMAIN q : Root(q, y) = new[y]  BY <1>4, RootIsRep
<1>7. \A y \in DOMAIN p : Root(p, y) = rep[y]  BY <1>1, RootIsRep
<1>8. \A y \in DOMAIN p : Root(q, y) = Root(p, y)  BY <1>4, <1>5, <1>6, <1>7
<1>9. x \notin DOMAIN p => Root(q, x) = x  BY <1>4, <1>5, <1>6
<1>10. IsForest(q)  BY <1>4 DEF IsForest
<1>. QED  BY <1>2, <1>5, <1>8, <1>9, <1>10 DEF FoundRoots

(* union(a, b): whoever had a's root has b's.                              *)
Both(p, a, b) == Find(Find(p, a), b)

LinkedRoots(u, q, a, b) ==
  /\ IsForest(u) /\ DOMAIN u = DOMAIN q
  /\ \A y \in DOMAIN q :
       Root(u, y) = IF Root(q, y) = Root(q, a) THEN Root(q, b) ELSE Root(q, y)

LEMMA UnionRoots ==
  ASSUME NEW p, IsForest(p), NEW a, NEW b,
         NEW q, q = Both(p, a, b), NEW u, u = Union(p, a, b)
  PROVE  /\ IsForest(q) /\ DOMAIN q = DOMAIN p \cup {a, b}
         /\ LinkedRoots(u, q, a, b)
<1>1. IsForest(q) /\ DOMAIN q = DOMAIN p \cup {a, b}
  <2>1. PICK o : o = Find(p, a)  OBVIOUS
  <2>2. IsForest(o) /\ DOMAIN o = DOMAIN p \cup {a}  BY <2>1, FindRoots DEF FoundRoots
  <2>3. q = Find(o, b)  BY <2>1 DEF Both
  <2>4. FoundRoots(q, o, b)  BY <2>2, <2>3, FindRoots
  <2>. QED  BY <2>2, <2>4 DEF FoundRoots
<1>2. a \in DOMAIN q /\ b \in DOMAIN q  BY <1>1
<1>3. PICK rep : Forest(q, rep)  BY <1>1 DEF IsForest
<1>4. \A y \in DOMAIN q : Root(q, y) = rep[y]  BY <1>3, RootIsRep
<1>5. u = [q EXCEPT ![rep[a]] = rep[b]]  BY <1>2, <1>4 DEF Union, Both
<1>6. PICK new : new = [y \in DOMAIN q |-> IF rep[y] = rep[a] THEN rep[b] ELSE rep[y]]
  OBVIOUS
<1>7. Forest(u, new) /\ DOMAIN u = DOMAIN q
  <2>1. IsLinked(u, new, q, rep, a, b)  BY <1>5, <1>6 DEF IsLinked
  <2>. QED  BY <1>2, <1>3, <2>1, LinkedForest
<1>8. \A y \in DOMAIN q : Root(u, y) = new[y]  BY <1>7, RootIsRep
<1>9. \A y \in DOMAIN q :
        Root(u, y) = IF Root(q, y) = Root(q, a) THEN Root(q, b) ELSE Root(q, y)
  BY <1>2, <1>4, <1>6, <1>8
<1>10. IsForest(u)  BY <1>7 DEF IsForest
<1>. QED  BY <1>1, <1>7, <1>9, <1>10 DEF LinkedRoots

(* The trees of p lie within C or outside of it.                           *)
Respects(p, C) ==
  \A y, z \in DOMAIN p : Root(p, y) = Root(p, z) => (y \in C <=> z \in C)

(* Who has one root in p has one in q.                                     *)
Coarser(q, p) ==
  /\ DOMAIN p \subseteq DOMAIN q
  /\ \A y, z \in DOMAIN p : Root(p, y) = Root(p, z) => Root(q, y) = Root(q, z)

LEMMA CoarserTransitive ==
  ASSUME NEW p, NEW q, NEW r, Coarser(q, p), Coarser(r, q)
  PROVE  Coarser(r, p)
BY DEF Coarser

LEMMA FindRespects ==
  ASSUME NEW p, IsForest(p), NEW x, NEW C, Respects(p, C)
  PROVE  Respects(Find(p, x), C)
<1>1. PICK q : q = Find(p, x)  OBVIOUS
<1>2. /\ DOMAIN q = DOMAIN p \cup {x}
      /\ \A y \in DOMAIN p : Root(q, y) = Root(p, y)
      /\ x \notin DOMAIN p => Root(q, x) = x
  BY <1>1, FindRoots DEF FoundRoots
<1>3. \A y \in DOMAIN p : Root(p, y) \in DOMAIN p  BY RootInForest
<1>4. ASSUME NEW y \in DOMAIN q, NEW z \in DOMAIN q, Root(q, y) = Root(q, z)
      PROVE  y \in C <=> z \in C
  <2>1. CASE y \in DOMAIN p /\ z \in DOMAIN p  BY <1>2, <1>4, <2>1 DEF Respects
  <2>2. CASE y \in DOMAIN p /\ z \notin DOMAIN p
    <3>1. z = x /\ Root(q, z) = z /\ Root(q, y) \in DOMAIN p  BY <1>2, <1>3, <2>2
    <3>. QED  BY <1>4, <2>2, <3>1
  <2>3. CASE y \notin DOMAIN p /\ z \in DOMAIN p
    <3>1. y = x /\ Root(q, y) = y /\ Root(q, z) \in DOMAIN p  BY <1>2, <1>3, <2>3
    <3>. QED  BY <1>4, <2>3, <3>1
  <2>4. CASE y \notin DOMAIN p /\ z \notin DOMAIN p  BY <1>2, <2>4
  <2>. QED  BY <2>1, <2>2, <2>3, <2>4
<1>. QED  BY <1>1, <1>4 DEF Respects

LEMMA FindCoarser ==
  ASSUME NEW p, IsForest(p), NEW x
  PROVE  Coarser(Find(p, x), p)
<1>1. FoundRoots(Find(p, x), p, x)  BY FindRoots
<1>2. PICK q : q = Find(p, x)  OBVIOUS
<1>3. FoundRoots(q, p, x)  BY <1>1, <1>2
<1>4. Coarser(q, p)  BY <1>3 DEF FoundRoots, Coarser
<1>. QED  BY <1>2, <1>4

(* u is p with the trees of a and b made one, and nothing else.            *)
MadeOne(u, p, a, b) ==
  /\ IsForest(u) /\ DOMAIN u = DOMAIN p \cup {a, b}
  /\ Root(u, a) = Root(u, b)
  /\ Coarser(u, p)
  /\ \A C : Respects(p, C) /\ (a \in C <=> b \in C) => Respects(u, C)

LEMMA UnionKeeps ==
  ASSUME NEW p, IsForest(p), NEW a, NEW b, NEW u, u = Union(p, a, b)
  PROVE  MadeOne(u, p, a, b)
<1>1. PICK o, q : o = Find(p, a) /\ q = Find(o, b)  OBVIOUS
<1>2. q = Both(p, a, b)  BY <1>1 DEF Both
<1>3. /\ IsForest(q) /\ DOMAIN q = DOMAIN p \cup {a, b}
      /\ IsForest(u) /\ DOMAIN u = DOMAIN q
      /\ \A y \in DOMAIN q :
           Root(u, y) = IF Root(q, y) = Root(q, a) THEN Root(q, b) ELSE Root(q, y)
  <2>1. /\ IsForest(q) /\ DOMAIN q = DOMAIN p \cup {a, b}
        /\ LinkedRoots(u, q, a, b)
    BY <1>2, UnionRoots
  <2>. QED  BY <2>1 DEF LinkedRoots
<1>4. a \in DOMAIN q /\ b \in DOMAIN q  BY <1>3
<1>5. IsForest(o)  BY <1>1, FindRoots DEF FoundRoots
<1>6. Coarser(q, p)
  <2>1. Coarser(o, p) /\ Coarser(q, o)  BY <1>1, <1>5, FindCoarser
  <2>. QED  BY <2>1, CoarserTransitive
<1>7. Coarser(u, q)
  <2>1. ASSUME NEW y \in DOMAIN q, NEW z \in DOMAIN q, Root(q, y) = Root(q, z)
        PROVE  Root(u, y) = Root(u, z)
    BY <1>3, <2>1
  <2>. QED  BY <1>3, <2>1 DEF Coarser
<1>8. ASSUME NEW C, Respects(p, C), a \in C <=> b \in C
      PROVE  Respects(u, C)
  <2>1. Respects(o, C)  BY <1>1, <1>8, FindRespects
  <2>2. Respects(q, C)  BY <1>1, <1>5, <2>1, FindRespects
  <2>3. ASSUME NEW y \in DOMAIN q, NEW z \in DOMAIN q, Root(u, y) = Root(u, z)
        PROVE  y \in C <=> z \in C
    <3>1. CASE Root(q, y) = Root(q, a) /\ Root(q, z) # Root(q, a)
      <4>1. Root(q, z) = Root(q, b)  BY <1>3, <2>3, <3>1
      <4>. QED  BY <1>4, <1>8, <2>2, <3>1, <4>1 DEF Respects
    <3>2. CASE Root(q, y) # Root(q, a) /\ Root(q, z) = Root(q, a)
      <4>1. Root(q, y) = Root(q, b)  BY <1>3, <2>3, <3>2
      <4>. QED  BY <1>4, <1>8, <2>2, <3>2, <4>1 DEF Respects
    <3>3. CASE (Root(q, y) = Root(q, a)) <=> (Root(q, z) = Root(q, a))
      <4>1. Root(q, y) = Root(q, z)  BY <1>3, <2>3, <3>3
      <4>. QED  BY <2>2, <4>1 DEF Respects
    <3>. QED  BY <3>1, <3>2, <3>3
  <2>. QED  BY <1>3, <2>3 DEF Respects
<1>9. Root(u, a) = Root(u, b)  BY <1>3, <1>4
<1>10. Coarser(u, p)  BY <1>6, <1>7, CoarserTransitive
<1>. QED  BY <1>3, <1>8, <1>9, <1>10 DEF MadeOne

(* The function UnionAll's loop is defined by.                             *)
NextAfter(f, p, s, n) == IF n = 1 THEN p ELSE Union(f[n - 1], s[1], s[n])

IsAfter(f, p, s, N) == f = [n \in 1..N |-> NextAfter(f, p, s, n)]

LEMMA UnionAllIsAfter ==
  ASSUME NEW p, NEW s
  PROVE  UnionAll(p, s) = (CHOOSE f : IsAfter(f, p, s, Len(s)))[Len(s)]
BY DEF UnionAll, IsAfter, NextAfter

LEMMA AfterExists ==
  ASSUME NEW p, NEW s, NEW N \in Nat
  PROVE  \E f : IsAfter(f, p, s, N)
<1>. DEFINE Good == {n \in Nat : \E f : IsAfter(f, p, s, n)}
<1>1. 0 \in Good
  <2>1. PICK f : f = [n \in {} |-> p]  OBVIOUS
  <2>2. f = [n \in {} |-> NextAfter(f, p, s, n)]  BY <2>1
  <2>3. 1..0 = {}  OBVIOUS
  <2>4. IsAfter(f, p, s, 0)  BY <2>2, <2>3 DEF IsAfter
  <2>. QED  BY <2>4
<1>2. ASSUME NEW n \in Nat, n \in Good  PROVE n + 1 \in Good
  <2>1. PICK f : IsAfter(f, p, s, n)  BY <1>2
  <2>2. PICK g : g = [k \in 1..(n + 1) |-> NextAfter(f, p, s, k)]  OBVIOUS
  <2>3. ASSUME NEW k \in 1..n  PROVE g[k] = f[k]
    <3>1. k \in 1..(n + 1)  OBVIOUS
    <3>2. f[k] = NextAfter(f, p, s, k)  BY <2>1 DEF IsAfter
    <3>. QED  BY <2>2, <3>1, <3>2
  <2>4. ASSUME NEW k \in 1..(n + 1)  PROVE NextAfter(g, p, s, k) = NextAfter(f, p, s, k)
    <3>1. CASE k = 1  BY <3>1 DEF NextAfter
    <3>2. CASE k # 1
      <4>1. k - 1 \in 1..n  BY <3>2
      <4>. QED  BY <2>3, <3>2, <4>1 DEF NextAfter
    <3>. QED  BY <3>1, <3>2
  <2>5. g = [k \in 1..(n + 1) |-> NextAfter(g, p, s, k)]  BY <2>2, <2>4
  <2>6. IsAfter(g, p, s, n + 1)  BY <2>5 DEF IsAfter
  <2>. QED  BY <2>6
<1>. HIDE DEF Good
<1>3. Nat \subseteq Good  BY <1>1, <1>2, Induction
<1>. QED  BY <1>3 DEF Good

(* u is p after the identifiers of X were united.                          *)
UnitedIn(u, p, X) ==
  /\ IsForest(u)
  /\ DOMAIN u \subseteq DOMAIN p \cup X
  /\ Coarser(u, p)
  /\ \A y, z \in X : y = z \/ ({y, z} \subseteq DOMAIN u /\ Root(u, y) = Root(u, z))
  /\ \A C : Respects(p, C) /\ (X \subseteq C \/ X \cap C = {}) => Respects(u, C)

LEMMA UnitedOne ==
  ASSUME NEW p, IsForest(p), NEW x
  PROVE  UnitedIn(p, p, {x})
BY DEF UnitedIn, Coarser

LEMMA UnitedMore ==
  ASSUME NEW p, NEW u, NEW X, UnitedIn(u, p, X), NEW a \in X, NEW b,
         NEW v, v = Union(u, a, b)
  PROVE  UnitedIn(v, p, X \cup {b})
<1>1. /\ IsForest(v) /\ DOMAIN v = DOMAIN u \cup {a, b}
      /\ Root(v, a) = Root(v, b) /\ Coarser(v, u)
      /\ \A C : Respects(u, C) /\ (a \in C <=> b \in C) => Respects(v, C)
  <2>1. MadeOne(v, u, a, b)  BY UnionKeeps DEF UnitedIn
  <2>. QED  BY <2>1 DEF MadeOne
<1>2. Coarser(v, p)  BY <1>1, CoarserTransitive DEF UnitedIn
<1>3. \A y \in X : y \in DOMAIN v /\ Root(v, y) = Root(v, a)
  <2>. TAKE y \in X
  <2>1. CASE y = a  BY <1>1, <2>1
  <2>2. CASE y # a
    <3>1. {y, a} \subseteq DOMAIN u /\ Root(u, y) = Root(u, a)  BY <2>2 DEF UnitedIn
    <3>. QED  BY <1>1, <3>1 DEF Coarser
  <2>. QED  BY <2>1, <2>2
<1>4. \A y \in X \cup {b} : y \in DOMAIN v /\ Root(v, y) = Root(v, a)  BY <1>1, <1>3
<1>5. ASSUME NEW C, Respects(p, C), X \cup {b} \subseteq C \/ (X \cup {b}) \cap C = {}
      PROVE  Respects(v, C)
  <2>1. X \subseteq C \/ X \cap C = {}  BY <1>5
  <2>2. Respects(u, C)  BY <1>5, <2>1 DEF UnitedIn
  <2>3. a \in C <=> b \in C  BY <1>5
  <2>. QED  BY <1>1, <2>2, <2>3
<1>6. DOMAIN v \subseteq DOMAIN p \cup (X \cup {b})  BY <1>1 DEF UnitedIn
<1>. QED  BY <1>1, <1>2, <1>4, <1>5, <1>6 DEF UnitedIn

LEMMA UnionAllUnites ==
  ASSUME NEW p, IsForest(p), NEW S, NEW s \in Seq(S), s # <<>>
  PROVE  UnitedIn(UnionAll(p, s), p, ToSet(s))
<1>1. PICK N \in Nat : N = Len(s) /\ N # 0  BY LenProperties, EmptySeq
<1>2. DOMAIN s = 1..N  BY <1>1, LenProperties
<1>3. PICK f : /\ IsAfter(f, p, s, N)
               /\ UnionAll(p, s) = f[N]
  <2>1. IsAfter(CHOOSE f : IsAfter(f, p, s, N), p, s, N)  BY AfterExists
  <2>. QED  BY <1>1, <2>1, UnionAllIsAfter
<1>. DEFINE First(n) == {s[i] : i \in 1..n}
            Good == {n \in Nat : n \in 1..N => UnitedIn(f[n], p, First(n))}
<1>4. 0 \in Good  OBVIOUS
<1>5. ASSUME NEW n \in Nat, n \in Good  PROVE n + 1 \in Good
  <2>. SUFFICES ASSUME n + 1 \in 1..N  PROVE UnitedIn(f[n + 1], p, First(n + 1))
    OBVIOUS
  <2>1. f[n + 1] = NextAfter(f, p, s, n + 1)  BY <1>3 DEF IsAfter
  <2>2. CASE n = 0
    <3>1. n + 1 = 1  BY <2>2
    <3>2. f[n + 1] = p  BY <2>1, <3>1 DEF NextAfter
    <3>3. First(n + 1) = {s[1]}  BY <3>1
    <3>. HIDE DEF First
    <3>. QED  BY <3>2, <3>3, UnitedOne
  <2>3. CASE n # 0
    <3>1. n \in 1..N /\ n + 1 # 1 /\ n + 1 - 1 = n  BY <2>3
    <3>2. UnitedIn(f[n], p, First(n))  BY <1>5, <3>1
    <3>3. f[n + 1] = Union(f[n], s[1], s[n + 1])  BY <2>1, <3>1 DEF NextAfter
    <3>4. First(n + 1) = First(n) \cup {s[n + 1]}
      <4>1. 1..(n + 1) = 1..n \cup {n + 1}  OBVIOUS
      <4>. QED  BY <4>1
    <3>5. s[1] \in First(n)
      <4>1. 1 \in 1..n  BY <3>1
      <4>. QED  BY <4>1
    <3>. HIDE DEF First
    <3>6. UnitedIn(f[n + 1], p, First(n) \cup {s[n + 1]})
      BY <3>2, <3>3, <3>5, UnitedMore
    <3>. QED  BY <3>4, <3>6
  <2>. QED  BY <2>2, <2>3
<1>6. First(N) = ToSet(s)  BY <1>2 DEF ToSet
<1>. HIDE DEF Good, First
<1>7. N \in Good
  <2>1. Nat \subseteq Good  BY <1>4, <1>5, Induction
  <2>. QED  BY <2>1
<1>8. N \in 1..N  BY <1>1
<1>9. UnitedIn(f[N], p, First(N))  BY <1>7, <1>8 DEF Good
<1>. QED  BY <1>3, <1>6, <1>9

-----------------------------------------------------------------------------
(* The batch                                                               *)

IsBatch(c) ==
  \E N \in Nat : /\ N # 0 /\ DOMAIN c = 1..N /\ Len(c) = N
                 /\ \A m \in 1..N : c[m] \in Seq(Identifier)

LEMMA BatchShape ==
  ASSUME NEW c \in Batches
  PROVE  IsBatch(c)
<1>1. PICK n \in 1..MaxMessages : c \in [1..n -> SeqOf(Identifier, MaxConnectors)]
  BY DEF Batches
<1>2. n \in Nat /\ n # 0  BY <1>1, BoundAssumption
<1>3. SeqOf(Identifier, MaxConnectors) \subseteq Seq(Identifier)
  BY SeqDef, BoundAssumption DEF SeqOf
<1>4. c \in [1..n -> Seq(Identifier)]  BY <1>1, <1>3
<1>5. c \in Seq(Seq(Identifier))  BY <1>2, <1>4, SeqDef
<1>6. Len(c) \in Nat /\ DOMAIN c = 1..Len(c)  BY <1>5, LenProperties
<1>7. DOMAIN c = 1..n  BY <1>4
<1>8. Len(c) = n
  <2>1. PICK k \in Nat : k = Len(c)  BY <1>6
  <2>2. 1..k = 1..n  BY <1>6, <1>7, <2>1
  <2>3. n \in 1..k  BY <1>2, <2>2
  <2>4. k \in 1..n
    <3>1. k # 0  BY <2>3
    <3>. QED  BY <2>1, <2>2, <3>1
  <2>. QED  BY <1>2, <2>1, <2>3, <2>4
<1>. QED  BY <1>2, <1>4, <1>7, <1>8 DEF IsBatch

LEMMA FirstIsOne ==
  ASSUME NEW S, NEW s \in Seq(S), s # <<>>
  PROVE  s[1] \in ToSet(s) /\ s[1] \in S
<1>1. Len(s) \in Nat /\ DOMAIN s = 1..Len(s) /\ Len(s) # 0 /\ \A i \in 1..Len(s) : s[i] \in S
  BY LenProperties, EmptySeq
<1>2. 1 \in 1..Len(s)  BY <1>1
<1>. QED  BY <1>1, <1>2 DEF ToSet

-----------------------------------------------------------------------------
(* The invariant                                                           *)

(* The identifiers of a message of M have one root.                        *)
Joins(p, c, M) ==
  \A m \in M : \A y, z \in ToSet(c[m]) :
    y = z \/ ({y, z} \subseteq DOMAIN p /\ Root(p, y) = Root(p, z))

(* No message of M straddles C.                                            *)
Unstraddled(C, c, M) == \A m \in M : ToSet(c[m]) \subseteq C \/ ToSet(c[m]) \cap C = {}

(* Only the messages of M put identifiers into one tree.                   *)
Apart(p, c, M) == \A C : Unstraddled(C, c, M) => Respects(p, C)

(* The key of the group of m.                                              *)
Home(p, c, m) == IF c[m] = <<>> THEN <<"uuid", m>> ELSE <<"id", Root(p, c[m][1])>>

(* The group k holds those of P whose key it is, in order.                 *)
GroupOf(g, p, c, P, k) ==
  /\ g[k].msgs \in Seq(P)
  /\ \A m \in P : m \in ToSet(g[k].msgs) <=> Home(p, c, m) = k
  /\ \E m \in P : Home(p, c, m) = k
  /\ \A i, j \in DOMAIN g[k].msgs : i < j => g[k].msgs[i] < g[k].msgs[j]
  /\ g[k].ids = UNION {ToSet(c[m]) : m \in ToSet(g[k].msgs)}

Grouped(g, p, c, P) ==
  /\ \A m \in P : /\ c[m] # <<>> => c[m][1] \in DOMAIN p
                  /\ Home(p, c, m) \in DOMAIN g
  /\ \A k \in DOMAIN g : GroupOf(g, p, c, P, k)

Placed == CASE pass = "union" -> {}
            [] pass = "group" -> 1..(at - 1)
            [] OTHER          -> Message

BatchInv ==
  /\ connectors \in Batches
  /\ at \in Message
  /\ pass \in {"union", "group", "done"}

ForestInv == IsForest(parent) /\ DOMAIN parent \subseteq Identifier

IInv ==
  /\ BatchInv
  /\ ForestInv
  /\ Joins(parent, connectors, United)
  /\ Apart(parent, connectors, United)
  /\ Grouped(groups, parent, connectors, Placed)

-----------------------------------------------------------------------------
(* The steps of the invariant                                              *)

LEMMA JoinsMore ==
  ASSUME NEW p, NEW c, NEW M, Joins(p, c, M), NEW m, NEW v, UnitedIn(v, p, ToSet(c[m]))
  PROVE  Joins(v, c, M \cup {m})
<1>1. Coarser(v, p)  BY DEF UnitedIn
<1>2. ASSUME NEW n \in M, NEW y \in ToSet(c[n]), NEW z \in ToSet(c[n])
      PROVE  y = z \/ ({y, z} \subseteq DOMAIN v /\ Root(v, y) = Root(v, z))
  BY <1>1 DEF Joins, Coarser
<1>3. ASSUME NEW y \in ToSet(c[m]), NEW z \in ToSet(c[m])
      PROVE  y = z \/ ({y, z} \subseteq DOMAIN v /\ Root(v, y) = Root(v, z))
  BY DEF UnitedIn
<1>. QED  BY <1>2, <1>3 DEF Joins

LEMMA ApartMore ==
  ASSUME NEW p, NEW c, NEW M, Apart(p, c, M), NEW m, NEW v, UnitedIn(v, p, ToSet(c[m]))
  PROVE  Apart(v, c, M \cup {m})
<1>. SUFFICES ASSUME NEW C, Unstraddled(C, c, M \cup {m})  PROVE Respects(v, C)
  BY DEF Apart
<1>1. Unstraddled(C, c, M) /\ (ToSet(c[m]) \subseteq C \/ ToSet(c[m]) \cap C = {})
  BY DEF Unstraddled
<1>2. Respects(p, C)  BY <1>1 DEF Apart
<1>. QED  BY <1>1, <1>2 DEF UnitedIn

(* A message without identifiers unites nothing.                           *)
LEMMA UnitedNone ==
  ASSUME NEW p, IsForest(p)
  PROVE  UnitedIn(p, p, {})
BY DEF UnitedIn, Coarser

LEMMA FoundJoins ==
  ASSUME NEW p, IsForest(p), NEW c, NEW M, Joins(p, c, M), NEW x, NEW q, q = Find(p, x)
  PROVE  Joins(q, c, M)
<1>1. Coarser(q, p)  BY FindCoarser
<1>. QED  BY <1>1 DEF Joins, Coarser

LEMMA FoundApart ==
  ASSUME NEW p, IsForest(p), NEW c, NEW M, Apart(p, c, M), NEW x, NEW q, q = Find(p, x)
  PROVE  Apart(q, c, M)
<1>. SUFFICES ASSUME NEW C, Unstraddled(C, c, M)  PROVE Respects(q, C)
  BY DEF Apart
<1>1. Respects(p, C)  BY DEF Apart
<1>. QED  BY <1>1, FindRespects

LEMMA FoundGrouped ==
  ASSUME NEW p, IsForest(p), NEW c, NEW P, NEW g, Grouped(g, p, c, P), NEW x,
         NEW q, q = Find(p, x)
  PROVE  Grouped(g, q, c, P)
<1>1. FoundRoots(q, p, x)  BY FindRoots
<1>2. \A y \in DOMAIN p : y \in DOMAIN q /\ Root(q, y) = Root(p, y)
  BY <1>1 DEF FoundRoots
<1>3. \A m \in P : Home(q, c, m) = Home(p, c, m) /\ (c[m] # <<>> => c[m][1] \in DOMAIN q)
  BY <1>2 DEF Grouped, Home
<1>4. ASSUME NEW k \in DOMAIN g  PROVE GroupOf(g, q, c, P, k)
  <2>1. GroupOf(g, p, c, P, k)  BY DEF Grouped
  <2>. QED  BY <1>3, <2>1 DEF GroupOf
<1>5. \A m \in P : Home(q, c, m) \in DOMAIN g  BY <1>3 DEF Grouped
<1>. QED  BY <1>3, <1>4, <1>5 DEF Grouped

(* A message is pushed at the end of its group.                            *)
LEMMA SeqWider ==
  ASSUME NEW S, NEW T, S \subseteq T, NEW s \in Seq(S)
  PROVE  s \in Seq(T)
OBVIOUS

LEMMA AppendedInOrder ==
  ASSUME NEW P, P \subseteq Nat, NEW m \in Nat, \A n \in P : n < m, NEW s \in Seq(P),
         \A i, j \in DOMAIN s : i < j => s[i] < s[j]
  PROVE  LET t == Append(s, m)
         IN  /\ t \in Seq(P \cup {m}) /\ ToSet(t) = ToSet(s) \cup {m}
             /\ \A i, j \in DOMAIN t : i < j => t[i] < t[j]
<1>. DEFINE t == Append(s, m)
<1>1. s \in Seq(P \cup {m})  BY SeqWider
<1>2. t \in Seq(P \cup {m}) /\ ToSet(t) = ToSet(s) \cup {m}  BY <1>1, ToSetAppend
<1>3. PICK N \in Nat : N = Len(s)  BY LenProperties
<1>4. DOMAIN s = 1..N /\ \A i \in 1..N : s[i] \in P  BY <1>3, LenProperties
<1>5. DOMAIN t = 1..(N + 1) /\ t[N + 1] = m /\ \A i \in 1..N : t[i] = s[i]
  BY <1>1, <1>2, <1>3, AppendProperties, LenProperties
<1>. HIDE DEF t
<1>6. ASSUME NEW i \in 1..(N + 1), NEW j \in 1..(N + 1), i < j  PROVE t[i] < t[j]
  <2>1. i \in 1..N  BY <1>6
  <2>2. CASE j = N + 1  BY <1>4, <1>5, <2>1, <2>2
  <2>3. CASE j \in 1..N  BY <1>4, <1>5, <1>6, <2>1, <2>3
  <2>. QED  BY <2>2, <2>3
<1>7. \A i, j \in DOMAIN t : i < j => t[i] < t[j]  BY <1>5, <1>6
<1>. QED  BY <1>2, <1>7 DEF t

LEMMA AloneInOrder ==
  ASSUME NEW P, NEW m
  PROVE  LET t == <<m>>
         IN  /\ t \in Seq(P \cup {m}) /\ ToSet(t) = {m}
             /\ \A i, j \in DOMAIN t : i < j => t[i] < t[j]
<1>1. m \in P \cup {m}  OBVIOUS
<1>2. <<m>> \in Seq(P \cup {m}) /\ ToSet(<<m>>) = {m}  BY <1>1, OneStep
<1>3. \A i, j \in DOMAIN <<m>> : ~(i < j)  OBVIOUS
<1>. QED  BY <1>2, <1>3

LEMMA PushedGroups ==
  ASSUME NEW p, NEW P, Grouped(groups, p, connectors, P), P \subseteq Nat,
         NEW m \in Nat, \A n \in P : n < m,
         connectors[m] # <<>> => connectors[m][1] \in DOMAIN p,
         NEW k, k = Home(p, connectors, m), NEW g, g = Pushed(k, m)
  PROVE  Grouped(g, p, connectors, P \cup {m})
<1>0. m \notin P  OBVIOUS
<1>1. PICK c : c = connectors  OBVIOUS
<1>2. /\ DOMAIN g = DOMAIN groups \cup {k}
      /\ \A l \in DOMAIN groups : l # k => g[l] = groups[l]
  BY DEF Pushed, SetTo
<1>3. ASSUME NEW l \in DOMAIN groups, l # k  PROVE GroupOf(g, p, c, P \cup {m}, l)
  <2>1. GroupOf(groups, p, c, P, l) /\ g[l] = groups[l]
    BY <1>1, <1>2, <1>3 DEF Grouped
  <2>2. Home(p, c, m) # l  BY <1>1, <1>3
  <2>3. ToSet(g[l].msgs) \subseteq P
    BY <2>1, HeadAndTail, ToSetEmpty DEF GroupOf
  <2>4. g[l].msgs \in Seq(P \cup {m})
    <3>1. groups[l].msgs \in Seq(P)  BY <2>1 DEF GroupOf
    <3>. QED  BY <2>1, <3>1, SeqWider
  <2>5. \A n \in P \cup {m} : n \in ToSet(g[l].msgs) <=> Home(p, c, n) = l
    BY <1>0, <2>1, <2>2, <2>3 DEF GroupOf
  <2>. QED  BY <2>1, <2>4, <2>5 DEF GroupOf
<1>4. GroupOf(g, p, c, P \cup {m}, k)
  <2>1. CASE k \in DOMAIN groups
    <3>1. PICK s, ids : s = groups[k].msgs /\ ids = groups[k].ids  OBVIOUS
    <3>2. g[k].msgs = Append(s, m) /\ g[k].ids = ids \cup ToSet(c[m])
      BY <1>1, <2>1, <3>1 DEF Pushed, Ids
    <3>3. /\ s \in Seq(P)
          /\ \A n \in P : n \in ToSet(s) <=> Home(p, c, n) = k
          /\ \A i, j \in DOMAIN s : i < j => s[i] < s[j]
          /\ ids = UNION {ToSet(c[n]) : n \in ToSet(s)}
      BY <1>1, <2>1, <3>1 DEF Grouped, GroupOf
    <3>4. PICK t : t = Append(s, m)  OBVIOUS
    <3>5. /\ t \in Seq(P \cup {m}) /\ ToSet(t) = ToSet(s) \cup {m}
          /\ \A i, j \in DOMAIN t : i < j => t[i] < t[j]
      BY <3>3, <3>4, AppendedInOrder
    <3>6. \A n \in P \cup {m} : n \in ToSet(t) <=> Home(p, c, n) = k
      BY <1>0, <1>1, <3>3, <3>5
    <3>7. g[k].ids = UNION {ToSet(c[n]) : n \in ToSet(t)}  BY <3>2, <3>3, <3>5
    <3>8. Home(p, c, m) = k /\ m \in P \cup {m}  BY <1>1
    <3>9. g[k].msgs = t  BY <3>2, <3>4
    <3>. QED  BY <3>5, <3>6, <3>7, <3>8, <3>9 DEF GroupOf
  <2>2. CASE k \notin DOMAIN groups
    <3>1. g[k].msgs = <<m>> /\ g[k].ids = ToSet(c[m])
      BY <1>1, <2>2 DEF Pushed, SetTo, Ids
    <3>2. PICK t : t = <<m>>  OBVIOUS
    <3>3. /\ t \in Seq(P \cup {m}) /\ ToSet(t) = {m}
          /\ \A i, j \in DOMAIN t : i < j => t[i] < t[j]
      BY <3>2, AloneInOrder
    <3>4. \A n \in P : Home(p, c, n) # k  BY <1>1, <2>2 DEF Grouped
    <3>5. \A n \in P \cup {m} : n \in ToSet(t) <=> Home(p, c, n) = k
      BY <1>0, <1>1, <3>3, <3>4
    <3>6. g[k].ids = UNION {ToSet(c[n]) : n \in ToSet(t)}  BY <3>1, <3>3
    <3>7. Home(p, c, m) = k /\ m \in P \cup {m}  BY <1>1
    <3>8. g[k].msgs = t  BY <3>1, <3>2
    <3>. QED  BY <3>3, <3>5, <3>6, <3>7, <3>8 DEF GroupOf
  <2>. QED  BY <2>1, <2>2
<1>5. \A l \in DOMAIN g : GroupOf(g, p, c, P \cup {m}, l)  BY <1>2, <1>3, <1>4
<1>6. ASSUME NEW n \in P \cup {m}
      PROVE  (c[n] # <<>> => c[n][1] \in DOMAIN p) /\ Home(p, c, n) \in DOMAIN g
  <2>1. CASE n \in P  BY <1>1, <1>2, <2>1 DEF Grouped
  <2>2. CASE n = m  BY <1>1, <1>2, <2>2
  <2>. QED  BY <2>1, <2>2
<1>7. Grouped(g, p, c, P \cup {m})  BY <1>5, <1>6 DEF Grouped
<1>. QED  BY <1>1, <1>7

-----------------------------------------------------------------------------
(* The induction                                                           *)

LEMMA EmptyForest == IsForest(<<>>) /\ DOMAIN <<>> = {}
<1>1. DOMAIN <<>> = {}  OBVIOUS
<1>2. <<>> = [y \in DOMAIN <<>> |-> <<>>[y]]  OBVIOUS
<1>3. PICK e : e = <<>>  OBVIOUS
<1>4. DOMAIN e = {} /\ e = [y \in DOMAIN e |-> e[y]]  BY <1>1, <1>2, <1>3
<1>5. Ranked(e, e, e, 0)  BY <1>4 DEF Ranked
<1>. QED  BY <1>1, <1>3, <1>5 DEF IsForest, Forest

LEMMA InitInv == Init => IInv
<1>. SUFFICES ASSUME Init  PROVE IInv
  OBVIOUS
<1>1. IsBatch(connectors)  BY BatchShape DEF Init
<1>2. 1 \in Message  BY <1>1 DEF IsBatch, Message
<1>3. BatchInv  BY <1>2 DEF Init, BatchInv
<1>4. United = {} /\ Placed = {}  BY DEF Init, United, Placed
<1>5. ForestInv  BY EmptyForest DEF Init, ForestInv
<1>6. DOMAIN parent = {} /\ DOMAIN groups = {}  BY EmptyForest DEF Init
<1>7. Joins(parent, connectors, United)  BY <1>4 DEF Joins
<1>8. Apart(parent, connectors, United)  BY <1>6 DEF Apart, Respects
<1>9. Grouped(groups, parent, connectors, Placed)  BY <1>4, <1>6 DEF Grouped
<1>. QED  BY <1>3, <1>5, <1>7, <1>8, <1>9 DEF IInv

(* The messages passed after a step are those before and the one at hand.  *)
LEMMA Advancing ==
  ASSUME NEW next \in {"group", "done"}, BatchInv, Advance(next), connectors' = connectors
  PROVE  /\ connectors[at] \in Seq(Identifier)
         /\ 1..(at - 1) \subseteq Nat /\ at \in Nat /\ \A n \in 1..(at - 1) : n < at
         /\ at' \in Message'
         /\ \/ pass' = pass /\ 1..(at' - 1) = 1..(at - 1) \cup {at}
            \/ pass' = next /\ at' = 1 /\ Message' = 1..(at - 1) \cup {at}
<1>1. IsBatch(connectors)  BY BatchShape DEF BatchInv
<1>2. PICK N \in Nat : /\ N # 0 /\ DOMAIN connectors = 1..N /\ Len(connectors) = N
                       /\ \A m \in 1..N : connectors[m] \in Seq(Identifier)
  BY <1>1 DEF IsBatch
<1>3. at \in 1..N  BY <1>2 DEF BatchInv, Message
<1>4. Message' = 1..N  BY <1>2 DEF Message
<1>5. 1..at = 1..(at - 1) \cup {at}  BY <1>3
<1>6. CASE at < N
  <2>1. at' = at + 1 /\ pass' = pass  BY <1>2, <1>6 DEF Advance
  <2>2. at' \in 1..N /\ at' - 1 = at  BY <1>3, <1>6, <2>1
  <2>. QED  BY <1>2, <1>3, <1>4, <1>5, <2>1, <2>2
<1>7. CASE ~(at < N)
  <2>1. at' = 1 /\ pass' = next  BY <1>2, <1>7 DEF Advance
  <2>2. at = N /\ 1 \in 1..N  BY <1>2, <1>3, <1>7
  <2>. QED  BY <1>2, <1>3, <1>4, <1>5, <2>1, <2>2
<1>. QED  BY <1>6, <1>7

LEMMA UniteInv == IInv /\ Unite => IInv'
<1>. SUFFICES ASSUME IInv, Unite  PROVE IInv'
  OBVIOUS
<1>. USE DEF IInv
<1>1. pass = "union" /\ connectors' = connectors /\ groups' = groups /\ Advance("group")
  BY DEF Unite
<1>2. /\ connectors[at] \in Seq(Identifier) /\ at' \in Message'
      /\ \/ pass' = pass /\ 1..(at' - 1) = 1..(at - 1) \cup {at}
         \/ pass' = "group" /\ at' = 1 /\ Message' = 1..(at - 1) \cup {at}
  BY <1>1, Advancing
<1>3. PICK p, v, c, M, m : /\ p = parent /\ v = parent' /\ c = connectors
                           /\ M = United /\ m = at
  OBVIOUS
<1>4. UnitedIn(v, p, ToSet(c[m]))
  <2>1. CASE connectors[at] = <<>>
    <3>1. v = p /\ ToSet(c[m]) = {}  BY <1>3, <2>1, ToSetEmpty DEF Unite
    <3>2. IsForest(p)  BY <1>3 DEF ForestInv
    <3>. QED  BY <3>1, <3>2, UnitedNone
  <2>2. CASE connectors[at] # <<>>
    <3>1. v = UnionAll(p, c[m])  BY <1>3, <2>2 DEF Unite
    <3>2. IsForest(p) /\ c[m] \in Seq(Identifier) /\ c[m] # <<>>
      BY <1>2, <1>3, <2>2 DEF ForestInv
    <3>. QED  BY <3>1, <3>2, UnionAllUnites
  <2>. QED  BY <2>1, <2>2
<1>5. BatchInv'  BY <1>1, <1>2 DEF BatchInv
<1>6. ForestInv'
  <2>1. ToSet(c[m]) \subseteq Identifier
    <3>1. PICK s : s = c[m]  OBVIOUS
    <3>2. s \in Seq(Identifier)  BY <1>2, <1>3, <3>1
    <3>3. ToSet(s) \subseteq Identifier
      BY <3>2, ToSetEmpty, HeadAndTail
    <3>. QED  BY <3>1, <3>3
  <2>2. DOMAIN p \subseteq Identifier  BY <1>3 DEF ForestInv
  <2>3. IsForest(v) /\ DOMAIN v \subseteq Identifier  BY <1>4, <2>1, <2>2 DEF UnitedIn
  <2>. QED  BY <1>3, <2>3 DEF ForestInv
<1>7. M = 1..(at - 1)  BY <1>1, <1>3 DEF United
<1>8. United' = M \cup {m}
  <2>1. CASE pass' = pass /\ 1..(at' - 1) = 1..(at - 1) \cup {at}
    BY <1>1, <1>3, <1>7, <2>1 DEF United
  <2>2. CASE pass' = "group" /\ Message' = 1..(at - 1) \cup {at}
    BY <1>3, <1>7, <2>2 DEF United
  <2>. QED  BY <1>2, <2>1, <2>2
<1>9. Joins(v, c, M \cup {m}) /\ Apart(v, c, M \cup {m})
  BY <1>3, <1>4, JoinsMore, ApartMore
<1>10. Placed = {} /\ Placed' = {}
  <2>1. Placed = {}  BY <1>1 DEF Placed
  <2>2. pass' = "union" \/ (pass' = "group" /\ at' = 1)  BY <1>1, <1>2
  <2>. QED  BY <2>1, <2>2 DEF Placed
<1>11. Grouped(groups, v, c, {})
  <2>1. Grouped(groups, p, c, {})  BY <1>3, <1>10
  <2>. QED  BY <2>1 DEF Grouped, GroupOf
<1>. QED  BY <1>1, <1>3, <1>5, <1>6, <1>8, <1>9, <1>10, <1>11

(* What the two ways of placing a message share.                           *)
LEMMA PlacedInv ==
  ASSUME IInv, pass = "group", connectors' = connectors, Advance("done"),
         NEW q, q = parent', IsForest(q), DOMAIN q \subseteq Identifier,
         Joins(q, connectors, United), Apart(q, connectors, United),
         Grouped(groups, q, connectors, Placed),
         connectors[at] # <<>> => connectors[at][1] \in DOMAIN q,
         groups' = Pushed(Home(q, connectors, at), at)
  PROVE  IInv'
<1>. USE DEF IInv
<1>1. /\ connectors[at] \in Seq(Identifier) /\ at' \in Message'
      /\ 1..(at - 1) \subseteq Nat /\ at \in Nat /\ \A n \in 1..(at - 1) : n < at
      /\ \/ pass' = pass /\ 1..(at' - 1) = 1..(at - 1) \cup {at}
         \/ pass' = "done" /\ at' = 1 /\ Message' = 1..(at - 1) \cup {at}
  BY Advancing
<1>2. BatchInv'  BY <1>1 DEF BatchInv
<1>3. ForestInv'  BY DEF ForestInv
<1>4. United = Message /\ United' = Message  BY <1>1 DEF United, Message
<1>5. Joins(parent, connectors, United)' /\ Apart(parent, connectors, United)'
  <2>1. PICK c, M : c = connectors /\ M = United  OBVIOUS
  <2>2. Joins(q, c, M) /\ Apart(q, c, M)  BY <2>1
  <2>. QED  BY <1>4, <2>1, <2>2
<1>6. Placed = 1..(at - 1) /\ Placed' = 1..(at - 1) \cup {at}
  <2>1. CASE pass' = pass /\ 1..(at' - 1) = 1..(at - 1) \cup {at}
    BY <2>1 DEF Placed
  <2>2. CASE pass' = "done" /\ Message' = 1..(at - 1) \cup {at}
    BY <2>2 DEF Placed
  <2>. QED  BY <1>1, <2>1, <2>2
<1>7. PICK c, P, m, k, g : /\ c = connectors /\ P = Placed /\ m = at
                           /\ k = Home(q, c, m) /\ g = groups'
  OBVIOUS
<1>8. Grouped(groups, q, connectors, P)  BY <1>7
<1>9. P \subseteq Nat /\ m \in Nat /\ \A n \in P : n < m  BY <1>1, <1>6, <1>7
<1>10. connectors[m] # <<>> => connectors[m][1] \in DOMAIN q  BY <1>7
<1>11. k = Home(q, connectors, m) /\ g = Pushed(k, m)  BY <1>7
<1>12. Grouped(g, q, connectors, P \cup {m})
  BY <1>8, <1>9, <1>10, <1>11, PushedGroups
<1>13. Grouped(groups, parent, connectors, Placed)'  BY <1>6, <1>7, <1>12
<1>. QED  BY <1>2, <1>3, <1>5, <1>13

LEMMA PlaceAloneInv == IInv /\ PlaceAlone => IInv'
<1>. SUFFICES ASSUME IInv, PlaceAlone  PROVE IInv'
  OBVIOUS
<1>1. PICK q : q = parent  OBVIOUS
<1>2. /\ pass = "group" /\ connectors' = connectors /\ Advance("done") /\ q = parent'
      /\ connectors[at] = <<>> /\ groups' = Pushed(<<"uuid", at>>, at)
  BY <1>1 DEF PlaceAlone
<1>3. /\ IsForest(q) /\ DOMAIN q \subseteq Identifier
      /\ Joins(q, connectors, United) /\ Apart(q, connectors, United)
      /\ Grouped(groups, q, connectors, Placed)
  BY <1>1 DEF IInv, ForestInv
<1>4. groups' = Pushed(Home(q, connectors, at), at)  BY <1>2 DEF Home
<1>. QED  BY <1>2, <1>3, <1>4, PlacedInv

LEMMA PlaceInv == IInv /\ Place => IInv'
<1>. SUFFICES ASSUME IInv, Place  PROVE IInv'
  OBVIOUS
<1>1. PICK p, q, x, c, M, P, g :
        /\ p = parent /\ q = parent' /\ x = connectors[at][1] /\ c = connectors
        /\ M = United /\ P = Placed /\ g = groups
  OBVIOUS
<1>2. /\ pass = "group" /\ connectors' = connectors /\ Advance("done")
      /\ connectors[at] # <<>> /\ q = Find(p, x)
      /\ groups' = Pushed(<<"id", Root(q, x)>>, at)
  BY <1>1 DEF Place
<1>3. x \in Identifier
  <2>1. connectors[at] \in Seq(Identifier)
    <3>1. BatchInv  BY DEF IInv
    <3>2. IsBatch(connectors)  BY <3>1, BatchShape DEF BatchInv
    <3>. QED  BY <3>1, <3>2 DEF BatchInv, IsBatch, Message
  <2>2. PICK s : s = connectors[at]  OBVIOUS
  <2>3. s \in Seq(Identifier) /\ s # <<>> /\ x = s[1]  BY <1>1, <1>2, <2>1, <2>2
  <2>. QED  BY <2>3, FirstIsOne
<1>4. /\ IsForest(p) /\ DOMAIN p \subseteq Identifier
      /\ Joins(p, c, M) /\ Apart(p, c, M) /\ Grouped(g, p, c, P)
  BY <1>1 DEF IInv, ForestInv
<1>5. IsForest(q) /\ DOMAIN q = DOMAIN p \cup {x}
  <2>1. FoundRoots(q, p, x)  BY <1>2, <1>4, FindRoots
  <2>. QED  BY <2>1 DEF FoundRoots
<1>6. Joins(q, c, M) /\ Apart(q, c, M) /\ Grouped(g, q, c, P)
  BY <1>2, <1>4, FoundJoins, FoundApart, FoundGrouped
<1>7. /\ Joins(q, connectors, United) /\ Apart(q, connectors, United)
      /\ Grouped(groups, q, connectors, Placed)
  BY <1>1, <1>6
<1>8. connectors[at] # <<>> => connectors[at][1] \in DOMAIN q  BY <1>1, <1>5
<1>9. groups' = Pushed(Home(q, connectors, at), at)  BY <1>1, <1>2 DEF Home
<1>10. q = parent' /\ DOMAIN q \subseteq Identifier  BY <1>1, <1>3, <1>4, <1>5
<1>. QED  BY <1>2, <1>5, <1>7, <1>8, <1>9, <1>10, PlacedInv

LEMMA StutterInv == IInv /\ UNCHANGED vars => IInv'
BY DEF vars, IInv, BatchInv, ForestInv, United, Placed, Message

LEMMA Inductive == Spec => []IInv
<1>1. IInv /\ [Next]_vars => IInv'
  BY UniteInv, PlaceAloneInv, PlaceInv, StutterInv DEF Next
<1>. QED  BY InitInv, <1>1, PTL DEF Spec

-----------------------------------------------------------------------------
(* What follows from the invariant                                         *)

LEMMA SameRootIsLinked ==
  ASSUME IInv, NEW x \in DOMAIN parent, NEW y \in DOMAIN parent
  PROVE  Root(parent, x) = Root(parent, y) <=> Linked(x, y, United)
<1>1. PICK p, c, M : p = parent /\ c = connectors /\ M = United  OBVIOUS
<1>2. Joins(p, c, M) /\ Apart(p, c, M) /\ DOMAIN p \subseteq Identifier
  BY <1>1 DEF IInv, ForestInv
<1>3. \A C : Unstraddled(C, c, M)
               <=> \A m \in United : Ids(m) \subseteq C \/ Ids(m) \cap C = {}
  BY <1>1 DEF Unstraddled, Ids
<1>4. ASSUME Root(p, x) = Root(p, y), NEW C \in SUBSET Identifier, x \in C,
             Unstraddled(C, c, M)
      PROVE  y \in C
  <2>1. Respects(p, C)  BY <1>2, <1>4 DEF Apart
  <2>. QED  BY <1>1, <1>4, <2>1 DEF Respects
<1>5. ASSUME Linked(x, y, United)  PROVE Root(p, x) = Root(p, y)
  <2>1. PICK C : C = {z \in DOMAIN p : Root(p, z) = Root(p, x)}  OBVIOUS
  <2>2. C \in SUBSET Identifier /\ x \in C  BY <1>1, <1>2, <2>1
  <2>3. ASSUME NEW m \in M, NEW z \in ToSet(c[m]), z \in C, NEW t \in ToSet(c[m])
        PROVE  t \in C
    <3>1. z = t \/ ({z, t} \subseteq DOMAIN p /\ Root(p, z) = Root(p, t))
      BY <1>2 DEF Joins
    <3>. QED  BY <2>1, <2>3, <3>1
  <2>4. Unstraddled(C, c, M)  BY <2>3 DEF Unstraddled
  <2>5. y \in C  BY <1>3, <1>5, <2>2, <2>4 DEF Linked
  <2>. QED  BY <2>1, <2>5
<1>6. Root(p, x) = Root(p, y) => Linked(x, y, United)
  BY <1>3, <1>4 DEF Linked
<1>. QED  BY <1>1, <1>5, <1>6

(* The identifiers of a placed message have the root its group is under.   *)
LEMMA IdAtHome ==
  ASSUME IInv, NEW m \in Placed, NEW x \in Ids(m)
  PROVE  /\ connectors[m] # <<>> /\ connectors[m][1] \in Ids(m)
         /\ connectors[m][1] \in DOMAIN parent
         /\ x \in DOMAIN parent
         /\ Home(parent, connectors, m) = <<"id", Root(parent, x)>>
<1>1. IsBatch(connectors)  BY BatchShape DEF IInv, BatchInv
<1>2. PICK N \in Nat : /\ N # 0 /\ DOMAIN connectors = 1..N
                       /\ \A n \in 1..N : connectors[n] \in Seq(Identifier)
  BY <1>1 DEF IsBatch
<1>3. m \in Message /\ m \in United
  <2>1. at \in 1..N /\ pass \in {"union", "group", "done"}
    BY <1>2 DEF IInv, BatchInv, Message
  <2>2. pass # "union"  BY DEF Placed
  <2>3. CASE pass = "group"
    <3>1. m \in 1..(at - 1)  BY <2>3 DEF Placed
    <3>2. m \in 1..N  BY <2>1, <3>1
    <3>. QED  BY <1>2, <2>2, <3>2 DEF Message, United
  <2>4. CASE pass = "done"  BY <2>4 DEF Placed, United
  <2>. QED  BY <2>1, <2>2, <2>3, <2>4
<1>4. PICK s : s = connectors[m]  OBVIOUS
<1>5. s \in Seq(Identifier) /\ x \in ToSet(s)  BY <1>2, <1>3, <1>4 DEF Message, Ids
<1>6. s # <<>>  BY <1>5, ToSetEmpty
<1>7. s[1] \in ToSet(s)  BY <1>5, <1>6, FirstIsOne
<1>8. s[1] \in DOMAIN parent  BY <1>4, <1>6 DEF IInv, Grouped
<1>9. s[1] = x \/ ({s[1], x} \subseteq DOMAIN parent /\ Root(parent, s[1]) = Root(parent, x))
  BY <1>3, <1>4, <1>5, <1>7 DEF IInv, Joins
<1>. QED  BY <1>4, <1>5, <1>6, <1>7, <1>8, <1>9 DEF Home, Ids

LEMMA TogetherAtHome ==
  ASSUME IInv, NEW m \in Placed, NEW n \in Placed
  PROVE  Together(m, n) <=> Home(parent, connectors, m) = Home(parent, connectors, n)
<1>1. \A k \in DOMAIN groups : \A i \in Placed :
        i \in ToSet(groups[k].msgs) <=> Home(parent, connectors, i) = k
  BY DEF IInv, Grouped, GroupOf
<1>2. Home(parent, connectors, m) \in DOMAIN groups  BY DEF IInv, Grouped
<1>. QED  BY <1>1, <1>2 DEF Together

-----------------------------------------------------------------------------
(* The theorems                                                            *)

(* The DSU's map and the groups' keys hold identifiers of the batch and    *)
(* nothing else; every parent is itself in the map, so that find never     *)
(* meets an undefined one (dsu.ts find).                                   *)
THEOREM TypeCorrect == Spec => []TypeOK
<1>1. IInv => TypeOK
  <2>. SUFFICES ASSUME IInv  PROVE TypeOK
    OBVIOUS
  <2>1. \A x \in DOMAIN parent : parent[x] \in DOMAIN parent /\ Root(parent, x) \in DOMAIN parent
    BY RootInForest DEF IInv, ForestInv
  <2>2. Range(parent) \subseteq DOMAIN parent  BY <2>1 DEF Range
  <2>3. Placed \subseteq Message
    <3>1. IsBatch(connectors)  BY BatchShape DEF IInv, BatchInv
    <3>2. PICK N \in Nat : DOMAIN connectors = 1..N  BY <3>1 DEF IsBatch
    <3>3. at \in 1..N  BY <3>2 DEF IInv, BatchInv, Message
    <3>4. 1..(at - 1) \subseteq 1..N  BY <3>3
    <3>. QED  BY <3>2, <3>4 DEF Placed, Message
  <2>4. ASSUME NEW k \in DOMAIN groups
        PROVE  /\ k \in Key /\ ToSet(groups[k].msgs) \subseteq Message
               /\ groups[k].ids \subseteq Identifier
    <3>1. GroupOf(groups, parent, connectors, Placed, k)  BY DEF IInv, Grouped
    <3>2. ToSet(groups[k].msgs) \subseteq Placed
      BY <3>1, HeadAndTail, ToSetEmpty DEF GroupOf
    <3>3. k \in Key
      <4>1. PICK m \in Placed : Home(parent, connectors, m) = k  BY <3>1 DEF GroupOf
      <4>2. CASE connectors[m] = <<>>  BY <2>3, <4>1, <4>2 DEF Home, Key
      <4>3. CASE connectors[m] # <<>>
        <5>1. connectors[m][1] \in DOMAIN parent  BY <4>3 DEF IInv, Grouped
        <5>2. Root(parent, connectors[m][1]) \in Identifier
          BY <2>1, <5>1 DEF IInv, ForestInv
        <5>. QED  BY <4>1, <4>3, <5>2 DEF Home, Key
      <4>. QED  BY <4>2, <4>3
    <3>4. \A m \in Placed : Ids(m) \subseteq Identifier
      BY IdAtHome DEF IInv, ForestInv
    <3>5. groups[k].ids \subseteq Identifier  BY <3>1, <3>2, <3>4 DEF GroupOf, Ids
    <3>. QED  BY <2>3, <3>2, <3>3, <3>5
  <2>5. DOMAIN groups \subseteq Key  BY <2>4
  <2>. QED  BY <2>2, <2>4, <2>5 DEF TypeOK, IInv, BatchInv, ForestInv
<1>. QED  BY <1>1, Inductive, PTL

(* After every union and every path compression (dsu.ts find and union)    *)
(* two identifiers have one root exactly when the messages united so far   *)
(* link them: nothing is left apart and nothing is joined in error.        *)
THEOREM RootsAreTheComponents == Spec => []RootsAreComponents
<1>1. IInv => RootsAreComponents  BY SameRootIsLinked DEF RootsAreComponents
<1>. QED  BY <1>1, Inductive, PTL

(* When buildGroups returns, two messages are in one group exactly when    *)
(* they are linked: grouping by the first identifier alone is enough.      *)
THEOREM GroupsAreTheComponents == Spec => []GroupsAreComponents
<1>1. IInv => GroupsAreComponents
  <2>. SUFFICES ASSUME IInv, pass = "done", NEW m \in Message, NEW n \in Message
                PROVE  Together(m, n)
                         <=> m = n \/ \E x \in Ids(m), y \in Ids(n) : Linked(x, y, Message)
    BY DEF GroupsAreComponents
  <2>1. Placed = Message /\ United = Message  BY DEF Placed, United
  <2>2. Together(m, n) <=> Home(parent, connectors, m) = Home(parent, connectors, n)
    BY <2>1, TogetherAtHome
  <2>3. ASSUME Home(parent, connectors, m) = Home(parent, connectors, n), m # n
        PROVE  \E x \in Ids(m), y \in Ids(n) : Linked(x, y, Message)
    <3>1. connectors[m] # <<>> /\ connectors[n] # <<>>
      BY <2>3 DEF Home
    <3>2. PICK x, y : x = connectors[m][1] /\ y = connectors[n][1]  OBVIOUS
    <3>3. x \in DOMAIN parent /\ y \in DOMAIN parent
      BY <2>1, <3>1, <3>2 DEF IInv, Grouped
    <3>4. Root(parent, x) = Root(parent, y)  BY <2>3, <3>1, <3>2 DEF Home
    <3>5. Linked(x, y, Message)  BY <2>1, <3>3, <3>4, SameRootIsLinked
    <3>6. x \in Ids(m) /\ y \in Ids(n)
      <4>1. IsBatch(connectors)  BY BatchShape DEF IInv, BatchInv
      <4>2. connectors[m] \in Seq(Identifier) /\ connectors[n] \in Seq(Identifier)
        BY <4>1 DEF IsBatch, Message
      <4>3. PICK s, t : s = connectors[m] /\ t = connectors[n]  OBVIOUS
      <4>4. s[1] \in ToSet(s) /\ t[1] \in ToSet(t)
        BY <3>1, <4>2, <4>3, FirstIsOne
      <4>. QED  BY <3>2, <4>3, <4>4 DEF Ids
    <3>. QED  BY <3>5, <3>6
  <2>4. ASSUME NEW x \in Ids(m), NEW y \in Ids(n), Linked(x, y, Message)
        PROVE  Home(parent, connectors, m) = Home(parent, connectors, n)
    <3>1. /\ x \in DOMAIN parent /\ y \in DOMAIN parent
          /\ Home(parent, connectors, m) = <<"id", Root(parent, x)>>
          /\ Home(parent, connectors, n) = <<"id", Root(parent, y)>>
      BY <2>1, IdAtHome
    <3>2. Root(parent, x) = Root(parent, y)  BY <2>1, <2>4, <3>1, SameRootIsLinked
    <3>. QED  BY <3>1, <3>2
  <2>. QED  BY <2>2, <2>3, <2>4
<1>. QED  BY <1>1, Inductive, PTL

(* No identifier is in two groups (multiplexer-utils.ts, buildGroups), so  *)
(* the groups that the multiplexer handles at once mark different items.   *)
THEOREM NothingShared == Spec => []GroupsShareNoIdentifier
<1>1. IInv => GroupsShareNoIdentifier
  <2>. SUFFICES ASSUME IInv, NEW k \in DOMAIN groups, NEW l \in DOMAIN groups,
                       NEW x \in groups[k].ids, x \in groups[l].ids
                PROVE  k = l
    BY DEF GroupsShareNoIdentifier
  <2>1. ASSUME NEW j \in DOMAIN groups, x \in groups[j].ids
        PROVE  j = <<"id", Root(parent, x)>>
    <3>1. GroupOf(groups, parent, connectors, Placed, j)  BY DEF IInv, Grouped
    <3>2. PICK m \in ToSet(groups[j].msgs) : x \in Ids(m)
      BY <2>1, <3>1 DEF GroupOf, Ids
    <3>3. m \in Placed
      BY <3>1, <3>2, HeadAndTail, ToSetEmpty DEF GroupOf
    <3>4. Home(parent, connectors, m) = j  BY <3>1, <3>2, <3>3 DEF GroupOf
    <3>. QED  BY <3>2, <3>3, <3>4, IdAtHome
  <2>. QED  BY <2>1
<1>. QED  BY <1>1, Inductive, PTL

(* A group lists its messages in the order of the batch: the second pass   *)
(* of buildGroups goes through it forwards and appends.                    *)
THEOREM OrderKept == Spec => []BatchOrderKept
<1>1. IInv => BatchOrderKept  BY DEF IInv, Grouped, GroupOf, BatchOrderKept
<1>. QED  BY <1>1, Inductive, PTL
=============================================================================
