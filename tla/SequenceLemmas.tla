--------------------------- MODULE SequenceLemmas ---------------------------
(***************************************************************************)
(* Facts about sequences that the proofs of several components need: what  *)
(* is in a concatenation, a prefix, a rest, and what a filter keeps.       *)
(***************************************************************************)
EXTENDS Filtering, SequencesExt, SequenceTheorems, WellFoundedInduction, TLAPS

NatLess == {ss \in Nat \X Nat : ss[1] < ss[2]}

LEMMA NatLessWellFounded == IsWellFoundedOn(NatLess, Nat)
BY NatLessThanWellFounded DEF OpToRel, NatLess

(* Induction over the natural numbers, for a set of them: were there others *)
(* there would be a least one.                                             *)
LEMMA Induction ==
  ASSUME NEW Good, 0 \in Good, \A n \in Nat : n \in Good => n + 1 \in Good
  PROVE  Nat \subseteq Good
<1>. SUFFICES ASSUME Nat \ Good # {} PROVE FALSE  OBVIOUS
<1>. DEFINE Bad == Nat \ Good
<1>1. PICK x \in Bad : \A y \in Bad : ~(<<y, x>> \in NatLess)
  BY NatLessWellFounded, WFMin
<1>2. x \in Nat /\ x # 0  OBVIOUS
<1>3. x - 1 \in Nat  BY <1>2
<1>4. <<x - 1, x>> \in NatLess  BY <1>2, <1>3 DEF NatLess
<1>5. x - 1 \in Good  BY <1>1, <1>3, <1>4
<1>6. (x - 1) + 1 \in Good  BY <1>3, <1>5
<1>. QED  BY <1>2, <1>6


(* What is in a sequence.                                                 *)
LEMMA ToSetEmpty == \A S : <<>> \in Seq(S) /\ ToSet(<<>>) = {}
<1>. TAKE S
<1>1. <<>> \in Seq(S) /\ Len(<<>>) = 0  BY EmptySeq
<1>2. DOMAIN <<>> = 1..0  BY <1>1, LenProperties
<1>3. DOMAIN <<>> = {}  BY <1>2
<1>. QED  BY <1>1, <1>3 DEF ToSet

LEMMA ToSetAppend ==
  ASSUME NEW S, NEW s \in Seq(S), NEW e \in S
  PROVE  Append(s, e) \in Seq(S) /\ ToSet(Append(s, e)) = ToSet(s) \cup {e}
<1>. DEFINE t == Append(s, e)
<1>1. /\ t \in Seq(S) /\ Len(t) = Len(s) + 1
      /\ \A i \in 1..Len(s) : t[i] = s[i]
      /\ t[Len(s) + 1] = e
  BY AppendProperties
<1>2. Len(s) \in Nat /\ DOMAIN s = 1..Len(s) /\ DOMAIN t = 1..Len(t)
  BY <1>1, LenProperties
<1>. HIDE DEF t
<1>3. 1..Len(t) = 1..Len(s) \cup {Len(s) + 1}  BY <1>1, <1>2
<1>4. ToSet(t) = ToSet(s) \cup {e}  BY <1>1, <1>2, <1>3 DEF ToSet
<1>. QED  BY <1>1, <1>4 DEF t

LEMMA ToSetConcat ==
  ASSUME NEW S, NEW s \in Seq(S), NEW t \in Seq(S)
  PROVE  s \o t \in Seq(S) /\ ToSet(s \o t) = ToSet(s) \cup ToSet(t)
<1>. DEFINE u == s \o t
<1>1. /\ u \in Seq(S) /\ Len(u) = Len(s) + Len(t)
      /\ \A i \in 1..(Len(s) + Len(t)) :
           u[i] = IF i <= Len(s) THEN s[i] ELSE t[i - Len(s)]
  BY ConcatProperties
<1>2. /\ Len(s) \in Nat /\ DOMAIN s = 1..Len(s)
      /\ Len(t) \in Nat /\ DOMAIN t = 1..Len(t) /\ DOMAIN u = 1..Len(u)
  BY <1>1, LenProperties
<1>. HIDE DEF u
<1>3. ToSet(u) \subseteq ToSet(s) \cup ToSet(t)
  <2>. SUFFICES ASSUME NEW i \in 1..(Len(s) + Len(t)) PROVE u[i] \in ToSet(s) \cup ToSet(t)
    BY <1>1, <1>2 DEF ToSet
  <2>1. CASE i <= Len(s)  BY <1>1, <1>2, <2>1 DEF ToSet
  <2>2. CASE ~(i <= Len(s))
    <3>1. i - Len(s) \in 1..Len(t)  BY <1>2, <2>2
    <3>. QED  BY <1>1, <1>2, <2>2, <3>1 DEF ToSet
  <2>. QED  BY <2>1, <2>2
<1>4. ASSUME NEW i \in 1..Len(s)  PROVE s[i] \in ToSet(u)
  <2>1. i \in 1..Len(u) /\ u[i] = s[i]  BY <1>1, <1>2
  <2>. QED  BY <1>2, <2>1 DEF ToSet
<1>5. ASSUME NEW i \in 1..Len(t)  PROVE t[i] \in ToSet(u)
  <2>0. i + Len(s) \in 1..(Len(s) + Len(t)) /\ ~(i + Len(s) <= Len(s)) /\ i + Len(s) - Len(s) = i
    BY <1>2
  <2>1. i + Len(s) \in 1..Len(u) /\ u[i + Len(s)] = t[i]
    BY <1>1, <1>2, <2>0
  <2>. QED  BY <1>2, <2>1 DEF ToSet
<1>6. ToSet(s) \cup ToSet(t) \subseteq ToSet(u)
  BY <1>2, <1>4, <1>5 DEF ToSet
<1>. QED  BY <1>1, <1>3, <1>6 DEF u

(* The function Keep is defined by, on the first n elements.               *)
Kept(f, s, R, k) ==
  IF k = 0 THEN <<>>
  ELSE IF s[k] \in R THEN Append(f[k - 1], s[k]) ELSE f[k - 1]

IsKept(f, s, R, n) == f = [k \in 0..n |-> Kept(f, s, R, k)]

(* There is such a function: each one goes on to a longer one.             *)
LEMMA KeptExists ==
  ASSUME NEW s, NEW R, NEW n \in Nat
  PROVE  \E f : IsKept(f, s, R, n)
<1>. DEFINE Good == {k \in Nat : \E f : IsKept(f, s, R, k)}
<1>1. 0 \in Good
  <2>. DEFINE f == [k \in 0..0 |-> <<>>]
  <2>1. \A k \in 0..0 : Kept(f, s, R, k) = <<>>  BY DEF Kept
  <2>. HIDE DEF f
  <2>2. [k \in 0..0 |-> Kept(f, s, R, k)] = [k \in 0..0 |-> <<>>]  BY <2>1
  <2>3. IsKept(f, s, R, 0)  BY <2>2 DEF IsKept, f
  <2>. QED  BY <2>3
<1>2. ASSUME NEW k \in Nat, k \in Good  PROVE k + 1 \in Good
  <2>1. PICK f : IsKept(f, s, R, k)  BY <1>2
  <2>. DEFINE g == [j \in 0..(k + 1) |-> IF j = k + 1 THEN Kept(f, s, R, j) ELSE f[j]]
  <2>2. ASSUME NEW j \in 0..k  PROVE g[j] = f[j] /\ f[j] = Kept(f, s, R, j)
    BY <2>1, <2>2 DEF IsKept
  <2>3. g[k + 1] = Kept(f, s, R, k + 1)  OBVIOUS
  <2>4. DOMAIN g = 0..(k + 1) /\ g = [j \in 0..(k + 1) |-> g[j]]  OBVIOUS
  <2>. HIDE DEF g
  <2>5. ASSUME NEW j \in 0..(k + 1)  PROVE Kept(g, s, R, j) = Kept(f, s, R, j)
    <3>1. CASE j = 0  BY <3>1 DEF Kept
    <3>2. CASE j # 0
      <4>1. g[j - 1] = f[j - 1]  BY <2>2, <3>2
      <4>. QED  BY <3>2, <4>1, Zenon DEF Kept
    <3>. QED  BY <3>1, <3>2
  <2>6. ASSUME NEW j \in 0..(k + 1)  PROVE g[j] = Kept(g, s, R, j)
    <3>1. CASE j = k + 1  BY <2>3, <2>5, <3>1
    <3>2. CASE j # k + 1
      <4>1. j \in 0..k  BY <3>2
      <4>. QED  BY <2>2, <2>5, <4>1
    <3>. QED  BY <3>1, <3>2
  <2>7. IsKept(g, s, R, k + 1)  BY <2>4, <2>6 DEF IsKept
  <2>. QED  BY <2>7
<1>. HIDE DEF Good
<1>3. Nat \subseteq Good  BY <1>1, <1>2, Induction
<1>. QED  BY <1>3 DEF Good

(* What is kept is what is in the set.                                     *)
LEMMA KeepProperties ==
  ASSUME NEW S, NEW s \in Seq(S), NEW R
  PROVE  /\ Keep(s, R) \in Seq(S)
         /\ ToSet(Keep(s, R)) = ToSet(s) \cap R
<1>. DEFINE f == CHOOSE g : IsKept(g, s, R, Len(s))
            First(k) == {s[i] : i \in 1..k}
<1>1. Len(s) \in Nat /\ DOMAIN s = 1..Len(s) /\ \A k \in 1..Len(s) : s[k] \in S
  BY LenProperties
<1>2. IsKept(f, s, R, Len(s))
  BY <1>1, KeptExists
<1>3. Keep(s, R) = f[Len(s)]
  BY DEF Keep, IsKept, Kept
<1>. HIDE DEF f
<1>4. \A k \in 0..Len(s) : f[k] = Kept(f, s, R, k)
  BY <1>1, <1>2 DEF IsKept
<1>. DEFINE Good == {k \in Nat : k <= Len(s) => /\ f[k] \in Seq(S)
                                                /\ ToSet(f[k]) = First(k) \cap R}
<1>5. 0 \in Good
  <2>1. f[0] = <<>>  BY <1>1, <1>4 DEF Kept
  <2>2. First(0) = {}
    <3>1. 1..0 = {}  OBVIOUS
    <3>2. {s[i] : i \in {}} = {}  OBVIOUS
    <3>. QED  BY <3>1, <3>2, Zenon
  <2>3. <<>> \in Seq(S) /\ ToSet(<<>>) = {}  BY ToSetEmpty
  <2>. QED  BY <2>1, <2>2, <2>3
<1>6. ASSUME NEW k \in Nat, k \in Good  PROVE k + 1 \in Good
  <2>. SUFFICES ASSUME k + 1 <= Len(s)
                PROVE  /\ f[k + 1] \in Seq(S)
                       /\ ToSet(f[k + 1]) = First(k + 1) \cap R
    OBVIOUS
  <2>0. k + 1 \in 1..Len(s) /\ k + 1 \in 0..Len(s) /\ k + 1 - 1 = k /\ k <= Len(s) /\ k + 1 # 0
    BY <1>1
  <2>1. f[k] \in Seq(S) /\ ToSet(f[k]) = First(k) \cap R
    BY <1>6, <2>0
  <2>2. s[k + 1] \in S  BY <1>1, <2>0
  <2>3. First(k + 1) = First(k) \cup {s[k + 1]}
    <3>1. 1..(k + 1) = 1..k \cup {k + 1}  OBVIOUS
    <3>. QED  BY <3>1
  <2>4. f[k + 1] = IF s[k + 1] \in R THEN Append(f[k], s[k + 1]) ELSE f[k]
    <3>1. f[k + 1] = Kept(f, s, R, k + 1)  BY <1>4, <2>0
    <3>. QED  BY <2>0, <3>1 DEF Kept
  <2>. HIDE DEF First
  <2>5. CASE s[k + 1] \in R
    <3>1. f[k + 1] = Append(f[k], s[k + 1])  BY <2>4, <2>5
    <3>2. f[k + 1] \in Seq(S) /\ ToSet(f[k + 1]) = ToSet(f[k]) \cup {s[k + 1]}
      BY <2>1, <2>2, <3>1, ToSetAppend
    <3>. QED  BY <2>1, <2>3, <2>5, <3>2
  <2>6. CASE s[k + 1] \notin R
    BY <2>1, <2>3, <2>4, <2>6
  <2>. QED  BY <2>5, <2>6
<1>. HIDE DEF Good
<1>7. Nat \subseteq Good  BY <1>5, <1>6, Induction
<1>8. f[Len(s)] \in Seq(S) /\ ToSet(f[Len(s)]) = First(Len(s)) \cap R
  <2>1. Len(s) \in Good  BY <1>1, <1>7
  <2>. QED  BY <1>1, <2>1 DEF Good
<1>. QED  BY <1>1, <1>3, <1>8 DEF ToSet

(* What a set keeps and what another keeps of the rest is all.             *)
LEMMA KeepLengths ==
  ASSUME NEW S, NEW s \in Seq(S), NEW R, NEW Q, R \cap Q = {}, ToSet(s) \subseteq R \cup Q
  PROVE  Len(Keep(s, R)) + Len(Keep(s, Q)) = Len(s)
<1>. DEFINE f == CHOOSE g : IsKept(g, s, R, Len(s))
            h == CHOOSE g : IsKept(g, s, Q, Len(s))
<1>1. Len(s) \in Nat /\ DOMAIN s = 1..Len(s) /\ \A k \in 1..Len(s) : s[k] \in S
  BY LenProperties
<1>2. IsKept(f, s, R, Len(s)) /\ IsKept(h, s, Q, Len(s))
  BY <1>1, KeptExists
<1>3. Keep(s, R) = f[Len(s)] /\ Keep(s, Q) = h[Len(s)]
  BY DEF Keep, IsKept, Kept
<1>. HIDE DEF f, h
<1>4. \A k \in 0..Len(s) : f[k] = Kept(f, s, R, k) /\ h[k] = Kept(h, s, Q, k)
  BY <1>1, <1>2 DEF IsKept
<1>. DEFINE Split(k) == f[k] \in Seq(S) /\ h[k] \in Seq(S) /\ Len(f[k]) + Len(h[k]) = k
            Good == {k \in Nat : k <= Len(s) => Split(k)}
<1>5. 0 \in Good
  <2>1. f[0] = <<>> /\ h[0] = <<>>  BY <1>1, <1>4 DEF Kept
  <2>2. <<>> \in Seq(S) /\ Len(<<>>) + Len(<<>>) = 0  BY EmptySeq
  <2>3. Split(0)  BY <2>1, <2>2
  <2>. HIDE DEF Split
  <2>. QED  BY <2>3
<1>6. ASSUME NEW k \in Nat, k \in Good  PROVE k + 1 \in Good
  <2>. HIDE DEF Split
  <2>. SUFFICES ASSUME k + 1 <= Len(s) PROVE Split(k + 1)
    OBVIOUS
  <2>0. k + 1 \in 1..Len(s) /\ k + 1 \in 0..Len(s) /\ k + 1 - 1 = k /\ k <= Len(s) /\ k + 1 # 0
    BY <1>1
  <2>1. f[k] \in Seq(S) /\ h[k] \in Seq(S) /\ Len(f[k]) + Len(h[k]) = k
    <3>1. Split(k)  BY <1>6, <2>0
    <3>. QED  BY <3>1 DEF Split
  <2>2. s[k + 1] \in S /\ s[k + 1] \in ToSet(s)  BY <1>1, <2>0 DEF ToSet
  <2>3. /\ f[k + 1] = IF s[k + 1] \in R THEN Append(f[k], s[k + 1]) ELSE f[k]
        /\ h[k + 1] = IF s[k + 1] \in Q THEN Append(h[k], s[k + 1]) ELSE h[k]
    <3>1. f[k + 1] = Kept(f, s, R, k + 1) /\ h[k + 1] = Kept(h, s, Q, k + 1)  BY <1>4, <2>0
    <3>. QED  BY <2>0, <3>1 DEF Kept
  <2>4. ASSUME NEW t \in Seq(S)
        PROVE  /\ Len(t) \in Nat
               /\ Append(t, s[k + 1]) \in Seq(S)
               /\ Len(Append(t, s[k + 1])) = Len(t) + 1
    BY <2>2, AppendProperties, LenProperties
  <2>5. CASE s[k + 1] \in R
    <3>1. f[k + 1] = Append(f[k], s[k + 1]) /\ h[k + 1] = h[k]  BY <2>3, <2>5
    <3>2. /\ Len(f[k]) \in Nat /\ Len(h[k]) \in Nat
          /\ f[k + 1] \in Seq(S) /\ Len(f[k + 1]) = Len(f[k]) + 1
      BY <2>1, <2>4, <3>1, Zenon
    <3>3. PICK a \in Nat, b \in Nat : a = Len(f[k]) /\ b = Len(h[k])
      BY <3>2, Zenon
    <3>4. a + b = k /\ Len(f[k + 1]) = a + 1 /\ Len(h[k + 1]) = b
      BY <2>1, <3>1, <3>2, <3>3, Zenon
    <3>5. Len(f[k + 1]) + Len(h[k + 1]) = k + 1
      BY <3>4
    <3>. QED  BY <2>1, <3>1, <3>2, <3>5 DEF Split
  <2>6. CASE s[k + 1] \in Q
    <3>1. h[k + 1] = Append(h[k], s[k + 1]) /\ f[k + 1] = f[k]  BY <2>3, <2>6
    <3>2. /\ Len(h[k]) \in Nat /\ Len(f[k]) \in Nat
          /\ h[k + 1] \in Seq(S) /\ Len(h[k + 1]) = Len(h[k]) + 1
      BY <2>1, <2>4, <3>1, Zenon
    <3>3. PICK a \in Nat, b \in Nat : a = Len(f[k]) /\ b = Len(h[k])
      BY <3>2, Zenon
    <3>4. a + b = k /\ Len(f[k + 1]) = a /\ Len(h[k + 1]) = b + 1
      BY <2>1, <3>1, <3>2, <3>3, Zenon
    <3>5. Len(f[k + 1]) + Len(h[k + 1]) = k + 1
      BY <3>4
    <3>. QED  BY <2>1, <3>1, <3>2, <3>5 DEF Split
  <2>. QED  BY <2>2, <2>5, <2>6
<1>. HIDE DEF Good
<1>7. Nat \subseteq Good  BY <1>5, <1>6, Induction
<1>8. Split(Len(s))
  <2>1. Len(s) \in Good /\ Len(s) <= Len(s)  BY <1>1, <1>7
  <2>. HIDE DEF Split
  <2>. QED  BY <2>1 DEF Good
<1>. QED  BY <1>3, <1>8

(* The first element, and the others.                                      *)
LEMMA HeadAndTail ==
  ASSUME NEW S, NEW s \in Seq(S), s # <<>>
  PROVE  /\ Head(s) \in ToSet(s) /\ Tail(s) \in Seq(S)
         /\ ToSet(Tail(s)) \subseteq ToSet(s)
         /\ ToSet(s) \subseteq S
<1>1. /\ Len(s) \in Nat /\ DOMAIN s = 1..Len(s) /\ \A k \in 1..Len(s) : s[k] \in S
      /\ Len(s) # 0
  BY LenProperties, EmptySeq
<1>2. /\ Tail(s) \in Seq(S) /\ Len(Tail(s)) = Len(s) - 1
      /\ \A i \in 1..Len(Tail(s)) : Tail(s)[i] = s[i + 1]
  BY HeadTailProperties
<1>3. DOMAIN Tail(s) = 1..Len(Tail(s))  BY <1>2, LenProperties
<1>4. Head(s) = s[1] /\ 1 \in DOMAIN s  BY <1>1
<1>5. \A i \in DOMAIN Tail(s) : i + 1 \in DOMAIN s /\ Tail(s)[i] = s[i + 1]
  BY <1>1, <1>2, <1>3
<1>. QED  BY <1>1, <1>2, <1>4, <1>5 DEF ToSet

-----------------------------------------------------------------------------
(* Prefixes                                                                *)

LEMMA PrefixElements ==
  ASSUME NEW S, NEW s \in Seq(S), NEW t \in Seq(S)
  PROVE  IsPrefix(s, t) <=> Len(s) <= Len(t) /\ \A i \in 1..Len(s) : s[i] = t[i]
<1>1. /\ Len(s) \in Nat /\ \A i \in 1..Len(s) : s[i] \in S
      /\ Len(t) \in Nat /\ \A i \in 1..Len(t) : t[i] \in S
  BY LenProperties
<1>2. SubSeq(s, 1, Len(s)) = s  BY SubSeqFull
<1>3. ASSUME Len(s) <= Len(t)
      PROVE  s = SubSeq(t, 1, Len(s)) <=> \A i \in 1..Len(s) : s[i] = t[i]
  <2>. DEFINE u == SubSeq(t, 1, Len(s))
  <2>1. \A i \in 1..Len(s) : t[i] \in S  BY <1>1, <1>3
  <2>2. /\ u \in Seq(S)
        /\ Len(u) = Len(s)
        /\ \A i \in 1..Len(s) : u[i] = t[i]
    BY <1>1, <2>1, SubSeqProperties
  <2>. HIDE DEF u
  <2>3. s = u => \A i \in 1..Len(s) : s[i] = t[i]  BY <2>2
  <2>4. (\A i \in 1..Len(s) : s[i] = t[i]) => s = u  BY <2>2, SeqEqual
  <2>. QED  BY <2>3, <2>4 DEF u
<1>. QED  BY <1>2, <1>3 DEF IsPrefix

LEMMA EmptyPrefix == ASSUME NEW S, NEW t \in Seq(S)  PROVE IsPrefix(<<>>, t)
<1>. DEFINE s == <<>>
<1>1. s \in Seq(S) /\ Len(s) = 0 /\ Len(t) \in Nat  BY EmptySeq, LenProperties
<1>. HIDE DEF s
<1>2. Len(s) <= Len(t) /\ \A i \in 1..Len(s) : s[i] = t[i]  BY <1>1
<1>3. IsPrefix(s, t)  BY <1>1, <1>2, PrefixElements
<1>. QED  BY <1>3 DEF s

(* The first n elements, and the others.                                   *)
LEMMA FirstElements ==
  ASSUME NEW S, NEW s \in Seq(S), NEW n \in 0..Len(s)
  PROVE  /\ SubSeq(s, 1, n) \in Seq(S)
         /\ Len(SubSeq(s, 1, n)) = n
         /\ \A i \in 1..n : SubSeq(s, 1, n)[i] = s[i]
         /\ IsPrefix(SubSeq(s, 1, n), s)
<1>1. Len(s) \in Nat /\ \A i \in 1..Len(s) : s[i] \in S  BY LenProperties
<1>. DEFINE t == SubSeq(s, 1, n)
<1>2. \A i \in 1..n : s[i] \in S  BY <1>1
<1>3. /\ t \in Seq(S) /\ Len(t) = n
      /\ \A i \in 1..n : t[i] = s[i]
  BY <1>1, <1>2, SubSeqProperties
<1>. HIDE DEF t
<1>4. IsPrefix(t, s)  BY <1>1, <1>3, PrefixElements
<1>. QED  BY <1>3, <1>4 DEF t

LEMMA OtherElements ==
  ASSUME NEW S, NEW s \in Seq(S), NEW n \in 0..Len(s)
  PROVE  /\ SubSeq(s, n + 1, Len(s)) \in Seq(S)
         /\ Len(SubSeq(s, n + 1, Len(s))) = Len(s) - n
         /\ \A i \in 1..(Len(s) - n) : SubSeq(s, n + 1, Len(s))[i] = s[n + i]
<1>1. Len(s) \in Nat /\ \A i \in 1..Len(s) : s[i] \in S  BY LenProperties
<1>2. n + 1 \in Int /\ Len(s) \in Int /\ n + 1 >= 1  BY <1>1
<1>. DEFINE t == SubSeq(s, n + 1, Len(s))
<1>3. \A i \in (n + 1)..Len(s) : s[i] \in S  BY <1>1
<1>4. /\ t \in Seq(S)
      /\ Len(t) = IF n + 1 <= Len(s) THEN Len(s) - (n + 1) + 1 ELSE 0
      /\ \A i \in 1..(Len(s) - (n + 1) + 1) : t[i] = s[n + 1 + i - 1]
  BY <1>2, <1>3, SubSeqProperties
<1>. HIDE DEF t
<1>5. Len(t) = Len(s) - n  BY <1>1, <1>4
<1>6. \A i \in 1..(Len(s) - n) : t[i] = s[n + i]  BY <1>1, <1>4
<1>. QED  BY <1>4, <1>5, <1>6 DEF t

(* What is in a sequence is in its prefix or in the rest.                  *)
LEMMA PrefixAndRest ==
  ASSUME NEW S, NEW s \in Seq(S), NEW t \in Seq(S), IsPrefix(s, t)
  PROVE  /\ ToSet(t) = ToSet(s) \cup ToSet(SubSeq(t, Len(s) + 1, Len(t)))
         /\ SubSeq(t, Len(s) + 1, Len(t)) \in Seq(S)
<1>. DEFINE u == SubSeq(t, Len(s) + 1, Len(t))
<1>0. Len(s) \in Nat /\ Len(t) \in Nat  BY LenProperties
<1>1. Len(s) <= Len(t) /\ \A i \in 1..Len(s) : s[i] = t[i]  BY PrefixElements
<1>2. Len(s) \in 0..Len(t)  BY <1>0, <1>1
<1>3. /\ u \in Seq(S) /\ Len(u) = Len(t) - Len(s)
      /\ \A i \in 1..(Len(t) - Len(s)) : u[i] = t[Len(s) + i]
  BY <1>2, OtherElements
<1>4. DOMAIN s = 1..Len(s) /\ DOMAIN t = 1..Len(t) /\ DOMAIN u = 1..Len(u)
  BY <1>3, LenProperties
<1>. HIDE DEF u
<1>5. ASSUME NEW i \in 1..Len(t)  PROVE t[i] \in ToSet(s) \cup ToSet(u)
  <2>1. CASE i <= Len(s)  BY <1>0, <1>1, <1>4, <2>1 DEF ToSet
  <2>2. CASE ~(i <= Len(s))
    <3>1. i - Len(s) \in 1..Len(u) /\ Len(s) + (i - Len(s)) = i  BY <1>0, <1>3, <2>2
    <3>2. u[i - Len(s)] = t[i]  BY <1>3, <3>1
    <3>. QED  BY <1>4, <3>1, <3>2 DEF ToSet
  <2>. QED  BY <2>1, <2>2
<1>6. ASSUME NEW i \in 1..Len(u)  PROVE u[i] \in ToSet(t)
  <2>1. Len(s) + i \in 1..Len(t)  BY <1>0, <1>1, <1>3
  <2>. QED  BY <1>3, <1>4, <2>1 DEF ToSet
<1>7. ASSUME NEW i \in 1..Len(s)  PROVE s[i] \in ToSet(t)
  <2>1. i \in 1..Len(t)  BY <1>0, <1>1
  <2>. QED  BY <1>1, <1>4, <2>1 DEF ToSet
<1>8. ToSet(t) \subseteq ToSet(s) \cup ToSet(u)  BY <1>4, <1>5 DEF ToSet
<1>9. ToSet(s) \cup ToSet(u) \subseteq ToSet(t)  BY <1>4, <1>6, <1>7 DEF ToSet
<1>. QED  BY <1>3, <1>8, <1>9 DEF u

LEMMA PrefixOfConcat ==
  ASSUME NEW S, NEW s \in Seq(S), NEW t \in Seq(S), NEW u \in Seq(S), IsPrefix(s, t)
  PROVE  IsPrefix(s, t \o u)
<1>0. Len(s) \in Nat /\ Len(t) \in Nat /\ Len(u) \in Nat  BY LenProperties
<1>1. Len(s) <= Len(t) /\ \A i \in 1..Len(s) : s[i] = t[i]  BY PrefixElements
<1>. DEFINE v == t \o u
<1>2. /\ v \in Seq(S) /\ Len(v) = Len(t) + Len(u)
      /\ \A i \in 1..(Len(t) + Len(u)) :
           v[i] = IF i <= Len(t) THEN t[i] ELSE u[i - Len(t)]
  BY ConcatProperties
<1>. HIDE DEF v
<1>3. Len(s) <= Len(v) /\ \A i \in 1..Len(s) : s[i] = v[i]  BY <1>0, <1>1, <1>2
<1>4. IsPrefix(s, v)  BY <1>2, <1>3, PrefixElements
<1>. QED  BY <1>4 DEF v
=============================================================================
