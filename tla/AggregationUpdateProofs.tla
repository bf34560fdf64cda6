----------------------- MODULE AggregationUpdateProofs -----------------------
(***************************************************************************)
(* Proofs about AggregationUpdate for every set of processes, builders and *)
(* transactions and every number of faults.                                *)
(***************************************************************************)
EXTENDS AggregationUpdate, TLAPS

(* What a lock operation leaves behind is again a table of lock items.     *)
LEMMA LockTypes ==
  ASSUME LockTypeOK, NEW k \in Key
  PROVE  /\ \A p \in Proc : AcquireLock(p, k) => LockTypeOK'
         /\ ReleaseLock(k) => LockTypeOK'
         /\ ExpireLock(k) => LockTypeOK'
BY DEF LockTypeOK, AcquireLock, ReleaseLock, ExpireLock

LEMMA TypeInit == Init => TypeOK
<1>. SUFFICES ASSUME Init PROVE TypeOK
  OBVIOUS
<1>. USE DEF Init, Zero, Counts, Active, Critical
<1>1. LockTypeOK
  BY DEF LockInit, LockTypeOK
<1>2. /\ pc \in [Proc -> Active \cup {"idle", "done"}]
      /\ memo \in [Proc -> {"none", "applied", "notApplied"}]
      /\ seen \in [Proc -> Counts]
      /\ bucket \in Counts
  OBVIOUS
<1>3. /\ marker \in SUBSET Key /\ stored \in SUBSET Key
      /\ faults \in Nat /\ exposed \in SUBSET Key /\ mixed \in SUBSET Key
  BY HistoryAssumption
<1>4. ready \in BOOLEAN
  BY Zenon
<1>5. /\ stage \in [Builder -> {"idle", "reading", "writing", "marking", "readying", "done"}]
      /\ found \in [Builder -> SUBSET InRange]
  OBVIOUS
<1>. QED  BY <1>1, <1>2, <1>3, <1>4, <1>5 DEF TypeOK

LEMMA TypeStep == TypeOK /\ [Next]_vars => TypeOK'
<1> SUFFICES ASSUME TypeOK, [Next]_vars PROVE TypeOK'
  OBVIOUS
<1> USE TxOfAssumption, MaxFaultsAssumption DEF TypeOK, Active, Critical, lockVars, building, ghosts
<1>1. ASSUME NEW p \in Proc, Evaluate(p) PROVE TypeOK'
  BY <1>1 DEF Evaluate, Step, MarkerState, LockTypeOK
<1>2. ASSUME NEW p \in Proc, Lock(p) PROVE TypeOK'
  BY <1>2, LockTypes DEF Lock, Others, Step
<1>3. ASSUME NEW p \in Proc, CheckApplied(p) PROVE TypeOK'
  BY <1>3 DEF CheckApplied, Applied, MarkerState, Step, LockTypeOK
<1>4. ASSUME NEW p \in Proc, ReadBucket(p) PROVE TypeOK'
  BY <1>4 DEF ReadBucket, Step, LockTypeOK, Counts
<1>5. ASSUME NEW p \in Proc, WriteBucket(p) PROVE TypeOK'
  BY <1>5 DEF WriteBucket, Step, LockTypeOK, Counts, Zero
<1>6. ASSUME NEW p \in Proc, SetApplied(p) PROVE TypeOK'
  BY <1>6 DEF SetApplied, Step, LockTypeOK
<1>7. ASSUME NEW p \in Proc, Release(p) PROVE TypeOK'
  BY <1>7, LockTypes DEF Release, Step
<1>8. ASSUME NEW p \in Proc, Crash(p) PROVE TypeOK'
  BY <1>8 DEF Crash, LockTypeOK, Counts, Zero
<1>9. ASSUME NEW k \in Key, ExpireAbandoned(k) \/ ExpireLate(k) PROVE TypeOK'
  BY <1>9, LockTypes DEF ExpireAbandoned, ExpireLate
<1>10. CASE UNCHANGED vars
  BY <1>10 DEF vars, LockTypeOK
<1>11. ASSUME NEW t \in Key, Store(t) PROVE TypeOK'
  BY <1>11 DEF Store, LockTypeOK
<1>12. ASSUME NEW b \in Builder, Rebuild(b) PROVE TypeOK'
  <2>1. CASE CheckReady(b) \/ SetReady(b)
    BY <2>1 DEF CheckReady, SetReady, To, LockTypeOK
  <2>2. CASE ReadHistory(b)
    <3>1. exposed' \in SUBSET Key /\ mixed' \in SUBSET Key
      BY <2>2, HistoryAssumption DEF ReadHistory
    <3>. QED  BY <2>2, <3>1 DEF ReadHistory, To, LockTypeOK
  <2>3. CASE WriteBuckets(b)
    <3>1. bucket' \in Counts
      BY <2>3 DEF WriteBuckets, Counts
    <3>2. mixed' \in SUBSET Key
      BY <2>3, HistoryAssumption DEF WriteBuckets, Counted
    <3>. QED  BY <2>3, <3>1, <3>2 DEF WriteBuckets, To, LockTypeOK
  <2>4. CASE MarkApplied(b)
    <3>1. marker' \in SUBSET Key /\ exposed' \in SUBSET Key
      BY <2>4, HistoryAssumption DEF MarkApplied
    <3>. QED  BY <2>4, <3>1 DEF MarkApplied, To, LockTypeOK
  <2>. QED  BY <1>12, <2>1, <2>2, <2>3, <2>4 DEF Rebuild
<1>13. ASSUME NEW b \in Builder, CrashBuilder(b) PROVE TypeOK'
  <2>1. exposed' \in SUBSET Key
    BY <1>13, HistoryAssumption DEF CrashBuilder
  <2>. QED  BY <1>13, <2>1 DEF CrashBuilder, LockTypeOK
<1> QED
  BY <1>1, <1>2, <1>3, <1>4, <1>5, <1>6, <1>7, <1>8, <1>9, <1>10, <1>11,
     <1>12, <1>13
     DEF Next, Update

(* Every reachable state has the shape the declarations promise.           *)
THEOREM TypeCorrect == Spec => []TypeOK
BY TypeInit, TypeStep, PTL DEF Spec

-----------------------------------------------------------------------------
(* CountedOnce is not inductive: it says nothing of the buckets processes  *)
(* carry, of who is inside the lock, or of the memo.  The parts below do.  *)

Inside(p) == pc[p] \in Critical /\ TxOf[p] \notin exposed

(* The ghost owner of a key means the item is live.                        *)
OwnedIsLive == \A k \in Key : owner[k] # {} => item[k] = "live"

(* The lock does its work for transactions no fault exposed.               *)
InsideOwns == \A p \in Proc : Inside(p) => owner[TxOf[p]] = {p}

(* Without the current entity, nothing is memoized before the lock.        *)
MemoFresh == \A p \in Proc : pc[p] \in {"idle", "evaluated", "locked"} => memo[p] = "none"

(* Who passed the check is still right about the marker.                   *)
CheckHolds ==
  \A p \in Proc : Inside(p) /\ pc[p] \in {"reading", "writing"} => TxOf[p] \notin marker

(* No builder will count, or has counted and will mark, a transaction that *)
(* is being updated.                                                       *)
FoundApart ==
  \A p \in Proc, b \in Builder :
    Inside(p) /\ stage[b] \in {"writing", "marking"} => TxOf[p] \notin found[b]

(* Until its marker is written, or about to be, a transaction is in no     *)
(* bucket, neither the stored one nor one that a process has read.         *)
Uncounted(t) ==
  /\ t \notin marker
  /\ \A p \in Proc : TxOf[p] = t => pc[p] # "marking"
  /\ \A b \in Builder : stage[b] = "marking" => t \notin found[b]

UncountedIsZero ==
  \A t \in Key \ exposed : Uncounted(t) => bucket[t] = 0 /\ \A p \in Proc : seen[p][t] = 0

SeenOnce == \A t \in Key \ exposed, p \in Proc : seen[p][t] <= 1

IInv ==
  /\ TypeOK
  /\ OwnedIsLive
  /\ InsideOwns
  /\ MemoFresh
  /\ CheckHolds
  /\ FoundApart
  /\ UncountedIsZero
  /\ SeenOnce
  /\ CountedOnce

(* Two processes are never inside for one unexposed transaction.           *)
LEMMA InsideAlone ==
  ASSUME InsideOwns, NEW p \in Proc, NEW q \in Proc,
         Inside(p), pc[q] \in Critical, TxOf[q] = TxOf[p]
  PROVE  q = p
BY DEF InsideOwns, Inside

LEMMA InvInit == Init => IInv
<1> SUFFICES ASSUME Init PROVE IInv
  OBVIOUS
<1>1. TypeOK
  BY TypeInit
<1> QED
  BY <1>1, TxOfAssumption
     DEF Init, IInv, OwnedIsLive, InsideOwns, Inside, MemoFresh, CheckHolds,
         FoundApart, UncountedIsZero, SeenOnce, CountedOnce, LockInit, Zero, Critical

LEMMA ApartStep == ASSUME TypeOK, FoundApart, [Next]_vars PROVE FoundApart'
<1> USE TxOfAssumption DEF Active, Critical, building, ghosts, Step, TypeOK
<1>1. ASSUME NEW p \in Proc, Lock(p) PROVE FoundApart'
  <2>1. exposed \subseteq exposed' /\ (Found(TxOf[p]) => TxOf[p] \in exposed')
    BY <1>1 DEF Lock
  <2>. QED  BY <1>1, <2>1 DEF Lock, Found, FoundApart, Inside
<1>2. ASSUME NEW p \in Proc, Evaluate(p) \/ (Update(p) /\ ~Lock(p)) PROVE FoundApart'
  BY <1>2 DEF Update, Evaluate, CheckApplied, ReadBucket, WriteBucket, SetApplied, Release,
              FoundApart, Inside
<1>3. ASSUME NEW p \in Proc, Crash(p) PROVE FoundApart'
  BY <1>3 DEF Crash, FoundApart, Inside
<1>4. ASSUME NEW k \in Key, ExpireAbandoned(k) \/ ExpireLate(k) PROVE FoundApart'
  BY <1>4 DEF ExpireAbandoned, ExpireLate, FoundApart, Inside
<1>5. ASSUME NEW t \in Key, Store(t) PROVE FoundApart'
  BY <1>5 DEF Store, FoundApart, Inside
<1>6. ASSUME NEW b \in Builder, Rebuild(b) PROVE FoundApart'
  <2>1. CASE ReadHistory(b)
    <3>1. exposed \subseteq exposed'
          /\ \A p \in Proc : pc[p] \in Critical /\ TxOf[p] \in found'[b] => TxOf[p] \in exposed'
      BY <2>1 DEF ReadHistory, UnderWay
    <3>. QED  BY <2>1, <3>1 DEF ReadHistory, To, FoundApart, Inside
  <2>2. CASE CheckReady(b) \/ SetReady(b) \/ WriteBuckets(b) \/ MarkApplied(b)
    BY <2>2 DEF CheckReady, SetReady, WriteBuckets, MarkApplied, To, FoundApart, Inside
  <2>. QED  BY <1>6, <2>1, <2>2 DEF Rebuild
<1>7. ASSUME NEW b \in Builder, CrashBuilder(b) PROVE FoundApart'
  BY <1>7 DEF CrashBuilder, FoundApart, Inside
<1>8. CASE UNCHANGED vars
  BY <1>8 DEF vars, FoundApart, Inside
<1>. QED
  BY <1>1, <1>2, <1>3, <1>4, <1>5, <1>6, <1>7, <1>8 DEF Next

LEMMA InvStep ==
  ASSUME IncludeCurrentEntity = FALSE, IInv, [Next]_vars
  PROVE  IInv'
<1> USE TxOfAssumption DEF Active, Critical, lockVars, building, ghosts, Step
<1>0. TypeOK /\ TypeOK'
  BY TypeStep DEF IInv
<1>i. /\ OwnedIsLive /\ InsideOwns /\ MemoFresh /\ CheckHolds /\ FoundApart
      /\ UncountedIsZero /\ SeenOnce /\ CountedOnce
  BY DEF IInv
<1> DEFINE Rest == /\ OwnedIsLive /\ InsideOwns /\ MemoFresh /\ CheckHolds
                   /\ UncountedIsZero /\ SeenOnce /\ CountedOnce
<1>1. ASSUME NEW p \in Proc, Evaluate(p) PROVE Rest'
  <2>1. OwnedIsLive' /\ InsideOwns' /\ MemoFresh' /\ CheckHolds'
    BY <1>0, <1>1, <1>i DEF Evaluate, TypeOK, OwnedIsLive, InsideOwns, Inside, MemoFresh, CheckHolds
  <2>2. UncountedIsZero' /\ SeenOnce' /\ CountedOnce'
    BY <1>0, <1>1, <1>i DEF Evaluate, TypeOK, UncountedIsZero, Uncounted, SeenOnce, CountedOnce
  <2> QED
    BY <2>1, <2>2
<1>2. ASSUME NEW p \in Proc, Lock(p) PROVE Rest'
  <2>1. \A q \in Proc : Inside(q) => TxOf[q] # TxOf[p]
    BY <1>0, <1>2, <1>i DEF Lock, AcquireLock, Available, OwnedIsLive, InsideOwns
  <2>2. OwnedIsLive' /\ InsideOwns' /\ MemoFresh' /\ CheckHolds'
    BY <1>0, <1>2, <1>i, <2>1
       DEF Lock, AcquireLock, TypeOK, LockTypeOK, OwnedIsLive, InsideOwns, Inside, MemoFresh, CheckHolds
  <2>3. UncountedIsZero' /\ SeenOnce' /\ CountedOnce'
    BY <1>0, <1>2, <1>i DEF Lock, TypeOK, UncountedIsZero, Uncounted, SeenOnce, CountedOnce
  <2> QED
    BY <2>2, <2>3
<1>3. ASSUME NEW p \in Proc, CheckApplied(p) PROVE Rest'
  <2>1. pc[p] = "locked" /\ Applied(p) = MarkerState(TxOf[p])
    BY <1>3, <1>i DEF CheckApplied, Applied, MemoFresh
  <2>2. OwnedIsLive' /\ InsideOwns' /\ MemoFresh' /\ CheckHolds'
    BY <1>0, <1>3, <1>i, <2>1
       DEF CheckApplied, MarkerState, TypeOK, OwnedIsLive, InsideOwns, Inside, MemoFresh, CheckHolds
  <2>3. UncountedIsZero' /\ SeenOnce' /\ CountedOnce'
    BY <1>0, <1>3, <1>i DEF CheckApplied, TypeOK, UncountedIsZero, Uncounted, SeenOnce, CountedOnce
  <2> QED
    BY <2>2, <2>3
<1>4. ASSUME NEW p \in Proc, ReadBucket(p) PROVE Rest'
  <2>1. OwnedIsLive' /\ InsideOwns' /\ MemoFresh' /\ CheckHolds'
    BY <1>0, <1>4, <1>i DEF ReadBucket, TypeOK, OwnedIsLive, InsideOwns, Inside, MemoFresh, CheckHolds
  <2>2. UncountedIsZero' /\ SeenOnce' /\ CountedOnce'
    BY <1>0, <1>4, <1>i DEF ReadBucket, TypeOK, UncountedIsZero, Uncounted, SeenOnce, CountedOnce
  <2> QED
    BY <2>1, <2>2
<1>5. ASSUME NEW p \in Proc, WriteBucket(p) PROVE Rest'
  <2> DEFINE t == TxOf[p]
  <2>1. OwnedIsLive' /\ InsideOwns' /\ MemoFresh' /\ CheckHolds'
    BY <1>0, <1>5, <1>i DEF WriteBucket, TypeOK, OwnedIsLive, InsideOwns, Inside, MemoFresh, CheckHolds
  <2>2. t \notin exposed => Uncounted(t)
    BY <1>0, <1>5, <1>i, InsideAlone DEF WriteBucket, Inside, CheckHolds, FoundApart, Uncounted
  <2>3. t \notin exposed => seen[p][t] = 0
    BY <1>0, <1>i, <2>2 DEF UncountedIsZero
  <2>4. t \in Key /\ seen[p] \in Counts /\ exposed' = exposed /\ marker' = marker
    BY <1>0, <1>5 DEF TypeOK, WriteBucket
  <2>5. bucket'[t] = seen[p][t] + 1 /\ \A u \in Key \ {t} : bucket'[u] = seen[p][u]
    BY <1>5, <2>4 DEF WriteBucket, Counts
  <2>6. \A u \in Key, q \in Proc : seen'[q][u] = IF q = p THEN 0 ELSE seen[q][u]
    BY <1>0, <1>5 DEF WriteBucket, TypeOK, Zero
  <2>7. SeenOnce'
    BY <1>i, <2>4, <2>6 DEF SeenOnce
  <2>8. CountedOnce'
    BY <1>i, <2>3, <2>4, <2>5 DEF CountedOnce, SeenOnce
  <2>9. ~ Uncounted(t)'
    BY <1>0, <1>5 DEF WriteBucket, TypeOK, Uncounted
  <2>10. \A u \in Key : Uncounted(u)' => Uncounted(u)
    BY <1>0, <1>5 DEF WriteBucket, TypeOK, Uncounted
  <2>11. UncountedIsZero'
    BY <1>i, <2>4, <2>5, <2>6, <2>9, <2>10 DEF UncountedIsZero
  <2> QED
    BY <2>1, <2>7, <2>8, <2>11
<1>6. ASSUME NEW p \in Proc, SetApplied(p) PROVE Rest'
  <2>1. OwnedIsLive' /\ InsideOwns' /\ MemoFresh'
    BY <1>0, <1>6, <1>i DEF SetApplied, TypeOK, OwnedIsLive, InsideOwns, Inside, MemoFresh
  <2>2. CheckHolds'
    BY <1>0, <1>6, <1>i, InsideAlone DEF SetApplied, TypeOK, Inside, CheckHolds
  <2>3. UncountedIsZero' /\ SeenOnce' /\ CountedOnce'
    BY <1>0, <1>6, <1>i DEF SetApplied, TypeOK, UncountedIsZero, Uncounted, SeenOnce, CountedOnce
  <2> QED
    BY <2>1, <2>2, <2>3
<1>7. ASSUME NEW p \in Proc, Release(p) PROVE Rest'
  <2>1. OwnedIsLive' /\ MemoFresh' /\ CheckHolds'
    BY <1>0, <1>7, <1>i DEF Release, ReleaseLock, TypeOK, LockTypeOK, OwnedIsLive, Inside, MemoFresh, CheckHolds
  <2>2. \A q \in Proc : Inside(q) /\ q # p => TxOf[q] # TxOf[p]
    BY <1>0, <1>7, <1>i, InsideAlone DEF Release, Inside
  <2>3. InsideOwns'
    BY <1>0, <1>7, <1>i, <2>2 DEF Release, ReleaseLock, TypeOK, LockTypeOK, InsideOwns, Inside
  <2>4. UncountedIsZero' /\ SeenOnce' /\ CountedOnce'
    BY <1>0, <1>7, <1>i DEF Release, TypeOK, UncountedIsZero, Uncounted, SeenOnce, CountedOnce
  <2> QED
    BY <2>1, <2>3, <2>4
<1>8. ASSUME NEW p \in Proc, Crash(p) PROVE Rest'
  <2>1. exposed \subseteq exposed' /\ (pc[p] = "marking" => TxOf[p] \in exposed')
    BY <1>8 DEF Crash
  <2>2. OwnedIsLive' /\ InsideOwns' /\ MemoFresh' /\ CheckHolds'
    BY <1>0, <1>8, <1>i, <2>1 DEF Crash, TypeOK, OwnedIsLive, InsideOwns, Inside, MemoFresh, CheckHolds
  <2>3. SeenOnce' /\ CountedOnce'
    BY <1>0, <1>8, <1>i, <2>1 DEF Crash, TypeOK, Zero, SeenOnce, CountedOnce
  <2>4. \A u \in Key \ exposed' : Uncounted(u)' => Uncounted(u)
    BY <1>0, <1>8, <2>1 DEF Crash, TypeOK, Uncounted
  <2>5. UncountedIsZero'
    BY <1>0, <1>8, <1>i, <2>1, <2>4 DEF Crash, TypeOK, Zero, UncountedIsZero
  <2> QED
    BY <2>2, <2>3, <2>5
<1>9. ASSUME NEW k \in Key, ExpireAbandoned(k) \/ ExpireLate(k) PROVE Rest'
  <2>1. exposed \subseteq exposed'
    BY <1>9 DEF ExpireAbandoned, ExpireLate
  <2>2. OwnedIsLive' /\ MemoFresh' /\ CheckHolds'
    BY <1>0, <1>9, <1>i, <2>1
       DEF ExpireAbandoned, ExpireLate, ExpireLock, TypeOK, LockTypeOK, OwnedIsLive, Inside, MemoFresh, CheckHolds
  <2>3. \A q \in Proc : Inside(q)' => Inside(q) /\ TxOf[q] # k
    BY <1>9, <2>1 DEF ExpireAbandoned, ExpireLate, Inside
  <2>4. InsideOwns'
    BY <1>0, <1>9, <1>i, <2>3 DEF ExpireAbandoned, ExpireLate, ExpireLock, TypeOK, LockTypeOK, InsideOwns
  <2>5. UncountedIsZero' /\ SeenOnce' /\ CountedOnce'
    BY <1>0, <1>9, <1>i, <2>1
       DEF ExpireAbandoned, ExpireLate, TypeOK, UncountedIsZero, Uncounted, SeenOnce, CountedOnce
  <2> QED
    BY <2>2, <2>4, <2>5
<1>10. ASSUME UNCHANGED vars PROVE Rest'
  BY <1>10, <1>i
     DEF vars, OwnedIsLive, InsideOwns, Inside, MemoFresh, CheckHolds, UncountedIsZero, Uncounted,
         SeenOnce, CountedOnce
<1>11. ASSUME NEW t \in Key, Store(t) PROVE Rest'
  BY <1>11, <1>i
     DEF Store, OwnedIsLive, InsideOwns, Inside, MemoFresh, CheckHolds, UncountedIsZero, Uncounted,
         SeenOnce, CountedOnce
<1>12. ASSUME NEW b \in Builder, Rebuild(b) \/ CrashBuilder(b) PROVE Rest'
  <2>1. exposed \subseteq exposed' /\ UNCHANGED <<lockVars, pc, memo, seen>>
    BY <1>12 DEF Rebuild, CheckReady, ReadHistory, WriteBuckets, MarkApplied, SetReady, CrashBuilder
  <2>2. OwnedIsLive' /\ InsideOwns' /\ MemoFresh' /\ SeenOnce'
    BY <1>i, <2>1 DEF OwnedIsLive, InsideOwns, Inside, MemoFresh, SeenOnce
  <2>3. CASE CheckReady(b) \/ ReadHistory(b) \/ SetReady(b)
    <3>1. UNCHANGED <<bucket, marker>>
      BY <2>3 DEF CheckReady, ReadHistory, SetReady
    <3>2. \A t \in Key : Uncounted(t)' => Uncounted(t)
      BY <1>0, <2>1, <2>3, <3>1 DEF CheckReady, ReadHistory, SetReady, To, Uncounted, TypeOK
    <3>. QED
      BY <1>i, <2>1, <2>2, <3>1, <3>2 DEF CheckHolds, Inside, UncountedIsZero, CountedOnce
  <2>4. CASE WriteBuckets(b)
    <3>1. marker' = marker /\ exposed' = exposed
      BY <2>4 DEF WriteBuckets
    <3>2. \A t \in Key : Uncounted(t)' => Uncounted(t) /\ t \notin found[b]
      BY <1>0, <2>1, <2>4, <3>1 DEF WriteBuckets, To, Uncounted, TypeOK
    <3>3. \A t \in Key : \/ bucket'[t] = bucket[t]
                         \/ bucket'[t] <= 1 /\ (t \notin found[b] => bucket'[t] = 0)
      BY <2>4 DEF WriteBuckets
    <3>. QED
      BY <1>i, <2>1, <2>2, <3>1, <3>2, <3>3 DEF CheckHolds, Inside, UncountedIsZero, CountedOnce
  <2>5. CASE MarkApplied(b)
    <3>1. bucket' = bucket /\ marker' = marker \cup (found[b] \cap Recent)
          /\ exposed' = exposed \cup ((found[b] \ Recent) \ marker) /\ stage[b] = "marking"
      BY <2>5 DEF MarkApplied, To
    <3>2. \A t \in Key \ exposed' : Uncounted(t)' => Uncounted(t)
      BY <1>0, <2>1, <2>5, <3>1 DEF MarkApplied, To, Uncounted, TypeOK
    <3>3. CheckHolds'
      BY <1>i, <2>1, <3>1 DEF CheckHolds, FoundApart, Inside
    <3>. QED
      BY <1>i, <2>1, <2>2, <3>1, <3>2, <3>3 DEF UncountedIsZero, CountedOnce
  <2>6. CASE CrashBuilder(b)
    <3>1. UNCHANGED <<bucket, marker>>
          /\ (stage[b] = "marking" => found[b] \ marker \subseteq exposed')
      BY <2>6 DEF CrashBuilder
    <3>2. \A t \in Key \ exposed' : Uncounted(t)' => Uncounted(t)
      BY <1>0, <2>1, <2>6, <3>1 DEF CrashBuilder, Uncounted, TypeOK
    <3>. QED
      BY <1>i, <2>1, <2>2, <3>1, <3>2 DEF CheckHolds, Inside, UncountedIsZero, CountedOnce
  <2>. QED  BY <1>12, <2>3, <2>4, <2>5, <2>6 DEF Rebuild
<1>13. Rest'
  BY <1>1, <1>2, <1>3, <1>4, <1>5, <1>6, <1>7, <1>8, <1>9, <1>10, <1>11, <1>12
     DEF IInv, Next, Update
<1>14. FoundApart'
  BY <1>0, <1>i, ApartStep
<1> QED
  BY <1>0, <1>13, <1>14 DEF IInv

(* When the variable does not include the current entity, a transaction is *)
(* counted at most once, however many processes and events handle it,      *)
(* except the transactions a fault exposed.                                *)
THEOREM CountedOnceHolds ==
  ASSUME IncludeCurrentEntity = FALSE
  PROVE  Spec => []CountedOnce
<1>1. IInv /\ [Next]_vars => IInv'
  BY InvStep
<1>2. IInv => CountedOnce
  BY DEF IInv
<1> QED
  BY InvInit, <1>1, <1>2, PTL DEF Spec

-----------------------------------------------------------------------------
(* What is counted stays counted.  Neither AppliedIsCounted nor            *)
(* ReadyHasHistory is inductive: a process is about to write back what it  *)
(* has read, and a builder what it has found.                              *)

(* Updates of two transactions that are under way at once are both mixed.  *)
OverlapIsMixed ==
  \A p, q \in Proc :
    pc[p] \in Critical /\ pc[q] \in Critical /\ TxOf[p] # TxOf[q] => TxOf[p] \in mixed

(* The bucket should have t: it is marked, about to be marked, written by  *)
(* a builder, or part of the history of a variable that is ready.          *)
Due(t) ==
  \/ t \in marker
  \/ \E p \in Proc : pc[p] = "marking" /\ TxOf[p] = t
  \/ \E b \in Builder : stage[b] \in {"marking", "readying"} /\ t \in found[b]
  \/ ready /\ t \in History \cap InRange

(* Or it will have.                                                        *)
Touched(t) ==
  \/ t \in marker
  \/ \E p \in Proc : pc[p] \in Critical /\ TxOf[p] = t
  \/ \E b \in Builder : stage[b] \in {"writing", "marking", "readying"} /\ t \in found[b]
  \/ ready /\ t \in History \cap InRange

(* The bucket has t, and so has what is about to be written back.          *)
Kept(t) ==
  /\ bucket[t] >= 1
  /\ \A p \in Proc : pc[p] = "writing" /\ TxOf[p] # t => seen[p][t] >= 1

DueIsKept == \A t \in Key : Due(t) /\ t \notin mixed => Kept(t)

(* Who is about to replace the bucket has found what others touched.       *)
WriterHasFound ==
  \A b \in Builder, t \in InRange :
    stage[b] = "writing" /\ found[b] # {} /\ Touched(t) /\ t \notin mixed => t \in found[b]

StoredFirst ==
  /\ History \subseteq stored
  /\ \A p \in Proc : pc[p] \in Active => TxOf[p] \in stored
  /\ \A t \in Key : Touched(t) => t \in stored

HistoryFound ==
  \A b \in Builder :
    stage[b] \in {"writing", "marking", "readying"} => History \cap InRange \subseteq found[b]

CountedInv == OverlapIsMixed /\ DueIsKept /\ WriterHasFound /\ StoredFirst /\ HistoryFound

LEMMA CountedInit == Init => CountedInv
BY HistoryAssumption
   DEF Init, CountedInv, OverlapIsMixed, DueIsKept, Due, WriterHasFound, Touched, StoredFirst,
       HistoryFound, Active, Critical

(* A step that leaves what is counted alone, and touches nothing new, is   *)
(* harmless.                                                               *)
LEMMA Harmless ==
  ASSUME CountedInv, mixed \subseteq mixed', stored \subseteq stored', bucket' = bucket,
         \A p \in Proc : \/ pc'[p] # "writing"
                         \/ pc[p] = "writing" /\ seen'[p] = seen[p]
                         \/ seen'[p] = bucket,
         \A p \in Proc : pc'[p] \in Critical => pc[p] \in Critical,
         \A p \in Proc : pc'[p] \in Active => pc[p] \in Active \/ TxOf[p] \in stored,
         \A b \in Builder :
           stage'[b] \in {"writing", "marking", "readying"} =>
             stage[b] \in {"writing", "marking", "readying"} /\ found'[b] = found[b],
         \A b \in Builder : stage'[b] = "writing" => stage[b] = "writing",
         \A t \in Key : Due(t)' => Due(t), \A t \in Key : Touched(t)' => Touched(t)
  PROVE  CountedInv'
<1>. USE HistoryAssumption DEF CountedInv
<1>1. OverlapIsMixed'
  BY DEF OverlapIsMixed
<1>2. DueIsKept'
  BY DEF DueIsKept, Kept
<1>3. WriterHasFound'
  BY DEF WriterHasFound
<1>4. StoredFirst'
  BY DEF StoredFirst
<1>5. HistoryFound'
  BY DEF HistoryFound
<1>. QED  BY <1>1, <1>2, <1>3, <1>4, <1>5

LEMMA ProcessCounted ==
  ASSUME TypeOK, CountedInv, NEW p \in Proc, Evaluate(p) \/ Update(p) \/ Crash(p)
  PROVE  CountedInv'
<1>. USE TxOfAssumption DEF TypeOK, Active, Critical, lockVars, building, ghosts, Step
<1>1. CASE Evaluate(p) \/ CheckApplied(p) \/ ReadBucket(p) \/ Release(p) \/ Crash(p)
  <2>1. /\ UNCHANGED <<bucket, marker, building>> /\ mixed' = mixed
        /\ \A q \in Proc : \/ pc'[q] # "writing"
                           \/ pc[q] = "writing" /\ seen'[q] = seen[q]
                           \/ seen'[q] = bucket
        /\ \A q \in Proc : pc'[q] \in Critical => pc[q] \in Critical
        /\ \A q \in Proc : pc'[q] \in Active => pc[q] \in Active \/ TxOf[q] \in stored
        /\ \A q \in Proc : pc'[q] = "marking" => pc[q] = "marking"
    BY <1>1 DEF Evaluate, CheckApplied, ReadBucket, Release, Crash
  <2>2. \A t \in Key : (Due(t)' => Due(t)) /\ (Touched(t)' => Touched(t))
    BY <2>1 DEF Due, Touched
  <2>. HIDE DEF TypeOK, Active, Critical
  <2>. QED  BY <2>1, <2>2, Harmless
<1>2. CASE Lock(p)
  <2>1. /\ pc[p] = "evaluated" /\ pc' = [pc EXCEPT ![p] = "locked"]
        /\ UNCHANGED <<bucket, marker, seen, building>> /\ mixed \subseteq mixed'
        /\ Others(p) \subseteq mixed'
        /\ (Others(p) # {} \/ Missed(TxOf[p]) => TxOf[p] \in mixed')
    BY <1>2 DEF Lock
  <2>2. OverlapIsMixed'
    BY <2>1 DEF Others, CountedInv, OverlapIsMixed
  <2>3. \A t \in Key : (Due(t)' => Due(t)) /\ (Touched(t)' => Touched(t) \/ t = TxOf[p])
    BY <2>1 DEF Due, Touched
  <2>4. DueIsKept'
    BY <2>1, <2>3 DEF CountedInv, DueIsKept, Kept
  <2>5. WriterHasFound'
    BY <2>1, <2>3, HistoryAssumption DEF CountedInv, WriterHasFound, Missed
  <2>6. StoredFirst' /\ HistoryFound'
    BY <2>1, <2>3 DEF CountedInv, StoredFirst, HistoryFound
  <2>. QED  BY <2>2, <2>4, <2>5, <2>6 DEF CountedInv
<1>3. CASE WriteBucket(p)
  <2>. DEFINE u == TxOf[p]
  <2>1. /\ pc[p] = "writing" /\ pc' = [pc EXCEPT ![p] = "marking"]
        /\ UNCHANGED <<marker, building, mixed>>
        /\ u \in Key
    BY <1>3 DEF WriteBucket
  <2>2. bucket'[u] >= 1 /\ \A t \in Key \ {u} : bucket'[t] = seen[p][t]
    BY <1>3 DEF WriteBucket, Counts
  <2>3. \A q \in Proc : pc'[q] = "writing" => pc[q] = "writing" /\ seen'[q] = seen[q]
    BY <1>3 DEF WriteBucket
  <2>4. OverlapIsMixed'
    BY <2>1 DEF CountedInv, OverlapIsMixed
  <2>5. \A t \in Key : (Due(t)' => Due(t) \/ t = u) /\ (Touched(t)' => Touched(t))
    BY <2>1 DEF Due, Touched
  <2>6. ASSUME u \notin mixed PROVE Kept(u)'
    <3>1. \A q \in Proc : pc'[q] = "writing" => TxOf[q] = u
      BY <2>1, <2>3, <2>6 DEF CountedInv, OverlapIsMixed
    <3>. QED  BY <2>2, <3>1 DEF Kept
  <2>7. ASSUME NEW t \in Key, t # u, Kept(t) PROVE Kept(t)'
    BY <2>1, <2>2, <2>3, <2>7 DEF Kept
  <2>8. DueIsKept'
    BY <2>1, <2>5, <2>6, <2>7 DEF CountedInv, DueIsKept
  <2>9. WriterHasFound' /\ StoredFirst' /\ HistoryFound'
    BY <2>1, <2>5, HistoryAssumption DEF CountedInv, WriterHasFound, StoredFirst, HistoryFound
  <2>. QED  BY <2>4, <2>8, <2>9 DEF CountedInv
<1>4. CASE SetApplied(p)
  <2>1. /\ pc[p] = "marking" /\ pc' = [pc EXCEPT ![p] = "releasing"]
        /\ UNCHANGED <<bucket, seen, building, mixed>>
        /\ marker' = marker \cup {TxOf[p]}
    BY <1>4 DEF SetApplied
  <2>2. \A t \in Key : (Due(t)' => Due(t)) /\ (Touched(t)' => Touched(t))
    BY <2>1 DEF Due, Touched
  <2>3. /\ \A q \in Proc : pc'[q] = "writing" => pc[q] = "writing"
        /\ \A q \in Proc : pc'[q] \in Critical => pc[q] \in Critical
        /\ \A q \in Proc : pc'[q] \in Active => pc[q] \in Active
    BY <2>1
  <2>. HIDE DEF TypeOK, Active, Critical
  <2>. QED  BY <2>1, <2>2, <2>3, Harmless
<1>. QED
  BY <1>1, <1>2, <1>3, <1>4 DEF Update

LEMMA BuilderCounted ==
  ASSUME TypeOK, CountedInv, NEW b \in Builder, Rebuild(b) \/ CrashBuilder(b)
  PROVE  CountedInv'
<1>. USE TxOfAssumption DEF TypeOK, Critical, lockVars, ghosts, To
<1>1. CASE CheckReady(b) \/ MarkApplied(b) \/ SetReady(b) \/ CrashBuilder(b)
  <2>1. /\ UNCHANGED <<bucket, pc, seen, stored, mixed>>
        /\ \A c \in Builder :
             stage'[c] \in {"writing", "marking", "readying"} =>
               stage[c] \in {"writing", "marking", "readying"} /\ found'[c] = found[c]
        /\ \A c \in Builder : stage'[c] = "writing" => stage[c] = "writing"
        /\ \A c \in Builder :
             stage'[c] \in {"marking", "readying"} => stage[c] \in {"marking", "readying"}
    BY <1>1 DEF CheckReady, MarkApplied, SetReady, CrashBuilder
  <2>2. /\ \A t \in marker' : t \in marker \/ (stage[b] = "marking" /\ t \in found[b])
        /\ ready' => ready \/ stage[b] = "readying"
    BY <1>1 DEF CheckReady, MarkApplied, SetReady, CrashBuilder
  <2>3. \A t \in Key : (Due(t)' => Due(t)) /\ (Touched(t)' => Touched(t))
    BY <2>1, <2>2 DEF Due, Touched, CountedInv, HistoryFound
  <2>. HIDE DEF TypeOK, Critical
  <2>. QED  BY <2>1, <2>3, Harmless
<1>2. CASE ReadHistory(b)
  <2>1. /\ UNCHANGED <<bucket, pc, seen, stored, marker, ready>>
        /\ stage[b] = "reading" /\ stage' = [stage EXCEPT ![b] = "writing"]
        /\ found' = [found EXCEPT ![b] = stored \cap InRange]
        /\ mixed \subseteq mixed'
        /\ \A t \in stored \cap InRange : Missed(t) => t \in mixed'
    BY <1>2 DEF ReadHistory
  <2>2. \A t \in Key : /\ Due(t)' => Due(t)
                       /\ Touched(t)' => Touched(t) \/ t \in stored \cap InRange
    BY <2>1 DEF Due, Touched
  <2>3. OverlapIsMixed' /\ DueIsKept'
    BY <2>1, <2>2 DEF CountedInv, OverlapIsMixed, DueIsKept, Kept
  <2>4. WriterHasFound'
    <3>. SUFFICES ASSUME NEW c \in Builder, NEW t \in InRange, stage'[c] = "writing",
                         found'[c] # {}, Touched(t)', t \notin mixed'
                  PROVE  t \in found'[c]
      BY DEF WriterHasFound
    <3>0. t \in Key
      BY HistoryAssumption
    <3>1. CASE c = b
      BY <2>1, <2>2, <3>0, <3>1 DEF CountedInv, StoredFirst
    <3>2. CASE c # b
      <4>1. stage[c] = "writing" /\ found'[c] = found[c]
        BY <2>1, <3>2
      <4>2. CASE Touched(t)
        BY <2>1, <4>1, <4>2 DEF CountedInv, WriterHasFound
      <4>3. CASE t \in stored \cap InRange
        BY <2>1, <4>1, <4>3 DEF Missed
      <4>. QED  BY <2>2, <3>0, <4>2, <4>3
    <3>. QED  BY <3>1, <3>2
  <2>5. StoredFirst' /\ HistoryFound'
    BY <2>1, <2>2 DEF CountedInv, StoredFirst, HistoryFound
  <2>. QED  BY <2>3, <2>4, <2>5 DEF CountedInv
<1>3. CASE WriteBuckets(b)
  <2>1. /\ UNCHANGED <<pc, seen, stored, marker, ready, found>>
        /\ stage[b] = "writing" /\ stage' = [stage EXCEPT ![b] = "marking"]
        /\ mixed \subseteq mixed'
    BY <1>3 DEF WriteBuckets
  <2>2. \A t \in Key : (Due(t)' => Due(t) \/ t \in found[b]) /\ (Touched(t)' => Touched(t))
    BY <2>1 DEF Due, Touched
  <2>3. OverlapIsMixed' /\ WriterHasFound' /\ StoredFirst' /\ HistoryFound'
    BY <2>1, <2>2, HistoryAssumption
       DEF CountedInv, OverlapIsMixed, WriterHasFound, StoredFirst, HistoryFound
  <2>4. DueIsKept'
    <3>1. CASE found[b] = {}
      <4>1. bucket' = bucket /\ mixed' = mixed
        BY <1>3, <3>1 DEF WriteBuckets
      <4>. QED  BY <2>1, <2>2, <3>1, <4>1 DEF CountedInv, DueIsKept, Kept
    <3>2. ASSUME found[b] # {}, NEW t \in Key, Due(t)', t \notin mixed' PROVE Kept(t)'
      <4>1. /\ bucket' = [v \in Key |-> IF v \in found[b] THEN 1 ELSE 0]
            /\ Counted \ InRange \subseteq mixed'
            /\ (\E p \in Proc : pc[p] = "writing") => found[b] \subseteq mixed'
        BY <1>3, <3>2 DEF WriteBuckets
      <4>2. t \in found[b]
        <5>. SUFFICES ASSUME t \notin found[b] PROVE FALSE
          OBVIOUS
        <5>1. Due(t) /\ Touched(t)
          BY <2>2, <3>2 DEF Due, Touched
        <5>2. t \in InRange
          <6>1. ASSUME t \notin InRange PROVE t \in Counted
            BY <5>1, <6>1 DEF Due, Counted
          <6>. QED  BY <3>2, <4>1, <6>1
        <5>. QED  BY <2>1, <3>2, <5>1, <5>2 DEF CountedInv, WriterHasFound
      <4>. QED  BY <2>1, <3>2, <4>1, <4>2 DEF Kept
    <3>. QED  BY <3>1, <3>2 DEF DueIsKept
  <2>. QED  BY <2>3, <2>4 DEF CountedInv
<1>. QED
  BY <1>1, <1>2, <1>3 DEF Rebuild

LEMMA CountedStep == ASSUME TypeOK, CountedInv, [Next]_vars PROVE CountedInv'
<1>1. ASSUME NEW p \in Proc, Evaluate(p) \/ Update(p) \/ Crash(p) PROVE CountedInv'
  BY <1>1, ProcessCounted
<1>2. ASSUME NEW b \in Builder, Rebuild(b) \/ CrashBuilder(b) PROVE CountedInv'
  BY <1>2, BuilderCounted
<1>3. ASSUME \/ \E t \in Key : Store(t)
             \/ \E k \in Key : ExpireAbandoned(k) \/ ExpireLate(k)
             \/ UNCHANGED vars
      PROVE  CountedInv'
  <2>1. UNCHANGED <<pc, seen, bucket, marker, ready, stage, found, mixed>>
        /\ stored \subseteq stored'
    BY <1>3 DEF Store, ExpireAbandoned, ExpireLate, vars, building, ghosts
  <2>2. \A t \in Key : (Due(t)' => Due(t)) /\ (Touched(t)' => Touched(t))
    BY <2>1 DEF Due, Touched
  <2>. QED  BY <2>1, <2>2, Harmless
<1>. QED  BY <1>1, <1>2, <1>3 DEF Next

(* A transaction that is marked as applied is in the bucket, and a         *)
(* variable that is ready has its history there, whatever processes and    *)
(* builders handle them or die and whatever leases run out, except those   *)
(* that were mixed.  The lock of updateAggregationVariableInternalIfNeeded *)
(* is the transaction's, the bucket the user's, and                        *)
(* rebuildAggregationVariable takes no lock.                               *)
LEMMA CountedHolds == Spec => []CountedInv
<1>1. Spec => []TypeOK  BY TypeCorrect
<1>2. TypeOK /\ CountedInv /\ [Next]_vars => CountedInv'  BY CountedStep
<1>. QED  BY <1>1, <1>2, CountedInit, PTL DEF Spec

(* A transaction that is marked as applied is in the bucket, unless it was *)
(* mixed (updateAggregationVariableInternal: what is marked is skipped     *)
(* from then on).                                                          *)
THEOREM AppliedIsCountedHolds == Spec => []AppliedIsCounted
<1>1. TypeOK /\ CountedInv => AppliedIsCounted
  BY DEF TypeOK, CountedInv, DueIsKept, Due, Kept, AppliedIsCounted
<1>. QED  BY <1>1, TypeCorrect, CountedHolds, PTL

(* A variable that is ready has the history in its bucket, unless it was   *)
(* mixed (setAggregationVariableReady: no builder looks at it again).      *)
THEOREM ReadyHasHistoryHolds == Spec => []ReadyHasHistory
<1>1. CountedInv => ReadyHasHistory
  BY HistoryAssumption DEF CountedInv, DueIsKept, Due, Kept, ReadyHasHistory
<1>. QED  BY <1>1, CountedHolds, PTL
=============================================================================
