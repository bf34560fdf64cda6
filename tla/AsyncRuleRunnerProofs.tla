----------------------- MODULE AsyncRuleRunnerProofs -----------------------
(***************************************************************************)
(* Proofs about AsyncRuleRunner, for every set of invocations, queues and  *)
(* records: types, exclusion, and the refinement of ExclusiveProcessing.   *)
(***************************************************************************)
EXTENDS AsyncRuleRunner, SequenceTheorems, TLAPS

LEMMA LockTypes ==
  ASSUME LockTypeOK, NEW k \in Key
  PROVE  /\ \A w \in Proc : AcquireLock(w, k) => LockTypeOK'
         /\ ReleaseLock(k) => LockTypeOK'
         /\ ExpireLock(k) => LockTypeOK'
BY DEF LockTypeOK, AcquireLock, ReleaseLock, ExpireLock

(* The current record of a busy invocation and its keys are what they say. *)
LEMMA Current ==
  ASSUME TypeOK, NEW w \in Proc, Busy(w)
  PROVE  /\ Cur(w) \in Record
         /\ Slots(w) \subseteq Nat
         /\ \A i \in Slots(w) : SlotKey(w, i) \in Key
BY QueueAssumption DEF TypeOK, Cur, Slots, SlotKey

LEMMA TypeInit == Init => TypeOK
BY QueueAssumption DEF Init, TypeOK, LockInit, LockTypeOK, Busy

LEMMA TypeStep == TypeOK /\ [Next]_vars => TypeOK'
<1> SUFFICES ASSUME TypeOK, [Next]_vars PROVE TypeOK'
  OBVIOUS
<1> USE BoundAssumption DEF lockVars
<1>t. LockTypeOK /\ UNCHANGED lockVars => LockTypeOK'
  BY DEF LockTypeOK
<1>1. ASSUME NEW w \in Proc, NEW g \in Group, Receive(w, g) PROVE TypeOK'
  <2> PICK n \in 1..BatchSize :
        n <= Len(queue[g]) /\ batch' = [batch EXCEPT ![w] = SubSeq(queue[g], 1, n)]
    BY <1>1 DEF Receive
  <2> DEFINE b == SubSeq(queue[g], 1, n)
  <2>1. queue[g] \in Seq(Record) /\ n \in Nat /\ n >= 1
    BY DEF TypeOK
  <2>2. \A i \in 1..n : queue[g][i] \in Record
    BY <2>1
  <2>3. b \in Seq(Record) /\ Len(b) = n
    BY <2>1, <2>2, SubSeqProperties
  <2>4. 1 \in DOMAIN b
    BY <2>1, <2>3
  <2> HIDE DEF b
  <2> QED
    BY <1>1, <1>t, <2>3, <2>4 DEF Receive, TypeOK, Busy, Slots, Cur
<1>2. ASSUME NEW w \in Proc, Busy(w), NEW i \in Slots(w), Lock(w, i) PROVE TypeOK'
  <2>1. LockTypeOK'
    BY <1>2, LockTypes, Current DEF Lock, TypeOK
  <2> QED
    BY <1>2, <2>1, Current DEF Lock, TypeOK, Busy, Slots, Cur
<1>3. ASSUME NEW w \in Proc, StartRules(w) PROVE TypeOK'
  BY <1>3, <1>t DEF StartRules, TypeOK, Busy, Slots, Cur
<1>4. ASSUME NEW w \in Proc, Busy(w), FinishRules(w) PROVE TypeOK'
  BY <1>4, <1>t, Current DEF FinishRules, Running, TypeOK, Busy, Slots, Cur
<1>5. ASSUME NEW w \in Proc, Busy(w), NEW i \in got[w], Unlock(w, i) PROVE TypeOK'
  <2>1. i \in Slots(w)
    BY <1>5 DEF TypeOK
  <2>2. LockTypeOK'
    BY <1>5, <2>1, LockTypes, Current DEF Unlock, TypeOK
  <2> QED
    BY <1>5, <2>2 DEF Unlock, StillHeld, TypeOK, Busy, Slots, Cur
<1>6. ASSUME NEW w \in Proc, Busy(w), NextRecord(w) PROVE TypeOK'
  BY <1>6, <1>t DEF NextRecord, Handled, TypeOK, Busy, Slots, Cur
<1>7. ASSUME NEW w \in Proc, Busy(w), Return(w) PROVE TypeOK'
  <2>1. \A g \in Group : queue'[g] \in Seq(Record)
    <3> SUFFICES ASSUME NEW g \in Group PROVE queue'[g] \in Seq(Record)
      OBVIOUS
    <3>1. queue[g] \in Seq(Record) /\ Len(batch[w]) \in Nat
      BY DEF TypeOK
    <3>2. \A i \in (Len(batch[w]) + 1)..Len(queue[g]) : queue[g][i] \in Record
      BY <3>1
    <3>3. SubSeq(queue[g], Len(batch[w]) + 1, Len(queue[g])) \in Seq(Record)
      BY <3>1, <3>2, SubSeqProperties
    <3> QED
      BY <1>7, <3>1, <3>3 DEF Return
  <2>2. queue' \in [Group -> Seq(Record)]
    BY <1>7, <2>1 DEF Return
  <2> QED
    BY <1>7, <1>t, <2>2 DEF Return, Handled, TypeOK, Busy, Slots, Cur
<1>8. ASSUME NEW w \in Proc, Fail(w) PROVE TypeOK'
  BY <1>8, <1>t DEF Fail, StillHeld, TypeOK, Busy, Slots, Cur
<1>9. ASSUME NEW k \in Key, ExpireAbandoned(k) \/ ExpireWaiting(k) \/ ExpireRunning(k)
      PROVE  TypeOK'
  <2>1. LockTypeOK'
    BY <1>9, LockTypes DEF ExpireAbandoned, ExpireWaiting, ExpireRunning, TypeOK
  <2> QED
    BY <1>9, <2>1
       DEF ExpireAbandoned, ExpireWaiting, ExpireRunning, runnerVars, TypeOK, Busy, Slots, Cur
<1>10. CASE UNCHANGED vars
  BY <1>10, <1>t DEF vars, runnerVars, TypeOK, Busy, Slots, Cur
<1> QED
  BY <1>1, <1>2, <1>3, <1>4, <1>5, <1>6, <1>7, <1>8, <1>9, <1>10 DEF Next, Handle

(* Every reachable state has the shape the declarations promise; a busy    *)
(* invocation is at a record of its batch and holds only slots of it.      *)
THEOREM TypeCorrect == Spec => []TypeOK
BY TypeInit, TypeStep, PTL DEF Spec

-----------------------------------------------------------------------------
(* Exclusion.  The item of a key that has not lapsed belongs to the one    *)
(* slot that believes to hold it.                                          *)
OwnedIsLive == \A k \in Key : owner[k] # {} => item[k] = "live"

HolderOwns ==
  \A w \in Proc : Busy(w) =>
    \A i \in got[w] : SlotKey(w, i) \notin lapsed => owner[SlotKey(w, i)] = {w}

SlotsDiffer ==
  \A w \in Proc : Busy(w) =>
    \A i, j \in got[w] :
      SlotKey(w, i) = SlotKey(w, j) /\ SlotKey(w, i) \notin lapsed => i = j

RunningHoldsAll == \A w \in Proc : Running(w) => got[w] = Slots(w)

Held == OwnedIsLive /\ HolderOwns /\ SlotsDiffer /\ RunningHoldsAll
IInv == TypeOK /\ Held

LEMMA HeldInit == Init => Held
BY DEF Init, Held, LockInit, OwnedIsLive, HolderOwns, SlotsDiffer, RunningHoldsAll, Busy, Running

LEMMA HeldExclusive == IInv => ExclusiveUnlessLapsed
<1> SUFFICES ASSUME IInv, NEW v \in Proc, NEW w \in Proc, v # w, Running(v), Running(w),
                    NEW k \in Keys(Cur(v)) \cap Keys(Cur(w)), k \notin lapsed
             PROVE  FALSE
  BY DEF ExclusiveUnlessLapsed
<1>1. PICK i \in Slots(v) : SlotKey(v, i) = k
  BY DEF Keys, Slots, SlotKey
<1>2. PICK j \in Slots(w) : SlotKey(w, j) = k
  BY DEF Keys, Slots, SlotKey
<1>3. owner[k] = {v} /\ owner[k] = {w}
  BY <1>1, <1>2 DEF IInv, Held, HolderOwns, RunningHoldsAll, Running, Busy
<1> QED
  BY <1>3

LEMMA HeldStep ==
  ASSUME IInv, [Next]_vars
  PROVE  IInv'
<1> USE DEF lockVars, Busy, Running
<1>0. TypeOK /\ TypeOK'
  BY TypeStep DEF IInv
<1>i. OwnedIsLive /\ HolderOwns /\ SlotsDiffer /\ RunningHoldsAll
  BY DEF IInv, Held
<1>f. ASSUME NEW w \in Proc, got[w] = {}, pc'[w] # "running",
             UNCHANGED <<item, owner, got, lapsed>>,
             \A v \in Proc \ {w} : pc'[v] = pc[v] /\ batch'[v] = batch[v] /\ at'[v] = at[v]
      PROVE  Held'
  <2>1. \A v \in Proc \ {w} : Slots(v)' = Slots(v) /\ \A j : SlotKey(v, j)' = SlotKey(v, j)
    BY <1>f DEF SlotKey, Slots, Cur
  <2>2. OwnedIsLive' /\ RunningHoldsAll'
    BY <1>f, <1>i, <2>1 DEF OwnedIsLive, RunningHoldsAll
  <2>3. HolderOwns' /\ SlotsDiffer'
    BY <1>f, <1>i, <2>1 DEF HolderOwns, SlotsDiffer
  <2> QED
    BY <2>2, <2>3 DEF Held
<1>1. ASSUME NEW w \in Proc, NEW g \in Group, Receive(w, g) PROVE Held'
  BY <1>0, <1>1, <1>f DEF Receive, TypeOK
<1>2. ASSUME NEW w \in Proc, NEW i \in Slots(w), Busy(w), Lock(w, i) PROVE Held'
  <2> DEFINE k == SlotKey(w, i)
  <2>1. /\ k \in Key
        /\ owner[k] = {} 
    BY <1>0, <1>2, <1>i, Current DEF Lock, AcquireLock, Available, OwnedIsLive
  <2>2. \A v \in Proc : Busy(v) => \A j \in got[v] : SlotKey(v, j) = k => k \in lapsed
    BY <1>i, <2>1 DEF HolderOwns
  <2>3. /\ owner' = [owner EXCEPT ![k] = {w}]
        /\ item' = [item EXCEPT ![k] = "live"]
        /\ got' = [got EXCEPT ![w] = @ \cup {i}]
        /\ UNCHANGED <<batch, at, pc, lapsed>>
    BY <1>2 DEF Lock, AcquireLock
  <2>4. \A v \in Proc : \A j : SlotKey(v, j)' = SlotKey(v, j) /\ Slots(v)' = Slots(v)
    BY <2>3 DEF SlotKey, Slots, Cur
  <2>5. OwnedIsLive'
    BY <1>0, <1>i, <2>1, <2>3 DEF OwnedIsLive, TypeOK, LockTypeOK
  <2>6. HolderOwns'
    <3> SUFFICES ASSUME NEW v \in Proc, pc[v] # "idle", NEW j \in got'[v],
                        SlotKey(v, j) \notin lapsed
                 PROVE  owner'[SlotKey(v, j)] = {v}
      BY <2>3, <2>4 DEF HolderOwns
    <3>1. j \in got[v] \/ (v = w /\ j = i)
      BY <1>0, <2>3 DEF TypeOK
    <3>2. SlotKey(v, j) \in Key
      BY <1>0, <3>1, <2>1, Current DEF TypeOK
    <3>3. CASE j \in got[v]
      BY <1>0, <1>i, <2>2, <2>3, <3>2, <3>3 DEF HolderOwns, TypeOK, LockTypeOK
    <3>4. CASE v = w /\ j = i
      BY <1>0, <2>1, <2>3, <3>4 DEF TypeOK, LockTypeOK
    <3> QED
      BY <3>1, <3>3, <3>4
  <2>7. SlotsDiffer'
    BY <1>0, <1>i, <2>2, <2>3, <2>4 DEF SlotsDiffer, TypeOK
  <2>8. RunningHoldsAll'
    BY <1>0, <1>2, <1>i, <2>3, <2>4 DEF Lock, RunningHoldsAll, TypeOK
  <2> QED
    BY <2>5, <2>6, <2>7, <2>8 DEF Held
<1>3. ASSUME NEW w \in Proc, StartRules(w) PROVE Held'
  BY <1>0, <1>3, <1>i
     DEF StartRules, TypeOK, Held, OwnedIsLive, HolderOwns, SlotsDiffer, RunningHoldsAll, SlotKey, Slots, Cur
<1>4. ASSUME NEW w \in Proc, FinishRules(w) PROVE Held'
  BY <1>0, <1>4, <1>i
     DEF FinishRules, TypeOK, Held, OwnedIsLive, HolderOwns, SlotsDiffer, RunningHoldsAll, SlotKey, Slots, Cur
<1>5. ASSUME NEW w \in Proc, NEW i \in got[w], Busy(w), Unlock(w, i) PROVE Held'
  <2> DEFINE k == SlotKey(w, i)
  <2>1. /\ owner' = [owner EXCEPT ![k] = {}]
        /\ item' = [item EXCEPT ![k] = "absent"]
        /\ got' = [got EXCEPT ![w] = @ \ {i}]
        /\ UNCHANGED <<batch, at, pc>>
        /\ lapsed' = {l \in lapsed : \E v \in Proc : Holds(v, l)'}
    BY <1>5 DEF Unlock, ReleaseLock, StillHeld
  <2>2. \A v \in Proc : \A j : SlotKey(v, j)' = SlotKey(v, j) /\ Slots(v)' = Slots(v)
    BY <2>1 DEF SlotKey, Slots, Cur
  <2>3. k \in Key
    BY <1>0, <1>5, Current DEF TypeOK
  <2>4. \A v \in Proc : \A j \in got'[v] :
          pc[v] # "idle" /\ SlotKey(v, j) \notin lapsed' => SlotKey(v, j) \notin lapsed
    BY <2>1, <2>2 DEF Holds
  <2>5. \A v \in Proc : got'[v] \subseteq got[v]
    BY <1>0, <2>1 DEF TypeOK
  <2>6. \A v \in Proc : \A j \in got'[v] :
          pc[v] # "idle" /\ SlotKey(v, j) \notin lapsed' => SlotKey(v, j) # k
    <3> SUFFICES ASSUME NEW v \in Proc, NEW j \in got'[v], pc[v] # "idle",
                        SlotKey(v, j) \notin lapsed, SlotKey(v, j) = k
                 PROVE  FALSE
      BY <2>4
    <3>1. v = w
      BY <1>5, <1>i, <2>5 DEF HolderOwns
    <3>2. j = i
      BY <1>5, <1>i, <2>5, <3>1 DEF SlotsDiffer
    <3> QED
      BY <1>0, <2>1, <3>1, <3>2 DEF TypeOK
  <2>7. OwnedIsLive'
    BY <1>0, <1>i, <2>1 DEF OwnedIsLive, TypeOK, LockTypeOK
  <2>8. HolderOwns'
    <3> SUFFICES ASSUME NEW v \in Proc, pc[v] # "idle", NEW j \in got'[v],
                        SlotKey(v, j) \notin lapsed'
                 PROVE  owner'[SlotKey(v, j)] = {v}
      BY <2>1, <2>2 DEF HolderOwns
    <3>1. owner[SlotKey(v, j)] = {v}
      BY <1>i, <2>4, <2>5 DEF HolderOwns
    <3>2. SlotKey(v, j) # k /\ SlotKey(v, j) \in Key
      BY <1>0, <2>5, <2>6, Current DEF TypeOK
    <3> QED
      BY <1>0, <2>1, <3>1, <3>2 DEF TypeOK, LockTypeOK
  <2>9. SlotsDiffer'
    <3> SUFFICES ASSUME NEW v \in Proc, pc[v] # "idle", NEW j \in got'[v], NEW l \in got'[v],
                        SlotKey(v, j) = SlotKey(v, l), SlotKey(v, j) \notin lapsed'
                 PROVE  j = l
      BY <2>1, <2>2 DEF SlotsDiffer
    <3> QED
      BY <1>i, <2>4, <2>5 DEF SlotsDiffer
  <2>10. RunningHoldsAll'
    BY <1>0, <1>5, <1>i, <2>1, <2>2 DEF Unlock, RunningHoldsAll, TypeOK
  <2> QED
    BY <2>7, <2>8, <2>9, <2>10 DEF Held
<1>6. ASSUME NEW w \in Proc, NextRecord(w) PROVE Held'
  BY <1>0, <1>6, <1>f DEF NextRecord, Handled, TypeOK
<1>7. ASSUME NEW w \in Proc, Return(w) PROVE Held'
  BY <1>0, <1>7, <1>f DEF Return, Handled, TypeOK
<1>8. ASSUME NEW w \in Proc, Fail(w) PROVE Held'
  <2>1. /\ UNCHANGED <<item, owner, at>>
        /\ got' = [got EXCEPT ![w] = {}]
        /\ batch' = [batch EXCEPT ![w] = <<>>]
        /\ pc' = [pc EXCEPT ![w] = "idle"]
        /\ lapsed' = {l \in lapsed : \E v \in Proc : Holds(v, l)'}
    BY <1>8 DEF Fail, StillHeld
  <2>2. \A v \in Proc : pc'[v] # "idle" =>
          /\ v # w /\ pc'[v] = pc[v] /\ got'[v] = got[v] /\ Slots(v)' = Slots(v)
          /\ \A j : SlotKey(v, j)' = SlotKey(v, j)
    BY <1>0, <2>1 DEF TypeOK, SlotKey, Slots, Cur
  <2>3. \A v \in Proc : \A j \in got'[v] :
          pc'[v] # "idle" /\ SlotKey(v, j)' \notin lapsed' => SlotKey(v, j) \notin lapsed
    BY <2>1, <2>2 DEF Holds
  <2>4. OwnedIsLive'
    BY <1>i, <2>1 DEF OwnedIsLive
  <2>5. HolderOwns'
    BY <1>i, <2>1, <2>2, <2>3 DEF HolderOwns
  <2>6. SlotsDiffer'
    BY <1>i, <2>2, <2>3 DEF SlotsDiffer
  <2>7. RunningHoldsAll'
    BY <1>i, <2>2 DEF RunningHoldsAll
  <2> QED
    BY <2>4, <2>5, <2>6, <2>7 DEF Held
<1>9. ASSUME NEW k \in Key, ExpireAbandoned(k) \/ ExpireWaiting(k) \/ ExpireRunning(k)
      PROVE  Held'
  <2>1. /\ owner' = [owner EXCEPT ![k] = {}]
        /\ item' = [item EXCEPT ![k] = "expired"]
        /\ UNCHANGED <<batch, at, pc, got>>
        /\ lapsed \subseteq lapsed'
        /\ (k \in lapsed' \/ \A v \in Proc : ~Holds(v, k))
    BY <1>9 DEF ExpireAbandoned, ExpireWaiting, ExpireRunning, ExpireLock, runnerVars
  <2>2. \A v \in Proc : \A j : SlotKey(v, j)' = SlotKey(v, j) /\ Slots(v)' = Slots(v)
    BY <2>1 DEF SlotKey, Slots, Cur
  <2>3. \A v \in Proc : \A j \in got[v] : pc[v] # "idle" /\ SlotKey(v, j) \notin lapsed' => SlotKey(v, j) # k
    BY <2>1 DEF Holds
  <2>4. OwnedIsLive'
    BY <1>0, <1>i, <2>1 DEF OwnedIsLive, TypeOK, LockTypeOK
  <2>5. HolderOwns'
    <3> SUFFICES ASSUME NEW v \in Proc, pc[v] # "idle", NEW j \in got[v],
                        SlotKey(v, j) \notin lapsed'
                 PROVE  owner'[SlotKey(v, j)] = {v}
      BY <2>1, <2>2 DEF HolderOwns
    <3>1. SlotKey(v, j) # k /\ SlotKey(v, j) \in Key
      BY <1>0, <2>3, Current DEF TypeOK
    <3> QED
      BY <1>0, <1>i, <2>1, <3>1 DEF HolderOwns, TypeOK, LockTypeOK
  <2>6. SlotsDiffer' /\ RunningHoldsAll'
    BY <1>i, <2>1, <2>2 DEF SlotsDiffer, RunningHoldsAll
  <2> QED
    BY <2>4, <2>5, <2>6 DEF Held
<1>10. ASSUME UNCHANGED vars PROVE Held'
  BY <1>10, <1>i
     DEF vars, runnerVars, Held, OwnedIsLive, HolderOwns, SlotsDiffer, RunningHoldsAll, SlotKey, Slots, Cur
<1>11. Held'
  BY <1>1, <1>2, <1>3, <1>4, <1>5, <1>6, <1>7, <1>8, <1>9, <1>10 DEF IInv, Next, Handle
<1> QED
  BY <1>0, <1>11 DEF IInv

(* Whatever the failures, the late releases and the order in which keys    *)
(* are taken, rules of two records with a common user run at the same time *)
(* only after a lease of that user ran out under one of its holders.       *)
THEOREM Exclusion == Spec => []ExclusiveUnlessLapsed
<1>1. Init => IInv
  BY TypeInit, HeldInit DEF IInv
<1>2. IInv /\ [Next]_vars => IInv'
  BY HeldStep
<1> QED
  BY <1>1, <1>2, HeldExclusive, PTL DEF Spec

-----------------------------------------------------------------------------
(* Refinement.  The mapping shows who runs which record.                  *)
RunningSet == {<<w, Cur(w)>> : w \in {v \in Proc : Running(v)}}

(* ExclusiveUnlessLapsed is what the abstract specification keeps.         *)
LEMMA Mapped ==
  ASSUME TypeOK, ExclusiveUnlessLapsed
  PROVE  Exclusive!Excludes /\ RunningSet \subseteq Proc \X Record
<1>1. \A w \in Proc : Running(w) => Cur(w) \in Record
  BY Current DEF Running, Busy
<1>2. ASSUME NEW v \in Proc, NEW w \in Proc, Running(v), Running(w),
             <<v, Cur(v)>> # <<w, Cur(w)>>
      PROVE  Exclusive!Common(<<v, Cur(v)>>, <<w, Cur(w)>>) \subseteq lapsed
  <2>1. Exclusive!Common(<<v, Cur(v)>>, <<w, Cur(w)>>) = Keys(Cur(v)) \cap Keys(Cur(w))
    BY <1>1, <1>2 DEF Exclusive!Common
  <2>2. v # w
    BY <1>2
  <2> QED
    BY <1>2, <2>1, <2>2 DEF ExclusiveUnlessLapsed
<1>3. Exclusive!Excludes
  BY <1>2 DEF Exclusive!Excludes
<1> QED
  BY <1>1, <1>3 DEF RunningSet

(* A step after which the same invocations run the same records.           *)
LEMMA SameRunning ==
  ASSUME NEW w \in Proc, ~Running(w), ~Running(w)',
         \A v \in Proc \ {w} : pc'[v] = pc[v] /\ batch'[v] = batch[v] /\ at'[v] = at[v]
  PROVE  RunningSet' = RunningSet
<1>1. \A v \in Proc : Running(v)' <=> Running(v)
  BY DEF Running
<1>2. \A v \in Proc : Running(v) => Cur(v)' = Cur(v)
  BY DEF Running, Cur
<1> QED
  BY <1>1, <1>2 DEF RunningSet

(* A step by which one invocation stops running its record.                *)
LEMMA StopsRunning ==
  ASSUME TypeOK, NEW w \in Proc, Running(w), ~Running(w)',
         \A v \in Proc \ {w} : pc'[v] = pc[v] /\ batch'[v] = batch[v] /\ at'[v] = at[v]
  PROVE  /\ Cur(w) \in Record
         /\ <<w, Cur(w)>> \in RunningSet
         /\ RunningSet' = RunningSet \ {<<w, Cur(w)>>}
<1>1. \A v \in Proc : Running(v)' <=> Running(v) /\ v # w
  BY DEF Running
<1>2. \A v \in Proc \ {w} : Cur(v)' = Cur(v)
  BY DEF Cur
<1>3. Cur(w) \in Record
  BY Current DEF Running, Busy
<1> QED
  BY <1>1, <1>2, <1>3 DEF RunningSet

LEMMA StepRefines ==
  ASSUME IInv, IInv', [Next]_vars
  PROVE  [Exclusive!Next]_(Exclusive!vars)
<1> USE DEF RunningSet
<1>0. TypeOK /\ ExclusiveUnlessLapsed
  BY HeldExclusive DEF IInv
<1>x. TypeOK' /\ ExclusiveUnlessLapsed'
  BY HeldExclusive, PTL DEF IInv
<1>e. Exclusive!Excludes'
  BY <1>x, Mapped, PTL
<1>c. ASSUME RunningSet' = RunningSet, ran' = ran, lapsed' = lapsed
      PROVE  UNCHANGED Exclusive!vars
  BY <1>c DEF Exclusive!vars
<1>r. ASSUME RunningSet' = RunningSet, ran' = ran, lapsed' \subseteq lapsed
      PROVE  Exclusive!Next
  BY <1>e, <1>r DEF Exclusive!Next, Exclusive!Release, Exclusive!Recover
<1>1. ASSUME NEW w \in Proc, NEW g \in Group, Receive(w, g)
      PROVE  UNCHANGED Exclusive!vars
  <2> RunningSet' = RunningSet
    BY <1>0, <1>1, SameRunning DEF Receive, Busy, Running, TypeOK
  <2> QED
    BY <1>1, <1>c DEF Receive
<1>2. ASSUME NEW w \in Proc, NEW i \in Slots(w), Lock(w, i) PROVE UNCHANGED Exclusive!vars
  BY <1>2, <1>c DEF Lock, Running, Cur
<1>3. ASSUME NEW w \in Proc, StartRules(w) PROVE Exclusive!Next
  <2>0. PICK r \in Record : r = Cur(w)
    BY <1>0, <1>3, Current DEF StartRules, Busy
  <2>1. Cur(w)' = r /\ ~Running(w) /\ Running(w)'
    BY <1>0, <1>3, <2>0 DEF StartRules, Busy, Running, Cur, TypeOK
  <2>2. \A v \in Proc : (Running(v)' <=> Running(v) \/ v = w) /\ Cur(v)' = Cur(v)
    BY <1>0, <1>3 DEF StartRules, Running, Cur, TypeOK
  <2>3. RunningSet' = RunningSet \cup {<<w, r>>}
    BY <2>0, <2>2
  <2>4. ASSUME NEW v \in Proc, Running(v)
        PROVE  v # w /\ Exclusive!Common(<<v, Cur(v)>>, <<w, r>>) \subseteq lapsed
    <3>1. v # w /\ Running(v)' /\ Cur(v)' = Cur(v) /\ Cur(v) \in Record
      BY <1>0, <2>1, <2>2, <2>4, Current DEF Running, Busy
    <3>2. Keys(Cur(v))' \cap Keys(Cur(w))' \subseteq lapsed'
      BY <1>x, <2>1, <3>1 DEF ExclusiveUnlessLapsed
    <3>3. Keys(Cur(v))' = Keys(Cur(v)) /\ Keys(Cur(w))' = Keys(r)
      BY <2>1, <3>1 DEF Keys
    <3>4. Keys(Cur(v)) \cap Keys(r) \subseteq lapsed
      BY <1>3, <3>2, <3>3 DEF StartRules
    <3> QED
      BY <2>1, <3>1, <3>4 DEF Exclusive!Common
  <2>5. Exclusive!Start(w, r)
    BY <1>3, <2>3, <2>4 DEF Exclusive!Start, StartRules
  <2> QED
    BY <2>5 DEF Exclusive!Next
<1>5. ASSUME NEW w \in Proc, FinishRules(w) PROVE Exclusive!Next
  <2>1. PICK r \in Record :
          /\ r = Cur(w)
          /\ <<w, r>> \in RunningSet
          /\ RunningSet' = RunningSet \ {<<w, r>>}
    BY <1>0, <1>5, StopsRunning DEF FinishRules, Running, TypeOK
  <2>2. Exclusive!Finish(w, r)
    BY <1>5, <2>1 DEF FinishRules, Exclusive!Finish
  <2> QED
    BY <2>2 DEF Exclusive!Next
<1>6. ASSUME NEW w \in Proc, NEW i \in got[w], Unlock(w, i) PROVE Exclusive!Next
  BY <1>6, <1>r DEF Unlock, Running, Cur, StillHeld
<1>7. ASSUME NEW w \in Proc, NextRecord(w) \/ Return(w) PROVE UNCHANGED Exclusive!vars
  <2> RunningSet' = RunningSet
    BY <1>0, <1>7, SameRunning DEF NextRecord, Return, Handled, Running, TypeOK
  <2> QED
    BY <1>7, <1>c DEF NextRecord, Return
<1>8. ASSUME NEW w \in Proc, Fail(w) PROVE Exclusive!Next
  <2>0. ran' = ran /\ lapsed' \subseteq lapsed
    BY <1>8 DEF Fail, StillHeld
  <2>1. CASE Running(w)
    <3>1. PICK r \in Record :
            /\ r = Cur(w)
            /\ <<w, r>> \in RunningSet
            /\ RunningSet' = RunningSet \ {<<w, r>>}
      BY <1>0, <1>8, <2>1, StopsRunning DEF Fail, Running, TypeOK
    <3>2. Exclusive!Abort(w, r)
      BY <1>e, <2>0, <3>1 DEF Exclusive!Abort, Exclusive!Recover
    <3> QED
      BY <3>2 DEF Exclusive!Next
  <2>2. CASE ~Running(w)
    <3> RunningSet' = RunningSet
      BY <1>0, <1>8, <2>2, SameRunning DEF Fail, Running, TypeOK
    <3> QED
      BY <1>r, <2>0
  <2> QED
    BY <2>1, <2>2
<1>9. ASSUME NEW k \in Key, ExpireWaiting(k) \/ ExpireRunning(k) PROVE Exclusive!Next
  <2>1. Exclusive!Lapse(k)
    BY <1>9 DEF ExpireWaiting, ExpireRunning, runnerVars, Running, Cur, Exclusive!Lapse
  <2> QED
    BY <2>1 DEF Exclusive!Next
<1>10. ASSUME NEW k \in Key, ExpireAbandoned(k) PROVE UNCHANGED Exclusive!vars
  BY <1>10, <1>c DEF ExpireAbandoned, runnerVars, Running, Cur
<1>11. CASE UNCHANGED vars
  BY <1>11, <1>c DEF vars, runnerVars, Running, Cur
<1> QED
  BY <1>1, <1>2, <1>3, <1>5, <1>6, <1>7, <1>8, <1>9, <1>10, <1>11 DEF Next, Handle

(* The runner implements ExclusiveProcessing for every number of users per *)
(* record and however many leases run out: each step of asyncRuleRunner-   *)
(* Handler is a step of the abstract specification or a stutter.           *)
THEOREM RunnerRefinesExclusive == Spec => ProcessesExclusively
<1>1. Init => IInv
  BY TypeInit, HeldInit DEF IInv
<1>2. IInv /\ [Next]_vars => IInv'
  BY HeldStep
<1>3. Init => Exclusive!Init
  BY DEF Init, Exclusive!Init, Running
<1>4. IInv /\ IInv' /\ [Next]_vars => [Exclusive!Next]_(Exclusive!vars)
  BY StepRefines
<1> QED
  BY <1>1, <1>2, <1>3, <1>4, PTL DEF Spec, ProcessesExclusively, Exclusive!Spec
=============================================================================
