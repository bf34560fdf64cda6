------------------------- MODULE CaseCreationProofs -------------------------
(***************************************************************************)
(* For any number of consumers, transactions, versions, users and cases.   *)
(*                                                                         *)
(*   LostUpdates    IInv: who is in a critical section owns its lock until *)
(*                  a lease runs out, so whatever is lost under it is lost *)
(*                  to a writer that does not take it.  Nothing in IInv    *)
(*                  looks into a document.                                 *)
(*   DocsInv        what the documents are, those in the database and those*)
(*                  the consumers have in hand: a write of a case has what *)
(*                  the copy it was made from had.  Rests on IInv, and is  *)
(*                  what the following four rest on.                       *)
(*   OneCase        HomeInv: every alert has one home, the case it is in,  *)
(*                  here or in somebody's copy, or the new case that       *)
(*                  somebody is about to write.                            *)
(*   HitsStay       HitsInv: a hit of a group gone through is settled: it  *)
(*                  is in an alert, or was taken for a duplicate.  One of  *)
(*                  the group that is written is settled, or in an alert   *)
(*                  of a document about to be written.                     *)
(*   NoTwins        TwinsInv: who is about to write a new case has found   *)
(*                  no open one, and holds the lock.                       *)
(*   ClosedAreDone  ClosedInv: who has closed a case is about to close the *)
(*                  alerts that were open in it.                           *)
(*   TypeCorrect    all of these give the type invariant.                  *)
(***************************************************************************)
EXTENDS CaseCreation, SequenceLemmas, FiniteSetTheorems

(* DomainsOK == the parts of the type invariant the argument needs.        *)
DomainsOK ==
  /\ LockTypeOK
  /\ caseCount \in Nat
  /\ DOMAIN cases = 1..caseCount
  /\ DOMAIN writer = 1..caseCount
  /\ stored \in [Txn -> Nat]
  /\ pc \in [Proc -> {"idle", "locking", "reading", "writing", "unlocking",
                      "relating"}]
  /\ DOMAIN job = Proc
  /\ at \in [Proc -> Nat]
  /\ DOMAIN todo = Proc

(* A busy consumer is at a case group of the stored version.               *)
AtGroup ==
  \A p \in Proc :
    Busy(p) => /\ job[p] \in Txn
               /\ stored[job[p]] \in DOMAIN Groups[job[p]]
               /\ at[p] \in DOMAIN CurGroups(p)

(* A transaction has one consumer.                                         *)
OneConsumer ==
  \A p, q \in Proc : Busy(p) /\ Busy(q) /\ job[p] = job[q] => p = q

(* Until a lease runs out, whoever is in the critical section owns the     *)
(* lock of its group.                                                      *)
OwnsLock ==
  \A p \in Proc :
    HasLock(p) => \/ lapsed
                  \/ /\ item[Group(p).key] = "live"
                     /\ owner[Group(p).key] = {p}

(* A document was written by somebody else since it was read only if that  *)
(* was a writer without the lock of the group.                             *)
Explained(w, key) ==
  \/ lapsed
  \/ w.base = <<cases[w.id]>>
  \/ writer[w.id].by \in {"relating", "person"}
  \/ writer[w.id].key # {key}

(* What a consumer is about to write is a document that is in the          *)
(* database, read under the lock, or a new one, and after it only new ones.*)
CopyExplained(p) ==
  \E w : /\ \/ todo[p] = <<w>>
            \/ \E rest : todo[p] = <<w, rest>> /\ rest.id = 0
         /\ \/ w.id = 0
            \/ (w.id \in 1..caseCount /\ Explained(w, Group(p).key))

CopiesExplained == \A p \in Proc : pc[p] = "writing" => CopyExplained(p)

IInv == /\ DomainsOK
        /\ AtGroup
        /\ OneConsumer
        /\ OwnsLock
        /\ CopiesExplained
        /\ LostUpdateHasCause
-----------------------------------------------------------------------------
LEMMA GroupHasKey ==
  ASSUME DomainsOK, AtGroup, NEW p \in Proc, Busy(p)
  PROVE  Group(p).key \in Key
<1>1. job[p] \in Txn
  BY DEF AtGroup
<1>2. Groups[job[p]] \in Seq(Seq(CaseGroup))
  BY <1>1, SubjectAssumption
<1>3. CurGroups(p) \in Seq(CaseGroup)
  BY <1>2 DEF AtGroup, CurGroups
<1>4. Group(p) \in CaseGroup
  BY <1>3 DEF AtGroup, Group
<1>. QED  BY <1>4 DEF CaseGroup

(* No step but its own moves a busy consumer to another group.             *)
LEMMA GroupKept ==
  ASSUME NEW p \in Proc, job'[p] = job[p], at'[p] = at[p],
         stored'[job[p]] = stored[job[p]]
  PROVE  CurGroups(p)' = CurGroups(p) /\ Group(p)' = Group(p)
BY DEF CurGroups, Group

LEMMA CopyKept ==
  ASSUME NEW p \in Proc, CopyExplained(p), todo'[p] = todo[p],
         Group(p)' = Group(p), cases' = cases, caseCount' = caseCount,
         writer' = writer, lapsed' \in {lapsed, TRUE}
  PROVE  CopyExplained(p)'
<1>1. PICK w : /\ \/ todo[p] = <<w>>
                  \/ \E rest : todo[p] = <<w, rest>> /\ rest.id = 0
               /\ \/ w.id = 0
                  \/ (w.id \in 1..caseCount /\ Explained(w, Group(p).key))
  BY DEF CopyExplained
<1>2. w.id = 0 \/ (w.id \in 1..caseCount' /\ Explained(w, Group(p).key)')
  <2>1. CASE w.id = 0
    BY <2>1
  <2>2. CASE w.id \in 1..caseCount /\ Explained(w, Group(p).key)
    <3>1. lapsed => lapsed'
      OBVIOUS
    <3>2. \/ lapsed'
          \/ w.base = <<cases'[w.id]>>
          \/ writer'[w.id].by \in {"relating", "person"}
          \/ writer'[w.id].key # {Group(p)'.key}
      BY <2>2, <3>1, Zenon DEF Explained
    <3>. QED  BY <2>2, <3>2 DEF Explained
  <2>. QED  BY <1>1, <2>1, <2>2
<1>. QED  BY <1>1, <1>2 DEF CopyExplained

LEMMA LockKeepsType ==
  ASSUME LockTypeOK, NEW p \in Proc, NEW k \in Key,
         AcquireLock(p, k) \/ ReleaseLock(k) \/ ExpireLock(k)
  PROVE  LockTypeOK'
BY DEF LockTypeOK, AcquireLock, ReleaseLock, ExpireLock

LEMMA InitIInv == Init => IInv
<1>. SUFFICES ASSUME Init PROVE IInv
  OBVIOUS
<1>1. DomainsOK
  <2>1. LockTypeOK
    BY DEF Init, LockInit, LockTypeOK
  <2>. QED  BY <2>1 DEF Init, DomainsOK
<1>2. \A p \in Proc : pc[p] = "idle"
  BY DEF Init
<1>. QED
  BY <1>1, <1>2 DEF Init, IInv, AtGroup, OneConsumer, OwnsLock, HasLock, Busy,
     CopiesExplained, LostUpdateHasCause

(* A step that leaves all this alone, as those of the person's that write  *)
(* nothing.                                                                *)
relevant == <<lockVars, cases, caseCount, stored, pc, job, at, todo, lapsed,
              writer, overwritten>>

LEMMA Irrelevant ==
  ASSUME IInv, UNCHANGED relevant
  PROVE  IInv'
<1>. USE DEF relevant, lockVars
<1>1. DomainsOK'
  BY DEF IInv, DomainsOK, LockTypeOK
<1>2. \A p \in Proc : CurGroups(p)' = CurGroups(p) /\ Group(p)' = Group(p)
  BY DEF CurGroups, Group
<1>3. AtGroup' /\ OneConsumer'
  BY <1>2 DEF IInv, AtGroup, OneConsumer, Busy
<1>4. OwnsLock'
  BY <1>2 DEF IInv, OwnsLock, HasLock
<1>5. CopiesExplained'
  BY <1>2, CopyKept DEF IInv, CopiesExplained
<1>6. LostUpdateHasCause'
  BY DEF IInv, LostUpdateHasCause
<1>. QED  BY <1>1, <1>3, <1>4, <1>5, <1>6 DEF IInv

LEMMA DeliverStep ==
  ASSUME IInv, NEW p \in Proc, NEW t \in Txn, NEW v \in Versions(t),
         Deliver(p, t, v)
  PROVE  IInv'
<1>. USE DEF Deliver, lockVars, counters, consumers, ghosts
<1>1. Groups[t] \in Seq(Seq(CaseGroup)) /\ v \in Nat
      /\ Groups[t][v] \in Seq(CaseGroup) /\ 1 \in DOMAIN Groups[t][v]
  BY SubjectAssumption DEF Versions
<1>2. DomainsOK'
  BY <1>1 DEF IInv, DomainsOK, LockTypeOK
<1>3. /\ job'[p] = t /\ at'[p] = 1 /\ stored'[t] = v /\ pc'[p] = "locking"
      /\ ~Busy(p)
  BY DEF IInv, DomainsOK
<1>4. ASSUME NEW q \in Proc, q # p
      PROVE  /\ pc'[q] = pc[q] /\ job'[q] = job[q]
             /\ Busy(q) => /\ job[q] # t
                           /\ at'[q] = at[q]
                           /\ stored'[job[q]] = stored[job[q]]
                           /\ CurGroups(q)' = CurGroups(q)
                           /\ Group(q)' = Group(q)
  <2>1. pc'[q] = pc[q] /\ job'[q] = job[q] /\ at'[q] = at[q]
    BY <1>4 DEF IInv, DomainsOK
  <2>2. Busy(q) => job[q] # t
    OBVIOUS
  <2>3. Busy(q) => stored'[job[q]] = stored[job[q]]
    BY <2>2 DEF IInv, DomainsOK
  <2>. QED  BY <2>1, <2>2, <2>3, GroupKept
<1>5. AtGroup'
  <2>1. CurGroups(p)' = Groups[t][v]
    BY <1>3 DEF CurGroups
  <2>. QED  BY <1>1, <1>3, <1>4, <2>1 DEF IInv, AtGroup, Busy, Versions
<1>6. OneConsumer'
  BY <1>3, <1>4 DEF IInv, OneConsumer, Busy
<1>7. OwnsLock'
  BY <1>3, <1>4 DEF IInv, OwnsLock, HasLock, Busy
<1>8. CopiesExplained'
  <2>. SUFFICES ASSUME NEW q \in Proc, pc'[q] = "writing"
                PROVE  CopyExplained(q)'
    BY DEF CopiesExplained
  <2>1. q # p /\ pc[q] = "writing" /\ Group(q)' = Group(q)
    BY <1>3, <1>4 DEF Busy
  <2>. QED  BY <2>1, CopyKept DEF IInv, CopiesExplained
<1>9. LostUpdateHasCause'
  BY DEF IInv, LostUpdateHasCause
<1>. QED  BY <1>2, <1>5, <1>6, <1>7, <1>8, <1>9 DEF IInv

(* A step of p's that moves neither p nor anybody else to another group.   *)
LEMMA SameGroups ==
  ASSUME IInv, UNCHANGED <<job, at, stored>>
  PROVE  \A q \in Proc : CurGroups(q)' = CurGroups(q) /\ Group(q)' = Group(q)
BY DEF CurGroups, Group

LEMMA LockStep ==
  ASSUME IInv, NEW p \in Proc, Lock(p)
  PROVE  IInv'
<1>. USE DEF Lock, messages, counters, ghosts
<1>0. Busy(p) /\ Group(p).key \in Key
  BY GroupHasKey DEF IInv, Busy
<1>1. DomainsOK'
  <2>1. LockTypeOK'
    BY <1>0, LockKeepsType DEF IInv, DomainsOK
  <2>. QED  BY <2>1 DEF IInv, DomainsOK
<1>2. \A q \in Proc : CurGroups(q)' = CurGroups(q) /\ Group(q)' = Group(q)
  BY SameGroups
<1>3. /\ pc'[p] = "reading"
      /\ \A q \in Proc : q # p => pc'[q] = pc[q]
  BY DEF IInv, DomainsOK
<1>4. AtGroup' /\ OneConsumer'
  BY <1>2, <1>3, <1>0 DEF IInv, AtGroup, OneConsumer, Busy
<1>5. OwnsLock'
  <2>1. /\ item'[Group(p).key] = "live" /\ owner'[Group(p).key] = {p}
        /\ \A k \in Key : k # Group(p).key => /\ item'[k] = item[k]
                                              /\ owner'[k] = owner[k]
    BY <1>0 DEF AcquireLock, IInv, DomainsOK, LockTypeOK
  <2>2. item[Group(p).key] # "live"
    BY DEF AcquireLock, Available
  <2>3. ASSUME NEW q \in Proc, q # p, HasLock(q)'
        PROVE  lapsed' \/ /\ item'[Group(q).key] = "live"
                          /\ owner'[Group(q).key] = {q}
    <3>1. HasLock(q) /\ Busy(q)
      BY <1>3, <2>3 DEF HasLock, Busy
    <3>2. Group(q).key \in Key
      BY <3>1, GroupHasKey DEF IInv
    <3>. QED  BY <2>1, <2>2, <3>1, <3>2 DEF IInv, OwnsLock
  <2>. QED  BY <1>2, <2>1, <2>3 DEF OwnsLock
<1>6. CopiesExplained'
  <2>. SUFFICES ASSUME NEW q \in Proc, pc'[q] = "writing"
                PROVE  CopyExplained(q)'
    BY DEF CopiesExplained
  <2>1. pc[q] = "writing" /\ Group(q)' = Group(q)
    BY <1>2, <1>3
  <2>. QED  BY <2>1, CopyKept DEF IInv, CopiesExplained
<1>7. LostUpdateHasCause'
  BY DEF IInv, LostUpdateHasCause
<1>. QED  BY <1>1, <1>4, <1>5, <1>6, <1>7 DEF IInv

LEMMA WritesCopies ==
  ASSUME NEW k, NEW id, NEW doc, NEW base
  PROVE  \E w : /\ \/ Writes(k, id, doc, base) = <<w>>
                   \/ \E rest : /\ Writes(k, id, doc, base) = <<w, rest>>
                                /\ rest.id = 0
                /\ w.id = id /\ w.base = base
BY DEF Writes

LEMMA ReadCasesStep ==
  ASSUME IInv, NEW p \in Proc, ReadCases(p)
  PROVE  IInv'
<1>. USE DEF lockVars, messages, bounds, ghosts
<1>0. /\ pc[p] = "reading"
      /\ UNCHANGED <<item, owner, cases, caseCount, stored, job, at, lapsed,
                     writer, overwritten>>
  BY DEF ReadCases
<1>1. \/ pc' = [pc EXCEPT ![p] = "unlocking"] /\ todo' = todo
      \/ /\ pc' = [pc EXCEPT ![p] = "writing"]
         /\ \E id, doc, base :
              /\ todo' = [todo EXCEPT ![p] =
                            Writes(Group(p).key, id, doc, base)]
              /\ id = 0 \/ (id \in DOMAIN cases /\ base = <<cases[id]>>)
  <2>. DEFINE t == job[p]
              k == Group(p).key
              u == UserOf[k]
              left == Group(p).rules \ AlertedRules(u, t)
              NewOne == [todo EXCEPT ![p] =
                           Writes(k, 0, NewCase(k, NewAlerts(t, left)), <<>>)]
              OldOne(i) == [todo EXCEPT ![p] =
                              Writes(k, i, WithHits(cases[i], t, Group(p).rules, left),
                                     <<cases[i]>>)]
  <2>1. \/ pc' = [pc EXCEPT ![p] = "unlocking"] /\ todo' = todo
        \/ /\ pc' = [pc EXCEPT ![p] = "writing"]
           /\ todo' = NewOne \/ \E i \in OpenCases(u) : todo' = OldOne(i)
    BY DEF ReadCases
  <2>2. CASE todo' = NewOne
    BY <2>1, <2>2
  <2>3. ASSUME NEW i \in OpenCases(u), todo' = OldOne(i)
        PROVE  \E id, doc, base :
                 /\ todo' = [todo EXCEPT ![p] =
                               Writes(Group(p).key, id, doc, base)]
                 /\ id = 0 \/ (id \in DOMAIN cases /\ base = <<cases[id]>>)
    <3>1. i \in DOMAIN cases
      BY DEF OpenCases
    <3>. QED  BY <2>3, <3>1
  <2>. HIDE DEF NewOne, OldOne
  <2>. QED  BY <2>1, <2>2, <2>3
<1>2. DomainsOK'
  BY <1>0, <1>1 DEF IInv, DomainsOK, LockTypeOK
<1>3. \A q \in Proc : CurGroups(q)' = CurGroups(q) /\ Group(q)' = Group(q)
  BY <1>0, SameGroups
<1>4. /\ pc'[p] \in {"unlocking", "writing"}
      /\ \A q \in Proc : q # p => pc'[q] = pc[q] /\ todo'[q] = todo[q]
  BY <1>0, <1>1 DEF IInv, DomainsOK
<1>5. AtGroup' /\ OneConsumer'
  BY <1>0, <1>1, <1>3, <1>4 DEF IInv, AtGroup, OneConsumer, Busy
<1>6. OwnsLock'
  BY <1>0, <1>1, <1>3, <1>4 DEF IInv, OwnsLock, HasLock
<1>7. ASSUME pc'[p] = "writing" PROVE CopyExplained(p)'
  <2>1. PICK id, doc, base :
          /\ todo' = [todo EXCEPT ![p] = Writes(Group(p).key, id, doc, base)]
          /\ id = 0 \/ (id \in DOMAIN cases /\ base = <<cases[id]>>)
    BY <1>0, <1>1, <1>7 DEF IInv, DomainsOK
  <2>2. todo'[p] = Writes(Group(p).key, id, doc, base)
    BY <2>1 DEF IInv, DomainsOK
  <2>3. PICK w : /\ \/ Writes(Group(p).key, id, doc, base) = <<w>>
                    \/ \E rest :
                         /\ Writes(Group(p).key, id, doc, base) = <<w, rest>>
                         /\ rest.id = 0
                 /\ w.id = id /\ w.base = base
    BY WritesCopies
  <2>4. w.id = 0 \/ (w.id \in 1..caseCount' /\ Explained(w, Group(p).key)')
    BY <1>0, <1>1, <2>1, <2>3 DEF Explained, IInv, DomainsOK
  <2>. QED  BY <2>2, <2>3, <2>4 DEF CopyExplained
<1>8. CopiesExplained'
  <2>. SUFFICES ASSUME NEW q \in Proc, pc'[q] = "writing", q # p
                PROVE  CopyExplained(q)'
    BY <1>7 DEF CopiesExplained
  <2>. QED  BY <1>0, <1>1, <1>3, <1>4, CopyKept DEF IInv, CopiesExplained
<1>9. LostUpdateHasCause'
  BY <1>0, <1>1 DEF IInv, LostUpdateHasCause
<1>. QED  BY <1>2, <1>5, <1>6, <1>8, <1>9 DEF IInv

-----------------------------------------------------------------------------
(* What a write of a document changes.                                     *)
LEMMA SaveChanges ==
  ASSUME DomainsOK, NEW w, NEW who, Save(w, who)
  PROVE  /\ caseCount' \in Nat /\ caseCount <= caseCount'
         /\ DOMAIN cases' = 1..caseCount' /\ DOMAIN writer' = 1..caseCount'
         /\ \A i \in 1..caseCount :
              \/ (cases'[i] = cases[i] /\ writer'[i] = writer[i])
              \/ writer'[i] = who
         /\ \A o \in overwritten' :
              \/ o \in overwritten
              \/ /\ w.id # 0 /\ w.base # <<cases[w.id]>>
                 /\ o.by = who /\ o.over = writer[w.id]
<1>1. CASE w.id = 0
  <2>1. /\ caseCount' = caseCount + 1 /\ overwritten' = overwritten
        /\ cases' = [i \in 1..(caseCount + 1) |->
                       IF i = caseCount + 1 THEN w.doc ELSE cases[i]]
        /\ writer' = [i \in 1..(caseCount + 1) |->
                        IF i = caseCount + 1 THEN who ELSE writer[i]]
    BY <1>1 DEF Save, Extend
  <2>. QED  BY <2>1 DEF DomainsOK
<1>2. CASE w.id # 0
  <2>1. /\ caseCount' = caseCount
        /\ cases' = [cases EXCEPT ![w.id] = w.doc]
        /\ writer' = [writer EXCEPT ![w.id] = who]
    BY <1>2 DEF Save
  <2>2. \A o \in overwritten' :
          \/ o \in overwritten
          \/ /\ w.base # <<cases[w.id]>>
             /\ o.by = who /\ o.over = writer[w.id]
    BY <1>2 DEF Save
  <2>. QED  BY <1>2, <2>1, <2>2 DEF DomainsOK
<1>. QED  BY <1>1, <1>2

(* A write that does not take the lock of q's group, or comes after a      *)
(* lapse, does not spoil what is said of q's copy.                         *)
LEMMA CopyAfterWrite ==
  ASSUME NEW q \in Proc, CopyExplained(q), todo'[q] = todo[q],
         Group(q)' = Group(q), lapsed' = lapsed,
         caseCount \in Nat, caseCount' \in Nat, caseCount <= caseCount',
         \A i \in 1..caseCount :
           \/ (cases'[i] = cases[i] /\ writer'[i] = writer[i])
           \/ lapsed
           \/ writer'[i].by \in {"relating", "person"}
           \/ writer'[i].key # {Group(q).key}
  PROVE  CopyExplained(q)'
<1>1. PICK w : /\ \/ todo[q] = <<w>>
                  \/ \E rest : todo[q] = <<w, rest>> /\ rest.id = 0
               /\ \/ w.id = 0
                  \/ (w.id \in 1..caseCount /\ Explained(w, Group(q).key))
  BY DEF CopyExplained
<1>2. ASSUME w.id \in 1..caseCount, Explained(w, Group(q).key)
      PROVE  w.id \in 1..caseCount' /\ Explained(w, Group(q).key)'
  <2>1. w.id \in 1..caseCount'
    BY <1>2
  <2>2. \/ lapsed'
        \/ w.base = <<cases'[w.id]>>
        \/ writer'[w.id].by \in {"relating", "person"}
        \/ writer'[w.id].key # {Group(q)'.key}
    BY <1>2, Zenon DEF Explained
  <2>. QED  BY <2>1, <2>2 DEF Explained
<1>. QED  BY <1>1, <1>2 DEF CopyExplained

(* Two consumers in the critical sections of one lock: a lease ran out.    *)
LEMMA Exclusion ==
  ASSUME IInv, NEW p \in Proc, NEW q \in Proc, p # q,
         HasLock(p), HasLock(q), Group(p).key = Group(q).key
  PROVE  lapsed
BY DEF IInv, OwnsLock

LEMMA WriteCaseStep ==
  ASSUME IInv, NEW p \in Proc, WriteCase(p)
  PROVE  IInv'
<1>. USE DEF lockVars, messages, bounds
<1>. DEFINE who == [by |-> "locked", key |-> {Group(p).key}]
<1>0. /\ pc[p] = "writing"
      /\ Save(Head(todo[p]), who)
      /\ todo' = [todo EXCEPT ![p] = Tail(@)]
      /\ pc' = [pc EXCEPT ![p] = IF Tail(todo[p]) = <<>> THEN "unlocking" ELSE @]
      /\ UNCHANGED <<item, owner, stored, job, at, lapsed>>
  BY DEF WriteCase
<1>. HIDE DEF who
<1>1. PICK w : /\ \/ todo[p] = <<w>>
                  \/ \E rest : todo[p] = <<w, rest>> /\ rest.id = 0
               /\ \/ w.id = 0
                  \/ (w.id \in 1..caseCount /\ Explained(w, Group(p).key))
  BY <1>0 DEF IInv, CopiesExplained, CopyExplained
<1>2. Head(todo[p]) = w
  BY <1>1
<1>3. /\ caseCount' \in Nat /\ caseCount <= caseCount'
      /\ DOMAIN cases' = 1..caseCount' /\ DOMAIN writer' = 1..caseCount'
      /\ \A i \in 1..caseCount :
           \/ (cases'[i] = cases[i] /\ writer'[i] = writer[i])
           \/ writer'[i] = who
      /\ \A o \in overwritten' :
           \/ o \in overwritten
           \/ /\ w.id # 0 /\ w.base # <<cases[w.id]>>
              /\ o.by = who /\ o.over = writer[w.id]
  BY <1>0, <1>2, SaveChanges DEF IInv
<1>4. DomainsOK'
  BY <1>0, <1>3 DEF IInv, DomainsOK, LockTypeOK
<1>5. \A q \in Proc : CurGroups(q)' = CurGroups(q) /\ Group(q)' = Group(q)
  BY <1>0, SameGroups
<1>6. /\ pc'[p] \in {"unlocking", "writing"}
      /\ todo'[p] = Tail(todo[p])
      /\ pc'[p] = "writing" => Tail(todo[p]) # <<>>
      /\ \A q \in Proc : q # p => pc'[q] = pc[q] /\ todo'[q] = todo[q]
  BY <1>0 DEF IInv, DomainsOK
<1>7. AtGroup' /\ OneConsumer'
  BY <1>0, <1>5, <1>6 DEF IInv, AtGroup, OneConsumer, Busy
<1>8. OwnsLock'
  BY <1>0, <1>5, <1>6 DEF IInv, OwnsLock, HasLock
<1>9. CopiesExplained'
  <2>1. ASSUME pc'[p] = "writing" PROVE CopyExplained(p)'
    <3>0. Tail(todo[p]) # <<>> /\ Tail(<<w>>) = <<>>
      BY <1>6, <2>1
    <3>1. PICK rest : todo[p] = <<w, rest>> /\ rest.id = 0
      BY <1>1, <3>0, Zenon
    <3>2. todo'[p] = <<rest>>
      BY <1>6, <3>1
    <3>. QED  BY <3>1, <3>2 DEF CopyExplained
  <2>2. ASSUME NEW q \in Proc, q # p, pc'[q] = "writing"
        PROVE  CopyExplained(q)'
    <3>1. pc[q] = "writing" /\ CopyExplained(q) /\ HasLock(p) /\ HasLock(q)
      BY <1>0, <1>6, <2>2 DEF IInv, CopiesExplained, HasLock
    <3>2. lapsed \/ Group(p).key # Group(q).key
      BY <2>2, <3>1, Exclusion
    <3>3. lapsed \/ who.key # {Group(q).key}
      BY <3>2 DEF who
    <3>. QED
      BY <1>0, <1>3, <1>5, <1>6, <2>2, <3>1, <3>3, CopyAfterWrite
         DEF IInv, DomainsOK
  <2>. QED  BY <2>1, <2>2 DEF CopiesExplained
<1>10. LostUpdateHasCause'
  <2>. SUFFICES ASSUME NEW o \in overwritten', o \notin overwritten
                PROVE  \/ lapsed
                       \/ o.over.by \in {"relating", "person"}
                       \/ o.over.key # o.by.key
    BY <1>0 DEF IInv, LostUpdateHasCause
  <2>1. /\ w.id # 0 /\ w.base # <<cases[w.id]>>
        /\ o.by = who /\ o.over = writer[w.id]
    BY <1>3
  <2>2. o.by.key = {Group(p).key}
    BY <2>1 DEF who
  <2>. QED  BY <1>1, <2>1, <2>2 DEF Explained
<1>. QED  BY <1>4, <1>7, <1>8, <1>9, <1>10 DEF IInv

(* A step of p's after which p is not in a critical section, and which     *)
(* touches no other lock than the one p held.                              *)
LEMMA OutsideStep ==
  ASSUME IInv, NEW p \in Proc, Busy(p),
         stored' = stored, lapsed' = lapsed,
         \A q \in Proc : q # p => /\ pc'[q] = pc[q] /\ job'[q] = job[q]
                                  /\ at'[q] = at[q],
         pc'[p] \in {"idle", "locking", "relating"},
         pc'[p] # "idle" => /\ job'[p] = job[p]
                            /\ at'[p] \in DOMAIN CurGroups(p),
         \A k \in Key : \/ (item'[k] = item[k] /\ owner'[k] = owner[k])
                        \/ (HasLock(p) /\ k = Group(p).key)
  PROVE  /\ AtGroup' /\ OneConsumer' /\ OwnsLock'
         /\ \A q \in Proc : q # p => Group(q)' = Group(q)
<1>1. \A q \in Proc : q # p => CurGroups(q)' = CurGroups(q) /\ Group(q)' = Group(q)
  BY DEF CurGroups, Group
<1>2. pc'[p] # "idle" => CurGroups(p)' = CurGroups(p)
  BY DEF CurGroups
<1>3. AtGroup'
  BY <1>1, <1>2 DEF IInv, AtGroup, Busy
<1>4. OneConsumer'
  BY DEF IInv, OneConsumer, Busy
<1>5. OwnsLock'
  <2>. SUFFICES ASSUME NEW q \in Proc, HasLock(q)'
                PROVE  \/ lapsed
                       \/ /\ item'[Group(q).key] = "live"
                          /\ owner'[Group(q).key] = {q}
    BY <1>1 DEF OwnsLock, HasLock
  <2>1. q # p /\ HasLock(q) /\ Busy(q)
    BY DEF HasLock, Busy
  <2>2. Group(q).key \in Key
    BY <2>1, GroupHasKey DEF IInv
  <2>3. CASE HasLock(p) /\ Group(q).key = Group(p).key
    BY <2>1, <2>3, Exclusion
  <2>4. CASE ~(HasLock(p) /\ Group(q).key = Group(p).key)
    BY <2>1, <2>2, <2>4 DEF IInv, OwnsLock
  <2>. QED  BY <2>3, <2>4
<1>. QED  BY <1>1, <1>3, <1>4, <1>5

(* Where nothing is written, the copies of the others are as they were.    *)
LEMMA QuietStep ==
  ASSUME IInv, NEW p \in Proc,
         cases' = cases, caseCount' = caseCount, writer' = writer,
         overwritten' = overwritten, lapsed' = lapsed,
         pc'[p] # "writing",
         \A q \in Proc : q # p => /\ pc'[q] = pc[q] /\ todo'[q] = todo[q]
                                  /\ Group(q)' = Group(q)
  PROVE  CopiesExplained' /\ LostUpdateHasCause'
<1>1. CopiesExplained'
  <2>. SUFFICES ASSUME NEW q \in Proc, pc'[q] = "writing"
                PROVE  CopyExplained(q)'
    BY DEF CopiesExplained
  <2>1. q # p /\ pc[q] = "writing"
    OBVIOUS
  <2>. QED  BY <2>1, CopyKept DEF IInv, CopiesExplained
<1>2. LostUpdateHasCause'
  BY DEF IInv, LostUpdateHasCause
<1>. QED  BY <1>1, <1>2

LEMMA ReleaseKeeps ==
  ASSUME IInv, NEW k \in Key, ReleaseLock(k)
  PROVE  \A l \in Key : (item'[l] = item[l] /\ owner'[l] = owner[l]) \/ l = k
BY DEF IInv, DomainsOK, LockTypeOK, ReleaseLock

(* What becomes of p when it is done, or fails.                            *)
LEMMA IdleChanges ==
  ASSUME IInv, NEW p \in Proc, Idle(p)
  PROVE  /\ pc' \in [Proc -> {"idle", "locking", "reading", "writing",
                              "unlocking", "relating"}]
         /\ DOMAIN job' = Proc /\ at' \in [Proc -> Nat] /\ DOMAIN todo' = Proc
         /\ pc'[p] = "idle"
         /\ \A q \in Proc : q # p => /\ pc'[q] = pc[q] /\ job'[q] = job[q]
                                     /\ at'[q] = at[q] /\ todo'[q] = todo[q]
<1>1. /\ pc' \in [Proc -> {"idle", "locking", "reading", "writing",
                           "unlocking", "relating"}]
      /\ at' \in [Proc -> Nat]
  BY DEF Idle, IInv, DomainsOK
<1>2. DOMAIN job' = Proc /\ DOMAIN todo' = Proc
  BY DEF Idle, IInv, DomainsOK
<1>. QED  BY <1>1, <1>2 DEF Idle, IInv, DomainsOK

LEMMA UnlockStep ==
  ASSUME IInv, NEW p \in Proc, Unlock(p)
  PROVE  IInv'
<1>. USE DEF counters, bounds, ghosts
<1>0. /\ pc[p] = "unlocking" /\ Busy(p) /\ HasLock(p) /\ Group(p).key \in Key
      /\ ReleaseLock(Group(p).key)
      /\ UNCHANGED <<cases, caseCount, stored, lapsed, writer, overwritten>>
  BY GroupHasKey DEF Unlock, Busy, HasLock, IInv
<1>1. at[p] \in Nat /\ CurGroups(p) \in Seq(CaseGroup)
  <2>1. Groups[job[p]] \in Seq(Seq(CaseGroup))
    BY <1>0, SubjectAssumption DEF IInv, AtGroup
  <2>. QED  BY <1>0, <2>1 DEF IInv, DomainsOK, AtGroup, CurGroups
<1>2. /\ pc' \in [Proc -> {"idle", "locking", "reading", "writing",
                           "unlocking", "relating"}]
      /\ DOMAIN job' = Proc /\ at' \in [Proc -> Nat] /\ DOMAIN todo' = Proc
      /\ pc'[p] \in {"idle", "locking", "relating"}
      /\ pc'[p] # "idle" => /\ job'[p] = job[p]
                            /\ at'[p] \in DOMAIN CurGroups(p)
      /\ \A q \in Proc : q # p => /\ pc'[q] = pc[q] /\ job'[q] = job[q]
                                  /\ at'[q] = at[q] /\ todo'[q] = todo[q]
  <2>1. CASE /\ at[p] < Len(CurGroups(p))
             /\ at' = [at EXCEPT ![p] = @ + 1]
             /\ pc' = [pc EXCEPT ![p] = "locking"]
             /\ UNCHANGED <<job, todo>>
    <3>1. at[p] + 1 \in DOMAIN CurGroups(p)
      BY <1>1, <2>1
    <3>. QED  BY <2>1, <3>1 DEF IInv, DomainsOK
  <2>2. CASE /\ pc' = [pc EXCEPT ![p] = "relating"]
             /\ UNCHANGED <<job, at, todo>>
    <3>1. at[p] \in DOMAIN CurGroups(p)
      BY <1>0 DEF IInv, AtGroup
    <3>. QED  BY <2>2, <3>1 DEF IInv, DomainsOK
  <2>3. CASE Idle(p)
    BY <2>3, IdleChanges
  <2>. QED  BY <2>1, <2>2, <2>3 DEF Unlock, Return
<1>3. DomainsOK'
  <2>1. LockTypeOK'
    BY <1>0, LockKeepsType DEF IInv, DomainsOK
  <2>. QED  BY <1>0, <1>2, <2>1 DEF IInv, DomainsOK
<1>4. /\ AtGroup' /\ OneConsumer' /\ OwnsLock'
      /\ \A q \in Proc : q # p => Group(q)' = Group(q)
  BY <1>0, <1>2, ReleaseKeeps, OutsideStep
<1>5. CopiesExplained' /\ LostUpdateHasCause'
  BY <1>0, <1>2, <1>4, QuietStep
<1>. QED  BY <1>3, <1>4, <1>5 DEF IInv

LEMMA RelateStep ==
  ASSUME IInv, NEW p \in Proc, Relate(p)
  PROVE  IInv'
<1>. USE DEF lockVars, bounds
<1>. DEFINE who == [by |-> "relating", key |-> {}]
            w == Head(saved[p])
<1>0. /\ pc[p] = "relating" /\ Busy(p) /\ ~HasLock(p)
      /\ Save(w, who)
      /\ UNCHANGED <<item, owner, stored, lapsed>>
  BY DEF Relate, Busy, HasLock
<1>1. /\ pc' \in [Proc -> {"idle", "locking", "reading", "writing",
                           "unlocking", "relating"}]
      /\ DOMAIN job' = Proc /\ at' \in [Proc -> Nat] /\ DOMAIN todo' = Proc
      /\ pc'[p] \in {"idle", "relating"}
      /\ pc'[p] # "idle" => job'[p] = job[p] /\ at'[p] = at[p]
      /\ \A q \in Proc : q # p => /\ pc'[q] = pc[q] /\ job'[q] = job[q]
                                  /\ at'[q] = at[q] /\ todo'[q] = todo[q]
  <2>1. CASE Idle(p)
    BY <2>1, IdleChanges
  <2>2. CASE UNCHANGED <<pc, job, at, todo>>
    BY <1>0, <2>2 DEF IInv, DomainsOK
  <2>. QED  BY <2>1, <2>2 DEF Relate, Return
<1>2. /\ caseCount' \in Nat /\ caseCount <= caseCount'
      /\ DOMAIN cases' = 1..caseCount' /\ DOMAIN writer' = 1..caseCount'
      /\ \A i \in 1..caseCount :
           \/ (cases'[i] = cases[i] /\ writer'[i] = writer[i])
           \/ writer'[i] = who
      /\ \A o \in overwritten' : o \in overwritten \/ o.by = who
  <2>. HIDE DEF w, who
  <2>. QED  BY <1>0, SaveChanges DEF IInv
<1>3. DomainsOK'
  BY <1>0, <1>1, <1>2 DEF IInv, DomainsOK, LockTypeOK
<1>4. /\ AtGroup' /\ OneConsumer' /\ OwnsLock'
      /\ \A q \in Proc : q # p => Group(q)' = Group(q)
  <2>1. at[p] \in DOMAIN CurGroups(p)
    BY <1>0 DEF IInv, AtGroup
  <2>. QED  BY <1>0, <1>1, <2>1, OutsideStep
<1>5. CopiesExplained'
  <2>. SUFFICES ASSUME NEW q \in Proc, pc'[q] = "writing"
                PROVE  CopyExplained(q)'
    BY DEF CopiesExplained
  <2>1. q # p /\ pc[q] = "writing" /\ CopyExplained(q)
    BY <1>0, <1>1 DEF IInv, CopiesExplained
  <2>2. who.by \in {"relating", "person"}
    OBVIOUS
  <2>. HIDE DEF who
  <2>. QED  BY <1>0, <1>1, <1>2, <1>4, <2>1, <2>2, CopyAfterWrite
               DEF IInv, DomainsOK
<1>6. LostUpdateHasCause'
  BY <1>0, <1>2 DEF IInv, LostUpdateHasCause
<1>. QED  BY <1>3, <1>4, <1>5, <1>6 DEF IInv

LEMMA FaultStep ==
  ASSUME IInv, NEW p \in Proc, Throw(p) \/ Die(p)
  PROVE  IInv'
<1>. USE DEF counters, messages
<1>0. /\ Busy(p) /\ Idle(p)
      /\ UNCHANGED <<cases, caseCount, stored, lapsed, writer, overwritten>>
      /\ \/ UNCHANGED lockVars
         \/ (HasLock(p) /\ ReleaseLock(Group(p).key))
  BY DEF Throw, Die, Fault
<1>1. Group(p).key \in Key
  BY <1>0, GroupHasKey DEF IInv
<1>2. /\ LockTypeOK'
      /\ \A k \in Key : \/ (item'[k] = item[k] /\ owner'[k] = owner[k])
                        \/ (HasLock(p) /\ k = Group(p).key)
  <2>1. CASE UNCHANGED lockVars
    BY <2>1 DEF IInv, DomainsOK, LockTypeOK, lockVars
  <2>2. CASE HasLock(p) /\ ReleaseLock(Group(p).key)
    BY <1>1, <2>2, LockKeepsType, ReleaseKeeps DEF IInv, DomainsOK
  <2>. QED  BY <1>0, <2>1, <2>2
<1>3. /\ pc' \in [Proc -> {"idle", "locking", "reading", "writing",
                           "unlocking", "relating"}]
      /\ DOMAIN job' = Proc /\ at' \in [Proc -> Nat] /\ DOMAIN todo' = Proc
      /\ pc'[p] = "idle"
      /\ \A q \in Proc : q # p => /\ pc'[q] = pc[q] /\ job'[q] = job[q]
                                  /\ at'[q] = at[q] /\ todo'[q] = todo[q]
  BY <1>0, IdleChanges
<1>4. DomainsOK'
  BY <1>0, <1>2, <1>3 DEF IInv, DomainsOK
<1>5. /\ AtGroup' /\ OneConsumer' /\ OwnsLock'
      /\ \A q \in Proc : q # p => Group(q)' = Group(q)
  BY <1>0, <1>2, <1>3, OutsideStep
<1>6. CopiesExplained' /\ LostUpdateHasCause'
  BY <1>0, <1>3, <1>5, QuietStep
<1>. QED  BY <1>4, <1>5, <1>6 DEF IInv

-----------------------------------------------------------------------------
(* A lease that runs out: an abandoned one, or one whose holder is at work.*)
LEMMA ExpireAbandonedStep ==
  ASSUME IInv, NEW k \in Key, ExpireAbandoned(k)
  PROVE  IInv'
<1>. USE DEF ExpireAbandoned, counters, messages, consumers, ghosts
<1>1. DomainsOK'
  <2>1. LockTypeOK'
    BY DEF ExpireLock, IInv, DomainsOK, LockTypeOK
  <2>. QED  BY <2>1 DEF IInv, DomainsOK
<1>2. \A q \in Proc : CurGroups(q)' = CurGroups(q) /\ Group(q)' = Group(q)
  BY SameGroups
<1>3. AtGroup' /\ OneConsumer'
  BY <1>2 DEF IInv, AtGroup, OneConsumer, Busy
<1>4. OwnsLock'
  <2>. SUFFICES ASSUME NEW q \in Proc, HasLock(q), ~lapsed
                PROVE  /\ item'[Group(q).key] = "live"
                       /\ owner'[Group(q).key] = {q}
    BY <1>2 DEF OwnsLock, HasLock
  <2>1. owner[Group(q).key] = {q} /\ item[Group(q).key] = "live"
    BY DEF IInv, OwnsLock
  <2>2. Group(q).key # k
    BY <2>1 DEF Holding
  <2>. QED  BY <2>1, <2>2 DEF ExpireLock, IInv, DomainsOK, LockTypeOK
<1>5. CopiesExplained'
  BY <1>2, CopyKept DEF IInv, CopiesExplained
<1>6. LostUpdateHasCause'
  BY DEF IInv, LostUpdateHasCause
<1>. QED  BY <1>1, <1>3, <1>4, <1>5, <1>6 DEF IInv

LEMMA ExpireHeldStep ==
  ASSUME IInv, NEW k \in Key, ExpireHeld(k)
  PROVE  IInv'
<1>. USE DEF ExpireHeld, counters, messages, consumers
<1>1. DomainsOK'
  <2>1. LockTypeOK'
    BY DEF ExpireLock, IInv, DomainsOK, LockTypeOK
  <2>. QED  BY <2>1 DEF IInv, DomainsOK
<1>2. \A q \in Proc : CurGroups(q)' = CurGroups(q) /\ Group(q)' = Group(q)
  BY SameGroups
<1>3. AtGroup' /\ OneConsumer'
  BY <1>2 DEF IInv, AtGroup, OneConsumer, Busy
<1>4. OwnsLock'
  BY DEF OwnsLock
<1>5. CopiesExplained'
  BY <1>2, CopyKept DEF IInv, CopiesExplained
<1>6. LostUpdateHasCause'
  BY DEF LostUpdateHasCause
<1>. QED  BY <1>1, <1>3, <1>4, <1>5, <1>6 DEF IInv

(* What a person writes carries the person's name.                         *)
LEMMA PersonWrites ==
  ASSUME IInv, UNCHANGED systemVars, DOMAIN cases' = DOMAIN cases,
         DOMAIN writer' = DOMAIN writer,
         \A i \in 1..caseCount :
           \/ (cases'[i] = cases[i] /\ writer'[i] = writer[i])
           \/ writer'[i] = ByPerson
  PROVE  IInv'
<1>. USE DEF systemVars, lockVars, counters, messages, consumers
<1>1. DomainsOK'
  BY DEF IInv, DomainsOK, LockTypeOK
<1>2. \A q \in Proc : CurGroups(q)' = CurGroups(q) /\ Group(q)' = Group(q)
  BY SameGroups
<1>3. AtGroup' /\ OneConsumer'
  BY <1>2 DEF IInv, AtGroup, OneConsumer, Busy
<1>4. OwnsLock'
  BY <1>2 DEF IInv, OwnsLock, HasLock
<1>5. CopiesExplained'
  <2>1. ByPerson.by \in {"relating", "person"}
    BY DEF ByPerson
  <2>. SUFFICES ASSUME NEW q \in Proc, pc[q] = "writing"
                PROVE  CopyExplained(q)'
    BY DEF CopiesExplained
  <2>2. CopyExplained(q)
    BY DEF IInv, CopiesExplained
  <2>3. \A i \in 1..caseCount :
          \/ (cases'[i] = cases[i] /\ writer'[i] = writer[i])
          \/ writer'[i].by \in {"relating", "person"}
    BY <2>1
  <2>4. caseCount \in Nat /\ caseCount' = caseCount /\ caseCount <= caseCount
    BY DEF IInv, DomainsOK
  <2>. QED  BY <1>2, <2>2, <2>3, <2>4, CopyAfterWrite
<1>6. LostUpdateHasCause'
  BY DEF IInv, LostUpdateHasCause
<1>. QED  BY <1>1, <1>3, <1>4, <1>5, <1>6 DEF IInv

LEMMA SetCaseStep ==
  ASSUME IInv, SetCase
  PROVE  IInv'
<1>1. /\ cases' = [cases EXCEPT ![person.case].closed = TRUE]
      /\ writer' = [writer EXCEPT ![person.case] = ByPerson]
      /\ UNCHANGED systemVars
  BY DEF SetCase
<1>. QED  BY <1>1, PersonWrites DEF IInv, DomainsOK

LEMMA SetAlertsStep ==
  ASSUME IInv, SetAlerts
  PROVE  IInv'
<1>1. UNCHANGED systemVars
  BY DEF SetAlerts
<1>2. DOMAIN cases' = DOMAIN cases /\ DOMAIN writer' = DOMAIN cases
  BY DEF SetAlerts
<1>3. \A i \in DOMAIN cases :
        \/ (cases'[i] = cases[i] /\ writer'[i] = writer[i])
        \/ writer'[i] = ByPerson
  BY DEF SetAlerts
<1>. QED  BY <1>1, <1>2, <1>3, PersonWrites DEF IInv, DomainsOK

LEMMA InductiveIInv ==
  ASSUME IInv, [Next]_vars
  PROVE  IInv'
<1>1. CASE UNCHANGED vars
  BY <1>1, Irrelevant DEF vars, relevant, lockVars, counters, messages,
     consumers, ghosts
<1>2. ASSUME NEW p \in Proc, NEW t \in Txn, NEW v \in Versions(t),
             Deliver(p, t, v)
      PROVE  IInv'
  BY <1>2, DeliverStep
<1>3. ASSUME NEW p \in Proc, Consume(p)
      PROVE  IInv'
  BY <1>3, LockStep, ReadCasesStep, WriteCaseStep, UnlockStep, RelateStep
     DEF Consume
<1>4. ASSUME NEW p \in Proc, Throw(p) \/ Die(p)
      PROVE  IInv'
  BY <1>4, FaultStep
<1>5. ASSUME NEW k \in Key, ExpireAbandoned(k) \/ ExpireHeld(k)
      PROVE  IInv'
  BY <1>5, ExpireAbandonedStep, ExpireHeldStep
<1>6. ASSUME NEW i \in DOMAIN cases,
             ChooseCase(i) \/ \E a \in OpenAlerts(i) : ChooseAlert(i, a)
      PROVE  IInv'
  BY <1>6, Irrelevant DEF ChooseCase, ChooseAlert, relevant, systemVars,
     counters, messages, consumers
<1>7. CASE Check \/ Reread
  BY <1>7, Irrelevant DEF Check, Reread, relevant, systemVars,
     counters, messages, consumers
<1>. QED
  BY <1>1, <1>2, <1>3, <1>4, <1>5, <1>6, <1>7, SetCaseStep, SetAlertsStep
     DEF Next, Operate

(* An update of a case under the lock is lost only after a lease ran out,  *)
(* or to a write that does not take that lock (getOrCreateCases'           *)
(* acquireLock, updateRelatedCases, and the console's updates).            *)
THEOREM LostUpdates == Spec => []LostUpdateHasCause
<1>1. Init => IInv
  BY InitIInv
<1>2. IInv /\ [Next]_vars => IInv'
  BY InductiveIInv
<1>3. IInv => LostUpdateHasCause
  BY DEF IInv
<1>. QED  BY <1>1, <1>2, <1>3, PTL DEF Spec

-----------------------------------------------------------------------------
(* What is in the documents.                                               *)

AlertIds(doc) == {a.id : a \in Alerts(doc)}

(* A document has grown: no alert left it, and none lost a transaction.    *)
Grown(old, new) ==
  \A a \in Alerts(old) : \E b \in Alerts(new) :
    a.id = b.id /\ a.rule = b.rule /\ a.txns \subseteq b.txns

(* SetToSeq goes through a finite set.                                     *)
LEMMA Enumeration ==
  ASSUME NEW S, IsFiniteSet(S)
  PROVE  /\ Cardinality(S) \in Nat
         /\ SetToSeq(S) \in [1..Cardinality(S) -> S]
         /\ \A x \in S : \E i \in 1..Cardinality(S) : SetToSeq(S)[i] = x
<1>. DEFINE n == Cardinality(S)
            Lists == {f \in [1..n -> S] : IsInjective(f)}
<1>1. n \in Nat /\ ExistsBijection(1..n, S)  BY FS_CardinalityType
<1>2. PICK g : g \in Bijection(1..n, S)  BY <1>1 DEF ExistsBijection
<1>3. g \in [1..n -> S] /\ IsInjective(g)
  BY <1>2 DEF Bijection, Injection, IsInjective
<1>4. SetToSeq(S) \in [1..n -> S] /\ IsInjective(SetToSeq(S))
  BY <1>3, Zenon DEF SetToSeq
<1>5. SetToSeq(S) \in Injection(1..n, S)
  BY <1>4 DEF Injection, IsInjective
<1>6. IsFiniteSet(1..n) /\ Cardinality(1..n) = n  BY <1>1, FS_Interval
<1>7. SetToSeq(S) \in Surjection(1..n, S)
  BY <1>5, <1>6, FS_Injection
<1>. QED  BY <1>1, <1>4, <1>7 DEF Surjection

(* New alerts: one for each of the rules, with the next ids.               *)
LEMMA NewAlertsProperties ==
  ASSUME NEW t \in Txn, NEW rules \in SUBSET Rule, alertCount \in Nat
  PROVE  /\ Cardinality(rules) \in Nat
         /\ NewAlerts(t, rules) \in Seq(Alert)
         /\ Len(NewAlerts(t, rules)) = Cardinality(rules)
         /\ \A i \in 1..Cardinality(rules) :
              /\ NewAlerts(t, rules)[i] \in Alert
              /\ NewAlerts(t, rules)[i].id = alertCount + i
         /\ \A r \in rules : \E a \in ToSet(NewAlerts(t, rules)) :
              a.rule = r /\ t \in a.txns
<1>. DEFINE n == Cardinality(rules)
            order == SetToSeq(rules)
            new == [i \in 1..n |-> [id |-> alertCount + i, rule |-> order[i],
                                    txns |-> {t}, closed |-> FALSE]]
<1>1. IsFiniteSet(rules)  BY FiniteAssumption, FS_Subset
<1>2. /\ n \in Nat /\ order \in [1..n -> rules]
      /\ \A r \in rules : \E i \in 1..n : order[i] = r
  BY <1>1, Enumeration
<1>. HIDE DEF order, n
<1>3. NewAlerts(t, rules) = new
  <2>1. DOMAIN order = 1..n  BY <1>2
  <2>. QED  BY <2>1 DEF NewAlerts, order
<1>4. new \in [1..n -> Alert]
  BY <1>2 DEF Alert
<1>5. \A i \in 1..n : new[i] \in Alert /\ new[i].id = alertCount + i
                      /\ new[i].rule = order[i] /\ t \in new[i].txns
  BY <1>4
<1>. HIDE DEF new
<1>6. new \in Seq(Alert) /\ Len(new) = n /\ DOMAIN new = 1..n
  <2>1. new \in Seq(Alert)  BY <1>2, <1>4, IsASeq
  <2>2. DOMAIN new = 1..n  BY <1>4
  <2>. QED  BY <1>2, <2>1, <2>2, LenProperties
<1>7. ASSUME NEW r \in rules
      PROVE  \E a \in ToSet(new) : a.rule = r /\ t \in a.txns
  <2>1. PICK i \in 1..n : order[i] = r  BY <1>2
  <2>2. new[i] \in ToSet(new)  BY <1>6 DEF ToSet
  <2>. QED  BY <1>5, <2>1, <2>2
<1>. QED  BY <1>2, <1>3, <1>5, <1>6, <1>7 DEF n

LEMMA AlertsToSet == \A doc : Alerts(doc) = ToSet(doc.alerts)
BY DEF Alerts, ToSet

(* The old alerts of the document that takes the hits, before the new ones. *)
OldAlerts(doc, t, all) ==
  LET open == Keep(doc.alerts, {a \in Alerts(doc) : ~a.closed})
      done == Keep(doc.alerts, {a \in Alerts(doc) : a.closed})
  IN  [i \in DOMAIN open |->
         IF open[i].rule \in all
         THEN [open[i] EXCEPT !.txns = @ \cup {t}] ELSE open[i]] \o done

(* None of the old alerts is lost, and those of the rules hit have the     *)
(* transaction if they are open.                                           *)
LEMMA OldAlertsProperties ==
  ASSUME NEW doc \in Case, NEW t \in Txn, NEW all \in SUBSET Rule
  PROVE  /\ OldAlerts(doc, t, all) \in Seq(Alert)
         /\ Len(OldAlerts(doc, t, all)) = Len(doc.alerts)
         /\ \A a \in ToSet(OldAlerts(doc, t, all)) : a.id \in AlertIds(doc)
         /\ \A a \in Alerts(doc) : \E b \in ToSet(OldAlerts(doc, t, all)) :
              /\ a.id = b.id /\ a.rule = b.rule /\ a.txns \subseteq b.txns
              /\ ~a.closed /\ a.rule \in all => t \in b.txns
<1>. DEFINE Open == {a \in Alerts(doc) : ~a.closed}
            Done == {a \in Alerts(doc) : a.closed}
            open == Keep(doc.alerts, Open)
            done == Keep(doc.alerts, Done)
            More(a) == IF a.rule \in all THEN [a EXCEPT !.txns = @ \cup {t}] ELSE a
            hit == [i \in DOMAIN open |-> More(open[i])]
<1>1. doc.alerts \in Seq(Alert)  BY DEF Case
<1>2. /\ Alerts(doc) = ToSet(doc.alerts)
      /\ Alerts(doc) \subseteq Alert
      /\ \A a \in Alerts(doc) : a.id \in AlertIds(doc)
  <2>1. Alerts(doc) = ToSet(doc.alerts)  BY AlertsToSet
  <2>2. \A i \in DOMAIN doc.alerts : doc.alerts[i] \in Alert
    BY <1>1, LenProperties
  <2>. QED  BY <2>1, <2>2 DEF Alerts, AlertIds
<1>3. /\ open \in Seq(Alert) /\ ToSet(open) = Open
      /\ done \in Seq(Alert) /\ ToSet(done) = Done
      /\ Len(open) + Len(done) = Len(doc.alerts)
  <2>. HIDE DEF Open, Done
  <2>1. /\ open \in Seq(Alert) /\ ToSet(open) = ToSet(doc.alerts) \cap Open
        /\ done \in Seq(Alert) /\ ToSet(done) = ToSet(doc.alerts) \cap Done
    BY <1>1, KeepProperties
  <2>2. /\ Open \cap Done = {} /\ ToSet(doc.alerts) \subseteq Open \cup Done
        /\ ToSet(doc.alerts) \cap Open = Open /\ ToSet(doc.alerts) \cap Done = Done
    BY <1>2 DEF Open, Done
  <2>. QED  BY <1>1, <2>1, <2>2, KeepLengths
<1>4. \A a \in Alert : /\ More(a) \in Alert
                       /\ More(a).id = a.id /\ More(a).rule = a.rule
                       /\ a.txns \subseteq More(a).txns
                       /\ a.rule \in all => t \in More(a).txns
  BY DEF Alert
<1>. HIDE DEF More, open, done
<1>5. /\ hit \in Seq(Alert) /\ Len(hit) = Len(open)
      /\ \A x \in ToSet(hit) : \E a \in ToSet(open) : x = More(a)
      /\ \A a \in ToSet(open) : More(a) \in ToSet(hit)
  <2>1. /\ Len(open) \in Nat /\ DOMAIN open = 1..Len(open)
        /\ \A i \in 1..Len(open) : open[i] \in Alert
    BY <1>3, LenProperties
  <2>2. hit \in [1..Len(open) -> Alert]  BY <1>4, <2>1
  <2>3. hit \in Seq(Alert)  BY <2>1, <2>2, IsASeq
  <2>4. DOMAIN hit = 1..Len(open) /\ Len(hit) = Len(open)
    BY <2>1, <2>2, <2>3, LenProperties
  <2>5. \A i \in DOMAIN open : hit[i] = More(open[i])  OBVIOUS
  <2>. QED  BY <2>1, <2>3, <2>4, <2>5 DEF ToSet
<1>6. OldAlerts(doc, t, all) = hit \o done
  BY DEF OldAlerts, open, done, More
<1>. HIDE DEF hit
<1>7. /\ hit \o done \in Seq(Alert)
      /\ ToSet(hit \o done) = ToSet(hit) \cup ToSet(done)
      /\ Len(hit \o done) = Len(doc.alerts)
  <2>1. Len(hit \o done) = Len(hit) + Len(done)  BY <1>3, <1>5, ConcatProperties
  <2>. QED  BY <1>3, <1>5, <2>1, ToSetConcat
<1>8. ASSUME NEW a \in ToSet(hit \o done)  PROVE a.id \in AlertIds(doc)
  <2>1. CASE a \in ToSet(hit)
    <3>1. PICK b \in ToSet(open) : a = More(b)  BY <1>5, <2>1
    <3>. QED  BY <1>2, <1>3, <1>4, <3>1
  <2>2. CASE a \in ToSet(done)  BY <1>2, <1>3, <2>2
  <2>. QED  BY <1>7, <2>1, <2>2
<1>9. ASSUME NEW a \in Alerts(doc)
      PROVE  \E b \in ToSet(hit \o done) :
               /\ a.id = b.id /\ a.rule = b.rule /\ a.txns \subseteq b.txns
               /\ ~a.closed /\ a.rule \in all => t \in b.txns
  <2>1. CASE a.closed  BY <1>3, <1>7, <2>1
  <2>2. CASE ~a.closed
    <3>1. More(a) \in ToSet(hit \o done)  BY <1>3, <1>5, <1>7, <2>2
    <3>. QED  BY <1>2, <1>4, <3>1
  <2>. QED  BY <2>1, <2>2
<1>. QED  BY <1>6, <1>7, <1>8, <1>9

(* The alerts of a document with the hits: first the m old ones, then, with *)
(* the next ids, the n new ones.                                           *)
HitList(alerts, m, n, doc, t, all, left) ==
  /\ WithHits(doc, t, all, left) = [doc EXCEPT !.alerts = alerts]
  /\ m = Len(doc.alerts) /\ n = Cardinality(FreshRules(doc, left))
  /\ n <= Cardinality(all)
  /\ Len(alerts) = m + n
  /\ \A i \in 1..m : alerts[i] \in Alert /\ alerts[i].id \in AlertIds(doc)
  /\ \A i \in 1..n : alerts[m + i] \in Alert /\ alerts[m + i].id = alertCount + i
  /\ \A a \in Alerts(doc) : \E i \in 1..m :
       /\ a.id = alerts[i].id /\ a.rule = alerts[i].rule
       /\ a.txns \subseteq alerts[i].txns
  /\ \A r \in left : \E i \in 1..(m + n) :
       alerts[i].rule = r /\ t \in alerts[i].txns

LEMMA HitAlerts ==
  ASSUME NEW doc \in Case, NEW t \in Txn, NEW all \in SUBSET Rule,
         NEW left \in SUBSET all, alertCount \in Nat
  PROVE  \E alerts \in Seq(Alert), m \in Nat, n \in Nat :
           HitList(alerts, m, n, doc, t, all, left)
<1>. DEFINE old == OldAlerts(doc, t, all)
            fresh == FreshRules(doc, left)
            new == NewAlerts(t, fresh)
            n == Cardinality(fresh)
            m == Len(doc.alerts)
            alerts == old \o new
<1>1. WithHits(doc, t, all, left) = [doc EXCEPT !.alerts = alerts]
  BY DEF WithHits, OldAlerts
<1>2. doc.alerts \in Seq(Alert) /\ m \in Nat  BY LenProperties DEF Case
<1>3. fresh \in SUBSET Rule /\ fresh \subseteq all  BY DEF FreshRules
<1>4. /\ n \in Nat /\ new \in Seq(Alert) /\ Len(new) = n
      /\ \A i \in 1..n : new[i] \in Alert /\ new[i].id = alertCount + i
      /\ \A r \in fresh : \E a \in ToSet(new) : a.rule = r /\ t \in a.txns
  BY <1>3, NewAlertsProperties
<1>5. n <= Cardinality(all)
  <2>1. IsFiniteSet(all)  BY FiniteAssumption, FS_Subset
  <2>. QED  BY <1>3, <2>1, FS_Subset
<1>6. /\ old \in Seq(Alert) /\ Len(old) = m
      /\ \A a \in ToSet(old) : a.id \in AlertIds(doc)
      /\ \A a \in Alerts(doc) : \E b \in ToSet(old) :
           /\ a.id = b.id /\ a.rule = b.rule /\ a.txns \subseteq b.txns
           /\ ~a.closed /\ a.rule \in all => t \in b.txns
  BY OldAlertsProperties
<1>. HIDE DEF old, new, n, fresh, m
<1>7. /\ alerts \in Seq(Alert) /\ Len(alerts) = m + n
      /\ \A i \in 1..(m + n) : alerts[i] = IF i <= m THEN old[i] ELSE new[i - m]
  BY <1>4, <1>6, ConcatProperties
<1>. HIDE DEF alerts
<1>8. \A a \in ToSet(old) : \E i \in 1..m : a = old[i]
  <2>1. DOMAIN old = 1..m  BY <1>6, LenProperties
  <2>. QED  BY <2>1 DEF ToSet
<1>9. \A a \in ToSet(new) : \E i \in 1..n : a = new[i]
  <2>1. DOMAIN new = 1..n  BY <1>4, LenProperties
  <2>. QED  BY <2>1 DEF ToSet
<1>10. ASSUME NEW i \in 1..m
       PROVE  i \in 1..(m + n) /\ alerts[i] = old[i] /\ old[i] \in ToSet(old) /\ old[i] \in Alert
  <2>1. i \in 1..(m + n) /\ i <= m  BY <1>2, <1>4
  <2>2. DOMAIN old = 1..m /\ old[i] \in Alert  BY <1>6, LenProperties
  <2>. QED  BY <1>7, <2>1, <2>2 DEF ToSet
<1>11. ASSUME NEW i \in 1..n
       PROVE  m + i \in 1..(m + n) /\ alerts[m + i] = new[i]
  <2>1. m + i \in 1..(m + n) /\ ~(m + i <= m) /\ (m + i) - m = i  BY <1>2, <1>4
  <2>. QED  BY <1>7, <2>1
<1>12. \A a \in Alerts(doc) : \E i \in 1..m :
         /\ a.id = alerts[i].id /\ a.rule = alerts[i].rule
         /\ a.txns \subseteq alerts[i].txns
         /\ ~a.closed /\ a.rule \in all => t \in alerts[i].txns
  BY <1>6, <1>8, <1>10
<1>13. ASSUME NEW r \in left
       PROVE  \E i \in 1..(m + n) : alerts[i].rule = r /\ t \in alerts[i].txns
  <2>1. CASE r \in fresh
    <3>1. PICK i \in 1..n : new[i].rule = r /\ t \in new[i].txns
      BY <1>4, <1>9, <2>1
    <3>. QED  BY <1>11, <3>1
  <2>2. CASE r \notin fresh
    <3>1. PICK a \in Alerts(doc) : ~a.closed /\ a.rule = r
      BY <2>2 DEF fresh, FreshRules
    <3>. QED  BY <1>10, <1>12, <3>1
  <2>. QED  BY <2>1, <2>2
<1>14. \A a \in Alerts(doc) : \E i \in 1..m :
         /\ a.id = alerts[i].id /\ a.rule = alerts[i].rule
         /\ a.txns \subseteq alerts[i].txns
  BY <1>12
<1>15. \A i \in 1..m : alerts[i] \in Alert /\ alerts[i].id \in AlertIds(doc)
  BY <1>6, <1>10
<1>16. \A i \in 1..n : alerts[m + i] \in Alert /\ alerts[m + i].id = alertCount + i
  BY <1>4, <1>11
<1>17. m = Len(doc.alerts) /\ n = Cardinality(FreshRules(doc, left))
  BY DEF m, n, fresh
<1>18. HitList(alerts, m, n, doc, t, all, left)
  BY <1>1, <1>5, <1>7, <1>13, <1>14, <1>15, <1>16, <1>17, Zenon DEF HitList
<1>. QED  BY <1>2, <1>4, <1>7, <1>18

(* The halves of a document with too many alerts.                          *)
LEMMA SplitWrites ==
  ASSUME NEW k, NEW id, NEW doc, NEW base, ~(Len(doc.alerts) <= MaxAlerts)
  PROVE  Writes(k, id, doc, base) =
           << [id |-> id, base |-> base,
               doc |-> [doc EXCEPT !.alerts = SubSeq(doc.alerts, 1, MaxAlerts)]],
              [id |-> 0, base |-> <<>>,
               doc |-> [NewCase(k, SubSeq(doc.alerts, MaxAlerts + 1, Len(doc.alerts)))
                          EXCEPT !.half = TRUE]] >>
<1>. DEFINE whole == [id |-> id, doc |-> doc, base |-> base]
            first == SubSeq(doc.alerts, 1, MaxAlerts)
            rest == [id |-> 0, base |-> <<>>,
                     doc |-> [NewCase(k, SubSeq(doc.alerts, MaxAlerts + 1, Len(doc.alerts)))
                                EXCEPT !.half = TRUE]]
<1>1. Writes(k, id, doc, base) = << [whole EXCEPT !.doc.alerts = SubSeq(@, 1, MaxAlerts)], rest >>
  BY DEF Writes
<1>2. [whole EXCEPT !.doc.alerts = SubSeq(@, 1, MaxAlerts)] =
        [id |-> id, base |-> base, doc |-> [doc EXCEPT !.alerts = first]]
  <2>. HIDE DEF first
  <2>1. [whole EXCEPT !.doc.alerts = first] =
          [id |-> id, base |-> base, doc |-> [doc EXCEPT !.alerts = first]]
    OBVIOUS
  <2>. QED  BY <2>1 DEF first
<1>. HIDE DEF whole, rest, first
<1>3. Writes(k, id, doc, base) =
        << [id |-> id, base |-> base, doc |-> [doc EXCEPT !.alerts = first]], rest >>
  BY <1>1, <1>2
<1>. QED  BY <1>3 DEF first, rest

(* What is about to be written for a case that takes hits: the case with   *)
(* all it had, and maybe a new case for the rest of the new alerts.        *)
TakesHits(ws, doc, id, k, t, left, cut, last) ==
  \E w \in Write :
    /\ w.id = id /\ w.base = <<doc>>
    /\ w.doc.key = doc.key /\ w.doc.half = doc.half /\ ~w.doc.closed
    /\ Len(w.doc.alerts) <= MaxAlerts
    /\ Grown(doc, w.doc)
    /\ \A x \in AlertIds(w.doc) : x \in AlertIds(doc) \/ (alertCount < x /\ x <= cut)
    /\ \/ ws = <<w>> /\ \A r \in left : Covers(w.doc, r, t)
       \/ \E rest \in Write :
            /\ ws = <<w, rest>>
            /\ rest.id = 0 /\ rest.doc.key = k /\ rest.doc.half /\ ~rest.doc.closed
            /\ Len(rest.doc.alerts) <= MaxAlerts
            /\ \A x \in AlertIds(rest.doc) : cut < x /\ x <= last
            /\ \A r \in left : Covers(w.doc, r, t) \/ Covers(rest.doc, r, t)

LEMMA HitWrites ==
  ASSUME NEW doc \in Case, NEW t \in Txn, NEW all \in SUBSET Rule,
         NEW left \in SUBSET all, NEW k \in Key, NEW id \in Nat,
         Cardinality(all) <= MaxAlerts, Cardinality(all) \in Nat, alertCount \in Nat,
         Len(doc.alerts) <= MaxAlerts, ~doc.closed
  PROVE  /\ Cardinality(FreshRules(doc, left)) \in Nat
         /\ \E cut \in Nat :
           /\ alertCount <= cut /\ cut <= alertCount + Cardinality(FreshRules(doc, left))
           /\ TakesHits(Writes(k, id, WithHits(doc, t, all, left), <<doc>>), doc, id, k, t, left,
                        cut, alertCount + Cardinality(FreshRules(doc, left)))
<1>. DEFINE d == WithHits(doc, t, all, left)
            ws == Writes(k, id, d, <<doc>>)
<1>0. PICK alerts \in Seq(Alert), m \in Nat, n \in Nat :
        HitList(alerts, m, n, doc, t, all, left)
  BY HitAlerts
<1>1. /\ d = [doc EXCEPT !.alerts = alerts]
      /\ m = Len(doc.alerts) /\ n = Cardinality(FreshRules(doc, left))
      /\ n <= Cardinality(all)
      /\ Len(alerts) = m + n
  BY <1>0 DEF HitList
<1>10. m <= MaxAlerts /\ n <= MaxAlerts
  <2>1. MaxAlerts \in Nat  BY LimitAssumption
  <2>. QED  BY <1>1, <2>1
<1>15. Len(alerts) = m + n  BY <1>1
<1>11. \A i \in 1..m : alerts[i] \in Alert /\ alerts[i].id \in AlertIds(doc)
  BY <1>0, Zenon DEF HitList
<1>12. \A i \in 1..n : alerts[m + i] \in Alert /\ alerts[m + i].id = alertCount + i
  BY <1>0, Zenon DEF HitList
<1>13. \A a \in Alerts(doc) : \E i \in 1..m :
         /\ a.id = alerts[i].id /\ a.rule = alerts[i].rule
         /\ a.txns \subseteq alerts[i].txns
  BY <1>0, Zenon DEF HitList
<1>14. \A r \in left : \E i \in 1..(m + n) :
         alerts[i].rule = r /\ t \in alerts[i].txns
  BY <1>0, Zenon DEF HitList
<1>2. MaxAlerts \in Nat /\ MaxAlerts # 0  BY LimitAssumption
<1>3. d \in Case /\ d.alerts = alerts /\ d.key = doc.key /\ d.half = doc.half /\ ~d.closed
  BY <1>1 DEF Case
<1>4. DOMAIN alerts = 1..(m + n)  BY <1>1, LenProperties
<1>5. <<doc>> \in Seq(Case)  OBVIOUS
<1>6. \A i \in 1..(m + n) : i \in 1..m \/ \E j \in 1..n : i = m + j
  <2>. SUFFICES ASSUME NEW i \in 1..(m + n), ~(i \in 1..m) PROVE \E j \in 1..n : i = m + j
    OBVIOUS
  <2>1. i - m \in 1..n /\ i = m + (i - m)  OBVIOUS
  <2>. QED  BY <2>1
<1>. HIDE DEF d
<1>7. CASE m + n <= MaxAlerts
  <2>. DEFINE w == [id |-> id, doc |-> d, base |-> <<doc>>]
              cut == alertCount + n
  <2>1. ws = <<w>>  BY <1>1, <1>3, <1>7 DEF Writes
  <2>2. w \in Write  BY <1>3, <1>5 DEF Write
  <2>3. w.id = id /\ w.base = <<doc>> /\ w.doc = d  OBVIOUS
  <2>. HIDE DEF w
  <2>4. \A i \in 1..(m + n) : alerts[i] \in Alerts(d)
    BY <1>3, <1>4 DEF Alerts
  <2>5. \A i \in 1..m : i \in 1..(m + n)  OBVIOUS
  <2>6. Grown(doc, d)  BY <1>13, <2>4, <2>5 DEF Grown
  <2>7. ASSUME NEW x \in AlertIds(d)  PROVE x \in AlertIds(doc) \/ (alertCount < x /\ x <= cut)
    <3>1. PICK i \in 1..(m + n) : x = alerts[i].id
      BY <1>3, <1>4 DEF AlertIds, Alerts
    <3>2. CASE i \in 1..m  BY <1>11, <3>1, <3>2
    <3>3. ASSUME NEW j \in 1..n, i = m + j  PROVE alertCount < x /\ x <= cut
      <4>1. x = alertCount + j  BY <1>12, <3>1, <3>3
      <4>. QED  BY <4>1
    <3>. QED  BY <1>6, <3>2, <3>3
  <2>8. \A r \in left : Covers(d, r, t)  BY <1>14, <2>4 DEF Covers
  <2>9. TakesHits(ws, doc, id, k, t, left, cut, alertCount + n)
    <3>1. Len(d.alerts) <= MaxAlerts  BY <1>1, <1>3, <1>7
    <3>. HIDE DEF ws
    <3>. QED  BY <1>3, <2>1, <2>2, <2>3, <2>6, <2>7, <2>8, <3>1 DEF TakesHits
  <2>. QED  BY <1>1, <2>9 DEF d
<1>8. CASE ~(m + n <= MaxAlerts)
  <2>. DEFINE first == SubSeq(alerts, 1, MaxAlerts)
              others == SubSeq(alerts, MaxAlerts + 1, m + n)
              w == [id |-> id, base |-> <<doc>>, doc |-> [d EXCEPT !.alerts = first]]
              rest == [id |-> 0, base |-> <<>>,
                       doc |-> [NewCase(k, others) EXCEPT !.half = TRUE]]
              cut == alertCount + (MaxAlerts - m)
              l == m + n - MaxAlerts
  <2>1. ws = <<w, rest>>
    <3>1. ~(Len(d.alerts) <= MaxAlerts)  BY <1>1, <1>3, <1>8
    <3>2. Len(d.alerts) = m + n  BY <1>1, <1>3
    <3>. QED  BY <1>3, <3>1, <3>2, SplitWrites, Zenon
  <2>2. MaxAlerts \in 0..Len(alerts) /\ m <= MaxAlerts /\ MaxAlerts - m <= n
        /\ l \in Nat /\ l <= MaxAlerts /\ cut \in Nat
    BY <1>15, <1>2, <1>8, <1>10
  <2>3. /\ first \in Seq(Alert) /\ Len(first) = MaxAlerts
        /\ \A i \in 1..MaxAlerts : first[i] = alerts[i]
    BY <2>2, FirstElements
  <2>4. /\ others \in Seq(Alert) /\ Len(others) = l
        /\ \A i \in 1..l : others[i] = alerts[MaxAlerts + i]
    <3>1. Len(alerts) - MaxAlerts = l  BY <1>15, <1>2
    <3>2. others = SubSeq(alerts, MaxAlerts + 1, Len(alerts))  BY <1>15
    <3>. HIDE DEF others, l
    <3>. QED  BY <2>2, <3>1, <3>2, OtherElements
  <2>5. DOMAIN first = 1..MaxAlerts /\ DOMAIN others = 1..l  BY <2>3, <2>4, LenProperties
  <2>. HIDE DEF first, others
  <2>6. w \in Write  BY <1>3, <1>5, <2>3 DEF Write, Case
  <2>7. rest \in Write  BY <2>4 DEF Write, Case, NewCase
  <2>8. /\ w.id = id /\ w.base = <<doc>> /\ w.doc.alerts = first
        /\ w.doc.key = doc.key /\ w.doc.half = doc.half /\ ~w.doc.closed
    BY <1>3 DEF Case
  <2>9. /\ rest.id = 0 /\ rest.doc.alerts = others /\ rest.doc.key = k
        /\ rest.doc.half /\ ~rest.doc.closed
    BY DEF NewCase
  <2>. HIDE DEF w, rest
  <2>10. \A i \in 1..MaxAlerts : alerts[i] \in Alerts(w.doc)
    BY <2>3, <2>5, <2>8 DEF Alerts
  <2>11. \A i \in 1..l : alerts[MaxAlerts + i] \in Alerts(rest.doc)
    BY <2>4, <2>5, <2>9 DEF Alerts
  <2>12. \A i \in 1..m : i \in 1..MaxAlerts  BY <1>2, <2>2
  <2>13. Grown(doc, w.doc)  BY <1>13, <2>10, <2>12 DEF Grown
  <2>14. ASSUME NEW x \in AlertIds(w.doc)
         PROVE  x \in AlertIds(doc) \/ (alertCount < x /\ x <= cut)
    <3>1. PICK i \in 1..MaxAlerts : x = alerts[i].id
      BY <2>3, <2>5, <2>8 DEF AlertIds, Alerts
    <3>2. i \in 1..(m + n)  BY <1>2, <2>2
    <3>3. CASE i \in 1..m  BY <1>11, <3>1, <3>3
    <3>4. ASSUME NEW j \in 1..n, i = m + j  PROVE alertCount < x /\ x <= cut
      <4>1. x = alertCount + j  BY <1>12, <3>1, <3>4
      <4>2. j <= MaxAlerts - m  BY <1>2, <3>4
      <4>. QED  BY <4>1, <4>2, <1>2, <2>2
    <3>. QED  BY <1>6, <3>2, <3>3, <3>4
  <2>15. ASSUME NEW x \in AlertIds(rest.doc)  PROVE cut < x /\ x <= alertCount + n
    <3>1. PICK i \in 1..l : x = alerts[MaxAlerts + i].id
      BY <2>4, <2>5, <2>9 DEF AlertIds, Alerts
    <3>2. PICK j \in 1..n : j = MaxAlerts + i - m
      <4>1. MaxAlerts + i - m \in 1..n  BY <1>2, <2>2
      <4>. QED  BY <4>1
    <3>3. m + j = MaxAlerts + i  BY <1>2, <2>2, <3>2
    <3>4. x = alertCount + j  BY <1>12, <3>1, <3>3
    <3>. QED  BY <1>2, <2>2, <3>2, <3>4
  <2>16. ASSUME NEW r \in left  PROVE Covers(w.doc, r, t) \/ Covers(rest.doc, r, t)
    <3>1. PICK i \in 1..(m + n) : alerts[i].rule = r /\ t \in alerts[i].txns  BY <1>14
    <3>2. CASE i <= MaxAlerts  BY <1>2, <2>10, <3>1, <3>2 DEF Covers
    <3>3. CASE ~(i <= MaxAlerts)
      <4>1. i - MaxAlerts \in 1..l /\ MaxAlerts + (i - MaxAlerts) = i  BY <1>2, <3>3
      <4>2. alerts[i] \in Alerts(rest.doc)  BY <2>11, <4>1
      <4>. QED  BY <3>1, <4>2 DEF Covers
    <3>. QED  BY <3>2, <3>3
  <2>17. alertCount <= cut /\ cut <= alertCount + n  BY <1>2, <2>2
  <2>18. Len(w.doc.alerts) <= MaxAlerts /\ Len(rest.doc.alerts) <= MaxAlerts
    BY <1>2, <2>2, <2>3, <2>4, <2>8, <2>9
  <2>. HIDE DEF ws, cut, l
  <2>19. TakesHits(ws, doc, id, k, t, left, cut, alertCount + n)
    BY <2>1, <2>6, <2>7, <2>8, <2>9, <2>13, <2>14, <2>15, <2>16, <2>18 DEF TakesHits
  <2>. QED  BY <1>1, <2>2, <2>17, <2>19 DEF d, ws
<1>. QED  BY <1>7, <1>8

(* ... and for a new case: one document with an alert for each rule.       *)
LEMMA NewCaseWrites ==
  ASSUME NEW t \in Txn, NEW left \in SUBSET Rule, NEW k \in Key,
         Cardinality(left) <= MaxAlerts, alertCount \in Nat
  PROVE  /\ Cardinality(left) \in Nat
         /\ \E w \in Write :
           /\ Writes(k, 0, NewCase(k, NewAlerts(t, left)), <<>>) = <<w>>
           /\ w.id = 0 /\ w.doc.key = k /\ ~w.doc.half /\ ~w.doc.closed
           /\ Len(w.doc.alerts) <= MaxAlerts
           /\ \A x \in AlertIds(w.doc) : alertCount < x /\ x <= alertCount + Cardinality(left)
           /\ \A r \in left : Covers(w.doc, r, t)
<1>. DEFINE new == NewAlerts(t, left)
            n == Cardinality(left)
            d == NewCase(k, new)
            w == [id |-> 0, doc |-> d, base |-> <<>>]
<1>1. /\ n \in Nat /\ new \in Seq(Alert) /\ Len(new) = n
      /\ \A i \in 1..n : new[i] \in Alert /\ new[i].id = alertCount + i
      /\ \A r \in left : \E a \in ToSet(new) : a.rule = r /\ t \in a.txns
  BY NewAlertsProperties
<1>. HIDE DEF new, n
<1>2. d \in Case /\ d.key = k /\ d.alerts = new /\ ~d.half /\ ~d.closed
  BY <1>1 DEF NewCase, Case
<1>3. Writes(k, 0, d, <<>>) = <<w>>  BY <1>1, <1>2 DEF Writes, n
<1>4. w \in Write /\ w.id = 0 /\ w.doc = d  BY <1>2 DEF Write
<1>5. DOMAIN new = 1..n  BY <1>1, LenProperties
<1>6. ASSUME NEW x \in AlertIds(d)  PROVE alertCount < x /\ x <= alertCount + n
  <2>1. PICK i \in 1..n : x = new[i].id  BY <1>2, <1>5 DEF AlertIds, Alerts
  <2>2. x = alertCount + i  BY <1>1, <2>1
  <2>. QED  BY <1>1, <2>2
<1>7. \A r \in left : Covers(d, r, t)
  <2>1. Alerts(d) = ToSet(new)  BY <1>2, AlertsToSet
  <2>. QED  BY <1>1, <2>1 DEF Covers
<1>. HIDE DEF w, d
<1>. QED  BY <1>1, <1>2, <1>3, <1>4, <1>6, <1>7 DEF n, new, d

-----------------------------------------------------------------------------
(* What the consumers have in hand.                                        *)

InHand(p) == ToSet(todo[p]) \cup ToSet(saved[p])

GoodDoc(doc) ==
  /\ doc \in Case
  /\ Len(doc.alerts) <= MaxAlerts
  /\ \A x \in AlertIds(doc) : x <= alertCount

(* A write of a case has what the copy it was made from had.               *)
GoodWrite(w) ==
  /\ w \in Write
  /\ GoodDoc(w.doc)
  /\ ~w.doc.closed
  /\ w.id # 0 => /\ w.id \in DOMAIN cases
                 /\ w.doc.key = cases[w.id].key /\ w.doc.half = cases[w.id].half
                 /\ \A b : w.base = <<b>> => Grown(b, w.doc) /\ ~b.closed

(* A write is for the user of the group; a new case is under its key.      *)
ForGroup(p, w) ==
  /\ UserOf[w.doc.key] = UserOf[Group(p).key]
  /\ w.id = 0 => w.doc.key = Group(p).key

(* One document is to be written, or two where the second is the new half  *)
(* of the first.                                                           *)
OneOrTwo(ws) ==
  \E w : \/ ws = <<w>>
         \/ \E rest : /\ ws = <<w, rest>>
                      /\ w.id # 0 /\ rest.id = 0 /\ rest.doc.half

ToWrite(p) ==
  /\ \A w \in ToSet(todo[p]) : ForGroup(p, w)
  /\ OneOrTwo(todo[p])

GoodHand(p) ==
  /\ todo[p] \in Seq(Write) /\ saved[p] \in Seq(Write)
  /\ \A w \in InHand(p) : GoodWrite(w)
  /\ \A w \in ToSet(saved[p]) : w.id # 0
  /\ IF pc[p] = "writing" THEN ToWrite(p) ELSE todo[p] = <<>>
  /\ pc[p] = "relating" => saved[p] # <<>>

DocsInv ==
  /\ alertCount \in Nat
  /\ cases \in [1..caseCount -> Case]
  /\ \A i \in DOMAIN cases : GoodDoc(cases[i])
  /\ DOMAIN saved = Proc
  /\ \A p \in Proc : GoodHand(p)

-----------------------------------------------------------------------------
(* What ReadCases is about to write.                                       *)
PreparedWrite(p, w, i, cut) ==
  /\ w \in Write
  /\ Len(w.doc.alerts) <= MaxAlerts
  /\ ~w.doc.closed
  /\ \A x \in AlertIds(w.doc) : x <= alertCount'
  /\ \/ /\ w.id = 0
        /\ w.doc.key = Group(p).key
        /\ w.doc.half \/ OpenCases(UserOf[Group(p).key]) = {}
        /\ \A x \in AlertIds(w.doc) : cut < x
     \/ /\ w.id = i /\ w.base = <<cases[i]>>
        /\ i \in OpenCases(UserOf[Group(p).key])
        /\ w.doc.key = cases[i].key /\ w.doc.half = cases[i].half
        /\ Grown(cases[i], w.doc)
        /\ \A x \in AlertIds(w.doc) :
             x \in AlertIds(cases[i]) \/ (alertCount < x /\ x <= cut)

Prepared(p, i, cut) ==
  /\ alertCount' \in Nat /\ alertCount <= cut /\ cut <= alertCount'
  /\ todo'[p] \in Seq(Write)
  /\ \A w \in ToSet(todo'[p]) : PreparedWrite(p, w, i, cut)
  /\ OneOrTwo(todo'[p])
  /\ \A r \in Group(p).rules :
       \/ r \in AlertedRules(UserOf[Group(p).key], job[p])
       \/ \E w \in ToSet(todo'[p]) : Covers(w.doc, r, job[p])

LEMMA OneElement ==
  \A w \in Write : <<w>> \in Seq(Write) /\ ToSet(<<w>>) = {w}
BY DEF ToSet

LEMMA TwoElements ==
  \A w, x \in Write : <<w, x>> \in Seq(Write) /\ ToSet(<<w, x>>) = {w, x}
<1>. TAKE w \in Write, x \in Write
<1>1. <<w, x>> \in Seq(Write) /\ DOMAIN <<w, x>> = {1, 2}  OBVIOUS
<1>2. <<w, x>>[1] = w /\ <<w, x>>[2] = x  OBVIOUS
<1>. QED  BY <1>1, <1>2 DEF ToSet

LEMMA GroupOfProcess ==
  ASSUME IInv, NEW p \in Proc, Busy(p)
  PROVE  /\ job[p] \in Txn /\ Group(p) \in CaseGroup
         /\ CurGroups(p) \in Seq(CaseGroup)
         /\ at[p] \in DOMAIN CurGroups(p)
         /\ Cardinality(Group(p).rules) <= MaxAlerts
         /\ Cardinality(Group(p).rules) \in Nat
<1>1. /\ job[p] \in Txn /\ stored[job[p]] \in DOMAIN Groups[job[p]]
      /\ at[p] \in DOMAIN CurGroups(p)
  BY DEF IInv, AtGroup
<1>2. Groups[job[p]] \in Seq(Seq(CaseGroup))  BY <1>1, SubjectAssumption
<1>3. CurGroups(p) \in Seq(CaseGroup)  BY <1>1, <1>2 DEF CurGroups
<1>4. Group(p) \in CaseGroup  BY <1>1, <1>3 DEF Group
<1>5. Cardinality(Group(p).rules) <= MaxAlerts
  BY <1>1, FewRulesAssumption DEF Group, CurGroups
<1>6. IsFiniteSet(Group(p).rules)
  BY <1>4, FiniteAssumption, FS_Subset DEF CaseGroup
<1>. QED  BY <1>1, <1>3, <1>4, <1>5, <1>6, FS_CardinalityType

(* ReadCases, in the two branches that write.                              *)
LEMMA ReadCasesPrepares ==
  ASSUME IInv, DocsInv, NEW p \in Proc, ReadCases(p), pc'[p] = "writing"
  PROVE  \E i \in Nat, cut \in Nat : Prepared(p, i, cut)
<1>. DEFINE t == job[p]
            k == Group(p).key
            u == UserOf[k]
            all == Group(p).rules
            left == all \ AlertedRules(u, t)
<1>0. pc[p] = "reading" /\ Busy(p)  BY DEF ReadCases, Busy
<1>1. /\ t \in Txn /\ k \in Key /\ all \in SUBSET Rule
      /\ Cardinality(all) <= MaxAlerts /\ Cardinality(all) \in Nat
  BY <1>0, GroupOfProcess DEF CaseGroup
<1>2. left \in SUBSET all /\ left \in SUBSET Rule /\ Cardinality(left) <= MaxAlerts
  <2>0. left \in SUBSET all /\ left \in SUBSET Rule  BY <1>1
  <2>1. IsFiniteSet(all)  BY <1>1, FiniteAssumption, FS_Subset
  <2>. HIDE DEF left, all
  <2>2. IsFiniteSet(left) /\ Cardinality(left) <= Cardinality(all)
    BY <2>0, <2>1, FS_Subset
  <2>3. Cardinality(left) \in Nat  BY <2>2, FS_CardinalityType
  <2>. QED  BY <1>1, <2>0, <2>2, <2>3, LimitAssumption
<1>3. alertCount \in Nat /\ pc \in [Proc -> {"idle", "locking", "reading", "writing", "unlocking",
                      "relating"}] /\ DOMAIN todo = Proc
  BY DEF DocsInv, IInv, DomainsOK
<1>4. \/ /\ OpenCases(u) = {}
         /\ todo'[p] = Writes(k, 0, NewCase(k, NewAlerts(t, left)), <<>>)
         /\ alertCount' = alertCount + Cardinality(left)
      \/ \E i \in OpenCases(u) :
           /\ todo'[p] = Writes(k, i, WithHits(cases[i], t, all, left), <<cases[i]>>)
           /\ alertCount' = alertCount + Cardinality(FreshRules(cases[i], left))
  BY <1>0, <1>3 DEF ReadCases
<1>. DEFINE Rules == \A r \in all : \/ r \in AlertedRules(u, t)
                                    \/ \E w \in ToSet(todo'[p]) : Covers(w.doc, r, t)
<1>. HIDE DEF t, k, all, u, left
<1>5. CASE /\ OpenCases(u) = {}
           /\ todo'[p] = Writes(k, 0, NewCase(k, NewAlerts(t, left)), <<>>)
           /\ alertCount' = alertCount + Cardinality(left)
  <2>. DEFINE n == Cardinality(left)
  <2>1. PICK w \in Write :
          /\ Writes(k, 0, NewCase(k, NewAlerts(t, left)), <<>>) = <<w>>
          /\ w.id = 0 /\ w.doc.key = k /\ ~w.doc.half /\ ~w.doc.closed
          /\ Len(w.doc.alerts) <= MaxAlerts
          /\ \A x \in AlertIds(w.doc) : alertCount < x /\ x <= alertCount + n
          /\ \A r \in left : Covers(w.doc, r, t)
    BY <1>1, <1>2, <1>3, NewCaseWrites
  <2>2. n \in Nat  BY <1>1, <1>2, <1>3, NewCaseWrites
  <2>. HIDE DEF n
  <2>3. /\ todo'[p] = <<w>> /\ todo'[p] \in Seq(Write) /\ ToSet(todo'[p]) = {w}
        /\ alertCount' = alertCount + n
    BY <1>5, <2>1, OneElement DEF n
  <2>4. PreparedWrite(p, w, 0, alertCount)
    BY <1>5, <2>1, <2>3 DEF PreparedWrite, k, u
  <2>5. Rules
    BY <2>1, <2>3 DEF left
  <2>6. alertCount' \in Nat /\ alertCount <= alertCount /\ alertCount <= alertCount'
    BY <1>3, <2>2, <2>3
  <2>7. OneOrTwo(todo'[p])  BY <2>3 DEF OneOrTwo
  <2>8. Prepared(p, 0, alertCount)
    <3>1. \A x \in ToSet(todo'[p]) : PreparedWrite(p, x, 0, alertCount)
      BY <2>3, <2>4, Zenon
    <3>. QED  BY <2>3, <2>5, <2>6, <2>7, <3>1 DEF Prepared, k, t, all, u
  <2>. QED  BY <1>3, <2>8
<1>6. ASSUME NEW i \in OpenCases(u),
             todo'[p] = Writes(k, i, WithHits(cases[i], t, all, left), <<cases[i]>>),
             alertCount' = alertCount + Cardinality(FreshRules(cases[i], left))
      PROVE  \E cut \in Nat : Prepared(p, i, cut)
  <2>. DEFINE n == Cardinality(FreshRules(cases[i], left))
              doc == cases[i]
  <2>1. i \in DOMAIN cases /\ ~doc.closed  BY DEF OpenCases
  <2>2. i \in Nat /\ i # 0 /\ doc \in Case /\ Len(doc.alerts) <= MaxAlerts
    BY <2>1 DEF DocsInv, GoodDoc, IInv, DomainsOK
  <2>20. \A x \in AlertIds(doc) : x \in Nat /\ x <= alertCount
    <3>1. doc.alerts \in Seq(Alert)  BY <2>2 DEF Case
    <3>2. \A a \in Alerts(doc) : a \in Alert  BY <3>1, LenProperties DEF Alerts
    <3>. QED  BY <2>1, <3>2 DEF DocsInv, GoodDoc, AlertIds, Alert
  <2>3. /\ n \in Nat
        /\ \E cut \in Nat :
             /\ alertCount <= cut /\ cut <= alertCount + n
             /\ TakesHits(todo'[p], doc, i, k, t, left, cut, alertCount + n)
    <3>. HIDE DEF doc
    <3>. QED  BY <1>1, <1>2, <1>3, <1>6, <2>1, <2>2, HitWrites DEF doc
  <2>4. PICK cut \in Nat :
             /\ alertCount <= cut /\ cut <= alertCount + n
             /\ TakesHits(todo'[p], doc, i, k, t, left, cut, alertCount + n)
    BY <2>3
  <2>5. PICK w \in Write :
          /\ w.id = i /\ w.base = <<doc>>
          /\ w.doc.key = doc.key /\ w.doc.half = doc.half /\ ~w.doc.closed
          /\ Len(w.doc.alerts) <= MaxAlerts
          /\ Grown(doc, w.doc)
          /\ \A x \in AlertIds(w.doc) : x \in AlertIds(doc) \/ (alertCount < x /\ x <= cut)
          /\ \/ todo'[p] = <<w>> /\ \A r \in left : Covers(w.doc, r, t)
             \/ \E rest \in Write :
                  /\ todo'[p] = <<w, rest>>
                  /\ rest.id = 0 /\ rest.doc.key = k /\ rest.doc.half /\ ~rest.doc.closed
                  /\ Len(rest.doc.alerts) <= MaxAlerts
                  /\ \A x \in AlertIds(rest.doc) : cut < x /\ x <= alertCount + n
                  /\ \A r \in left : Covers(w.doc, r, t) \/ Covers(rest.doc, r, t)
    BY <2>4 DEF TakesHits
  <2>. HIDE DEF n, doc
  <2>6. alertCount' = alertCount + n  BY <1>6 DEF n
  <2>7. alertCount' \in Nat /\ alertCount <= cut /\ cut <= alertCount'
    BY <1>3, <2>3, <2>4, <2>6
  <2>8. PreparedWrite(p, w, i, cut)
    <3>1. \A x \in AlertIds(w.doc) : x <= alertCount'
      <4>1. \A x \in AlertIds(w.doc) : x \in Nat
        <5>1. w.doc.alerts \in Seq(Alert)  BY <2>5 DEF Write, Case
        <5>2. \A a \in Alerts(w.doc) : a \in Alert  BY <5>1, LenProperties DEF Alerts
        <5>. QED  BY <5>2 DEF AlertIds, Alert
      <4>. QED  BY <1>3, <2>5, <2>7, <2>20, <4>1
    <3>. QED  BY <2>5, <3>1 DEF PreparedWrite, doc, u, k
  <2>9. CASE todo'[p] = <<w>> /\ \A r \in left : Covers(w.doc, r, t)
    <3>1. todo'[p] \in Seq(Write) /\ ToSet(todo'[p]) = {w}  BY <2>9, OneElement
    <3>2. OneOrTwo(todo'[p])  BY <2>9 DEF OneOrTwo
    <3>3. Rules  BY <2>9, <3>1 DEF left
    <3>4. \A x \in ToSet(todo'[p]) : PreparedWrite(p, x, i, cut)
      BY <2>8, <3>1, Zenon
    <3>5. Prepared(p, i, cut)
      BY <2>7, <3>1, <3>2, <3>3, <3>4 DEF Prepared, k, t, all, u
    <3>. QED  BY <3>5
  <2>10. ASSUME NEW rest \in Write,
                todo'[p] = <<w, rest>>,
                rest.id = 0, rest.doc.key = k, rest.doc.half, ~rest.doc.closed,
                Len(rest.doc.alerts) <= MaxAlerts,
                \A x \in AlertIds(rest.doc) : cut < x /\ x <= alertCount + n,
                \A r \in left : Covers(w.doc, r, t) \/ Covers(rest.doc, r, t)
         PROVE  Prepared(p, i, cut)
    <3>1. todo'[p] \in Seq(Write) /\ ToSet(todo'[p]) = {w, rest}
      BY <2>10, TwoElements
    <3>2. OneOrTwo(todo'[p])  BY <2>2, <2>5, <2>10 DEF OneOrTwo
    <3>3. Rules  BY <2>10, <3>1 DEF left
    <3>4. PreparedWrite(p, rest, i, cut)
      BY <2>6, <2>10 DEF PreparedWrite, k
    <3>5. \A x \in ToSet(todo'[p]) : PreparedWrite(p, x, i, cut)
      BY <2>8, <3>1, <3>4, Zenon
    <3>. QED
      BY <2>7, <3>1, <3>2, <3>3, <3>5 DEF Prepared, k, t, all, u
  <2>. QED  BY <2>5, <2>9, <2>10
<1>7. \A i \in OpenCases(u) : i \in Nat
  BY DEF OpenCases, IInv, DomainsOK
<1>. QED  BY <1>4, <1>5, <1>6, <1>7

-----------------------------------------------------------------------------
(* What a step leaves alone, and how documents change.                     *)

LEMMA AlertsOfCase ==
  ASSUME NEW doc \in Case
  PROVE  /\ doc.alerts \in Seq(Alert)
         /\ Alerts(doc) = ToSet(doc.alerts)
         /\ \A a \in Alerts(doc) : a \in Alert /\ a.id \in AlertIds(doc)
         /\ \A x \in AlertIds(doc) : x \in Nat /\ \E a \in Alerts(doc) : x = a.id
<1>1. doc.alerts \in Seq(Alert)  BY DEF Case
<1>2. \A a \in Alerts(doc) : a \in Alert  BY <1>1, LenProperties DEF Alerts
<1>. QED  BY <1>1, <1>2, AlertsToSet DEF AlertIds, Alert

Untouched(q) ==
  /\ pc'[q] = pc[q] /\ job'[q] = job[q] /\ at'[q] = at[q]
  /\ todo'[q] = todo[q] /\ saved'[q] = saved[q]
  /\ Busy(q) => CurGroups(q)' = CurGroups(q) /\ Group(q)' = Group(q)

Acts(p) == \/ \E t \in Txn : \E v \in Versions(t) : Deliver(p, t, v)
           \/ Consume(p) \/ Throw(p) \/ Die(p)

LEMMA IdleUntouched ==
  ASSUME IInv, DocsInv, NEW p \in Proc, Idle(p), NEW q \in Proc, q # p
  PROVE  /\ pc'[q] = pc[q] /\ job'[q] = job[q] /\ at'[q] = at[q]
         /\ todo'[q] = todo[q] /\ saved'[q] = saved[q]
BY DEF Idle, IInv, DomainsOK, DocsInv

LEMMA OthersUntouched ==
  ASSUME IInv, DocsInv, NEW p \in Proc, Acts(p), NEW q \in Proc, q # p
  PROVE  Untouched(q)
<1>. DEFINE Same == /\ pc'[q] = pc[q] /\ job'[q] = job[q] /\ at'[q] = at[q]
                    /\ todo'[q] = todo[q] /\ saved'[q] = saved[q]
<1>0. /\ DOMAIN pc = Proc /\ DOMAIN job = Proc /\ DOMAIN at = Proc
      /\ DOMAIN todo = Proc /\ DOMAIN saved = Proc /\ DOMAIN stored = Txn
  BY DEF IInv, DomainsOK, DocsInv
<1>1. ASSUME NEW t \in Txn, NEW v \in Versions(t), Deliver(p, t, v)
      PROVE  Same /\ (Busy(q) => stored'[job[q]] = stored[job[q]])
  <2>1. Busy(q) => job[q] # t /\ job[q] \in Txn
    BY <1>1 DEF Deliver, IInv, AtGroup
  <2>. QED  BY <1>0, <1>1, <2>1 DEF Deliver
<1>2. ASSUME Lock(p) PROVE Same /\ stored' = stored
  BY <1>0, <1>2 DEF Lock, messages
<1>3. ASSUME ReadCases(p) PROVE Same /\ stored' = stored
  <2>1. stored' = stored /\ job' = job /\ at' = at /\ saved' = saved
    BY <1>3 DEF ReadCases, messages
  <2>2. pc'[q] = pc[q] /\ todo'[q] = todo[q]
    BY <1>0, <1>3 DEF ReadCases
  <2>. QED  BY <2>1, <2>2
<1>4. ASSUME WriteCase(p) PROVE Same /\ stored' = stored
  BY <1>0, <1>4 DEF WriteCase, messages
<1>5. ASSUME Unlock(p) PROVE Same /\ stored' = stored
  <2>1. CASE Idle(p)  BY <1>5, <2>1, IdleUntouched DEF Unlock
  <2>2. CASE ~Idle(p)  BY <1>0, <1>5, <2>2 DEF Unlock, Return
  <2>. QED  BY <2>1, <2>2
<1>6. ASSUME Relate(p) PROVE Same /\ stored' = stored
  <2>1. CASE Idle(p)  BY <1>6, <2>1, IdleUntouched DEF Relate
  <2>2. CASE ~Idle(p)  BY <1>0, <1>6, <2>2 DEF Relate, Return
  <2>. QED  BY <2>1, <2>2
<1>7. ASSUME Throw(p) \/ Die(p) PROVE Same /\ stored' = stored
  BY <1>7, IdleUntouched DEF Throw, Die, Fault, messages
<1>8. Same /\ (Busy(q) => stored'[job[q]] = stored[job[q]])
  <2>. HIDE DEF Same
  <2>. QED  BY <1>1, <1>2, <1>3, <1>4, <1>5, <1>6, <1>7 DEF Acts, Consume
<1>. QED  BY <1>8, GroupKept DEF Untouched

LEMMA AllUntouched ==
  ASSUME UNCHANGED <<consumers, stored>>
  PROVE  \A q \in Proc : Untouched(q)
BY DEF consumers, Untouched, CurGroups, Group

(* The cases keep what they have, but for those overwritten.               *)
CaseGrows(i) ==
  /\ cases'[i].key = cases[i].key /\ cases'[i].half = cases[i].half
  /\ \/ Disturbed(i)'
     \/ Grown(cases[i], cases'[i]) /\ (cases[i].closed => cases'[i].closed)

CasesGrow ==
  /\ DOMAIN cases \subseteq DOMAIN cases'
  /\ overwritten \subseteq overwritten'
  /\ \A i \in DOMAIN cases : CaseGrows(i)

GoodCases ==
  /\ cases \in [1..caseCount -> Case]
  /\ \A i \in DOMAIN cases : GoodDoc(cases[i])

LEMMA GrownReflexive == \A doc : Grown(doc, doc)
BY DEF Grown

LEMMA QuietGrows ==
  ASSUME UNCHANGED <<cases, overwritten>>
  PROVE  CasesGrow
BY GrownReflexive DEF CasesGrow, CaseGrows

(* Save, given a good document.                                            *)
LEMMA SaveGrows ==
  ASSUME IInv, DocsInv, NEW w, GoodWrite(w), NEW who, Save(w, who),
         alertCount' = alertCount, NEW x, x = Written(w)
  PROVE  /\ CasesGrow
         /\ caseCount' \in Nat
         /\ GoodCases'
         /\ x.id \in DOMAIN cases' /\ x.id # 0
         /\ x.doc = w.doc /\ x \in Write
         /\ cases'[x.id] = w.doc
         /\ \A i \in DOMAIN cases : i # w.id => cases'[i] = cases[i]
         /\ w.id # 0 => DOMAIN cases' = DOMAIN cases /\ x.id = w.id
         /\ w.id = 0 => /\ x.id \notin DOMAIN cases
                        /\ DOMAIN cases' = DOMAIN cases \cup {x.id}
         /\ GoodWrite(x)'
<1>0. /\ caseCount \in Nat /\ cases \in [1..caseCount -> Case]
      /\ DOMAIN cases = 1..caseCount
      /\ \A i \in DOMAIN cases : GoodDoc(cases[i])
  BY DEF IInv, DomainsOK, DocsInv
<1>1. /\ w \in Write /\ GoodDoc(w.doc) /\ ~w.doc.closed
      /\ w.id \in Nat /\ w.doc \in Case /\ <<w.doc>> \in Seq(Case)
  BY DEF GoodWrite, Write
<1>2. \A doc : GoodDoc(doc) <=> GoodDoc(doc)'
  BY DEF GoodDoc
<1>3. /\ x.doc = w.doc /\ x.base = <<w.doc>>
      /\ x.id = IF w.id = 0 THEN caseCount + 1 ELSE w.id
      /\ x \in Write
  BY <1>0, <1>1 DEF Written, Write
<1>4. \A b : <<w.doc>> = <<b>> => b = w.doc  OBVIOUS
<1>5. CASE w.id = 0
  <2>1. /\ caseCount' = caseCount + 1 /\ overwritten' = overwritten
        /\ cases' = [i \in 1..(caseCount + 1) |->
                       IF i = caseCount + 1 THEN w.doc ELSE cases[i]]
    BY <1>5 DEF Save, Extend
  <2>2. /\ cases' \in [1..caseCount' -> Case]
        /\ DOMAIN cases' = DOMAIN cases \cup {caseCount + 1}
        /\ caseCount + 1 \notin DOMAIN cases
        /\ cases'[caseCount + 1] = w.doc
        /\ \A i \in DOMAIN cases : cases'[i] = cases[i]
    BY <1>0, <1>1, <2>1
  <2>3. GoodCases'  BY <1>0, <1>1, <1>2, <2>2 DEF GoodCases
  <2>4. CasesGrow
    <3>1. \A i \in DOMAIN cases : CaseGrows(i)
      BY <2>2, GrownReflexive DEF CaseGrows
    <3>. QED  BY <2>1, <2>2, <3>1 DEF CasesGrow
  <2>5. x.id = caseCount + 1 /\ x.id # 0 /\ caseCount' \in Nat  BY <1>0, <1>3, <1>5, <2>1
  <2>6. GoodWrite(x)'
    BY <1>1, <1>2, <1>3, <1>4, <2>2, <2>5, GrownReflexive DEF GoodWrite
  <2>. QED  BY <1>0, <1>3, <1>5, <2>2, <2>3, <2>4, <2>5, <2>6
<1>6. CASE w.id # 0
  <2>1. /\ caseCount' = caseCount
        /\ cases' = [cases EXCEPT ![w.id] = w.doc]
        /\ overwritten' = IF w.base = <<cases[w.id]>> THEN overwritten
            ELSE overwritten \cup {[case |-> w.id, by |-> who,
                                    over |-> writer[w.id]]}
    BY <1>6 DEF Save
  <2>2. /\ w.id \in DOMAIN cases
        /\ w.doc.key = cases[w.id].key /\ w.doc.half = cases[w.id].half
        /\ \A b : w.base = <<b>> => Grown(b, w.doc) /\ ~b.closed
    BY <1>6 DEF GoodWrite
  <2>3. /\ cases' \in [1..caseCount' -> Case]
        /\ DOMAIN cases' = DOMAIN cases
        /\ cases'[w.id] = w.doc
        /\ \A i \in DOMAIN cases : i # w.id => cases'[i] = cases[i]
    BY <1>0, <1>1, <2>1, <2>2
  <2>4. GoodCases'  BY <1>0, <1>1, <1>2, <2>3 DEF GoodCases
  <2>5. overwritten \subseteq overwritten'  BY <2>1
  <2>6. w.base # <<cases[w.id]>> => Disturbed(w.id)'
    <3>. SUFFICES ASSUME w.base # <<cases[w.id]>> PROVE Disturbed(w.id)'
      OBVIOUS
    <3>. DEFINE o == [case |-> w.id, by |-> who, over |-> writer[w.id]]
    <3>1. o \in overwritten' /\ o.case = w.id  BY <2>1
    <3>. HIDE DEF o
    <3>. QED  BY <3>1 DEF Disturbed
  <2>7. CasesGrow
    <3>1. \A i \in DOMAIN cases : CaseGrows(i)
      BY <2>2, <2>3, <2>6, GrownReflexive DEF CaseGrows
    <3>. QED  BY <2>3, <2>5, <3>1 DEF CasesGrow
  <2>8. x.id = w.id /\ caseCount' \in Nat  BY <1>0, <1>3, <1>6, <2>1
  <2>9. GoodWrite(x)'
    BY <1>1, <1>2, <1>3, <1>4, <2>2, <2>3, <2>8, GrownReflexive DEF GoodWrite
  <2>. QED  BY <1>0, <1>3, <1>6, <2>2, <2>3, <2>4, <2>7, <2>8, <2>9
<1>. QED  BY <1>5, <1>6

(* What the person's writes make of a document.                            *)
PersonSets(i) ==
  /\ cases'[i] \in Case
  /\ cases'[i].key = cases[i].key /\ cases'[i].half = cases[i].half
  /\ cases[i].closed => cases'[i].closed
  /\ Len(cases'[i].alerts) = Len(cases[i].alerts)
  /\ AlertIds(cases'[i]) = AlertIds(cases[i])
  /\ Grown(cases[i], cases'[i])

LEMMA SetCaseSets ==
  ASSUME DocsInv, SetCase
  PROVE  /\ DOMAIN cases' = DOMAIN cases
         /\ \A i \in DOMAIN cases : PersonSets(i) /\ OpenAlerts(i)' = OpenAlerts(i)
         /\ \A i \in DOMAIN cases : i # person.case => cases'[i] = cases[i]
<1>1. cases' = [cases EXCEPT ![person.case].closed = TRUE]
  BY DEF SetCase
<1>2. DOMAIN cases' = DOMAIN cases  BY <1>1
<1>3. \A i \in DOMAIN cases : i # person.case => cases'[i] = cases[i]
  BY <1>1
<1>4. ASSUME NEW i \in DOMAIN cases  PROVE PersonSets(i) /\ OpenAlerts(i)' = OpenAlerts(i)
  <2>0. cases[i] \in Case  BY DEF DocsInv
  <2>1. cases'[i] = cases[i] \/ cases'[i] = [cases[i] EXCEPT !.closed = TRUE]
    BY <1>1
  <2>2. /\ cases'[i] \in Case /\ cases'[i].alerts = cases[i].alerts
        /\ cases'[i].key = cases[i].key /\ cases'[i].half = cases[i].half
        /\ cases[i].closed => cases'[i].closed
    BY <2>0, <2>1 DEF Case
  <2>3. Alerts(cases'[i]) = Alerts(cases[i])  BY <2>2 DEF Alerts
  <2>4. AlertIds(cases'[i]) = AlertIds(cases[i]) /\ Grown(cases[i], cases'[i])
    BY <2>3, GrownReflexive DEF AlertIds, Grown
  <2>5. OpenAlerts(i)' = OpenAlerts(i)  BY <2>3 DEF OpenAlerts
  <2>. QED  BY <2>2, <2>4, <2>5 DEF PersonSets
<1>. QED  BY <1>2, <1>3, <1>4

LEMMA SetAlertsSets ==
  ASSUME DocsInv, SetAlerts
  PROVE  /\ DOMAIN cases' = DOMAIN cases
         /\ \A i \in DOMAIN cases :
              /\ PersonSets(i) /\ cases'[i].closed = cases[i].closed
              /\ OpenAlerts(i)' \subseteq OpenAlerts(i) \ person.alerts
<1>. DEFINE Set(a) == IF a.id \in person.alerts THEN [a EXCEPT !.closed = TRUE] ELSE a
            New(doc) == [j \in DOMAIN doc.alerts |-> Set(doc.alerts[j])]
<1>1. DOMAIN cases' = DOMAIN cases  BY DEF SetAlerts
<1>2. ASSUME NEW i \in DOMAIN cases
      PROVE  /\ PersonSets(i) /\ cases'[i].closed = cases[i].closed
             /\ OpenAlerts(i)' \subseteq OpenAlerts(i) \ person.alerts
  <2>0. cases[i] \in Case  BY DEF DocsInv
  <2>1. \/ cases'[i] = [cases[i] EXCEPT !.alerts = New(cases[i])]
        \/ cases'[i] = cases[i] /\ \A a \in Alerts(cases[i]) : a.id \notin person.alerts
    BY DEF SetAlerts
  <2>2. CASE cases'[i] = cases[i] /\ \A a \in Alerts(cases[i]) : a.id \notin person.alerts
    <3>1. OpenAlerts(i)' = OpenAlerts(i)  BY <2>2 DEF OpenAlerts
    <3>2. OpenAlerts(i) \cap person.alerts = {}  BY <2>2 DEF OpenAlerts
    <3>. QED  BY <2>0, <2>2, <3>1, <3>2, GrownReflexive DEF PersonSets
  <2>3. CASE cases'[i] = [cases[i] EXCEPT !.alerts = New(cases[i])]
    <3>1. /\ cases[i].alerts \in Seq(Alert)
          /\ \A a \in Alerts(cases[i]) : a \in Alert
      BY <2>0, AlertsOfCase
    <3>2. /\ Len(cases[i].alerts) \in Nat /\ DOMAIN cases[i].alerts = 1..Len(cases[i].alerts)
          /\ \A j \in DOMAIN cases[i].alerts : cases[i].alerts[j] \in Alert
      BY <3>1, LenProperties
    <3>3. \A a \in Alert : /\ Set(a) \in Alert /\ Set(a).id = a.id /\ Set(a).rule = a.rule
                           /\ Set(a).txns = a.txns
                           /\ ~Set(a).closed => ~a.closed /\ a.id \notin person.alerts
      BY DEF Alert
    <3>. HIDE DEF Set
    <3>. DEFINE new == New(cases[i])
    <3>4. new \in [1..Len(cases[i].alerts) -> Alert]  BY <3>2, <3>3
    <3>4a. \A j \in DOMAIN cases[i].alerts : new[j] = Set(cases[i].alerts[j])  OBVIOUS
    <3>. HIDE DEF new
    <3>5. new \in Seq(Alert) /\ Len(new) = Len(cases[i].alerts) /\ DOMAIN new = DOMAIN cases[i].alerts
      <4>1. new \in Seq(Alert)  BY <3>2, <3>4, IsASeq
      <4>2. DOMAIN new = 1..Len(cases[i].alerts)  BY <3>4
      <4>. QED  BY <3>2, <4>1, <4>2, LenProperties
    <3>6. /\ cases'[i] \in Case /\ cases'[i].alerts = new
          /\ cases'[i].key = cases[i].key /\ cases'[i].half = cases[i].half
          /\ cases'[i].closed = cases[i].closed
      BY <2>0, <2>3, <3>5 DEF Case, new
    <3>7. /\ \A a \in Alerts(cases[i]) : Set(a) \in Alerts(cases'[i])
          /\ \A b \in Alerts(cases'[i]) : \E a \in Alerts(cases[i]) : b = Set(a)
      BY <3>4a, <3>5, <3>6 DEF Alerts
    <3>8. AlertIds(cases'[i]) = AlertIds(cases[i])
      BY <3>1, <3>3, <3>7 DEF AlertIds
    <3>9. Grown(cases[i], cases'[i])
      BY <3>1, <3>3, <3>7 DEF Grown
    <3>10. OpenAlerts(i)' \subseteq OpenAlerts(i) \ person.alerts
      <4>. SUFFICES ASSUME NEW b \in Alerts(cases'[i]), ~b.closed
                    PROVE  b.id \in OpenAlerts(i) /\ b.id \notin person.alerts
        BY DEF OpenAlerts
      <4>1. PICK a \in Alerts(cases[i]) : b = Set(a)  BY <3>7
      <4>. QED  BY <3>1, <3>3, <4>1 DEF OpenAlerts
    <3>. QED  BY <3>5, <3>6, <3>8, <3>9, <3>10 DEF PersonSets
  <2>. QED  BY <2>1, <2>2, <2>3
<1>. QED  BY <1>1, <1>2

LEMMA PersonGrows ==
  ASSUME DocsInv, SetCase \/ SetAlerts
  PROVE  /\ CasesGrow /\ GoodCases' /\ DOMAIN cases' = DOMAIN cases
         /\ \A i \in DOMAIN cases : PersonSets(i)
         /\ UNCHANGED systemVars
<1>1. UNCHANGED systemVars  BY DEF SetCase, SetAlerts
<1>2. DOMAIN cases' = DOMAIN cases /\ \A i \in DOMAIN cases : PersonSets(i)
  BY SetCaseSets, SetAlertsSets
<1>3. overwritten' = overwritten /\ alertCount' = alertCount /\ caseCount' = caseCount
  BY <1>1 DEF systemVars, counters
<1>4. CasesGrow  BY <1>2, <1>3 DEF CasesGrow, CaseGrows, PersonSets
<1>5. cases' = [i \in DOMAIN cases' |-> cases'[i]]
  <2>1. DOMAIN cases = 1..caseCount  BY DEF DocsInv
  <2>2. CASE SetCase  BY <2>1, <2>2 DEF SetCase, DocsInv
  <2>3. CASE SetAlerts  BY <2>3 DEF SetAlerts
  <2>. QED  BY <2>2, <2>3
<1>6. cases' \in [1..caseCount' -> Case]
  BY <1>2, <1>3, <1>5 DEF DocsInv, PersonSets
<1>7. \A i \in DOMAIN cases : GoodDoc(cases[i])'
  BY <1>2, <1>3 DEF PersonSets, GoodDoc, DocsInv
<1>. QED  BY <1>1, <1>2, <1>4, <1>6, <1>7 DEF GoodCases

-----------------------------------------------------------------------------
(* The documents stay good.                                                *)

CountsOn == alertCount \in Nat /\ alertCount' \in Nat /\ alertCount <= alertCount'

LEMMA GoodDocKept ==
  ASSUME CountsOn, NEW doc, GoodDoc(doc)
  PROVE  GoodDoc(doc)'
<1>1. \A x \in AlertIds(doc) : x \in Nat  BY AlertsOfCase DEF GoodDoc
<1>. QED  BY <1>1 DEF CountsOn, GoodDoc

LEMMA GoodWriteKept ==
  ASSUME CountsOn, CasesGrow, NEW w, GoodWrite(w)
  PROVE  GoodWrite(w)'
<1>1. GoodDoc(w.doc)'  BY GoodDocKept DEF GoodWrite
<1>2. w.id # 0 => /\ w.id \in DOMAIN cases'
                  /\ w.doc.key = cases'[w.id].key /\ w.doc.half = cases'[w.id].half
  BY DEF GoodWrite, CasesGrow, CaseGrows
<1>. QED  BY <1>1, <1>2 DEF GoodWrite

LEMMA HandKept ==
  ASSUME CountsOn, CasesGrow, NEW q \in Proc, GoodHand(q), Untouched(q)
  PROVE  GoodHand(q)'
<1>1. InHand(q)' = InHand(q)  BY DEF InHand, Untouched
<1>2. \A w \in InHand(q)' : GoodWrite(w)'
  BY <1>1, GoodWriteKept DEF GoodHand
<1>3. pc[q] = "writing" => ToWrite(q)'
  <2>. SUFFICES ASSUME pc[q] = "writing" PROVE ToWrite(q)'
    OBVIOUS
  <2>1. Group(q)' = Group(q) /\ todo'[q] = todo[q] /\ ToWrite(q)
    BY DEF Untouched, Busy, GoodHand
  <2>. QED  BY <2>1 DEF ToWrite, ForGroup
<1>. QED  BY <1>2, <1>3 DEF GoodHand, Untouched

(* With nothing left to write, and no copies but those p had.              *)
LEMMA HandEmptied ==
  ASSUME CountsOn, CasesGrow, NEW p \in Proc, GoodHand(p), todo'[p] = <<>>,
         saved'[p] \in Seq(Write), ToSet(saved'[p]) \subseteq ToSet(saved[p]),
         pc'[p] # "writing", pc'[p] = "relating" => saved'[p] # <<>>
  PROVE  GoodHand(p)'
<1>1. InHand(p)' \subseteq InHand(p)  BY ToSetEmpty DEF InHand
<1>2. \A w \in InHand(p)' : GoodWrite(w)'
  BY <1>1, GoodWriteKept DEF GoodHand
<1>3. <<>> \in Seq(Write)  OBVIOUS
<1>4. \A w \in ToSet(saved'[p]) : w.id # 0  BY DEF GoodHand
<1>. QED  BY <1>2, <1>3, <1>4 DEF GoodHand

LEMMA IdleHand ==
  ASSUME CountsOn, CasesGrow, IInv, DocsInv, NEW p \in Proc, Idle(p)
  PROVE  GoodHand(p)'
<1>1. pc'[p] = "idle" /\ todo'[p] = <<>> /\ saved'[p] = <<>>
  BY DEF Idle, IInv, DomainsOK, DocsInv
<1>2. <<>> \in Seq(Write) /\ ToSet(<<>>) = {}  BY ToSetEmpty
<1>. QED  BY <1>1, <1>2, HandEmptied DEF DocsInv

(* What a step of p's shows for all, once it is shown for p.               *)
LEMMA DocsByActor ==
  ASSUME IInv, DocsInv, NEW p \in Proc, Acts(p), CountsOn, CasesGrow,
         GoodCases', DOMAIN saved' = Proc, GoodHand(p)'
  PROVE  DocsInv'
<1>1. \A q \in Proc : GoodHand(q)'
  BY OthersUntouched, HandKept DEF DocsInv
<1>. QED  BY <1>1 DEF DocsInv, GoodCases, CountsOn

LEMMA GoodCasesKept ==
  ASSUME DocsInv, CountsOn, UNCHANGED <<cases, caseCount>>
  PROVE  GoodCases'
BY GoodDocKept DEF DocsInv, GoodCases

LEMMA DocsDeliver ==
  ASSUME IInv, DocsInv, NEW p \in Proc, NEW t \in Txn, NEW v \in Versions(t), Deliver(p, t, v)
  PROVE  DocsInv'
<1>1. /\ alertCount' = alertCount /\ overwritten' = overwritten /\ caseCount' = caseCount
      /\ cases' = cases /\ saved' = saved /\ todo' = todo
      /\ pc[p] = "idle" /\ pc' = [pc EXCEPT ![p] = "locking"]
  BY DEF Deliver, Busy, counters, ghosts
<1>2. CountsOn /\ CasesGrow /\ GoodCases'
  <2>1. CountsOn  BY <1>1 DEF CountsOn, DocsInv
  <2>. QED  BY <1>1, <2>1, QuietGrows, GoodCasesKept
<1>3. GoodHand(p)'
  <2>1. pc'[p] = "locking" /\ GoodHand(p)  BY <1>1 DEF IInv, DomainsOK, DocsInv
  <2>2. todo'[p] = <<>> /\ saved'[p] \in Seq(Write) /\ saved'[p] = saved[p]  BY <1>1, <2>1 DEF GoodHand
  <2>. QED  BY <1>2, <2>1, <2>2, HandEmptied
<1>. QED  BY <1>1, <1>2, <1>3, DocsByActor DEF Acts, DocsInv

LEMMA DocsLock ==
  ASSUME IInv, DocsInv, NEW p \in Proc, Lock(p)
  PROVE  DocsInv'
<1>1. /\ alertCount' = alertCount /\ overwritten' = overwritten /\ caseCount' = caseCount
      /\ cases' = cases /\ saved' = saved /\ todo' = todo
      /\ pc[p] = "locking" /\ pc' = [pc EXCEPT ![p] = "reading"]
  BY DEF Lock, counters, ghosts
<1>2. CountsOn /\ CasesGrow /\ GoodCases'
  <2>1. CountsOn  BY <1>1 DEF CountsOn, DocsInv
  <2>. QED  BY <1>1, <2>1, QuietGrows, GoodCasesKept
<1>3. GoodHand(p)'
  <2>1. pc'[p] = "reading" /\ GoodHand(p)  BY <1>1 DEF IInv, DomainsOK, DocsInv
  <2>2. todo'[p] = <<>> /\ saved'[p] \in Seq(Write) /\ saved'[p] = saved[p]  BY <1>1, <2>1 DEF GoodHand
  <2>. QED  BY <1>2, <2>1, <2>2, HandEmptied
<1>. QED  BY <1>1, <1>2, <1>3, DocsByActor DEF Acts, Consume, DocsInv

(* What ReadCases leaves alone, and its branches.                          *)
LEMMA ReadCasesChanges ==
  ASSUME IInv, DocsInv, NEW p \in Proc, ReadCases(p)
  PROVE  /\ pc[p] = "reading" /\ todo[p] = <<>>
         /\ UNCHANGED <<lockVars, cases, caseCount, stored, handled, job, at, saved, ghosts>>
         /\ \/ /\ pc'[p] = "unlocking" /\ todo' = todo /\ alertCount' = alertCount
               /\ Group(p).rules \subseteq AlertedRules(UserOf[Group(p).key], job[p])
            \/ /\ pc'[p] = "writing"
               /\ \E i \in Nat, cut \in Nat : Prepared(p, i, cut)
<1>1. /\ pc[p] = "reading"
      /\ UNCHANGED <<lockVars, cases, caseCount, stored, handled, job, at, saved, ghosts>>
  BY DEF ReadCases
<1>2. todo[p] = <<>>  BY <1>1 DEF DocsInv, GoodHand
<1>3. \/ /\ pc'[p] = "unlocking" /\ todo' = todo /\ alertCount' = alertCount
         /\ Group(p).rules \subseteq AlertedRules(UserOf[Group(p).key], job[p])
      \/ pc'[p] = "writing"
  BY DEF ReadCases, IInv, DomainsOK
<1>4. pc'[p] = "writing" => \E i \in Nat, cut \in Nat : Prepared(p, i, cut)
  BY ReadCasesPrepares
<1>. QED  BY <1>1, <1>2, <1>3, <1>4

LEMMA PreparedGood ==
  ASSUME IInv, DocsInv, NEW p \in Proc, Busy(p), NEW i \in Nat, NEW cut \in Nat,
         Prepared(p, i, cut), cases' = cases, Group(p)' = Group(p),
         NEW w \in ToSet(todo'[p])
  PROVE  GoodWrite(w)' /\ ForGroup(p, w)'
<1>1. PreparedWrite(p, w, i, cut)  BY DEF Prepared
<1>2. w \in Write /\ w.doc \in Case /\ GoodDoc(w.doc)' /\ ~w.doc.closed
  BY <1>1 DEF PreparedWrite, GoodDoc, Write
<1>3. CASE w.id = 0 /\ w.doc.key = Group(p).key
  BY <1>2, <1>3 DEF GoodWrite, ForGroup
<1>4. CASE /\ w.id = i /\ w.base = <<cases[i]>>
           /\ i \in OpenCases(UserOf[Group(p).key])
           /\ w.doc.key = cases[i].key /\ w.doc.half = cases[i].half
           /\ Grown(cases[i], w.doc)
  <2>1. i \in DOMAIN cases /\ ~cases[i].closed /\ UserOf[cases[i].key] = UserOf[Group(p).key]
        /\ i # 0
    BY <1>4 DEF OpenCases, UserOfCase, IInv, DomainsOK
  <2>2. \A b : w.base = <<b>> => b = cases[i]  BY <1>4
  <2>. QED  BY <1>2, <1>4, <2>1, <2>2 DEF GoodWrite, ForGroup
<1>. QED  BY <1>1, <1>3, <1>4 DEF PreparedWrite

LEMMA DocsReadCases ==
  ASSUME IInv, DocsInv, NEW p \in Proc, ReadCases(p)
  PROVE  DocsInv'
<1>1. /\ pc[p] = "reading" /\ todo[p] = <<>> /\ Busy(p)
      /\ UNCHANGED <<cases, caseCount, stored, job, at, saved, overwritten>>
      /\ \/ pc'[p] = "unlocking" /\ todo' = todo /\ alertCount' = alertCount
         \/ pc'[p] = "writing" /\ \E i \in Nat, cut \in Nat : Prepared(p, i, cut)
  BY ReadCasesChanges DEF ghosts, Busy
<1>2. Group(p)' = Group(p)  BY <1>1, GroupKept
<1>3. CountsOn
  <2>1. CASE alertCount' = alertCount  BY <2>1 DEF CountsOn, DocsInv
  <2>2. ASSUME NEW i \in Nat, NEW cut \in Nat, Prepared(p, i, cut)  PROVE CountsOn
    BY <2>2 DEF CountsOn, DocsInv, Prepared
  <2>. QED  BY <1>1, <2>1, <2>2
<1>4. CasesGrow /\ GoodCases'
  BY <1>1, <1>3, QuietGrows, GoodCasesKept
<1>5. GoodHand(p) /\ saved'[p] = saved[p] /\ saved'[p] \in Seq(Write)
  BY <1>1 DEF DocsInv, GoodHand
<1>6. GoodHand(p)'
  <2>1. CASE pc'[p] = "unlocking" /\ todo' = todo
    BY <1>1, <1>3, <1>4, <1>5, <2>1, HandEmptied
  <2>2. ASSUME NEW i \in Nat, NEW cut \in Nat, Prepared(p, i, cut), pc'[p] = "writing"
        PROVE  GoodHand(p)'
    <3>1. \A w \in ToSet(todo'[p]) : GoodWrite(w)' /\ ForGroup(p, w)'
      BY <1>1, <1>2, <2>2, PreparedGood
    <3>2. \A w \in ToSet(saved'[p]) : w.id # 0 /\ GoodWrite(w)'
      BY <1>3, <1>4, <1>5, GoodWriteKept DEF GoodHand, InHand
    <3>3. todo'[p] \in Seq(Write) /\ OneOrTwo(todo'[p])  BY <2>2 DEF Prepared
    <3>. QED  BY <1>5, <2>2, <3>1, <3>2, <3>3 DEF GoodHand, ToWrite, InHand
  <2>. QED  BY <1>1, <2>1, <2>2
<1>. QED  BY <1>1, <1>3, <1>4, <1>6, DocsByActor DEF Acts, Consume, DocsInv

(* The first of the documents to be written, and the rest.                 *)
LEMMA FirstToWrite ==
  ASSUME NEW p \in Proc, GoodHand(p), pc[p] = "writing"
  PROVE  \E w \in Write, rest \in Seq(Write) :
           /\ w = Head(todo[p]) /\ rest = Tail(todo[p])
           /\ ToSet(todo[p]) = {w} \cup ToSet(rest)
           /\ GoodWrite(w) /\ ForGroup(p, w)
           /\ \/ rest = <<>>
              \/ /\ w.id # 0 /\ OneOrTwo(rest)
                 /\ \A x \in ToSet(rest) : x.id = 0 /\ x.doc.half /\ ForGroup(p, x) /\ GoodWrite(x)
<1>1. /\ ToWrite(p) /\ todo[p] \in Seq(Write) /\ \A w \in ToSet(todo[p]) : GoodWrite(w) /\ ForGroup(p, w)
  BY DEF GoodHand, ToWrite, InHand
<1>2. ASSUME NEW w, todo[p] = <<w>>
      PROVE  /\ w \in Write /\ w = Head(todo[p]) /\ Tail(todo[p]) = <<>>
             /\ ToSet(todo[p]) = {w} /\ ToSet(<<>>) = {}
  <2>1. w \in Write  BY <1>1, <1>2
  <2>. QED  BY <1>2, <2>1, OneElement, ToSetEmpty
<1>3. ASSUME NEW w, NEW x, todo[p] = <<w, x>>
      PROVE  /\ w \in Write /\ x \in Write /\ w = Head(todo[p]) /\ Tail(todo[p]) = <<x>>
             /\ ToSet(todo[p]) = {w, x} /\ ToSet(<<x>>) = {x} /\ <<x>> \in Seq(Write)
  <2>1. w \in Write /\ x \in Write  BY <1>1, <1>3
  <2>. QED  BY <1>3, <2>1, OneElement, TwoElements
<1>4. CASE \E w : todo[p] = <<w>>
  <2>1. PICK w : todo[p] = <<w>>  BY <1>4
  <2>2. <<>> \in Seq(Write)  OBVIOUS
  <2>. QED  BY <1>1, <1>2, <2>1, <2>2
<1>5. CASE \E w, x : todo[p] = <<w, x>> /\ w.id # 0 /\ x.id = 0 /\ x.doc.half
  <2>1. PICK w, x : todo[p] = <<w, x>> /\ w.id # 0 /\ x.id = 0 /\ x.doc.half  BY <1>5
  <2>2. OneOrTwo(<<x>>)  BY DEF OneOrTwo
  <2>. QED  BY <1>1, <1>3, <2>1, <2>2
<1>. QED  BY <1>1, <1>4, <1>5 DEF ToWrite, OneOrTwo

LEMMA WriteCaseChanges ==
  ASSUME IInv, DocsInv, NEW p \in Proc, WriteCase(p), NEW w, w = Head(todo[p]), NEW x, x = Written(w)
  PROVE  /\ pc[p] = "writing" /\ Busy(p)
         /\ \E who : Save(w, who)
         /\ todo' = [todo EXCEPT ![p] = Tail(@)]
         /\ todo'[p] = Tail(todo[p])
         /\ saved' = [saved EXCEPT ![p] = Append(saved[p], x)]
         /\ saved'[p] = Append(saved[p], x)
         /\ pc'[p] = IF Tail(todo[p]) = <<>> THEN "unlocking" ELSE "writing"
         /\ UNCHANGED <<lockVars, alertCount, messages, job, at, person, lapsed, late>>
BY DEF WriteCase, Busy, IInv, DomainsOK, DocsInv

LEMMA DocsWriteCase ==
  ASSUME IInv, DocsInv, NEW p \in Proc, WriteCase(p)
  PROVE  DocsInv'
<1>0. pc[p] = "writing" /\ GoodHand(p)  BY DEF WriteCase, DocsInv
<1>1. PICK w \in Write, rest \in Seq(Write) :
           /\ w = Head(todo[p]) /\ rest = Tail(todo[p])
           /\ ToSet(todo[p]) = {w} \cup ToSet(rest)
           /\ GoodWrite(w) /\ ForGroup(p, w)
           /\ \/ rest = <<>>
              \/ /\ w.id # 0 /\ OneOrTwo(rest)
                 /\ \A x \in ToSet(rest) : x.id = 0 /\ x.doc.half /\ ForGroup(p, x) /\ GoodWrite(x)
  BY <1>0, FirstToWrite
<1>2. PICK x : x = Written(w)  OBVIOUS
<1>3. /\ \E who : Save(w, who)
      /\ todo'[p] = rest /\ saved'[p] = Append(saved[p], x)
      /\ pc'[p] = IF rest = <<>> THEN "unlocking" ELSE "writing"
      /\ UNCHANGED <<alertCount, stored, job, at>>
      /\ DOMAIN saved' = Proc
  <2>1. /\ \E who : Save(w, who)
        /\ todo'[p] = Tail(todo[p]) /\ saved'[p] = Append(saved[p], x)
        /\ pc'[p] = IF Tail(todo[p]) = <<>> THEN "unlocking" ELSE "writing"
        /\ saved' = [saved EXCEPT ![p] = Append(saved[p], x)]
        /\ UNCHANGED <<alertCount, messages, job, at>>
    BY <1>1, <1>2, WriteCaseChanges
  <2>2. DOMAIN saved' = Proc  BY <2>1 DEF DocsInv
  <2>. QED  BY <1>1, <2>1, <2>2 DEF messages
<1>4. /\ CasesGrow /\ GoodCases' /\ x.id # 0 /\ x \in Write /\ GoodWrite(x)'
  BY <1>1, <1>2, <1>3, SaveGrows
<1>5. CountsOn  BY <1>3 DEF CountsOn, DocsInv
<1>6. Group(p)' = Group(p)  BY <1>3, GroupKept
<1>7. saved'[p] \in Seq(Write) /\ ToSet(saved'[p]) = ToSet(saved[p]) \cup {x}
  BY <1>0, <1>3, <1>4, ToSetAppend DEF GoodHand
<1>8. \A y \in ToSet(saved'[p]) : y.id # 0 /\ GoodWrite(y)'
  BY <1>0, <1>4, <1>5, <1>7, GoodWriteKept DEF GoodHand, InHand
<1>9. GoodHand(p)'
  <2>1. CASE rest = <<>>
    <3>1. ToSet(rest) = {}  BY <2>1, ToSetEmpty
    <3>. QED  BY <1>1, <1>3, <1>7, <1>8, <2>1, <3>1 DEF GoodHand, InHand
  <2>2. CASE rest # <<>>
    <3>1. \A y \in ToSet(rest) : ForGroup(p, y)' /\ GoodWrite(y)'
      BY <1>1, <1>4, <1>5, <1>6, <2>2, GoodWriteKept DEF ForGroup
    <3>2. ToWrite(p)'  BY <1>1, <1>3, <2>2, <3>1 DEF ToWrite
    <3>. QED  BY <1>1, <1>3, <1>7, <1>8, <2>2, <3>1, <3>2 DEF GoodHand, InHand
  <2>. QED  BY <2>1, <2>2
<1>. QED  BY <1>3, <1>4, <1>5, <1>9, DocsByActor DEF Acts, Consume

LEMMA DocsUnlock ==
  ASSUME IInv, DocsInv, NEW p \in Proc, Unlock(p)
  PROVE  DocsInv'
<1>1. /\ alertCount' = alertCount /\ overwritten' = overwritten /\ caseCount' = caseCount
      /\ cases' = cases /\ pc[p] = "unlocking"
  BY DEF Unlock, counters, ghosts
<1>2. CountsOn /\ CasesGrow /\ GoodCases'
  <2>1. CountsOn  BY <1>1 DEF CountsOn, DocsInv
  <2>. QED  BY <1>1, <2>1, QuietGrows, GoodCasesKept
<1>3. GoodHand(p) /\ DOMAIN saved = Proc /\ DOMAIN pc = Proc
  BY DEF DocsInv, IInv, DomainsOK
<1>4. CASE Idle(p)
  <2>1. DOMAIN saved' = Proc  BY <1>3, <1>4 DEF Idle
  <2>. QED  BY <1>2, <1>4, <2>1, IdleHand, DocsByActor DEF Acts, Consume
<1>5. CASE /\ \/ pc' = [pc EXCEPT ![p] = "locking"]
              \/ pc' = [pc EXCEPT ![p] = "relating"] /\ Len(saved[p]) > 1
           /\ UNCHANGED <<todo, saved>>
  <2>1. /\ pc'[p] \in {"locking", "relating"}
        /\ pc'[p] = "relating" => Len(saved[p]) > 1
        /\ todo'[p] = <<>> /\ saved'[p] = saved[p] /\ saved[p] \in Seq(Write)
    BY <1>1, <1>3, <1>5 DEF GoodHand
  <2>2. pc'[p] = "relating" => saved'[p] # <<>>  BY <2>1, EmptySeq
  <2>3. GoodHand(p)'  BY <1>2, <1>3, <2>1, <2>2, HandEmptied
  <2>4. DOMAIN saved' = Proc  BY <1>3, <1>5
  <2>. QED  BY <1>2, <2>3, <2>4, DocsByActor DEF Acts, Consume
<1>. QED  BY <1>4, <1>5 DEF Unlock, Return

LEMMA DocsRelate ==
  ASSUME IInv, DocsInv, NEW p \in Proc, Relate(p)
  PROVE  DocsInv'
<1>0. pc[p] = "relating" /\ GoodHand(p) /\ saved[p] \in Seq(Write) /\ saved[p] # <<>>
      /\ DOMAIN saved = Proc
  BY DEF Relate, DocsInv, GoodHand
<1>1. PICK w : w = Head(saved[p])  OBVIOUS
<1>2. /\ w \in ToSet(saved[p]) /\ w \in Write /\ Tail(saved[p]) \in Seq(Write)
      /\ ToSet(Tail(saved[p])) \subseteq ToSet(saved[p])
  BY <1>0, <1>1, HeadAndTail
<1>3. GoodWrite(w)  BY <1>0, <1>2 DEF GoodHand, InHand
<1>4. PICK x : x = Written(w)  OBVIOUS
<1>5. /\ \E who : Save(w, who)
      /\ alertCount' = alertCount
      /\ \/ Idle(p)
         \/ /\ Tail(saved[p]) # <<>> /\ saved' = [saved EXCEPT ![p] = Tail(@)]
            /\ pc' = pc /\ todo' = todo
  BY <1>1 DEF Relate, Return
<1>6. CasesGrow /\ GoodCases'  BY <1>3, <1>4, <1>5, SaveGrows
<1>7. CountsOn  BY <1>5 DEF CountsOn, DocsInv
<1>8. CASE Idle(p)
  <2>1. DOMAIN saved' = Proc  BY <1>0, <1>8 DEF Idle
  <2>. QED  BY <1>6, <1>7, <1>8, <2>1, IdleHand, DocsByActor DEF Acts, Consume
<1>9. CASE /\ Tail(saved[p]) # <<>> /\ saved' = [saved EXCEPT ![p] = Tail(@)]
           /\ pc' = pc /\ todo' = todo
  <2>1. saved'[p] = Tail(saved[p]) /\ DOMAIN saved' = Proc /\ todo'[p] = <<>> /\ pc'[p] = "relating"
    BY <1>0, <1>9 DEF GoodHand
  <2>2. GoodHand(p)'  BY <1>0, <1>2, <1>6, <1>7, <1>9, <2>1, HandEmptied
  <2>. QED  BY <1>6, <1>7, <2>1, <2>2, DocsByActor DEF Acts, Consume
<1>. QED  BY <1>5, <1>8, <1>9

LEMMA DocsFault ==
  ASSUME IInv, DocsInv, NEW p \in Proc, Throw(p) \/ Die(p)
  PROVE  DocsInv'
<1>1. /\ alertCount' = alertCount /\ overwritten' = overwritten /\ caseCount' = caseCount
      /\ cases' = cases /\ Idle(p)
  BY DEF Throw, Die, Fault, counters
<1>2. CountsOn /\ CasesGrow /\ GoodCases'
  <2>1. CountsOn  BY <1>1 DEF CountsOn, DocsInv
  <2>. QED  BY <1>1, <2>1, QuietGrows, GoodCasesKept
<1>3. DOMAIN saved' = Proc  BY <1>1 DEF Idle, DocsInv
<1>. QED  BY <1>1, <1>2, <1>3, IdleHand, DocsByActor DEF Acts

(* Steps that leave the consumers alone, and the cases or what is in them. *)
LEMMA DocsAround ==
  ASSUME DocsInv, UNCHANGED <<consumers, stored, alertCount>>, CasesGrow, GoodCases'
  PROVE  DocsInv'
<1>1. CountsOn  BY DEF CountsOn, DocsInv
<1>2. \A q \in Proc : GoodHand(q)'
  BY <1>1, AllUntouched, HandKept DEF DocsInv
<1>. QED  BY <1>1, <1>2 DEF DocsInv, GoodCases, CountsOn, consumers

(* The steps by what they change of the cases and the consumers.           *)
Around ==
  UNCHANGED <<consumers, messages, counters, cases, overwritten>>

LEMMA StepKinds ==
  ASSUME [Next]_vars
  PROVE  \/ \E p \in Proc : Acts(p)
         \/ Around
         \/ SetCase \/ SetAlerts
<1>1. CASE UNCHANGED vars
  BY <1>1 DEF vars, Around, consumers, messages, counters, ghosts
<1>2. ASSUME NEW k \in Key, ExpireAbandoned(k) \/ ExpireHeld(k)  PROVE Around
  BY <1>2 DEF ExpireAbandoned, ExpireHeld, Around, consumers, messages, counters, ghosts
<1>3. ASSUME NEW i \in DOMAIN cases,
             ChooseCase(i) \/ \E a \in OpenAlerts(i) : ChooseAlert(i, a)
      PROVE  Around
  BY <1>3 DEF ChooseCase, ChooseAlert, systemVars, Around, consumers, messages, counters
<1>4. Check \/ Reread => Around
  BY DEF Check, Reread, systemVars, Around, consumers, messages, counters
<1>. QED  BY <1>1, <1>2, <1>3, <1>4 DEF Next, Operate, Acts

LEMMA DocsInit == Init => DocsInv
<1>. SUFFICES ASSUME Init PROVE DocsInv
  OBVIOUS
<1>1. /\ alertCount = 0 /\ caseCount = 0 /\ cases = [i \in 1..0 |-> <<>>]
      /\ pc = [p \in Proc |-> "idle"] /\ todo = [p \in Proc |-> <<>>]
      /\ saved = [p \in Proc |-> <<>>]
  BY DEF Init
<1>2. 1..0 = {}  OBVIOUS
<1>3. cases \in [1..caseCount -> Case] /\ DOMAIN cases = {}  BY <1>1, <1>2
<1>4. <<>> \in Seq(Write) /\ ToSet(<<>>) = {}  BY ToSetEmpty
<1>5. ASSUME NEW p \in Proc  PROVE GoodHand(p)
  <2>1. pc[p] = "idle" /\ todo[p] = <<>> /\ saved[p] = <<>>  BY <1>1
  <2>. QED  BY <1>4, <2>1 DEF GoodHand, InHand
<1>. QED  BY <1>1, <1>3, <1>5 DEF DocsInv

LEMMA DocsStep ==
  ASSUME IInv, DocsInv, [Next]_vars
  PROVE  DocsInv'
<1>1. ASSUME NEW p \in Proc, Acts(p)  PROVE DocsInv'
  BY <1>1, DocsDeliver, DocsLock, DocsReadCases, DocsWriteCase, DocsUnlock, DocsRelate,
     DocsFault DEF Acts, Consume
<1>2. CASE Around
  <2>1. UNCHANGED <<consumers, stored, alertCount, caseCount, cases, overwritten>>
    BY <1>2 DEF Around, counters, messages
  <2>2. GoodCases'
    <3>1. CountsOn  BY <2>1 DEF CountsOn, DocsInv
    <3>. QED  BY <2>1, <3>1, GoodCasesKept
  <2>. QED  BY <2>1, <2>2, QuietGrows, DocsAround
<1>3. CASE SetCase \/ SetAlerts
  <2>1. CasesGrow /\ GoodCases' /\ UNCHANGED systemVars  BY <1>3, PersonGrows
  <2>2. UNCHANGED <<consumers, stored, alertCount>>
    BY <2>1 DEF systemVars, messages, counters
  <2>. QED  BY <2>1, <2>2, DocsAround
<1>. QED  BY <1>1, <1>2, <1>3, StepKinds

-----------------------------------------------------------------------------
(* Every alert has a home: the case it is in, now or in somebody's copy,   *)
(* or the new case that a consumer is about to write.                      *)
Place(p, w) == IF w.id = 0 THEN <<"new", p>> ELSE <<"case", w.id>>

Houses(home) ==
  /\ \A i \in DOMAIN cases : \A x \in AlertIds(cases[i]) : home[x] = <<"case", i>>
  /\ \A p \in Proc : \A w \in InHand(p) : \A x \in AlertIds(w.doc) :
       home[x] = Place(p, w)

HomeInv == \E home : Houses(home)

LEMMA HomeGivesOneCase == HomeInv => OneCasePerAlert
<1>. SUFFICES ASSUME HomeInv, NEW i \in DOMAIN cases, NEW j \in DOMAIN cases,
                     NEW a \in Alerts(cases[i]), NEW b \in Alerts(cases[j]), a.id = b.id
              PROVE  i = j
  BY DEF OneCasePerAlert
<1>1. PICK home : Houses(home)  BY DEF HomeInv
<1>2. a.id \in AlertIds(cases[i]) /\ a.id \in AlertIds(cases[j])  BY DEF AlertIds
<1>3. <<"case", i>> = <<"case", j>>  BY <1>1, <1>2 DEF Houses
<1>. QED  BY <1>3

LEMMA HomeInit == Init => HomeInv
<1>. SUFFICES ASSUME Init PROVE HomeInv
  OBVIOUS
<1>1. DOMAIN cases = {}
  <2>1. cases = [i \in 1..0 |-> <<>>]  BY DEF Init
  <2>2. 1..0 = {}  OBVIOUS
  <2>. QED  BY <2>1, <2>2
<1>2. \A p \in Proc : InHand(p) = {}
  BY ToSetEmpty DEF Init, InHand
<1>3. Houses(cases)  BY <1>1, <1>2 DEF Houses
<1>. QED  BY <1>3 DEF HomeInv

(* With the same alerts in the cases, and no copies but those there were.  *)
LEMMA HomeKept ==
  ASSUME HomeInv, DOMAIN cases' = DOMAIN cases,
         \A i \in DOMAIN cases : AlertIds(cases'[i]) = AlertIds(cases[i]),
         \A q \in Proc : InHand(q)' \subseteq InHand(q)
  PROVE  HomeInv'
<1>1. PICK home : Houses(home)  BY DEF HomeInv
<1>2. Houses(home)'  BY <1>1 DEF Houses, Place
<1>. QED  BY <1>2 DEF HomeInv

(* A write makes the new case, if it is one, the home of its alerts.       *)
LEMMA HomeSaved ==
  ASSUME IInv, DocsInv, HomeInv, NEW p \in Proc,
         NEW w \in InHand(p), NEW who, Save(w, who), alertCount' = alertCount,
         NEW x, x = Written(w),
         InHand(p)' \subseteq InHand(p) \cup {x},
         w.id = 0 => \A y \in InHand(p)' : y.id # 0,
         \A q \in Proc : q # p => InHand(q)' = InHand(q)
  PROVE  HomeInv'
<1>0. \A q \in Proc : \A y \in InHand(q) : GoodWrite(y)  BY DEF DocsInv, GoodHand
<1>1. /\ x.id \in DOMAIN cases' /\ x.id # 0 /\ x.doc = w.doc
      /\ cases'[x.id] = w.doc
      /\ \A i \in DOMAIN cases : i # w.id => cases'[i] = cases[i]
      /\ w.id # 0 => DOMAIN cases' = DOMAIN cases /\ x.id = w.id
      /\ w.id = 0 => /\ x.id \notin DOMAIN cases
                     /\ DOMAIN cases' = DOMAIN cases \cup {x.id}
  BY <1>0, SaveGrows
<1>5. GoodCases'  BY <1>0, SaveGrows
<1>2. PICK home : Houses(home)  BY DEF HomeInv
<1>3. CASE w.id # 0
  <2>1. ASSUME NEW i \in DOMAIN cases', NEW z \in AlertIds(cases'[i])
        PROVE  home[z] = <<"case", i>>
    <3>1. CASE i = w.id  BY <1>1, <1>2, <1>3, <3>1 DEF Houses, Place
    <3>2. CASE i # w.id  BY <1>1, <1>2, <1>3, <3>2 DEF Houses
    <3>. QED  BY <3>1, <3>2
  <2>2. ASSUME NEW q \in Proc, NEW y \in InHand(q)', NEW z \in AlertIds(y.doc)
        PROVE  home[z] = Place(q, y)
    <3>1. CASE y \in InHand(q)  BY <1>2, <3>1 DEF Houses
    <3>2. CASE y = x /\ q = p
      <4>1. z \in AlertIds(w.doc)  BY <1>1, <3>2
      <4>2. home[z] = Place(p, w)  BY <1>2, <4>1 DEF Houses
      <4>. QED  BY <1>1, <1>3, <3>2, <4>2 DEF Place
    <3>. QED  BY <3>1, <3>2
  <2>3. Houses(home)'  BY <2>1, <2>2 DEF Houses, Place
  <2>. QED  BY <2>3 DEF HomeInv
<1>4. CASE w.id = 0
  <2>. DEFINE new == [z \in Nat |-> IF home[z] = <<"new", p>> THEN <<"case", x.id>> ELSE home[z]]
  <2>0. \A i : <<"case", i>> # <<"new", p>>
    <3>1. "case" # "new"  OBVIOUS
    <3>. QED  BY <3>1
  <2>1. ASSUME NEW i \in DOMAIN cases', NEW z \in AlertIds(cases'[i])
        PROVE  new[z] = <<"case", i>>
    <3>0. z \in Nat
      <4>1. cases' \in [1..caseCount' -> Case]  BY <1>5 DEF GoodCases
      <4>2. cases'[i] \in Case  BY <4>1
      <4>. QED  BY <4>2, AlertsOfCase
    <3>1. CASE i = x.id
      <4>1. home[z] = <<"new", p>>  BY <1>1, <1>2, <1>4, <3>1 DEF Houses, Place
      <4>. QED  BY <3>0, <3>1, <4>1
    <3>2. CASE i # x.id
      <4>1. i \in DOMAIN cases /\ i # w.id /\ cases'[i] = cases[i]
        BY <1>1, <1>4, <3>2 DEF IInv, DomainsOK
      <4>2. home[z] = <<"case", i>>  BY <1>2, <4>1 DEF Houses
      <4>. QED  BY <2>0, <3>0, <4>2
    <3>. QED  BY <3>1, <3>2
  <2>2. ASSUME NEW q \in Proc, NEW y \in InHand(q)', NEW z \in AlertIds(y.doc)
        PROVE  new[z] = Place(q, y)
    <3>0. z \in Nat
      <4>1. y \in InHand(q) \/ y = x  OBVIOUS
      <4>2. y.doc \in Case  BY <1>0, <1>1, <4>1 DEF GoodWrite, GoodDoc
      <4>. QED  BY <4>2, AlertsOfCase
    <3>1. CASE q # p
      <4>1. home[z] = Place(q, y)  BY <1>2, <3>1 DEF Houses
      <4>2. <<"new", q>> # <<"new", p>>  BY <3>1
      <4>3. home[z] # <<"new", p>>  BY <2>0, <4>1, <4>2 DEF Place
      <4>. QED  BY <3>0, <4>1, <4>3
    <3>2. CASE q = p /\ y = x
      <4>1. home[z] = <<"new", p>>  BY <1>1, <1>2, <1>4, <3>2 DEF Houses, Place
      <4>. QED  BY <1>1, <3>0, <3>2, <4>1 DEF Place
    <3>3. CASE q = p /\ y # x
      <4>1. y \in InHand(p) /\ y.id # 0  BY <1>4, <3>3
      <4>2. home[z] = <<"case", y.id>>  BY <1>2, <4>1 DEF Houses, Place
      <4>. QED  BY <2>0, <3>0, <3>3, <4>1, <4>2 DEF Place
    <3>. QED  BY <3>1, <3>2, <3>3
  <2>. HIDE DEF new
  <2>3. Houses(new)'  BY <2>1, <2>2 DEF Houses, Place
  <2>. QED  BY <2>3 DEF HomeInv
<1>. QED  BY <1>3, <1>4

LEMMA HomeReadCases ==
  ASSUME IInv, DocsInv, HomeInv, NEW p \in Proc, ReadCases(p),
         \A q \in Proc : q # p => InHand(q)' = InHand(q)
  PROVE  HomeInv'
<1>1. /\ todo[p] = <<>> /\ UNCHANGED <<cases, saved>>
      /\ \/ todo' = todo
         \/ \E i \in Nat, cut \in Nat : Prepared(p, i, cut)
  BY ReadCasesChanges
<1>2. CASE todo' = todo
  <2>1. InHand(p)' = InHand(p)  BY <1>1, <1>2 DEF InHand
  <2>. QED  BY <1>1, <2>1, HomeKept
<1>3. ASSUME NEW i \in Nat, NEW cut \in Nat, Prepared(p, i, cut)
      PROVE  HomeInv'
  <2>0. alertCount \in Nat /\ alertCount <= cut  BY <1>3 DEF Prepared, DocsInv
  <2>1. PICK home : Houses(home)  BY DEF HomeInv
  <2>1a. PICK new : new = [z \in Nat |-> IF z <= alertCount THEN home[z]
                                       ELSE IF z <= cut THEN <<"case", i>> ELSE <<"new", p>>]
    OBVIOUS
  <2>2. \A z \in Nat : z <= alertCount => new[z] = home[z]  BY <2>1a
  <2>3. \A z \in Nat : alertCount < z /\ z <= cut => new[z] = <<"case", i>>  BY <2>0, <2>1a
  <2>4. \A z \in Nat : cut < z => new[z] = <<"new", p>>  BY <2>0, <2>1a
  <2>5. ASSUME NEW j \in DOMAIN cases, NEW z \in AlertIds(cases[j])
        PROVE  z \in Nat /\ new[z] = <<"case", j>>
    <3>1. z \in Nat /\ z <= alertCount  BY AlertsOfCase DEF DocsInv, GoodDoc
    <3>2. home[z] = <<"case", j>>  BY <2>1 DEF Houses
    <3>. QED  BY <2>2, <3>1, <3>2
  <2>6. ASSUME NEW q \in Proc, NEW y \in InHand(q), NEW z \in AlertIds(y.doc)
        PROVE  new[z] = Place(q, y)
    <3>1. z \in Nat /\ z <= alertCount
      BY AlertsOfCase DEF DocsInv, GoodHand, GoodWrite, GoodDoc
    <3>2. home[z] = Place(q, y)  BY <2>1 DEF Houses
    <3>. QED  BY <2>2, <3>1, <3>2
  <2>7. ASSUME NEW y \in ToSet(todo'[p]), NEW z \in AlertIds(y.doc)
        PROVE  new[z] = Place(p, y)
    <3>1. PreparedWrite(p, y, i, cut)  BY <1>3 DEF Prepared
    <3>2. z \in Nat
      <4>1. y.doc \in Case  BY <3>1 DEF PreparedWrite, Write
      <4>. QED  BY <4>1, AlertsOfCase
    <3>3. CASE y.id = 0 /\ cut < z  BY <2>4, <3>2, <3>3 DEF Place
    <3>4. CASE /\ y.id = i /\ i \in OpenCases(UserOf[Group(p).key])
               /\ z \in AlertIds(cases[i]) \/ (alertCount < z /\ z <= cut)
      <4>1. i \in DOMAIN cases /\ i # 0  BY <3>4 DEF OpenCases, IInv, DomainsOK
      <4>2. new[z] = <<"case", i>>  BY <2>3, <2>5, <3>2, <3>4, <4>1
      <4>. QED  BY <3>4, <4>1, <4>2 DEF Place
    <3>. QED  BY <3>1, <3>3, <3>4 DEF PreparedWrite
  <2>8. InHand(p)' \subseteq InHand(p) \cup ToSet(todo'[p])  BY <1>1 DEF InHand
  <2>9. \A q \in Proc : \A y \in InHand(q)' : \A z \in AlertIds(y.doc) : new[z] = Place(q, y)
    <3>1. \A q \in Proc : \A y \in InHand(q)' :
            y \in InHand(q) \/ (q = p /\ y \in ToSet(todo'[p]))
      BY <2>8
    <3>. SUFFICES ASSUME NEW q \in Proc, NEW y \in InHand(q)', NEW z \in AlertIds(y.doc)
                  PROVE  new[z] = Place(q, y)
      OBVIOUS
    <3>2. CASE y \in InHand(q)  BY <2>6, <3>2
    <3>3. CASE q = p /\ y \in ToSet(todo'[p])  BY <2>7, <3>3
    <3>. QED  BY <3>1, <3>2, <3>3
  <2>10. \A j \in DOMAIN cases' : \A z \in AlertIds(cases'[j]) : new[z] = <<"case", j>>
    BY <1>1, <2>5
  <2>11. Houses(new)'  BY <2>9, <2>10 DEF Houses
  <2>. QED  BY <2>11 DEF HomeInv
<1>. QED  BY <1>1, <1>2, <1>3

LEMMA HomeStep ==
  ASSUME IInv, DocsInv, HomeInv, [Next]_vars
  PROVE  HomeInv'
<1>1. ASSUME NEW p \in Proc, Acts(p)  PROVE HomeInv'
  <2>0. \A q \in Proc : q # p => InHand(q)' = InHand(q)
    BY <1>1, OthersUntouched DEF Untouched, InHand
  <2>1. ASSUME cases' = cases, InHand(p)' \subseteq InHand(p)  PROVE HomeInv'
    BY <2>0, <2>1, HomeKept
  <2>2. Idle(p) => InHand(p)' = {}
    BY ToSetEmpty DEF Idle, InHand, DocsInv, IInv, DomainsOK
  <2>3. ASSUME NEW t \in Txn, NEW v \in Versions(t), Deliver(p, t, v)  PROVE HomeInv'
    BY <2>1, <2>3 DEF Deliver, InHand
  <2>4. CASE Lock(p)
    BY <2>1, <2>4 DEF Lock, InHand
  <2>5. CASE ReadCases(p)
    BY <2>0, <2>5, HomeReadCases
  <2>6. CASE WriteCase(p)
    <3>0. pc[p] = "writing" /\ GoodHand(p)  BY <2>6 DEF WriteCase, DocsInv
    <3>1. PICK w \in Write, rest \in Seq(Write) :
           /\ w = Head(todo[p]) /\ rest = Tail(todo[p])
           /\ ToSet(todo[p]) = {w} \cup ToSet(rest)
           /\ GoodWrite(w)
           /\ \/ rest = <<>>
              \/ w.id # 0
      BY <3>0, FirstToWrite
    <3>2. PICK x : x = Written(w)  OBVIOUS
    <3>3. /\ \E who : Save(w, who)
          /\ todo'[p] = rest /\ saved'[p] = Append(saved[p], x)
          /\ alertCount' = alertCount
      BY <2>6, <3>1, <3>2, WriteCaseChanges
    <3>4. x.id # 0 /\ x \in Write  BY <3>1, <3>2, <3>3, SaveGrows
    <3>5. ToSet(saved'[p]) = ToSet(saved[p]) \cup {x}
      BY <3>0, <3>3, <3>4, ToSetAppend DEF GoodHand
    <3>6. w \in InHand(p) /\ InHand(p)' \subseteq InHand(p) \cup {x}
      BY <3>1, <3>3, <3>5 DEF InHand
    <3>7. w.id = 0 => \A y \in InHand(p)' : y.id # 0
      <4>. SUFFICES ASSUME w.id = 0 PROVE \A y \in InHand(p)' : y.id # 0
        OBVIOUS
      <4>1. ToSet(rest) = {}  BY <3>1, ToSetEmpty
      <4>. QED  BY <3>0, <3>3, <3>4, <3>5, <4>1 DEF InHand, GoodHand
    <3>. QED  BY <2>0, <3>2, <3>3, <3>6, <3>7, HomeSaved
  <2>7. CASE Unlock(p)
    BY <2>1, <2>2, <2>7 DEF Unlock, Return, InHand
  <2>8. CASE Relate(p)
    <3>0. pc[p] = "relating" /\ GoodHand(p) /\ saved[p] \in Seq(Write) /\ saved[p] # <<>>
          /\ DOMAIN saved = Proc
      BY <2>8 DEF Relate, DocsInv, GoodHand
    <3>1. PICK w : w = Head(saved[p])  OBVIOUS
    <3>2. PICK x : x = Written(w)  OBVIOUS
    <3>3. /\ w \in ToSet(saved[p]) /\ ToSet(Tail(saved[p])) \subseteq ToSet(saved[p])
      BY <3>0, <3>1, HeadAndTail
    <3>4. /\ \E who : Save(w, who)
          /\ alertCount' = alertCount
          /\ \/ Idle(p)
             \/ saved' = [saved EXCEPT ![p] = Tail(@)] /\ todo' = todo
      BY <2>8, <3>1 DEF Relate, Return
    <3>5. InHand(p)' \subseteq InHand(p)
      BY <2>2, <3>0, <3>3, <3>4 DEF InHand
    <3>6. w \in InHand(p) /\ w.id # 0  BY <3>0, <3>3 DEF InHand, GoodHand
    <3>. QED  BY <2>0, <3>2, <3>4, <3>5, <3>6, HomeSaved
  <2>9. CASE Throw(p) \/ Die(p)
    BY <2>1, <2>2, <2>9 DEF Throw, Die, Fault
  <2>. QED  BY <1>1, <2>3, <2>4, <2>5, <2>6, <2>7, <2>8, <2>9 DEF Acts, Consume
<1>2. CASE Around
  BY <1>2, HomeKept DEF Around, consumers, InHand
<1>3. CASE SetCase \/ SetAlerts
  <2>1. /\ DOMAIN cases' = DOMAIN cases /\ UNCHANGED systemVars
        /\ \A i \in DOMAIN cases : AlertIds(cases'[i]) = AlertIds(cases[i])
    BY <1>3, PersonGrows DEF PersonSets
  <2>. QED  BY <2>1, HomeKept DEF systemVars, consumers, InHand
<1>. QED  BY <1>1, <1>2, <1>3, StepKinds

(* An alert is in one case, whatever happens: the split in                 *)
(* processCasesForDirection moves only alerts that nobody has saved yet,   *)
(* and updateRelatedCases writes a copy back to the case it is a copy of.  *)
THEOREM OneCase == Spec => []OneCasePerAlert
<1>1. Init => IInv /\ DocsInv /\ HomeInv
  BY InitIInv, DocsInit, HomeInit
<1>2. IInv /\ DocsInv /\ HomeInv /\ [Next]_vars => IInv' /\ DocsInv' /\ HomeInv'
  BY InductiveIInv, DocsStep, HomeStep
<1>. QED  BY <1>1, <1>2, HomeGivesOneCase, PTL DEF Spec

-----------------------------------------------------------------------------
(* The hits of the groups gone through are kept, and those of the group    *)
(* that is written are in a case, or in a document about to be written.    *)
Settled(u, t, r) == InAlert(u, t, r) \/ <<u, t, r>> \in masked

HitsIn(t, g) ==
  \/ DisturbedUser(UserOf[g.key])
  \/ \A r \in g.rules : Settled(UserOf[g.key], t, r)

Gone(p, n) == n < at[p] \/ (n = at[p] /\ pc[p] \in {"unlocking", "relating"})

ToCome(p, r) == \E w \in ToSet(todo[p]) : Covers(w.doc, r, job[p])

HitsInHand(p) ==
  /\ Busy(p) => \A n \in DOMAIN CurGroups(p) : Gone(p, n) => HitsIn(job[p], CurGroups(p)[n])
  /\ pc[p] = "writing" =>
       \/ DisturbedUser(UserOf[Group(p).key])
       \/ \A r \in Group(p).rules :
            Settled(UserOf[Group(p).key], job[p], r) \/ ToCome(p, r)
  /\ pc[p] = "relating" => at[p] = Len(CurGroups(p))

Handled ==
  /\ DOMAIN handled = Txn
  /\ \A t \in Txn : stored[t] \in Versions(t) \cup {0} /\ handled[t] \subseteq 1..stored[t]

HitsInv ==
  /\ Handled
  /\ HitsKept
  /\ \A p \in Proc : HitsInHand(p)

LEMMA KeptHits ==
  HitsKept <=> \A t \in Txn : \A v \in handled[t] : \A n \in DOMAIN Groups[t][v] :
                 HitsIn(t, Groups[t][v][n])
BY DEF HitsKept, HitsIn, Settled

(* Only ReadCases takes a hit for a duplicate.                             *)
LEMMA OnlyReadCasesMasks ==
  ASSUME NEW p \in Proc, Acts(p)
  PROVE  masked' = masked \/ ReadCases(p)
<1>1. CASE \E t \in Txn : \E v \in Versions(t) : Deliver(p, t, v)
  BY <1>1 DEF Deliver
<1>2. CASE Lock(p) \/ WriteCase(p)
  BY <1>2 DEF Lock, WriteCase, messages
<1>3. CASE Unlock(p) \/ Relate(p)
  BY <1>3 DEF Unlock, Relate
<1>4. CASE Throw(p) \/ Die(p)
  BY <1>4 DEF Throw, Die, Fault, messages
<1>. QED  BY <1>1, <1>2, <1>3, <1>4 DEF Acts, Consume

(* A hit that the filter drops is in an alert, or becomes masked, or the   *)
(* transaction is added for it to an alert of the document that is written.*)
LEMMA ReadCasesMasks ==
  ASSUME NEW p \in Proc, ReadCases(p), NEW u, u = UserOf[Group(p).key]
  PROVE  /\ masked \subseteq masked'
         /\ masked' \subseteq masked \cup ({u} \X {job[p]} \X Group(p).rules)
         /\ \A r \in Group(p).rules \cap AlertedRules(u, job[p]) :
              \/ InAlert(u, job[p], r) \/ <<u, job[p], r>> \in masked'
              \/ /\ pc' = [pc EXCEPT ![p] = "writing"]
                 /\ \E w \in ToSet(todo'[p]) : Covers(w.doc, r, job[p])
<1>1. PICK t : t = job[p]  OBVIOUS
<1>. DEFINE Lost(docs) ==
       {r \in Group(p).rules : Shadowed(u, t, r) /\ \A w \in docs : ~Covers(w.doc, r, t)}
<1>2. \/ masked' = masked \cup {<<u, t, r>> : r \in Lost({})}
      \/ /\ pc' = [pc EXCEPT ![p] = "writing"]
         /\ masked' = masked \cup {<<u, t, r>> : r \in Lost(ToSet(todo'[p]))}
  BY <1>1 DEF ReadCases
<1>3. PICK docs : /\ masked' = masked \cup {<<u, t, r>> : r \in Lost(docs)}
                  /\ \/ docs = {}
                     \/ /\ pc' = [pc EXCEPT ![p] = "writing"]
                        /\ docs = ToSet(todo'[p])
  BY <1>2
<1>4. \A r \in AlertedRules(u, t) : InAlert(u, t, r) \/ Shadowed(u, t, r)
  BY DEF AlertedRules, Shadowed
<1>5. ASSUME NEW r \in Group(p).rules, r \in AlertedRules(u, t)
      PROVE  \/ InAlert(u, t, r) \/ <<u, t, r>> \in masked'
             \/ /\ pc' = [pc EXCEPT ![p] = "writing"]
                /\ \E w \in ToSet(todo'[p]) : Covers(w.doc, r, t)
  <2>1. CASE r \in Lost(docs)
    <3>1. <<u, t, r>> \in {<<u, t, x>> : x \in Lost(docs)}  BY <2>1
    <3>. QED  BY <1>3, <3>1
  <2>2. CASE r \notin Lost(docs)  BY <1>3, <1>4, <1>5, <2>2
  <2>. QED  BY <2>1, <2>2
<1>. QED  BY <1>1, <1>3, <1>5

LEMMA MaskedStays ==
  ASSUME NEW p \in Proc, Acts(p)
  PROVE  masked \subseteq masked'
BY OnlyReadCasesMasks, ReadCasesMasks

(* A case that grows keeps its hits.                                       *)
LEMMA DisturbedKept ==
  ASSUME CasesGrow, NEW u, DisturbedUser(u)
  PROVE  DisturbedUser(u)'
BY DEF CasesGrow, CaseGrows, DisturbedUser, Disturbed, UserOfCase

LEMMA SettledKept ==
  ASSUME CasesGrow, masked \subseteq masked', NEW u, NEW t, NEW r,
         Settled(u, t, r), ~DisturbedUser(u)'
  PROVE  Settled(u, t, r)'
<1>1. CASE <<u, t, r>> \in masked  BY <1>1 DEF Settled
<1>2. CASE InAlert(u, t, r)
  <2>1. PICK j \in DOMAIN cases : UserOf[cases[j].key] = u /\ Covers(cases[j], r, t)
    BY <1>2 DEF InAlert, UserOfCase
  <2>2. j \in DOMAIN cases' /\ UserOf[cases'[j].key] = u /\ CaseGrows(j)
    BY <2>1 DEF CasesGrow, CaseGrows
  <2>3. ~Disturbed(j)'  BY <2>2 DEF DisturbedUser, UserOfCase
  <2>4. Grown(cases[j], cases'[j])  BY <2>2, <2>3 DEF CaseGrows
  <2>5. Covers(cases'[j], r, t)  BY <2>1, <2>4 DEF Grown, Covers
  <2>. QED  BY <2>2, <2>5 DEF Settled, InAlert, UserOfCase
<1>. QED  BY <1>1, <1>2 DEF Settled

LEMMA HitsInKept ==
  ASSUME CasesGrow, masked \subseteq masked', NEW t, NEW g, HitsIn(t, g)
  PROVE  HitsIn(t, g)'
<1>1. CASE DisturbedUser(UserOf[g.key])'  BY <1>1 DEF HitsIn
<1>2. CASE ~DisturbedUser(UserOf[g.key])'
  <2>1. \A r \in g.rules : Settled(UserOf[g.key], t, r)
    BY <1>2, DisturbedKept DEF HitsIn
  <2>2. \A r \in g.rules : Settled(UserOf[g.key], t, r)'
    BY <1>2, <2>1, SettledKept
  <2>. QED  BY <2>2 DEF HitsIn
<1>. QED  BY <1>1, <1>2

LEMMA HitsKeptOn ==
  ASSUME CasesGrow, masked \subseteq masked', HitsKept, handled' = handled
  PROVE  HitsKept'
<1>1. \A t \in Txn : \A v \in handled'[t] : \A n \in DOMAIN Groups[t][v] :
        HitsIn(t, Groups[t][v][n])'
  BY KeptHits, HitsInKept
<1>. QED  BY <1>1 DEF HitsKept, HitsIn, Settled

LEMMA HitsInHandKept ==
  ASSUME CasesGrow, masked \subseteq masked', NEW q \in Proc, HitsInHand(q), Untouched(q)
  PROVE  HitsInHand(q)'
<1>1. ASSUME Busy(q), NEW n \in DOMAIN CurGroups(q), Gone(q, n)
      PROVE  HitsIn(job[q], CurGroups(q)[n])'
  <2>1. PICK t, g : t = job[q] /\ g = CurGroups(q)[n]  OBVIOUS
  <2>2. HitsIn(t, g)  BY <1>1, <2>1 DEF HitsInHand
  <2>3. HitsIn(t, g)'  BY <2>2, HitsInKept
  <2>4. job'[q] = t /\ CurGroups(q)'[n] = g  BY <1>1, <2>1 DEF Untouched
  <2>. QED  BY <2>3, <2>4 DEF HitsIn
<1>2. ASSUME pc[q] = "writing", ~DisturbedUser(UserOf[Group(q).key])'
      PROVE  \A r \in Group(q).rules :
               Settled(UserOf[Group(q).key], job[q], r)' \/ ToCome(q, r)'
  <2>1. PICK u, t : u = UserOf[Group(q).key] /\ t = job[q]  OBVIOUS
  <2>2. Group(q)' = Group(q) /\ job'[q] = t /\ todo'[q] = todo[q]
    BY <1>2, <2>1 DEF Untouched, Busy
  <2>3. ~DisturbedUser(u)'  BY <1>2, <2>1, <2>2 DEF DisturbedUser
  <2>4. ~DisturbedUser(u)  BY <2>3, DisturbedKept
  <2>5. ASSUME NEW r \in Group(q).rules
        PROVE  Settled(u, t, r)' \/ ToCome(q, r)'
    <3>1. Settled(u, t, r) \/ ToCome(q, r)
      BY <1>2, <2>1, <2>4 DEF HitsInHand
    <3>2. ToCome(q, r) => ToCome(q, r)'  BY <2>1, <2>2 DEF ToCome
    <3>. QED  BY <2>3, <3>1, <3>2, SettledKept
  <2>. QED  BY <2>1, <2>2, <2>5 DEF Settled, InAlert, UserOfCase
<1>3. Busy(q) => CurGroups(q)' = CurGroups(q) /\ Group(q)' = Group(q)
  BY DEF Untouched
<1>4. pc'[q] = pc[q] /\ at'[q] = at[q]  BY DEF Untouched
<1>5. pc[q] \in {"writing", "relating"} => Busy(q)  BY DEF Busy
<1>6. Busy(q)' => \A n \in DOMAIN CurGroups(q)' : Gone(q, n)' => HitsIn(job[q], CurGroups(q)[n])'
  BY <1>1, <1>3, <1>4 DEF Busy, Gone
<1>7. pc'[q] = "writing" =>
        \/ DisturbedUser(UserOf[Group(q).key])'
        \/ \A r \in Group(q)'.rules :
             Settled(UserOf[Group(q).key], job[q], r)' \/ ToCome(q, r)'
  BY <1>2, <1>3, <1>4, <1>5
<1>8. pc'[q] = "relating" => at'[q] = Len(CurGroups(q)')
  BY <1>3, <1>4, <1>5 DEF HitsInHand
<1>. QED  BY <1>6, <1>7, <1>8 DEF HitsInHand

LEMMA HitsByActor ==
  ASSUME IInv, DocsInv, HitsInv, NEW p \in Proc, Acts(p), CasesGrow,
         Handled', HitsKept', HitsInHand(p)'
  PROVE  HitsInv'
<1>1. \A q \in Proc : HitsInHand(q)'
  BY OthersUntouched, MaskedStays, HitsInHandKept DEF HitsInv
<1>. QED  BY <1>1 DEF HitsInv

(* p has the same groups, and has gone through no more of them.            *)
LEMMA GoneKept ==
  ASSUME CasesGrow, masked \subseteq masked', NEW p \in Proc, HitsInHand(p), Busy(p),
         CurGroups(p)' = CurGroups(p), job'[p] = job[p],
         \A n \in DOMAIN CurGroups(p) : Gone(p, n)' => Gone(p, n),
         pc'[p] # "writing", pc'[p] = "relating" => at'[p] = Len(CurGroups(p))
  PROVE  HitsInHand(p)'
<1>1. ASSUME NEW n \in DOMAIN CurGroups(p), Gone(p, n)'
      PROVE  HitsIn(job[p], CurGroups(p)[n])'
  <2>1. PICK t, g : t = job[p] /\ g = CurGroups(p)[n]  OBVIOUS
  <2>2. HitsIn(t, g)  BY <1>1, <2>1 DEF HitsInHand
  <2>3. HitsIn(t, g)'  BY <2>2, HitsInKept
  <2>4. job'[p] = t /\ CurGroups(p)'[n] = g  BY <2>1
  <2>. QED  BY <2>3, <2>4 DEF HitsIn
<1>2. \A n \in DOMAIN CurGroups(p)' : Gone(p, n)' => HitsIn(job[p], CurGroups(p)[n])'
  BY <1>1
<1>. QED  BY <1>2 DEF HitsInHand

LEMMA IdleHits ==
  ASSUME IInv, NEW p \in Proc, Idle(p)
  PROVE  HitsInHand(p)'
<1>1. pc'[p] = "idle"  BY IdleChanges
<1>. QED  BY <1>1 DEF HitsInHand, Busy

(* When all groups are gone through, and p returns.                        *)
LEMMA ReturnHits ==
  ASSUME IInv, DocsInv, HitsInv, NEW p \in Proc, Acts(p), CasesGrow, Busy(p),
         at[p] = Len(CurGroups(p)), pc[p] \in {"unlocking", "relating"},
         Return(p), stored' = stored
  PROVE  HitsInv'
<1>1. /\ job[p] \in Txn /\ CurGroups(p) \in Seq(CaseGroup)
      /\ stored[job[p]] \in Versions(job[p]) /\ stored[job[p]] \in Nat
      /\ stored[job[p]] # 0
  <2>1. job[p] \in Txn /\ CurGroups(p) \in Seq(CaseGroup)  BY GroupOfProcess
  <2>2. stored[job[p]] \in Versions(job[p])  BY DEF IInv, AtGroup, Versions
  <2>3. Groups[job[p]] \in Seq(Seq(CaseGroup))  BY <2>1, SubjectAssumption
  <2>. QED  BY <2>1, <2>2, <2>3 DEF Versions
<1>2. DOMAIN handled = Txn  BY DEF HitsInv, Handled
<1>3. handled' = [handled EXCEPT ![job[p]] = @ \cup {stored[job[p]]}] /\ Idle(p)
  BY DEF Return
<1>4. /\ DOMAIN handled' = Txn
      /\ \A t \in Txn : \A v \in handled'[t] :
           v \in handled[t] \/ (t = job[p] /\ v = stored[job[p]])
  BY <1>1, <1>2, <1>3
<1>5. Handled'
  <2>1. \A t \in Txn : handled'[t] \subseteq 1..stored[t]
    BY <1>1, <1>4 DEF HitsInv, Handled
  <2>. QED  BY <1>4, <2>1 DEF HitsInv, Handled, Versions
<1>6. HitsKept'
  <2>1. ASSUME NEW t \in Txn, NEW v \in handled'[t], NEW n \in DOMAIN Groups[t][v]
        PROVE  HitsIn(t, Groups[t][v][n])
    <3>1. CASE v \in handled[t]  BY <3>1, KeptHits DEF HitsInv
    <3>2. CASE t = job[p] /\ v = stored[job[p]]
      <4>1. Groups[t][v] = CurGroups(p) /\ n \in DOMAIN CurGroups(p)
        BY <3>2 DEF CurGroups
      <4>2. n <= at[p] /\ n \in Nat /\ at[p] \in Nat  BY <1>1, <4>1, LenProperties
      <4>3. Gone(p, n)  BY <4>2 DEF Gone
      <4>. QED  BY <3>2, <4>1, <4>3 DEF HitsInv, HitsInHand
    <3>. QED  BY <1>4, <3>1, <3>2
  <2>2. \A t \in Txn : \A v \in handled'[t] : \A n \in DOMAIN Groups[t][v] :
          HitsIn(t, Groups[t][v][n])'
    BY <2>1, MaskedStays, HitsInKept
  <2>. QED  BY <2>2 DEF HitsKept, HitsIn, Settled
<1>. QED  BY <1>3, <1>5, <1>6, IdleHits, HitsByActor

LEMMA HitsDeliver ==
  ASSUME IInv, DocsInv, HitsInv, NEW p \in Proc, NEW t \in Txn, NEW v \in Versions(t),
         Deliver(p, t, v)
  PROVE  HitsInv'
<1>1. /\ cases' = cases /\ overwritten' = overwritten /\ handled' = handled
      /\ v > stored[t] /\ stored' = [stored EXCEPT ![t] = v]
      /\ at' = [at EXCEPT ![p] = 1] /\ job' = [job EXCEPT ![p] = t]
      /\ pc' = [pc EXCEPT ![p] = "locking"]
  BY DEF Deliver, ghosts
<1>2. CasesGrow /\ masked \subseteq masked'
  BY <1>1, QuietGrows, MaskedStays DEF Acts, Consume
<1>3. v \in Nat /\ Groups[t] \in Seq(Seq(CaseGroup)) /\ Groups[t][v] \in Seq(CaseGroup)
  BY SubjectAssumption DEF Versions
<1>4. stored \in [Txn -> Nat] /\ at'[p] = 1 /\ pc'[p] = "locking" /\ job'[p] = t
  BY <1>1 DEF IInv, DomainsOK
<1>5. Handled'
  <2>1. \A x \in Txn : stored'[x] = IF x = t THEN v ELSE stored[x]  BY <1>1, <1>4
  <2>2. \A x \in Txn : handled[x] \subseteq 1..stored'[x]
    BY <1>1, <1>3, <1>4, <2>1 DEF HitsInv, Handled
  <2>. QED  BY <1>1, <2>1, <2>2 DEF HitsInv, Handled, Versions
<1>6. HitsKept'  BY <1>1, <1>2, HitsKeptOn DEF HitsInv
<1>7. HitsInHand(p)'
  <2>1. stored'[t] = v  BY <1>1, <1>4
  <2>2. CurGroups(p)' = Groups[t][v]  BY <1>4, <2>1 DEF CurGroups
  <2>3. \A n \in DOMAIN CurGroups(p)' : ~Gone(p, n)'
    <3>. SUFFICES ASSUME NEW n \in DOMAIN Groups[t][v] PROVE ~Gone(p, n)'
      BY <2>2
    <3>1. n \in Nat /\ n >= 1  BY <1>3, LenProperties
    <3>. QED  BY <1>4, <3>1 DEF Gone
  <2>. QED  BY <1>4, <2>3 DEF HitsInHand
<1>. QED  BY <1>2, <1>5, <1>6, <1>7, HitsByActor DEF Acts

LEMMA HitsReadCases ==
  ASSUME IInv, DocsInv, HitsInv, NEW p \in Proc, ReadCases(p)
  PROVE  HitsInv'
<1>1. /\ pc[p] = "reading" /\ Busy(p)
      /\ UNCHANGED <<cases, stored, handled, job, at, overwritten>>
      /\ \/ /\ pc'[p] = "unlocking"
            /\ Group(p).rules \subseteq AlertedRules(UserOf[Group(p).key], job[p])
         \/ /\ pc'[p] = "writing"
            /\ \E i \in Nat, cut \in Nat : Prepared(p, i, cut)
  BY ReadCasesChanges DEF ghosts, Busy
<1>2. CasesGrow /\ masked \subseteq masked'
  BY <1>1, QuietGrows, MaskedStays DEF Acts, Consume
<1>3. Handled' /\ HitsKept'
  BY <1>1, <1>2, HitsKeptOn DEF HitsInv, Handled, Versions
<1>4. CurGroups(p)' = CurGroups(p) /\ Group(p)' = Group(p)
  BY <1>1, GroupKept
<1>5. PICK t, u, g : t = job[p] /\ u = UserOf[Group(p).key] /\ g = Group(p)  OBVIOUS
<1>6. \A n \in DOMAIN CurGroups(p) : n < at[p] => HitsIn(t, CurGroups(p)[n])'
  <2>1. \A n \in DOMAIN CurGroups(p) : n < at[p] => HitsIn(t, CurGroups(p)[n])
    BY <1>1, <1>5 DEF HitsInv, HitsInHand, Gone
  <2>. SUFFICES ASSUME NEW n \in DOMAIN CurGroups(p), n < at[p]
                PROVE  HitsIn(t, CurGroups(p)[n])'
    OBVIOUS
  <2>2. PICK x : x = CurGroups(p)[n]  OBVIOUS
  <2>3. HitsIn(t, x)'  BY <1>2, <2>1, <2>2, HitsInKept
  <2>. QED  BY <1>4, <2>2, <2>3 DEF HitsIn
<1>7. \A r \in g.rules \cap AlertedRules(u, t) :
        \/ Settled(u, t, r)'
        \/ pc'[p] = "writing" /\ ToCome(p, r)'
  <2>1. \A r \in g.rules \cap AlertedRules(u, t) :
          \/ InAlert(u, t, r) \/ <<u, t, r>> \in masked'
          \/ /\ pc'[p] = "writing"
             /\ \E w \in ToSet(todo'[p]) : Covers(w.doc, r, t)
    BY <1>5, ReadCasesMasks DEF IInv, DomainsOK
  <2>2. \A r : InAlert(u, t, r)' <=> InAlert(u, t, r)
    BY <1>1 DEF InAlert, UserOfCase
  <2>3. \A r : ToCome(p, r)' <=> \E w \in ToSet(todo'[p]) : Covers(w.doc, r, t)
    BY <1>1, <1>5 DEF ToCome
  <2>. QED  BY <2>1, <2>2, <2>3 DEF Settled
<1>8. CASE pc'[p] = "unlocking" /\ g.rules \subseteq AlertedRules(u, t)
  <2>1. HitsIn(t, g)'
    <3>1. \A r \in g.rules : Settled(u, t, r)'  BY <1>7, <1>8
    <3>. QED  BY <1>4, <1>5, <3>1 DEF HitsIn, Settled, InAlert, UserOfCase
  <2>2. \A n \in DOMAIN CurGroups(p)' : Gone(p, n)' => HitsIn(job[p], CurGroups(p)[n])'
    <3>. SUFFICES ASSUME NEW n \in DOMAIN CurGroups(p), Gone(p, n)'
                  PROVE  HitsIn(job[p], CurGroups(p)[n])'
      BY <1>4
    <3>1. CASE n < at[p]  BY <1>1, <1>5, <1>6, <3>1 DEF HitsIn
    <3>2. CASE n = at[p]
      <4>1. CurGroups(p)'[n] = g  BY <1>4, <1>5, <3>2 DEF Group
      <4>. QED  BY <1>1, <1>5, <2>1, <4>1 DEF HitsIn
    <3>. QED  BY <1>1, <3>1, <3>2 DEF Gone
  <2>3. HitsInHand(p)'  BY <1>8, <2>2 DEF HitsInHand
  <2>. QED  BY <1>2, <1>3, <2>3, HitsByActor DEF Acts, Consume
<1>9. ASSUME pc'[p] = "writing", NEW i \in Nat, NEW cut \in Nat, Prepared(p, i, cut)
      PROVE  HitsInv'
  <2>1. \A n \in DOMAIN CurGroups(p)' : Gone(p, n)' => HitsIn(job[p], CurGroups(p)[n])'
    <3>. SUFFICES ASSUME NEW n \in DOMAIN CurGroups(p), Gone(p, n)'
                  PROVE  HitsIn(job[p], CurGroups(p)[n])'
      BY <1>4
    <3>1. n < at[p]  BY <1>1, <1>9 DEF Gone
    <3>. QED  BY <1>1, <1>5, <1>6, <3>1 DEF HitsIn
  <2>2. \A r \in g.rules : Settled(u, t, r)' \/ ToCome(p, r)'
    <3>1. \A r \in g.rules \ AlertedRules(u, t) : ToCome(p, r)'
      BY <1>1, <1>5, <1>9 DEF Prepared, ToCome
    <3>. QED  BY <1>7, <3>1
  <2>3. \A r \in Group(p)'.rules : Settled(UserOf[Group(p).key], job[p], r)' \/ ToCome(p, r)'
    BY <1>1, <1>4, <1>5, <2>2 DEF Settled, InAlert, UserOfCase
  <2>4. HitsInHand(p)'  BY <1>9, <2>1, <2>3 DEF HitsInHand
  <2>. QED  BY <1>2, <1>3, <2>4, HitsByActor DEF Acts, Consume
<1>. QED  BY <1>1, <1>5, <1>8, <1>9

LEMMA HitsWriteCase ==
  ASSUME IInv, DocsInv, HitsInv, NEW p \in Proc, WriteCase(p)
  PROVE  HitsInv'
<1>0. pc[p] = "writing" /\ GoodHand(p) /\ HitsInHand(p)  BY DEF WriteCase, DocsInv, HitsInv
<1>1. PICK w \in Write, rest \in Seq(Write) :
           /\ w = Head(todo[p]) /\ rest = Tail(todo[p])
           /\ ToSet(todo[p]) = {w} \cup ToSet(rest)
           /\ GoodWrite(w) /\ ForGroup(p, w)
  BY <1>0, FirstToWrite
<1>2. PICK x : x = Written(w)  OBVIOUS
<1>3. /\ \E who : Save(w, who)
      /\ todo'[p] = rest
      /\ pc'[p] = IF rest = <<>> THEN "unlocking" ELSE "writing"
      /\ UNCHANGED <<alertCount, stored, handled, job, at>> /\ Busy(p)
  BY <1>1, <1>2, WriteCaseChanges DEF messages
<1>4. /\ CasesGrow /\ x.id \in DOMAIN cases' /\ cases'[x.id] = w.doc
      /\ masked \subseteq masked'
  BY <1>1, <1>2, <1>3, SaveGrows, MaskedStays DEF Acts, Consume
<1>5. Handled' /\ HitsKept'
  BY <1>3, <1>4, HitsKeptOn DEF HitsInv, Handled, Versions
<1>6. PICK t, g, u : t = job[p] /\ g = Group(p) /\ u = UserOf[Group(p).key]  OBVIOUS
<1>7. CurGroups(p)' = CurGroups(p) /\ Group(p)' = g /\ job'[p] = t /\ at'[p] = at[p]
  BY <1>3, <1>6, GroupKept
<1>8. \/ DisturbedUser(u)'
      \/ \A r \in g.rules : Settled(u, t, r)' \/ \E y \in ToSet(rest) : Covers(y.doc, r, t)
  <2>. SUFFICES ASSUME ~DisturbedUser(u)', NEW r \in g.rules
                PROVE  Settled(u, t, r)' \/ \E y \in ToSet(rest) : Covers(y.doc, r, t)
    OBVIOUS
  <2>1. Settled(u, t, r) \/ \E y \in ToSet(todo[p]) : Covers(y.doc, r, t)
    BY <1>0, <1>4, <1>6, DisturbedKept DEF HitsInHand, ToCome
  <2>2. CASE Settled(u, t, r)  BY <1>4, <2>2, SettledKept
  <2>3. CASE Covers(w.doc, r, t)
    <3>1. UserOf[cases'[x.id].key] = u  BY <1>1, <1>4, <1>6 DEF ForGroup
    <3>. QED  BY <1>4, <2>3, <3>1 DEF Settled, InAlert, UserOfCase
  <2>. QED  BY <1>1, <2>1, <2>2, <2>3
<1>9. \A n \in DOMAIN CurGroups(p) : n < at[p] => HitsIn(t, CurGroups(p)[n])'
  <2>1. \A n \in DOMAIN CurGroups(p) : n < at[p] => HitsIn(t, CurGroups(p)[n])
    BY <1>0, <1>3, <1>6 DEF HitsInHand, Gone
  <2>. SUFFICES ASSUME NEW n \in DOMAIN CurGroups(p), n < at[p]
                PROVE  HitsIn(t, CurGroups(p)[n])'
    OBVIOUS
  <2>2. PICK h : h = CurGroups(p)[n]  OBVIOUS
  <2>3. HitsIn(t, h)'  BY <1>4, <2>1, <2>2, HitsInKept
  <2>. QED  BY <1>7, <2>2, <2>3 DEF HitsIn
<1>10. HitsInHand(p)'
  <2>1. CASE rest = <<>>
    <3>1. ToSet(rest) = {}  BY <2>1, ToSetEmpty
    <3>2. HitsIn(t, g)'  BY <1>6, <1>8, <3>1 DEF HitsIn
    <3>3. CurGroups(p)'[at[p]] = g  BY <1>6, <1>7 DEF Group
    <3>4. HitsIn(t, CurGroups(p)[at[p]])'  BY <1>7, <3>2, <3>3 DEF HitsIn
    <3>5. \A n \in DOMAIN CurGroups(p)' : Gone(p, n)' => HitsIn(t, CurGroups(p)[n])'
      <4>. SUFFICES ASSUME NEW n \in DOMAIN CurGroups(p), Gone(p, n)'
                    PROVE  HitsIn(t, CurGroups(p)[n])'
        BY <1>7
      <4>1. CASE n < at[p]  BY <1>9, <4>1
      <4>2. CASE n = at[p]  BY <1>7, <3>4, <4>2 DEF HitsIn
      <4>. QED  BY <1>7, <4>1, <4>2 DEF Gone
    <3>6. pc'[p] = "unlocking"  BY <1>3, <2>1
    <3>7. \A n \in DOMAIN CurGroups(p)' : Gone(p, n)' => HitsIn(job[p], CurGroups(p)[n])'
      BY <1>7, <3>5 DEF HitsIn
    <3>. QED  BY <3>6, <3>7 DEF HitsInHand
  <2>2. CASE rest # <<>>
    <3>1. pc'[p] = "writing"  BY <1>3, <2>2
    <3>2. \A n \in DOMAIN CurGroups(p)' : Gone(p, n)' => HitsIn(job[p], CurGroups(p)[n])'
      <4>. SUFFICES ASSUME NEW n \in DOMAIN CurGroups(p), Gone(p, n)'
                    PROVE  HitsIn(job[p], CurGroups(p)[n])'
        BY <1>7
      <4>1. n < at[p]  BY <1>7, <3>1 DEF Gone
      <4>2. HitsIn(t, CurGroups(p)[n])'  BY <1>9, <4>1
      <4>. QED  BY <1>7, <4>2 DEF HitsIn
    <3>3. \/ DisturbedUser(UserOf[Group(p).key])'
          \/ \A r \in Group(p)'.rules :
               Settled(UserOf[Group(p).key], job[p], r)' \/ ToCome(p, r)'
      <4>1. \A r : ToCome(p, r)' <=> \E y \in ToSet(rest) : Covers(y.doc, r, t)
        BY <1>3, <1>7 DEF ToCome
      <4>. QED  BY <1>6, <1>7, <1>8, <4>1 DEF Settled, InAlert, UserOfCase, DisturbedUser
    <3>. QED  BY <3>1, <3>2, <3>3 DEF HitsInHand
  <2>. QED  BY <2>1, <2>2
<1>. QED  BY <1>4, <1>5, <1>10, HitsByActor DEF Acts, Consume

LEMMA HitsLock ==
  ASSUME IInv, DocsInv, HitsInv, NEW p \in Proc, Lock(p)
  PROVE  HitsInv'
<1>1. /\ UNCHANGED <<cases, stored, handled, job, at, overwritten>>
      /\ pc[p] = "locking" /\ pc'[p] = "reading" /\ Busy(p)
  BY DEF Lock, messages, ghosts, Busy, IInv, DomainsOK
<1>2. CasesGrow /\ masked \subseteq masked'
  BY <1>1, QuietGrows, MaskedStays DEF Acts, Consume
<1>3. Handled' /\ HitsKept'
  BY <1>1, <1>2, HitsKeptOn DEF HitsInv, Handled, Versions
<1>4. CurGroups(p)' = CurGroups(p)  BY <1>1, GroupKept
<1>5. \A n \in DOMAIN CurGroups(p) : Gone(p, n)' => Gone(p, n)  BY <1>1 DEF Gone
<1>6. HitsInHand(p)'  BY <1>1, <1>2, <1>4, <1>5, GoneKept DEF HitsInv
<1>. QED  BY <1>2, <1>3, <1>6, HitsByActor DEF Acts, Consume

LEMMA HitsUnlock ==
  ASSUME IInv, DocsInv, HitsInv, NEW p \in Proc, Unlock(p)
  PROVE  HitsInv'
<1>1. /\ UNCHANGED <<cases, stored, overwritten>>
      /\ pc[p] = "unlocking" /\ Busy(p)
  BY DEF Unlock, ghosts, Busy
<1>2. CasesGrow /\ masked \subseteq masked'
  BY <1>1, QuietGrows, MaskedStays DEF Acts, Consume
<1>3. /\ CurGroups(p) \in Seq(CaseGroup) /\ at[p] \in DOMAIN CurGroups(p)
      /\ Len(CurGroups(p)) \in Nat /\ at[p] \in Nat
  BY <1>1, GroupOfProcess, LenProperties DEF IInv, DomainsOK
<1>4. CASE at[p] = Len(CurGroups(p)) /\ Return(p)
  BY <1>1, <1>2, <1>4, ReturnHits DEF Acts, Consume
<1>5. CASE /\ \/ /\ at' = [at EXCEPT ![p] = @ + 1]
                 /\ pc' = [pc EXCEPT ![p] = "locking"]
              \/ /\ at[p] = Len(CurGroups(p)) /\ at' = at
                 /\ pc' = [pc EXCEPT ![p] = "relating"]
           /\ UNCHANGED <<handled, job>>
  <2>1. CurGroups(p)' = CurGroups(p)  BY <1>1, <1>5 DEF CurGroups
  <2>2. \/ at'[p] = at[p] + 1 /\ pc'[p] = "locking"
        \/ at'[p] = at[p] /\ pc'[p] = "relating" /\ at[p] = Len(CurGroups(p))
    BY <1>5 DEF IInv, DomainsOK
  <2>3. \A n \in DOMAIN CurGroups(p) : Gone(p, n)' => Gone(p, n)
    <3>. SUFFICES ASSUME NEW n \in DOMAIN CurGroups(p), Gone(p, n)' PROVE Gone(p, n)
      OBVIOUS
    <3>1. n \in Nat  BY <1>3, LenProperties
    <3>. QED  BY <1>1, <1>3, <2>2, <3>1 DEF Gone
  <2>4. HitsInHand(p)'
    BY <1>1, <1>2, <1>5, <2>1, <2>2, <2>3, GoneKept DEF HitsInv
  <2>5. Handled' /\ HitsKept'
    BY <1>1, <1>2, <1>5, HitsKeptOn DEF HitsInv, Handled, Versions
  <2>. QED  BY <1>2, <2>4, <2>5, HitsByActor DEF Acts, Consume
<1>. QED  BY <1>4, <1>5 DEF Unlock

LEMMA HitsRelate ==
  ASSUME IInv, DocsInv, HitsInv, NEW p \in Proc, Relate(p)
  PROVE  HitsInv'
<1>0. /\ pc[p] = "relating" /\ Busy(p) /\ GoodHand(p) /\ saved[p] \in Seq(Write) /\ saved[p] # <<>>
      /\ HitsInHand(p) /\ at[p] = Len(CurGroups(p))
  BY DEF Relate, DocsInv, GoodHand, HitsInv, HitsInHand, Busy
<1>1. PICK w : w = Head(saved[p])  OBVIOUS
<1>2. GoodWrite(w)
  <2>1. w \in ToSet(saved[p])  BY <1>0, <1>1, HeadAndTail
  <2>. QED  BY <1>0, <2>1 DEF GoodHand, InHand
<1>3. PICK x : x = Written(w)  OBVIOUS
<1>4. /\ \E who : Save(w, who)
      /\ alertCount' = alertCount /\ stored' = stored
      /\ \/ Return(p)
         \/ UNCHANGED <<handled, pc, job, at>>
  BY <1>1 DEF Relate
<1>5. CasesGrow /\ masked \subseteq masked'
  BY <1>2, <1>3, <1>4, SaveGrows, MaskedStays DEF Acts, Consume
<1>6. CASE Return(p)
  BY <1>0, <1>4, <1>5, <1>6, ReturnHits DEF Acts, Consume
<1>7. CASE UNCHANGED <<handled, pc, job, at>>
  <2>1. CurGroups(p)' = CurGroups(p)  BY <1>4, <1>7 DEF CurGroups
  <2>2. HitsInHand(p)'
    BY <1>0, <1>5, <1>7, <2>1, GoneKept DEF Gone
  <2>3. Handled' /\ HitsKept'
    BY <1>4, <1>5, <1>7, HitsKeptOn DEF HitsInv, Handled, Versions
  <2>. QED  BY <1>5, <2>2, <2>3, HitsByActor DEF Acts, Consume
<1>. QED  BY <1>4, <1>6, <1>7

LEMMA HitsFault ==
  ASSUME IInv, DocsInv, HitsInv, NEW p \in Proc, Throw(p) \/ Die(p)
  PROVE  HitsInv'
<1>1. UNCHANGED <<cases, stored, handled, overwritten>> /\ Idle(p)
  BY DEF Throw, Die, Fault, messages
<1>2. CasesGrow /\ masked \subseteq masked'
  BY <1>1, QuietGrows, MaskedStays DEF Acts, Consume
<1>3. Handled' /\ HitsKept'
  BY <1>1, <1>2, HitsKeptOn DEF HitsInv, Handled, Versions
<1>. QED  BY <1>1, <1>2, <1>3, IdleHits, HitsByActor DEF Acts

LEMMA HitsAround ==
  ASSUME HitsInv, UNCHANGED <<consumers, messages>>, CasesGrow
  PROVE  HitsInv'
<1>1. \A q \in Proc : HitsInHand(q)'
  BY AllUntouched, HitsInHandKept DEF HitsInv, messages
<1>2. Handled' /\ HitsKept'
  BY HitsKeptOn DEF HitsInv, Handled, Versions, messages
<1>. QED  BY <1>1, <1>2 DEF HitsInv

LEMMA HitsStep ==
  ASSUME IInv, DocsInv, HitsInv, [Next]_vars
  PROVE  HitsInv'
<1>1. ASSUME NEW p \in Proc, Acts(p)  PROVE HitsInv'
  BY <1>1, HitsDeliver, HitsLock, HitsReadCases, HitsWriteCase, HitsUnlock, HitsRelate,
     HitsFault DEF Acts, Consume
<1>2. CASE Around
  BY <1>2, QuietGrows, HitsAround DEF Around
<1>3. CASE SetCase \/ SetAlerts
  <2>1. CasesGrow /\ UNCHANGED systemVars  BY <1>3, PersonGrows
  <2>2. UNCHANGED <<consumers, messages>>  BY <2>1 DEF systemVars
  <2>. QED  BY <2>1, <2>2, HitsAround
<1>. QED  BY <1>1, <1>2, <1>3, StepKinds

LEMMA HitsInit == Init => HitsInv
<1>. SUFFICES ASSUME Init PROVE HitsInv
  OBVIOUS
<1>1. \A p \in Proc : HitsInHand(p)  BY DEF Init, HitsInHand, Busy
<1>2. Handled /\ HitsKept  BY DEF Init, Handled, HitsKept
<1>. QED  BY <1>1, <1>2 DEF HitsInv

(* Every hit of a version whose handleTransaction returned is in an alert  *)
(* of its rule with the transaction, and no split, consumer or person that *)
(* comes after takes it out, unless a case of the user was replaced from   *)
(* an older copy, or filterDuplicateHitRules took the hit for a duplicate  *)
(* because another alert of the case had the transaction.                  *)
THEOREM HitsStay == Spec => []HitsKept
<1>1. Init => IInv /\ DocsInv /\ HitsInv
  BY InitIInv, DocsInit, HitsInit
<1>2. IInv /\ DocsInv /\ HitsInv /\ [Next]_vars => IInv' /\ DocsInv' /\ HitsInv'
  BY InductiveIInv, DocsStep, HitsStep
<1>3. HitsInv => HitsKept  BY DEF HitsInv
<1>. QED  BY <1>1, <1>2, <1>3, PTL DEF Spec

-----------------------------------------------------------------------------
(* Who is about to write a new case, and not the rest of a split one, has  *)
(* found none that is open.                                                *)
FoundNone(p) ==
  \A w \in ToSet(todo[p]) :
    w.id = 0 /\ ~w.doc.half /\ ~lapsed =>
      \A i \in OpenCases(UserOf[w.doc.key]) :
        cases[i].key = w.doc.key => cases[i].half \/ Disturbed(i)

TwinsInv ==
  /\ NoTwinCases
  /\ \A p \in Proc : FoundNone(p)

(* A case that is open with room left was so before, if nobody spoilt it.  *)
LEMMA OpenBefore ==
  ASSUME CasesGrow, GoodCases', NEW u, NEW i \in OpenCases(u)', i \in DOMAIN cases, ~Disturbed(i)'
  PROVE  i \in OpenCases(u)
<1>1. /\ i \in DOMAIN cases' /\ UserOf[cases'[i].key] = u /\ ~cases'[i].closed
      /\ Cardinality(TxnsOf(cases'[i])) < MaxTxns
  BY DEF OpenCases, UserOfCase
<1>2. CaseGrows(i)  BY DEF CasesGrow
<1>3. /\ cases'[i].key = cases[i].key /\ ~cases[i].closed /\ Grown(cases[i], cases'[i])
  BY <1>1, <1>2 DEF CaseGrows
<1>4. cases'[i] \in Case
  <2>1. cases' \in [1..caseCount' -> Case]  BY DEF GoodCases
  <2>. QED  BY <1>1, <2>1
<1>5. TxnsOf(cases[i]) \subseteq TxnsOf(cases'[i])  BY <1>3 DEF TxnsOf, Grown
<1>6. TxnsOf(cases'[i]) \subseteq Txn
  <2>1. \A a \in Alerts(cases'[i]) : a.txns \subseteq Txn  BY <1>4, AlertsOfCase DEF Alert
  <2>. QED  BY <2>1 DEF TxnsOf
<1>7. /\ Cardinality(TxnsOf(cases[i])) <= Cardinality(TxnsOf(cases'[i]))
      /\ Cardinality(TxnsOf(cases[i])) \in Nat /\ Cardinality(TxnsOf(cases'[i])) \in Nat
  <2>1. IsFiniteSet(TxnsOf(cases'[i]))  BY <1>6, FiniteAssumption, FS_Subset
  <2>. QED  BY <1>5, <2>1, FS_Subset, FS_CardinalityType
<1>8. Cardinality(TxnsOf(cases[i])) < MaxTxns  BY <1>1, <1>7, LimitAssumption
<1>. QED  BY <1>1, <1>3, <1>8 DEF OpenCases, UserOfCase

LEMMA FoundNoneKept ==
  ASSUME CasesGrow, GoodCases', DOMAIN cases' = DOMAIN cases, lapsed => lapsed',
         NEW q \in Proc, FoundNone(q), ToSet(todo'[q]) \subseteq ToSet(todo[q])
  PROVE  FoundNone(q)'
<1>. SUFFICES ASSUME NEW w \in ToSet(todo'[q]), w.id = 0, ~w.doc.half, ~lapsed',
                     NEW i \in OpenCases(UserOf[w.doc.key])', cases'[i].key = w.doc.key,
                     ~Disturbed(i)'
              PROVE  cases'[i].half
  BY DEF FoundNone
<1>1. i \in DOMAIN cases  BY DEF OpenCases
<1>2. i \in OpenCases(UserOf[w.doc.key])  BY <1>1, OpenBefore
<1>3. cases'[i].key = cases[i].key /\ cases'[i].half = cases[i].half /\ ~Disturbed(i)
  BY <1>1 DEF CasesGrow, CaseGrows, Disturbed
<1>. QED  BY <1>2, <1>3 DEF FoundNone

LEMMA NoTwinsKept ==
  ASSUME CasesGrow, GoodCases', DOMAIN cases' = DOMAIN cases, lapsed => lapsed', NoTwinCases
  PROVE  NoTwinCases'
<1>. SUFFICES ASSUME NEW u \in User, NEW i \in OpenCases(u)', NEW j \in OpenCases(u)',
                     i # j, ~cases'[i].half, ~cases'[j].half, cases'[i].key = cases'[j].key,
                     ~lapsed', ~Disturbed(i)', ~Disturbed(j)'
              PROVE  FALSE
  BY DEF NoTwinCases
<1>1. i \in DOMAIN cases /\ j \in DOMAIN cases  BY DEF OpenCases
<1>2. i \in OpenCases(u) /\ j \in OpenCases(u)  BY <1>1, OpenBefore
<1>3. /\ cases'[i].key = cases[i].key /\ cases'[i].half = cases[i].half /\ ~Disturbed(i)
      /\ cases'[j].key = cases[j].key /\ cases'[j].half = cases[j].half /\ ~Disturbed(j)
  BY <1>1 DEF CasesGrow, CaseGrows, Disturbed
<1>. QED  BY <1>2, <1>3 DEF NoTwinCases

(* Nothing new is in anybody's hand, and no case is new.                   *)
LEMMA TwinsKept ==
  ASSUME TwinsInv, CasesGrow, GoodCases', DOMAIN cases' = DOMAIN cases, lapsed => lapsed',
         \A q \in Proc : ToSet(todo'[q]) \subseteq ToSet(todo[q])
  PROVE  TwinsInv'
BY FoundNoneKept, NoTwinsKept DEF TwinsInv

LEMMA TwinsReadCases ==
  ASSUME IInv, DocsInv, TwinsInv, NEW p \in Proc, ReadCases(p),
         \A q \in Proc : q # p => todo'[q] = todo[q]
  PROVE  TwinsInv'
<1>1. /\ UNCHANGED <<cases, caseCount, lapsed, overwritten, job, at, stored>>
      /\ \/ todo' = todo
         \/ \E i \in Nat, cut \in Nat : Prepared(p, i, cut)
  BY ReadCasesChanges DEF ghosts
<1>2. CasesGrow /\ GoodCases'
  <2>1. DocsInv'  BY DocsReadCases
  <2>. QED  BY <1>1, <2>1, QuietGrows DEF DocsInv, GoodCases
<1>3. NoTwinCases'  BY <1>1, <1>2, NoTwinsKept DEF TwinsInv
<1>4. \A q \in Proc : q # p => FoundNone(q)'
  BY <1>1, <1>2, FoundNoneKept DEF TwinsInv
<1>5. FoundNone(p)'
  <2>1. CASE todo' = todo  BY <1>1, <1>2, <2>1, FoundNoneKept DEF TwinsInv
  <2>2. ASSUME NEW i \in Nat, NEW cut \in Nat, Prepared(p, i, cut)  PROVE FoundNone(p)'
    <3>. SUFFICES ASSUME NEW w \in ToSet(todo'[p]), w.id = 0, ~w.doc.half
                  PROVE  OpenCases(UserOf[w.doc.key])' = {}
      BY DEF FoundNone
    <3>1. PreparedWrite(p, w, i, cut)  BY <2>2 DEF Prepared
    <3>2. i \in OpenCases(UserOf[Group(p).key]) => i # 0
      BY DEF OpenCases, IInv, DomainsOK
    <3>3. w.doc.key = Group(p).key /\ OpenCases(UserOf[Group(p).key]) = {}
      BY <3>1, <3>2 DEF PreparedWrite
    <3>4. OpenCases(UserOf[w.doc.key])' = OpenCases(UserOf[w.doc.key])
      BY <1>1 DEF OpenCases, UserOfCase
    <3>. QED  BY <3>3, <3>4
  <2>. QED  BY <1>1, <2>1, <2>2
<1>. QED  BY <1>3, <1>4, <1>5 DEF TwinsInv

LEMMA LapsedStays ==
  ASSUME [Next]_vars, lapsed
  PROVE  lapsed'
<1>1. CASE UNCHANGED vars
  BY <1>1 DEF vars, ghosts
<1>2. ASSUME NEW p \in Proc, NEW t \in Txn, NEW v \in Versions(t), Deliver(p, t, v)
      PROVE  lapsed'
  BY <1>2 DEF Deliver, ghosts
<1>3. ASSUME NEW p \in Proc, Consume(p) \/ Throw(p) \/ Die(p)
      PROVE  lapsed'
  BY <1>3 DEF Consume, Lock, ReadCases, WriteCase, Unlock, Relate, Throw, Die, Fault, ghosts
<1>4. ASSUME NEW k \in Key, ExpireAbandoned(k) \/ ExpireHeld(k)  PROVE lapsed'
  BY <1>4 DEF ExpireAbandoned, ExpireHeld, ghosts
<1>5. ASSUME NEW i \in DOMAIN cases,
             ChooseCase(i) \/ \E a \in OpenAlerts(i) : ChooseAlert(i, a)
      PROVE  lapsed'
  BY <1>5 DEF ChooseCase, ChooseAlert, systemVars
<1>6. Operate => lapsed'
  BY DEF Operate, SetCase, SetAlerts, Check, Reread, systemVars
<1>. QED  BY <1>1, <1>2, <1>3, <1>4, <1>5, <1>6 DEF Next

(* Whoever holds the lock of a new case's key found no case under it that  *)
(* is open, and nobody else who found none is at the same time about to    *)
(* write one.                                                              *)
LEMMA TwinsNewCase ==
  ASSUME IInv, DocsInv, TwinsInv, NEW p \in Proc, pc[p] = "writing",
         NEW w \in Write, w \in ToSet(todo[p]), w.id = 0,
         CasesGrow, GoodCases', NEW n, n \notin DOMAIN cases,
         DOMAIN cases' = DOMAIN cases \cup {n}, cases'[n] = w.doc,
         lapsed' = lapsed, ToSet(todo'[p]) = {},
         \A q \in Proc : q # p => todo'[q] = todo[q]
  PROVE  TwinsInv'
<1>1. ForGroup(p, w) /\ w.doc.key = Group(p).key /\ HasLock(p)
  BY DEF DocsInv, GoodHand, ToWrite, ForGroup, HasLock
<1>2. ASSUME NEW u, NEW i \in OpenCases(u)', i # n, ~Disturbed(i)'
      PROVE  /\ i \in OpenCases(u) /\ ~Disturbed(i)
             /\ cases'[i].key = cases[i].key /\ cases'[i].half = cases[i].half
  <2>1. i \in DOMAIN cases  BY <1>2 DEF OpenCases
  <2>. QED  BY <1>2, <2>1, OpenBefore DEF CasesGrow, CaseGrows, Disturbed
<1>3. ASSUME NEW u, NEW i \in OpenCases(u)', n \in OpenCases(u)', i # n,
             ~cases'[i].half, ~cases'[n].half, cases'[i].key = cases'[n].key,
             ~lapsed', ~Disturbed(i)'
      PROVE  FALSE
  <2>1. u = UserOf[w.doc.key]  BY <1>3 DEF OpenCases, UserOfCase
  <2>2. i \in OpenCases(UserOf[w.doc.key]) /\ ~Disturbed(i) /\ ~cases[i].half
        /\ cases[i].key = w.doc.key
    BY <1>2, <1>3, <2>1
  <2>. QED  BY <1>3, <2>2 DEF TwinsInv, FoundNone
<1>4. NoTwinCases'
  <2>. SUFFICES ASSUME NEW u \in User, NEW i \in OpenCases(u)', NEW j \in OpenCases(u)',
                       i # j, ~cases'[i].half, ~cases'[j].half, cases'[i].key = cases'[j].key,
                       ~lapsed', ~Disturbed(i)', ~Disturbed(j)'
                PROVE  FALSE
    BY DEF NoTwinCases
  <2>1. CASE i = n  BY <1>3, <2>1
  <2>2. CASE j = n  BY <1>3, <2>2
  <2>3. CASE i # n /\ j # n
    <3>1. /\ i \in OpenCases(u) /\ ~Disturbed(i) /\ ~cases[i].half
          /\ j \in OpenCases(u) /\ ~Disturbed(j) /\ ~cases[j].half
          /\ cases[i].key = cases[j].key
      BY <1>2, <2>3
    <3>. QED  BY <3>1 DEF TwinsInv, NoTwinCases
  <2>. QED  BY <2>1, <2>2, <2>3
<1>5. FoundNone(p)'  BY DEF FoundNone
<1>6. ASSUME NEW q \in Proc, q # p  PROVE FoundNone(q)'
  <2>. SUFFICES ASSUME NEW y \in ToSet(todo[q]), y.id = 0, ~y.doc.half, ~lapsed',
                       NEW i \in OpenCases(UserOf[y.doc.key])', cases'[i].key = y.doc.key,
                       ~Disturbed(i)'
                PROVE  cases'[i].half
    BY <1>6 DEF FoundNone
  <2>1. CASE i # n
    <3>1. /\ i \in OpenCases(UserOf[y.doc.key]) /\ ~Disturbed(i)
          /\ cases'[i].key = cases[i].key /\ cases'[i].half = cases[i].half
      BY <1>2, <2>1
    <3>. QED  BY <3>1 DEF TwinsInv, FoundNone
  <2>2. CASE i = n
    <3>1. todo[q] # <<>>  BY ToSetEmpty
    <3>2. pc[q] = "writing" /\ ToWrite(q)  BY <3>1 DEF DocsInv, GoodHand
    <3>3. y.doc.key = Group(q).key /\ HasLock(q)  BY <3>2 DEF ToWrite, ForGroup, HasLock
    <3>4. Group(p).key = Group(q).key  BY <1>1, <2>2, <3>3
    <3>5. lapsed  BY <1>1, <1>6, <3>3, <3>4, Exclusion
    <3>. QED  BY <3>5
  <2>. QED  BY <2>1, <2>2
<1>. QED  BY <1>4, <1>5, <1>6 DEF TwinsInv

LEMMA TwinsWriteCase ==
  ASSUME IInv, DocsInv, TwinsInv, NEW p \in Proc, WriteCase(p),
         \A q \in Proc : q # p => todo'[q] = todo[q]
  PROVE  TwinsInv'
<1>0. pc[p] = "writing" /\ GoodHand(p)  BY DEF WriteCase, DocsInv
<1>1. PICK w \in Write, rest \in Seq(Write) :
           /\ w = Head(todo[p]) /\ rest = Tail(todo[p])
           /\ ToSet(todo[p]) = {w} \cup ToSet(rest)
           /\ GoodWrite(w)
           /\ \/ rest = <<>>
              \/ w.id # 0
  BY <1>0, FirstToWrite
<1>2. PICK x : x = Written(w)  OBVIOUS
<1>3. /\ \E who : Save(w, who)
      /\ todo'[p] = rest /\ alertCount' = alertCount /\ lapsed' = lapsed
  BY <1>1, <1>2, WriteCaseChanges
<1>4. /\ CasesGrow /\ GoodCases'
      /\ cases'[x.id] = w.doc
      /\ w.id # 0 => DOMAIN cases' = DOMAIN cases
      /\ w.id = 0 => /\ x.id \notin DOMAIN cases
                     /\ DOMAIN cases' = DOMAIN cases \cup {x.id}
  BY <1>1, <1>2, <1>3, SaveGrows
<1>5. CASE w.id # 0
  <2>1. \A q \in Proc : ToSet(todo'[q]) \subseteq ToSet(todo[q])
    BY <1>1, <1>3
  <2>. QED  BY <1>3, <1>4, <1>5, <2>1, TwinsKept
<1>6. CASE w.id = 0
  <2>1. ToSet(todo'[p]) = {}  BY <1>1, <1>3, <1>6, ToSetEmpty
  <2>2. w \in ToSet(todo[p])  BY <1>1
  <2>. QED  BY <1>0, <1>3, <1>4, <1>6, <2>1, <2>2, TwinsNewCase
<1>. QED  BY <1>5, <1>6

LEMMA TwinsRelate ==
  ASSUME IInv, DocsInv, TwinsInv, NEW p \in Proc, Relate(p),
         \A q \in Proc : q # p => todo'[q] = todo[q]
  PROVE  TwinsInv'
<1>0. pc[p] = "relating" /\ GoodHand(p) /\ saved[p] \in Seq(Write) /\ saved[p] # <<>>
      /\ DOMAIN todo = Proc
  BY DEF Relate, DocsInv, GoodHand, IInv, DomainsOK
<1>1. PICK w : w = Head(saved[p])  OBVIOUS
<1>2. w \in ToSet(saved[p])  BY <1>0, <1>1, HeadAndTail
<1>3. GoodWrite(w) /\ w.id # 0  BY <1>0, <1>2 DEF GoodHand, InHand
<1>4. PICK x : x = Written(w)  OBVIOUS
<1>5. /\ \E who : Save(w, who)
      /\ alertCount' = alertCount /\ lapsed' = lapsed
      /\ Idle(p) \/ todo' = todo
  BY <1>1 DEF Relate, Return
<1>6. CasesGrow /\ GoodCases' /\ DOMAIN cases' = DOMAIN cases
  BY <1>3, <1>4, <1>5, SaveGrows
<1>7. ToSet(todo'[p]) \subseteq ToSet(todo[p])
  BY <1>0, <1>5, ToSetEmpty DEF Idle
<1>8. \A q \in Proc : ToSet(todo'[q]) \subseteq ToSet(todo[q])
  BY <1>7
<1>. QED  BY <1>5, <1>6, <1>8, TwinsKept

LEMMA TwinsStep ==
  ASSUME IInv, DocsInv, TwinsInv, [Next]_vars
  PROVE  TwinsInv'
<1>0. GoodCases' /\ (lapsed => lapsed')
  BY DocsStep, LapsedStays DEF DocsInv, GoodCases
<1>1. ASSUME UNCHANGED <<cases, overwritten>>,
             \A q \in Proc : ToSet(todo'[q]) \subseteq ToSet(todo[q])
      PROVE  TwinsInv'
  BY <1>0, <1>1, QuietGrows, TwinsKept
<1>2. ASSUME NEW p \in Proc, Acts(p)  PROVE TwinsInv'
  <2>1. \A q \in Proc : q # p => todo'[q] = todo[q]
    BY <1>2, OthersUntouched DEF Untouched
  <2>2. Idle(p) => ToSet(todo'[p]) = {}
    BY ToSetEmpty DEF Idle, IInv, DomainsOK
  <2>3. ASSUME UNCHANGED <<cases, overwritten>>, Idle(p) \/ todo' = todo
        PROVE  TwinsInv'
    <3>1. \A q \in Proc : ToSet(todo'[q]) \subseteq ToSet(todo[q])
      BY <2>1, <2>2, <2>3
    <3>. QED  BY <1>1, <2>3, <3>1
  <2>4. ASSUME NEW t \in Txn, NEW v \in Versions(t), Deliver(p, t, v)  PROVE TwinsInv'
    BY <2>3, <2>4 DEF Deliver, ghosts
  <2>5. Lock(p) => TwinsInv'
    BY <2>3 DEF Lock, ghosts
  <2>6. Unlock(p) => TwinsInv'
    BY <2>3 DEF Unlock, Return, ghosts
  <2>7. Throw(p) \/ Die(p) => TwinsInv'
    BY <2>3 DEF Throw, Die, Fault
  <2>. QED  BY <1>2, <2>1, <2>4, <2>5, <2>6, <2>7, TwinsReadCases, TwinsWriteCase, TwinsRelate
            DEF Acts, Consume
<1>3. CASE Around
  BY <1>1, <1>3 DEF Around, consumers
<1>4. CASE SetCase \/ SetAlerts
  <2>1. CasesGrow /\ DOMAIN cases' = DOMAIN cases /\ UNCHANGED systemVars
    BY <1>4, PersonGrows
  <2>2. todo' = todo  BY <2>1 DEF systemVars, consumers
  <2>. QED  BY <1>0, <2>1, <2>2, TwinsKept
<1>. QED  BY <1>2, <1>3, <1>4, StepKinds

LEMMA TwinsInit == Init => TwinsInv
<1>. SUFFICES ASSUME Init PROVE TwinsInv
  OBVIOUS
<1>1. \A p \in Proc : ToSet(todo[p]) = {}  BY ToSetEmpty DEF Init
<1>2. DOMAIN cases = {}  BY DEF Init
<1>. QED  BY <1>1, <1>2 DEF TwinsInv, NoTwinCases, FoundNone, OpenCases

(* The lock of getOrCreateCases keeps two consumers from making two open   *)
(* cases for the same version of a user, as long as no lease runs out and  *)
(* no case is replaced from an older copy.                                 *)
THEOREM NoTwins == Spec => []NoTwinCases
<1>1. Init => IInv /\ DocsInv /\ TwinsInv
  BY InitIInv, DocsInit, TwinsInit
<1>2. IInv /\ DocsInv /\ TwinsInv /\ [Next]_vars => IInv' /\ DocsInv' /\ TwinsInv'
  BY InductiveIInv, DocsStep, TwinsStep
<1>3. TwinsInv => NoTwinCases  BY DEF TwinsInv
<1>. QED  BY <1>1, <1>2, <1>3, PTL DEF Spec

-----------------------------------------------------------------------------
(* The person, having closed a case, is about to close the alerts that     *)
(* were open when the case was read.                                       *)
PersonInv ==
  /\ person \in [does : {"idle", "set case", "set alerts", "check", "reread"},
                 case : Nat, alerts : SUBSET Nat]
  /\ person.does \in {"set case", "reread"} => person.case \in DOMAIN cases
  /\ late \subseteq DOMAIN cases
  /\ \A i \in DOMAIN cases \ late :
       person.does = "set alerts" /\ person.case = i /\ cases[i].closed
         => OpenAlerts(i) \subseteq person.alerts

ClosedInv == PersonInv /\ ClosedCasesAreDone

LEMMA OpenAlertsNat ==
  ASSUME DocsInv, NEW i \in DOMAIN cases
  PROVE  OpenAlerts(i) \in SUBSET Nat
<1>1. cases[i] \in Case  BY DEF DocsInv
<1>. QED  BY <1>1, AlertsOfCase DEF OpenAlerts

(* The consumers close no case: a case that is closed after their step is  *)
(* one they left alone.                                                    *)
LEMMA ActsCloseNothing ==
  ASSUME IInv, DocsInv, NEW p \in Proc, Acts(p)
  PROVE  /\ UNCHANGED <<person, late>>
         /\ DOMAIN cases \subseteq DOMAIN cases'
         /\ \A i \in DOMAIN cases' :
              cases'[i].closed => i \in DOMAIN cases /\ cases'[i] = cases[i]
<1>1. ASSUME cases' = cases
      PROVE  /\ DOMAIN cases \subseteq DOMAIN cases'
             /\ \A i \in DOMAIN cases' :
                  cases'[i].closed => i \in DOMAIN cases /\ cases'[i] = cases[i]
  BY <1>1
<1>2. ASSUME NEW w, GoodWrite(w), NEW who, Save(w, who), alertCount' = alertCount
      PROVE  /\ DOMAIN cases \subseteq DOMAIN cases'
             /\ \A i \in DOMAIN cases' :
                  cases'[i].closed => i \in DOMAIN cases /\ cases'[i] = cases[i]
  <2>1. PICK x : x = Written(w)  OBVIOUS
  <2>2. /\ cases'[x.id] = w.doc
        /\ \A i \in DOMAIN cases : i # w.id => cases'[i] = cases[i]
        /\ w.id # 0 => DOMAIN cases' = DOMAIN cases /\ x.id = w.id
        /\ w.id = 0 => /\ x.id \notin DOMAIN cases
                       /\ DOMAIN cases' = DOMAIN cases \cup {x.id}
    BY <1>2, <2>1, SaveGrows
  <2>3. ~w.doc.closed  BY <1>2 DEF GoodWrite
  <2>4. 0 \notin DOMAIN cases  BY DEF IInv, DomainsOK
  <2>5. ASSUME NEW i \in DOMAIN cases', cases'[i].closed
        PROVE  i \in DOMAIN cases /\ cases'[i] = cases[i]
    <3>1. i # x.id  BY <2>2, <2>3, <2>5
    <3>. QED  BY <2>2, <2>4, <2>5, <3>1
  <2>. QED  BY <2>2, <2>5
<1>3. ASSUME NEW t \in Txn, NEW v \in Versions(t), Deliver(p, t, v)
      PROVE  UNCHANGED <<cases, person, late>>
  BY <1>3 DEF Deliver, ghosts
<1>4. Lock(p) \/ ReadCases(p) \/ Unlock(p) \/ Throw(p) \/ Die(p)
        => UNCHANGED <<cases, person, late>>
  BY DEF Lock, ReadCases, Unlock, Throw, Die, Fault, ghosts
<1>5. CASE WriteCase(p)
  <2>1. GoodHand(p) /\ pc[p] = "writing"  BY <1>5 DEF DocsInv, WriteCase
  <2>2. GoodWrite(Head(todo[p]))  BY <2>1, FirstToWrite
  <2>3. /\ \E who : Save(Head(todo[p]), who)
        /\ UNCHANGED <<alertCount, person, late>>
    BY <1>5 DEF WriteCase
  <2>. QED  BY <1>2, <2>2, <2>3
<1>6. CASE Relate(p)
  <2>1. GoodHand(p) /\ saved[p] \in Seq(Write) /\ saved[p] # <<>>
    BY <1>6 DEF DocsInv, GoodHand, Relate
  <2>2. GoodWrite(Head(saved[p]))  BY <2>1, HeadAndTail DEF GoodHand, InHand
  <2>3. /\ \E who : Save(Head(saved[p]), who)
        /\ UNCHANGED <<alertCount, person, late>>
    BY <1>6 DEF Relate
  <2>. QED  BY <1>2, <2>2, <2>3
<1>. QED  BY <1>1, <1>3, <1>4, <1>5, <1>6 DEF Acts, Consume

LEMMA ClosedByNobody ==
  ASSUME ClosedInv, UNCHANGED <<person, late>>,
         DOMAIN cases \subseteq DOMAIN cases',
         \A i \in DOMAIN cases' :
           cases'[i].closed => i \in DOMAIN cases /\ cases'[i] = cases[i]
  PROVE  ClosedInv'
<1>1. \A i \in DOMAIN cases' : cases'[i].closed =>
        /\ i \in DOMAIN cases /\ cases'[i] = cases[i]
        /\ OpenAlerts(i)' = OpenAlerts(i)
  BY DEF OpenAlerts
<1>2. PersonInv'
  <2>0. PersonInv /\ person' = person /\ late' = late  BY DEF ClosedInv
  <2>1. /\ person' \in [does : {"idle", "set case", "set alerts", "check", "reread"},
                        case : Nat, alerts : SUBSET Nat]
        /\ late' \subseteq DOMAIN cases'
        /\ person'.does \in {"set case", "reread"} => person'.case \in DOMAIN cases'
    BY <2>0 DEF PersonInv
  <2>2. ASSUME NEW i \in DOMAIN cases' \ late', person'.does = "set alerts",
               person'.case = i, cases'[i].closed
        PROVE  OpenAlerts(i)' \subseteq person'.alerts
    <3>1. /\ i \in DOMAIN cases \ late /\ cases[i].closed
          /\ OpenAlerts(i)' = OpenAlerts(i)
          /\ person.does = "set alerts" /\ person.case = i
      BY <1>1, <2>0, <2>2
    <3>2. OpenAlerts(i) \subseteq person.alerts  BY <2>0, <3>1, Zenon DEF PersonInv
    <3>. QED  BY <2>0, <3>1, <3>2
  <2>. QED  BY <2>1, <2>2 DEF PersonInv
<1>3. ClosedCasesAreDone'  BY <1>1 DEF ClosedInv, ClosedCasesAreDone
<1>. QED  BY <1>2, <1>3 DEF ClosedInv

(* The person chooses, looks again, or is done.                            *)
LEMMA ClosedLook ==
  ASSUME ClosedInv, UNCHANGED <<cases, late>>, person.does # "set alerts",
         person' \in [does : {"idle", "set case", "set alerts", "check", "reread"},
                      case : Nat, alerts : SUBSET Nat],
         person'.does \in {"set case", "reread"} => person'.case \in DOMAIN cases,
         person'.does = "set alerts" => person'.case \notin DOMAIN cases
  PROVE  ClosedInv'
<1>1. \A i : OpenAlerts(i)' = OpenAlerts(i)  BY DEF OpenAlerts
<1>2. ClosedCasesAreDone'  BY <1>1 DEF ClosedInv, ClosedCasesAreDone
<1>. QED  BY <1>1, <1>2 DEF ClosedInv, PersonInv

LEMMA ClosedStep ==
  ASSUME IInv, DocsInv, ClosedInv, [Next]_vars
  PROVE  ClosedInv'
<1>. DEFINE People == [does : {"idle", "set case", "set alerts", "check", "reread"},
                       case : Nat, alerts : SUBSET Nat]
<1>0. /\ person \in People /\ late \subseteq DOMAIN cases
      /\ 0 \notin DOMAIN cases /\ DOMAIN cases \subseteq Nat
  <2>0. person \in People  BY Zenon DEF ClosedInv, PersonInv
  <2>1. late \subseteq DOMAIN cases  BY DEF ClosedInv, PersonInv
  <2>2. DOMAIN cases = 1..caseCount /\ caseCount \in Nat  BY DEF IInv, DomainsOK
  <2>3. 0 \notin DOMAIN cases /\ \A i \in DOMAIN cases : i \in Nat  BY <2>2
  <2>. QED  BY <2>0, <2>1, <2>3, Zenon
<1>1. ASSUME NEW p \in Proc, Acts(p)  PROVE ClosedInv'
  BY <1>1, ActsCloseNothing, ClosedByNobody
<1>2. ASSUME UNCHANGED <<cases, person, late>>  PROVE ClosedInv'
  BY <1>2, ClosedByNobody
<1>3. ASSUME NEW k \in Key, ExpireAbandoned(k) \/ ExpireHeld(k)  PROVE ClosedInv'
  BY <1>2, <1>3 DEF ExpireAbandoned, ExpireHeld, ghosts
<1>4. ASSUME NEW i \in DOMAIN cases, ChooseCase(i)  PROVE ClosedInv'
  <2>1. /\ UNCHANGED <<cases, late>> /\ person.does = "idle"
        /\ person' = [does |-> "set case", case |-> i, alerts |-> OpenAlerts(i)]
    BY <1>4 DEF ChooseCase
  <2>2. OpenAlerts(i) \in SUBSET Nat  BY OpenAlertsNat
  <2>3. /\ person' \in People /\ person'.does = "set case" /\ person'.case = i
    BY <1>0, <2>1, <2>2
  <2>. QED  BY <2>1, <2>3, ClosedLook
<1>5. ASSUME NEW i \in DOMAIN cases, NEW a \in OpenAlerts(i), ChooseAlert(i, a)
      PROVE  ClosedInv'
  <2>1. /\ UNCHANGED <<cases, late>> /\ person.does = "idle"
        /\ person' = [does |-> "set alerts", case |-> 0, alerts |-> {a}]
    BY <1>5 DEF ChooseAlert
  <2>2. a \in Nat  BY OpenAlertsNat
  <2>3. /\ person' \in People /\ person'.does = "set alerts" /\ person'.case = 0
    BY <2>1, <2>2
  <2>. QED  BY <1>0, <2>1, <2>3, ClosedLook
<1>6. CASE Check
  <2>1. UNCHANGED <<cases, late>> /\ person.does = "check"  BY <1>6 DEF Check
  <2>2. \/ person' = [person EXCEPT !.does = "idle"]
        \/ \E i \in DOMAIN cases : person' = [person EXCEPT !.does = "reread", !.case = i]
    BY <1>6 DEF Check
  <2>3. /\ person' \in People
        /\ person'.does = "idle" \/ (person'.does = "reread" /\ person'.case \in DOMAIN cases)
    BY <1>0, <2>2
  <2>. QED  BY <2>1, <2>3, ClosedLook
<1>7. CASE Reread
  <2>1. /\ UNCHANGED <<cases, late>> /\ person.does = "reread"
        /\ person' = [person EXCEPT !.does = "set case", !.alerts = OpenAlerts(person.case)]
        /\ person.case \in DOMAIN cases
    BY <1>7 DEF Reread, ClosedInv, PersonInv
  <2>2. OpenAlerts(person.case) \in SUBSET Nat  BY <2>1, OpenAlertsNat
  <2>3. /\ person' \in People /\ person'.does = "set case" /\ person'.case \in DOMAIN cases
    BY <1>0, <2>1, <2>2
  <2>. QED  BY <2>1, <2>3, ClosedLook
<1>8. CASE SetCase
  <2>1. PICK c : c = person.case  OBVIOUS
  <2>2. /\ person.does = "set case" /\ c \in DOMAIN cases
        /\ late' = IF OpenAlerts(c) \subseteq person.alerts THEN late ELSE late \cup {c}
        /\ person' = [person EXCEPT !.does =
                        IF person.alerts # {} THEN "set alerts" ELSE "idle"]
    BY <1>8, <2>1 DEF SetCase, ClosedInv, PersonInv
  <2>3. /\ DOMAIN cases' = DOMAIN cases
        /\ \A i \in DOMAIN cases : OpenAlerts(i)' = OpenAlerts(i)
        /\ \A i \in DOMAIN cases : i # c => cases'[i] = cases[i]
    BY <1>8, <2>1, SetCaseSets
  <2>4. /\ person' \in People /\ person'.case = c /\ person'.alerts = person.alerts
        /\ person'.does = IF person.alerts # {} THEN "set alerts" ELSE "idle"
    BY <1>0, <2>1, <2>2
  <2>5. /\ late \subseteq late' /\ late' \subseteq DOMAIN cases'
        /\ c \notin late' => OpenAlerts(c) \subseteq person.alerts
    BY <1>0, <2>2, <2>3
  <2>6. PersonInv'
    <3>1. ASSUME NEW i \in DOMAIN cases' \ late', person'.case = i
          PROVE  OpenAlerts(i)' \subseteq person'.alerts
      <4>1. OpenAlerts(i)' = OpenAlerts(c)  BY <2>2, <2>3, <2>4, <3>1
      <4>2. OpenAlerts(c) \subseteq person.alerts  BY <2>4, <2>5, <3>1
      <4>. QED  BY <2>4, <4>1, <4>2
    <3>. QED  BY <2>3, <2>4, <2>5, <3>1 DEF PersonInv
  <2>7. ClosedCasesAreDone'
    <3>. SUFFICES ASSUME NEW i \in DOMAIN cases, cases'[i].closed, i \notin late',
                         ~(person'.case = i /\ person'.does = "set alerts")
                  PROVE  OpenAlerts(i)' = {}
      BY <2>3 DEF ClosedCasesAreDone
    <3>1. CASE i = c
      BY <2>2, <2>3, <2>4, <2>5, <3>1
    <3>2. CASE i # c
      <4>1. cases[i].closed /\ i \notin late /\ OpenAlerts(i)' = OpenAlerts(i)
        BY <2>3, <2>5, <3>2
      <4>. QED  BY <2>2, <4>1 DEF ClosedInv, ClosedCasesAreDone
    <3>. QED  BY <3>1, <3>2
  <2>. QED  BY <2>6, <2>7 DEF ClosedInv
<1>9. CASE SetAlerts
  <2>1. /\ person.does = "set alerts" /\ late' = late
        /\ person' = [person EXCEPT !.does = IF person.case = 0 THEN "check" ELSE "idle"]
    BY <1>9 DEF SetAlerts
  <2>2. /\ DOMAIN cases' = DOMAIN cases
        /\ \A i \in DOMAIN cases :
             /\ cases'[i].closed = cases[i].closed
             /\ OpenAlerts(i)' \subseteq OpenAlerts(i) \ person.alerts
    BY <1>9, SetAlertsSets
  <2>3. person' \in People /\ person'.does \in {"check", "idle"}
    BY <1>0, <2>1
  <2>4. PersonInv'  BY <1>0, <2>1, <2>2, <2>3 DEF PersonInv
  <2>5. ClosedCasesAreDone'
    <3>. SUFFICES ASSUME NEW i \in DOMAIN cases, cases[i].closed, i \notin late
                  PROVE  OpenAlerts(i)' = {}
      BY <2>1, <2>2 DEF ClosedCasesAreDone
    <3>1. OpenAlerts(i) = {} \/ OpenAlerts(i) \subseteq person.alerts
      BY <2>1 DEF ClosedInv, ClosedCasesAreDone, PersonInv
    <3>. QED  BY <2>2, <3>1
  <2>. QED  BY <2>4, <2>5 DEF ClosedInv
<1>10. CASE UNCHANGED vars
  BY <1>2, <1>10 DEF vars, ghosts
<1>. QED
  BY <1>1, <1>3, <1>4, <1>5, <1>6, <1>7, <1>8, <1>9, <1>10 DEF Next, Operate, Acts

LEMMA ClosedInit == Init => ClosedInv
<1>. SUFFICES ASSUME Init PROVE ClosedInv
  OBVIOUS
<1>1. DOMAIN cases = {} /\ late = {}
      /\ person = [does |-> "idle", case |-> 0, alerts |-> {}]
  BY DEF Init
<1>. QED  BY <1>1 DEF ClosedInv, PersonInv, ClosedCasesAreDone

(* The alerts of a case that a person closed (updateStatusOfCases, then    *)
(* alertsRepository.updateStatus) are closed, but for those that came      *)
(* between the look and the write; no consumer closes a case, or adds an   *)
(* alert to one that stays closed.                                         *)
THEOREM ClosedAreDone == Spec => []ClosedCasesAreDone
<1>1. Init => IInv /\ DocsInv /\ ClosedInv
  BY InitIInv, DocsInit, ClosedInit
<1>2. IInv /\ DocsInv /\ ClosedInv /\ [Next]_vars => IInv' /\ DocsInv' /\ ClosedInv'
  BY InductiveIInv, DocsStep, ClosedStep
<1>3. ClosedInv => ClosedCasesAreDone  BY DEF ClosedInv
<1>. QED  BY <1>1, <1>2, <1>3, PTL DEF Spec

-----------------------------------------------------------------------------
(* Every case has a writer.                                                *)
WriterOK == writer \in [1..caseCount -> Writer]

LEMMA SaveWriter ==
  ASSUME IInv, WriterOK, NEW w, NEW who \in Writer, Save(w, who)
  PROVE  WriterOK'
<1>1. caseCount \in Nat /\ writer \in [1..caseCount -> Writer]
  BY DEF IInv, DomainsOK, WriterOK
<1>2. CASE w.id = 0
  <2>1. /\ caseCount' = caseCount + 1
        /\ writer' = [i \in 1..(caseCount + 1) |->
                        IF i = caseCount + 1 THEN who ELSE writer[i]]
    BY <1>2 DEF Save, Extend
  <2>2. \A i \in 1..(caseCount + 1) : i # caseCount + 1 => writer[i] \in Writer
    BY <1>1
  <2>. QED  BY <2>1, <2>2 DEF WriterOK
<1>3. CASE w.id # 0
  <2>1. caseCount' = caseCount /\ writer' = [writer EXCEPT ![w.id] = who]
    BY <1>3 DEF Save
  <2>. QED  BY <1>1, <2>1 DEF WriterOK
<1>. QED  BY <1>2, <1>3

LEMMA WriterStep ==
  ASSUME IInv, WriterOK, [Next]_vars
  PROVE  WriterOK'
<1>1. UNCHANGED <<writer, caseCount>> => WriterOK'  BY DEF WriterOK
<1>2. CASE UNCHANGED vars
  BY <1>1, <1>2 DEF vars, ghosts, counters
<1>3. ASSUME NEW p \in Proc, NEW t \in Txn, NEW v \in Versions(t), Deliver(p, t, v)
      PROVE  WriterOK'
  BY <1>1, <1>3 DEF Deliver, ghosts, counters
<1>4. ASSUME NEW p \in Proc,
             Lock(p) \/ ReadCases(p) \/ Unlock(p) \/ Throw(p) \/ Die(p)
      PROVE  WriterOK'
  BY <1>1, <1>4 DEF Lock, ReadCases, Unlock, Throw, Die, Fault, ghosts, counters
<1>5. ASSUME NEW p \in Proc, WriteCase(p)  PROVE WriterOK'
  <2>1. Group(p).key \in Key  BY <1>5, GroupHasKey DEF WriteCase, IInv, Busy
  <2>2. [by |-> "locked", key |-> {Group(p).key}] \in Writer  BY <2>1 DEF Writer
  <2>. QED  BY <1>5, <2>2, SaveWriter DEF WriteCase
<1>6. ASSUME NEW p \in Proc, Relate(p)  PROVE WriterOK'
  <2>1. [by |-> "relating", key |-> {}] \in Writer  BY DEF Writer
  <2>. QED  BY <1>6, <2>1, SaveWriter DEF Relate
<1>7. ASSUME NEW k \in Key, ExpireAbandoned(k) \/ ExpireHeld(k)  PROVE WriterOK'
  BY <1>1, <1>7 DEF ExpireAbandoned, ExpireHeld, ghosts, counters
<1>8. ASSUME NEW i \in DOMAIN cases,
             ChooseCase(i) \/ \E a \in OpenAlerts(i) : ChooseAlert(i, a)
      PROVE  WriterOK'
  BY <1>1, <1>8 DEF ChooseCase, ChooseAlert, systemVars, counters
<1>9. ByPerson \in Writer  BY DEF ByPerson, Writer
<1>10. CASE SetCase
  <2>1. caseCount' = caseCount /\ writer' = [writer EXCEPT ![person.case] = ByPerson]
    BY <1>10 DEF SetCase, systemVars, counters
  <2>. QED  BY <1>9, <2>1 DEF WriterOK
<1>11. CASE SetAlerts
  <2>1. /\ caseCount' = caseCount /\ DOMAIN cases = 1..caseCount
        /\ writer' = [i \in DOMAIN cases |-> writer'[i]]
        /\ \A i \in DOMAIN cases : writer'[i] \in {ByPerson, writer[i]}
    BY <1>11 DEF SetAlerts, systemVars, counters, IInv, DomainsOK
  <2>2. \A i \in 1..caseCount : writer'[i] \in Writer  BY <1>9, <2>1 DEF WriterOK
  <2>. QED  BY <2>1, <2>2 DEF WriterOK
<1>12. CASE Check \/ Reread
  BY <1>1, <1>12 DEF Check, Reread, systemVars, counters
<1>. QED
  BY <1>2, <1>3, <1>4, <1>5, <1>6, <1>7, <1>8, <1>10, <1>11, <1>12 DEF Next, Consume, Operate

MaskedOK == masked \subseteq User \X Txn \X Rule

LEMMA MaskedStep ==
  ASSUME IInv, MaskedOK, [Next]_vars
  PROVE  MaskedOK'
<1>1. masked' = masked \/ \E p \in Proc : ReadCases(p)
  <2>1. CASE \E p \in Proc : Acts(p)  BY <2>1, OnlyReadCasesMasks
  <2>2. CASE Around  BY <2>2 DEF Around, messages
  <2>3. CASE SetCase \/ SetAlerts  BY <2>3 DEF SetCase, SetAlerts, systemVars, messages
  <2>. QED  BY <2>1, <2>2, <2>3, StepKinds
<1>2. ASSUME NEW p \in Proc, ReadCases(p)  PROVE MaskedOK'
  <2>1. Busy(p)  BY <1>2 DEF ReadCases, Busy
  <2>2. job[p] \in Txn /\ Group(p).rules \subseteq Rule
    BY <2>1, GroupOfProcess DEF CaseGroup
  <2>3. UserOf[Group(p).key] \in User
    BY <2>1, GroupHasKey, SubjectAssumption DEF IInv
  <2>. QED  BY <1>2, <2>2, <2>3, ReadCasesMasks DEF MaskedOK
<1>. QED  BY <1>1, <1>2 DEF MaskedOK

LEMMA TypeImplied ==
  ASSUME IInv, DocsInv, Handled, MaskedOK, WriterOK, PersonInv
  PROVE  TypeOK
<1>1. /\ LockTypeOK /\ caseCount \in Nat /\ alertCount \in Nat
      /\ cases \in [1..caseCount -> Case]
      /\ writer \in [1..caseCount -> Writer] /\ late \subseteq DOMAIN cases
  BY DEF IInv, DomainsOK, DocsInv, WriterOK, PersonInv
<1>2. \A t \in Txn : stored[t] \in Versions(t) \cup {0} /\ handled[t] \subseteq 1..stored[t]
  BY DEF Handled
<1>3. ASSUME NEW p \in Proc
      PROVE  /\ pc[p] \in {"idle", "locking", "reading", "writing", "unlocking",
                           "relating"}
             /\ Busy(p) => at[p] \in DOMAIN CurGroups(p)
             /\ todo[p] \in Seq(Write) /\ saved[p] \in Seq(Write)
  BY DEF IInv, DomainsOK, AtGroup, DocsInv, GoodHand
<1>4. ASSUME NEW p \in Proc, NEW i \in DOMAIN saved[p]
      PROVE  saved[p][i].id \in DOMAIN cases
  <2>1. saved[p][i] \in ToSet(saved[p])  BY DEF ToSet
  <2>2. GoodWrite(saved[p][i]) /\ saved[p][i].id # 0
    BY <2>1 DEF DocsInv, GoodHand, InHand
  <2>. QED  BY <2>2 DEF GoodWrite
<1>5. ASSUME NEW i \in DOMAIN cases, NEW a \in Alerts(cases[i])
      PROVE  a.id <= alertCount
  BY <1>5, AlertsOfCase DEF DocsInv, GoodDoc
<1>. QED  BY <1>1, <1>2, <1>3, <1>4, <1>5 DEF TypeOK, MaskedOK

LEMMA WriterInit == Init => WriterOK /\ MaskedOK
BY DEF Init, WriterOK, MaskedOK

(* Every counter, document, copy, writer and lock of the stream consumer   *)
(* and the console has its type.                                           *)
THEOREM TypeCorrect == Spec => []TypeOK
<1>1. Init => IInv /\ DocsInv /\ HitsInv /\ MaskedOK /\ WriterOK /\ ClosedInv
  BY InitIInv, DocsInit, HitsInit, WriterInit, ClosedInit
<1>2. IInv /\ DocsInv /\ HitsInv /\ MaskedOK /\ WriterOK /\ ClosedInv /\ [Next]_vars
        => IInv' /\ DocsInv' /\ HitsInv' /\ MaskedOK' /\ WriterOK' /\ ClosedInv'
  BY InductiveIInv, DocsStep, HitsStep, MaskedStep, WriterStep, ClosedStep
<1>3. IInv /\ DocsInv /\ HitsInv /\ MaskedOK /\ WriterOK /\ ClosedInv => TypeOK
  BY TypeImplied DEF HitsInv, ClosedInv
<1>. QED  BY <1>1, <1>2, <1>3, PTL DEF Spec
=============================================================================
