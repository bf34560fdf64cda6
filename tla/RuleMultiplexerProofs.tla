----------------------- MODULE RuleMultiplexerProofs -----------------------
(***************************************************************************)
(* Theorems about RuleMultiplexer, for any records, identifiers, batches   *)
(* and faults, and any number of reads that miss an item.                  *)
(***************************************************************************)
EXTENDS RuleMultiplexer, SequenceLemmas

(* No two tasks of a batch have an identifier in common, and a task that   *)
(* marks has its message group.                                            *)
TasksInv ==
  /\ \A t \in tasks : t.recs \subseteq ToSet(mbatch)
  /\ \A t, u \in tasks : t # u => Separate(t.recs, u.recs)
  /\ \A t \in tasks :
       t.stage = "marking" => t.group \in Group /\ t.left \subseteq AllIds(t.recs)

(* An item that is not there has no records, and one that is has those of  *)
(* its identifier.                                                         *)
ItemsInv ==
  \A i \in Identifier : /\ items[i].recs # {} => items[i].there
                        /\ \A r \in items[i].recs : i \in Ids[r]

(* What is cleared has been run.                                           *)
ClearingInv == \A g \in Group : rpc[g] = "clearing" => Cur(g) \in ran

BaseInv == TypeOK /\ TasksInv /\ ItemsInv /\ ClearingInv

(* The identifiers a task has marked are as its records need them, and     *)
(* whatever is queued for any of its identifiers is queued in its group.   *)
Marked(t) ==
  \A r \in t.recs \ ran : \A i \in Ids[r] \ (t.left \cup misread) :
    items[i].group = t.group /\ r \in items[i].recs

Owns(t) ==
  \A g \in Group : \A r \in ToSet(procq[g]) \ ran :
    \A i \in (Ids[r] \cap AllIds(t.recs)) \ misread : g = t.group

MarkInv ==
  /\ QueuedIsMarked
  /\ \A t \in tasks : t.stage = "marking" => Marked(t) /\ Owns(t)

(* A record in the set of an identifier that its runner unmarks is still   *)
(* to be dealt with by the multiplexer, or is queued at a place where its  *)
(* runner has not cleared the identifier yet.                              *)
Unsettled(r) ==
  /\ r \in ToSet(inq)
  /\ r \in ToSet(mbatch) => r \in failed \/ \E t \in tasks : r \in t.recs

ClearedAt(g, j, i) ==
  /\ Busy(g)
  /\ \/ j < rat[g]
     \/ j = rat[g] /\ rpc[g] = "clearing" /\ i \notin unmark[g]

Pending(i, r) ==
  \E g \in Group : \E j \in DOMAIN procq[g] : procq[g][j] = r /\ ~ClearedAt(g, j, i)

OrphanInv ==
  \A i \in Identifier : \A r \in items[i].recs :
    i \in RunIds[r] => Unsettled(r) \/ r \in deduped \/ Pending(i, r)

-----------------------------------------------------------------------------
(* Types                                                                   *)

LEMMA IdsOfRecords ==
  ASSUME NEW R \in SUBSET Record
  PROVE  AllIds(R) \subseteq Identifier
BY RecordAssumption DEF AllIds

LEMMA TaskTypes ==
  ASSUME NEW t \in Task
  PROVE  /\ t.recs \in SUBSET Record /\ t.group \in Group \cup {NoGroup}
         /\ t.left \in SUBSET Identifier /\ t.sent \in SUBSET Group
         /\ \A R \in SUBSET Record : NewTask(R) \in Task
         /\ \A g \in Group \cup {NoGroup}, left \in SUBSET Identifier :
              [t EXCEPT !.stage = "marking", !.group = g, !.left = left] \in Task
         /\ \A left \in SUBSET Identifier : [t EXCEPT !.left = left] \in Task
         /\ \A g \in Group :
              [NewTask(t.recs) EXCEPT !.sent = t.sent \cup {g}] \in Task
         /\ [t EXCEPT !.stage = "reading", !.group = NoGroup, !.left = {}] \in Task
BY DEF Task, NewTask

LEMMA ItemTypes ==
  ASSUME NEW g \in Group \cup {NoGroup}, NEW R \in SUBSET Record
  PROVE  /\ Item(g, R) \in [there : BOOLEAN, group : Group \cup {NoGroup}, recs : SUBSET Record]
         /\ NoItem \in [there : BOOLEAN, group : Group \cup {NoGroup}, recs : SUBSET Record]
BY DEF Item, NoItem

LEMMA InitType == Init => TypeOK
<1>. SUFFICES ASSUME Init PROVE TypeOK  OBVIOUS
<1>. USE DEF Init
<1>1. <<>> \in Seq(Record) /\ inq \in Seq(Record)  BY RecordAssumption, EmptySeq
<1>2. IsPrefix(mbatch, inq)  BY <1>1, EmptyPrefix
<1>3. \A g \in Group : IsPrefix(rbatch[g], procq[g])  BY <1>1, EmptyPrefix
<1>. QED  BY <1>1, <1>2, <1>3 DEF TypeOK, NoItem, Busy

LEMMA TakeBatchType ==
  ASSUME TypeOK, NEW n, TakeBatch(n)
  PROVE  TypeOK'
<1>. USE DEF TakeBatch, runnerVars, counters
<1>1. n \in 0..Len(inq) /\ inq \in Seq(Record)
  <2>1. inq \in Seq(Record) /\ Len(inq) \in Nat  BY LenProperties DEF TypeOK
  <2>. QED  BY <2>1
<1>2. mbatch' \in Seq(Record) /\ IsPrefix(mbatch', inq)  BY <1>1, FirstElements
<1>3. ToSet(mbatch') \subseteq Record  BY <1>2, LenProperties DEF ToSet
<1>4. tasks' \subseteq Task
  <2>1. \A r : Component(r, ToSet(mbatch')) \in SUBSET Record  BY <1>3 DEF Component
  <2>2. \A R \in SUBSET Record : NewTask(R) \in Task  BY DEF NewTask, Task
  <2>. HIDE DEF TakeBatch
  <2>3. tasks' = {NewTask(Component(r, ToSet(mbatch'))) : r \in ToSet(mbatch')}  BY DEF TakeBatch
  <2>. QED  BY <2>1, <2>2, <2>3
<1>. QED  BY <1>1, <1>2, <1>4 DEF TypeOK, Busy, Cur

LEMMA ReadType ==
  ASSUME TypeOK, NEW t \in tasks, Read(t) \/ ReadStale(t)
  PROVE  TypeOK'
<1>. USE DEF runnerVars, counters
<1>1. PICK missed : ReadDetails(t, missed)  BY DEF Read, ReadStale
<1>2. t \in Task  BY DEF TypeOK
<1>3. tasks' \subseteq Task
  <2>1. PICK g \in Group \cup {NoGroup} :
          Replace(t, [t EXCEPT !.stage = "marking", !.group = g, !.left = AllIds(t.recs)])
    BY <1>1 DEF ReadDetails, Choose
  <2>2. AllIds(t.recs) \in SUBSET Identifier  BY <1>2, TaskTypes, IdsOfRecords
  <2>3. [t EXCEPT !.stage = "marking", !.group = g, !.left = AllIds(t.recs)] \in Task
    BY <1>2, <2>2, TaskTypes
  <2>. QED  BY <2>1, <2>3 DEF Replace, TypeOK
<1>4. stales' \in Nat /\ misread' \subseteq Identifier /\ faults' = faults /\ deduped' = deduped
  <2>1. AllIds(t.recs) \in SUBSET Identifier  BY <1>2, TaskTypes, IdsOfRecords
  <2>2. CASE Read(t)  BY <2>2 DEF Read, TypeOK
  <2>3. CASE ReadStale(t)
    <3>1. stales' = stales + 1 /\ UNCHANGED <<faults, deduped>>  BY <2>3 DEF ReadStale
    <3>2. PICK i \in AllIds(t.recs) : misread' = misread \cup {i}  BY <2>3 DEF ReadStale
    <3>. QED  BY <2>1, <3>1, <3>2 DEF TypeOK
  <2>. QED  BY <2>2, <2>3
<1>5. UNCHANGED <<inq, mbatch, failed, items, procq, runnerVars>>
  BY <1>1 DEF ReadDetails
<1>. QED  BY <1>3, <1>4, <1>5 DEF TypeOK, Busy, Cur

LEMMA GiveUpType ==
  ASSUME TypeOK, NEW t \in tasks, GiveUp(t)
  PROVE  TypeOK'
<1>1. t.recs \in SUBSET Record  BY TaskTypes DEF TypeOK
<1>. QED  BY <1>1 DEF GiveUp, TypeOK, Busy, Cur, runnerVars, counters

LEMMA MarkType ==
  ASSUME TypeOK, NEW t \in tasks, NEW i \in t.left, Mark(t, i)
  PROVE  TypeOK'
<1>1. t \in Task  BY DEF TypeOK
<1>2. i \in Identifier  BY <1>1, TaskTypes
<1>. DEFINE marked == Item(t.group, items[i].recs \cup {r \in t.recs : i \in Ids[r]})
<1>3. marked \in [there : BOOLEAN, group : Group \cup {NoGroup}, recs : SUBSET Record]
  BY <1>1, <1>2, TaskTypes, ItemTypes DEF TypeOK
<1>4. items' = [items EXCEPT ![i] = marked]  BY DEF Mark
<1>5. [t EXCEPT !.left = t.left \ {i}] \in Task  BY <1>1, TaskTypes
<1>6. tasks' \subseteq Task  BY <1>5 DEF Mark, Replace, TypeOK
<1>. HIDE DEF marked
<1>7. items' \in [Identifier -> [there : BOOLEAN, group : Group \cup {NoGroup}, recs : SUBSET Record]]
  BY <1>2, <1>3, <1>4 DEF TypeOK
<1>8. UNCHANGED <<inq, mbatch, failed, procq, runnerVars, counters>>  BY DEF Mark
<1>. QED  BY <1>6, <1>7, <1>8 DEF TypeOK, Busy, Cur, runnerVars, counters

(* What a task sends are its records.                                      *)
LEMMA MessagesOfTask ==
  ASSUME TypeOK, NEW t \in tasks
  PROVE  /\ Messages(t) \in Seq(Record)
         /\ ToSet(Messages(t)) = ToSet(mbatch) \cap t.recs
BY KeepProperties DEF Messages, TypeOK

LEMMA AcceptType ==
  ASSUME TypeOK, NEW t \in tasks, t.group \in Group, Accept(t)
  PROVE  /\ procq' \in [Group -> Seq(Record)]
         /\ \A g \in Group : IsPrefix(rbatch[g], procq'[g])
         /\ deduped' \subseteq Record
<1>1. t.recs \in SUBSET Record  BY TaskTypes DEF TypeOK
<1>2. Messages(t) \in Seq(Record)  BY MessagesOfTask
<1>3. /\ procq[t.group] \in Seq(Record)
      /\ IsPrefix(rbatch[t.group], procq[t.group]) /\ rbatch[t.group] \in Seq(Record)
  BY DEF TypeOK
<1>. DEFINE longer == procq[t.group] \o Messages(t)
<1>4. longer \in Seq(Record)  BY <1>2, <1>3, ConcatProperties
<1>5. IsPrefix(rbatch[t.group], longer)  BY <1>2, <1>3, PrefixOfConcat
<1>6. CASE t.group \in t.sent  BY <1>1, <1>6 DEF Accept, TypeOK
<1>7. CASE t.group \notin t.sent
  <2>1. procq' = [procq EXCEPT ![t.group] = longer] /\ deduped' = deduped
    BY <1>7 DEF Accept
  <2>. HIDE DEF longer
  <2>. QED  BY <1>4, <1>5, <2>1 DEF TypeOK
<1>. QED  BY <1>6, <1>7

LEMMA SendType ==
  ASSUME TypeOK, NEW t \in tasks, t.group \in Group, Send(t) \/ SendUnanswered(t)
  PROVE  TypeOK'
<1>1. Accept(t)  BY DEF Send, SendUnanswered
<1>2. /\ procq' \in [Group -> Seq(Record)]
      /\ \A g \in Group : IsPrefix(rbatch[g], procq'[g])
      /\ deduped' \subseteq Record
  BY <1>1, AcceptType
<1>3. tasks' \subseteq Task
  <2>1. [NewTask(t.recs) EXCEPT !.sent = t.sent \cup {t.group}] \in Task
    BY TaskTypes DEF TypeOK
  <2>. QED  BY <2>1 DEF Send, SendUnanswered, Replace, TypeOK
<1>4. UNCHANGED <<inq, mbatch, failed, items, runnerVars, stales, misread>> /\ faults' \in Nat
  BY DEF Send, SendUnanswered, TypeOK
<1>. QED  BY <1>2, <1>3, <1>4 DEF TypeOK, Busy, Cur, runnerVars

LEMMA MuxErrorType ==
  ASSUME TypeOK, NEW t \in tasks, MuxError(t)
  PROVE  TypeOK'
<1>1. t.recs \in SUBSET Record  BY TaskTypes DEF TypeOK
<1>2. [t EXCEPT !.stage = "reading", !.group = NoGroup, !.left = {}] \in Task
  BY TaskTypes DEF TypeOK
<1>3. tasks' \subseteq Task /\ failed' \subseteq Record
  BY <1>1, <1>2 DEF MuxError, Retry, Replace, TypeOK
<1>. QED  BY <1>3 DEF MuxError, TypeOK, Busy, Cur, runnerVars

(* What stays in the queue: the failed records, and those not taken.       *)
LEMMA ReturnedBatch ==
  ASSUME TypeOK, MuxReturn
  PROVE  /\ inq' \in Seq(Record)
         /\ \A r \in ToSet(inq) : r \in failed \/ r \notin ToSet(mbatch)
              => r \in ToSet(inq')
<1>. DEFINE kept == Keep(mbatch, failed)
            rest == SubSeq(inq, Len(mbatch) + 1, Len(inq))
<1>1. kept \in Seq(Record) /\ ToSet(kept) = ToSet(mbatch) \cap failed
  BY KeepProperties DEF TypeOK
<1>2. rest \in Seq(Record) /\ ToSet(inq) = ToSet(mbatch) \cup ToSet(rest)
  BY PrefixAndRest DEF TypeOK
<1>3. inq' = kept \o rest  BY DEF MuxReturn
<1>. HIDE DEF kept, rest
<1>4. inq' \in Seq(Record) /\ ToSet(inq') = ToSet(kept) \cup ToSet(rest)
  BY <1>1, <1>2, <1>3, ToSetConcat
<1>. QED  BY <1>1, <1>2, <1>4

LEMMA MuxReturnType ==
  ASSUME TypeOK, MuxReturn \/ MuxCrash
  PROVE  TypeOK'
<1>1. inq' \in Seq(Record)  BY ReturnedBatch DEF MuxCrash, TypeOK
<1>2. mbatch' = <<>> /\ tasks' \subseteq Task /\ failed' = {}
  BY DEF MuxReturn, MuxCrash, TypeOK
<1>3. mbatch' \in Seq(Record) /\ IsPrefix(mbatch', inq')  BY <1>1, <1>2, EmptySeq, EmptyPrefix
<1>4. faults' \in Nat  BY DEF MuxReturn, MuxCrash, counters, TypeOK
<1>. QED  BY <1>1, <1>2, <1>3, <1>4
         DEF MuxReturn, MuxCrash, TypeOK, Busy, Cur, runnerVars, counters

LEMMA Stopped ==
  ASSUME TypeOK, NEW g \in Group, Stop(g)
  PROVE  /\ rbatch' \in [Group -> Seq(Record)]
         /\ rpc' \in [Group -> {"idle", "running", "clearing"}]
         /\ unmark' \in [Group -> SUBSET Identifier]
         /\ drop' \in [Group -> SUBSET Identifier]
         /\ rbatch'[g] = <<>> /\ ~Busy(g)'
         /\ \A h \in Group \ {g} : /\ rbatch'[h] = rbatch[h] /\ rpc'[h] = rpc[h]
                                   /\ unmark'[h] = unmark[h] /\ drop'[h] = drop[h]
BY EmptySeq DEF TypeOK, Stop, Busy

(* When a runner has stopped, the types are those of the others.           *)
LEMMA StopType ==
  ASSUME TypeOK, NEW g \in Group, Stop(g),
         UNCHANGED <<muxVars, items, rat, ran, stales, misread, deduped>>, faults' \in Nat,
         procq' \in [Group -> Seq(Record)],
         \A h \in Group \ {g} : procq'[h] = procq[h]
  PROVE  TypeOK'
<1>1. /\ rbatch' \in [Group -> Seq(Record)]
      /\ rpc' \in [Group -> {"idle", "running", "clearing"}]
      /\ unmark' \in [Group -> SUBSET Identifier]
      /\ drop' \in [Group -> SUBSET Identifier]
      /\ rbatch'[g] = <<>> /\ ~Busy(g)'
      /\ \A h \in Group \ {g} : rbatch'[h] = rbatch[h] /\ rpc'[h] = rpc[h]
  BY Stopped
<1>2. \A h \in Group : IsPrefix(rbatch'[h], procq'[h])
  <2>1. IsPrefix(rbatch'[g], procq'[g])  BY <1>1, EmptyPrefix
  <2>. QED  BY <1>1, <2>1 DEF TypeOK
<1>3. \A h \in Group : Busy(h)' => rat'[h] \in DOMAIN rbatch'[h]
  BY <1>1 DEF Busy, TypeOK
<1>. QED  BY <1>1, <1>2, <1>3 DEF TypeOK, muxVars

LEMMA DeliverType ==
  ASSUME TypeOK, NEW g \in Group, NEW n, Deliver(g, n)
  PROVE  TypeOK'
<1>. USE DEF Deliver
<1>1. procq[g] \in Seq(Record) /\ n \in 1..Len(procq[g])  BY DEF TypeOK
<1>2. n \in 0..Len(procq[g])  BY <1>1, LenProperties
<1>. DEFINE batch == SubSeq(procq[g], 1, n)
<1>3. batch \in Seq(Record) /\ Len(batch) = n /\ IsPrefix(batch, procq[g])
  BY <1>1, <1>2, FirstElements
<1>4. 1 \in DOMAIN batch
  <2>1. DOMAIN batch = 1..n  BY <1>3, LenProperties
  <2>. QED  BY <1>1, <2>1
<1>5. rbatch' = [rbatch EXCEPT ![g] = batch]  OBVIOUS
<1>. HIDE DEF batch
<1>6. \A h \in Group : /\ rbatch'[h] = IF h = g THEN batch ELSE rbatch[h]
                       /\ rat'[h] = IF h = g THEN 1 ELSE rat[h]
                       /\ rpc'[h] = IF h = g THEN "running" ELSE rpc[h]
  BY <1>5 DEF TypeOK
<1>7. /\ rbatch' \in [Group -> Seq(Record)] /\ rat' \in [Group -> Nat]
      /\ rpc' \in [Group -> {"idle", "running", "clearing"}]
  BY <1>3, <1>5 DEF TypeOK
<1>8. UNCHANGED <<muxVars, items, procq, unmark, drop, ran, counters>>  OBVIOUS
<1>. HIDE DEF Deliver
<1>9. \A h \in Group : Busy(h)' => rat'[h] \in DOMAIN rbatch'[h]
  BY <1>4, <1>6 DEF Busy, TypeOK
<1>. QED  BY <1>3, <1>6, <1>7, <1>8, <1>9 DEF TypeOK, muxVars, counters

(* The record a runner is at is one of its queue.                          *)
LEMMA CurQueued ==
  ASSUME TypeOK, NEW g \in Group, Busy(g)
  PROVE  /\ rat[g] \in DOMAIN procq[g] /\ procq[g][rat[g]] = Cur(g)
         /\ Cur(g) \in ToSet(procq[g]) /\ Cur(g) \in Record
<1>1. /\ rbatch[g] \in Seq(Record) /\ procq[g] \in Seq(Record)
      /\ IsPrefix(rbatch[g], procq[g]) /\ rat[g] \in DOMAIN rbatch[g]
  BY DEF TypeOK
<1>2. /\ Len(rbatch[g]) \in Nat /\ Len(procq[g]) \in Nat
      /\ DOMAIN rbatch[g] = 1..Len(rbatch[g]) /\ DOMAIN procq[g] = 1..Len(procq[g])
  BY <1>1, LenProperties
<1>3. Len(rbatch[g]) <= Len(procq[g]) /\ \A i \in 1..Len(rbatch[g]) : rbatch[g][i] = procq[g][i]
  BY <1>1, PrefixElements
<1>4. rat[g] \in 1..Len(procq[g]) /\ procq[g][rat[g]] = Cur(g)
  BY <1>1, <1>2, <1>3 DEF Cur
<1>5. Cur(g) \in Record  BY <1>1, <1>2, <1>4, ElementOfSeq
<1>. QED  BY <1>2, <1>4, <1>5 DEF ToSet

LEMMA FinishRulesType ==
  ASSUME TypeOK, NEW g \in Group, FinishRules(g)
  PROVE  TypeOK'
<1>. USE DEF FinishRules, muxVars, counters
<1>1. Cur(g) \in Record  BY CurQueued DEF Busy
<1>2. RunIds[Cur(g)] \in SUBSET Identifier  BY <1>1, RecordAssumption
<1>3. ran' \subseteq Record /\ unmark' \in [Group -> SUBSET Identifier]
  BY <1>1, <1>2 DEF TypeOK
<1>4. rpc' \in [Group -> {"idle", "running", "clearing"}]  BY DEF TypeOK
<1>5. \A h \in Group : Busy(h)' => Busy(h)  BY DEF TypeOK, Busy
<1>. QED  BY <1>3, <1>4, <1>5 DEF TypeOK

LEMMA UnmarkType ==
  ASSUME TypeOK, NEW g \in Group, NEW i \in unmark[g], Unmark(g, i)
  PROVE  TypeOK'
<1>. DEFINE less == Item(items[i].group, items[i].recs \ {Cur(g)})
<1>1. i \in Identifier  BY DEF TypeOK
<1>2. less \in [there : BOOLEAN, group : Group \cup {NoGroup}, recs : SUBSET Record]
  BY <1>1, ItemTypes DEF TypeOK
<1>3. items' = [items EXCEPT ![i] = less]  BY DEF Unmark
<1>. HIDE DEF less
<1>4. items' \in [Identifier -> [there : BOOLEAN, group : Group \cup {NoGroup}, recs : SUBSET Record]]
  BY <1>1, <1>2, <1>3 DEF TypeOK
<1>5. /\ unmark' \in [Group -> SUBSET Identifier]
      /\ drop' \in [Group -> SUBSET Identifier]
  BY <1>1 DEF Unmark, TypeOK
<1>6. UNCHANGED <<muxVars, procq, rbatch, rat, rpc, ran, counters>>  BY DEF Unmark
<1>. QED  BY <1>4, <1>5, <1>6 DEF TypeOK, Busy, muxVars, counters

LEMMA DropType ==
  ASSUME TypeOK, NEW g \in Group, NEW i \in drop[g], Drop(g, i)
  PROVE  TypeOK'
<1>1. i \in Identifier  BY DEF TypeOK
<1>2. items' = [items EXCEPT ![i] = NoItem]  BY DEF Drop
<1>3. items' \in [Identifier -> [there : BOOLEAN, group : Group \cup {NoGroup}, recs : SUBSET Record]]
  BY <1>1, <1>2, ItemTypes DEF TypeOK
<1>4. drop' \in [Group -> SUBSET Identifier]  BY DEF Drop, TypeOK
<1>5. UNCHANGED <<muxVars, procq, rbatch, rat, rpc, unmark, ran, counters>>  BY DEF Drop
<1>. QED  BY <1>3, <1>4, <1>5 DEF TypeOK, Busy, muxVars, counters

LEMMA DropRefusedType ==
  ASSUME TypeOK, NEW g \in Group, NEW i \in drop[g], DropRefused(g, i)
  PROVE  TypeOK'
<1>1. Stop(g) /\ UNCHANGED <<muxVars, items, procq, rat, ran, counters>>  BY DEF DropRefused
<1>. QED  BY <1>1, StopType DEF counters, TypeOK

LEMMA NextRecordType ==
  ASSUME TypeOK, NEW g \in Group, NextRecord(g)
  PROVE  TypeOK'
<1>. USE DEF NextRecord, Cleared, muxVars, counters
<1>1. /\ rat[g] \in Nat /\ Len(rbatch[g]) \in Nat /\ DOMAIN rbatch[g] = 1..Len(rbatch[g])
  BY LenProperties DEF TypeOK
<1>2. rat[g] + 1 \in DOMAIN rbatch[g]  BY <1>1
<1>3. /\ rat' \in [Group -> Nat]
      /\ rpc' \in [Group -> {"idle", "running", "clearing"}]
      /\ \A h \in Group : rat'[h] = IF h = g THEN rat[g] + 1 ELSE rat[h]
      /\ \A h \in Group \ {g} : rpc'[h] = rpc[h]
  BY <1>1 DEF TypeOK
<1>4. \A h \in Group : Busy(h)' => rat'[h] \in DOMAIN rbatch'[h]
  BY <1>2, <1>3 DEF TypeOK, Busy
<1>. QED  BY <1>3, <1>4 DEF TypeOK

LEMMA RunnerReturnType ==
  ASSUME TypeOK, NEW g \in Group, RunnerReturn(g)
  PROVE  TypeOK'
<1>. DEFINE rest == SubSeq(procq[g], Len(rbatch[g]) + 1, Len(procq[g]))
<1>1. rest \in Seq(Record)  BY PrefixAndRest DEF TypeOK
<1>2. /\ procq' = [procq EXCEPT ![g] = rest] /\ Stop(g)
      /\ UNCHANGED <<muxVars, items, rat, ran, counters>>
  BY DEF RunnerReturn
<1>. HIDE DEF rest
<1>3. procq' \in [Group -> Seq(Record)] /\ \A h \in Group \ {g} : procq'[h] = procq[h]
  BY <1>1, <1>2 DEF TypeOK
<1>. QED  BY <1>2, <1>3, StopType DEF counters, TypeOK

LEMMA RunnerCrashType ==
  ASSUME TypeOK, NEW g \in Group, RunnerCrash(g)
  PROVE  TypeOK'
<1>1. Stop(g) /\ UNCHANGED <<muxVars, items, procq, rat, ran, stales, misread, deduped>>
  BY DEF RunnerCrash
<1>2. faults' \in Nat  BY DEF RunnerCrash, TypeOK
<1>. QED  BY <1>1, <1>2, StopType DEF TypeOK

-----------------------------------------------------------------------------
(* Tasks, items and runners                                                *)

(* A component of a batch shares no identifier with the rest of the batch. *)
LEMMA ComponentIsSeparate ==
  ASSUME NEW R \in SUBSET Record, NEW r \in R
  PROVE  /\ Component(r, R) \subseteq R /\ r \in Component(r, R)
         /\ Separate(Component(r, R), R \ Component(r, R))
<1>1. Component(r, R) \subseteq R /\ r \in Component(r, R)  BY DEF Component
<1>2. SUFFICES ASSUME NEW s \in Component(r, R), NEW u \in R \ Component(r, R),
                      NEW i \in Ids[s] \cap Ids[u]
               PROVE  FALSE
  BY <1>1 DEF Separate, AllIds
<1>3. PICK C \in SUBSET R : r \in C /\ Separate(C, R \ C) /\ u \notin C
  BY DEF Component
<1>4. s \in C  BY <1>3 DEF Component
<1>. QED  BY <1>3, <1>4 DEF Separate, AllIds

(* Two components are one, or share no identifier.                         *)
LEMMA ComponentsAreSeparate ==
  ASSUME NEW R \in SUBSET Record, NEW r \in R, NEW s \in R
  PROVE  \/ Component(r, R) = Component(s, R)
         \/ Separate(Component(r, R), Component(s, R))
<1>. DEFINE C(x) == Component(x, R)
<1>1. \A x \in R : C(x) \subseteq R /\ x \in C(x) /\ Separate(C(x), R \ C(x))
  BY ComponentIsSeparate
<1>2. ASSUME NEW x \in R, NEW D \in SUBSET R, x \in D, Separate(D, R \ D)
      PROVE  C(x) \subseteq D
  BY <1>2 DEF Component
<1>3. ASSUME NEW x \in R, NEW y \in R, y \in C(x)  PROVE C(y) \subseteq C(x)
  <2>1. C(x) \in SUBSET R /\ Separate(C(x), R \ C(x))  BY <1>1
  <2>. HIDE DEF C
  <2>. QED  BY <1>2, <1>3, <2>1
<1>4. ASSUME NEW x \in R, NEW y \in R, y \notin C(x)  PROVE C(y) \subseteq R \ C(x)
  <2>1. R \ C(x) \in SUBSET R /\ R \ (R \ C(x)) = C(x) /\ y \in R \ C(x)  BY <1>1, <1>4
  <2>2. Separate(R \ C(x), C(x))  BY <1>1 DEF Separate
  <2>. HIDE DEF C
  <2>. QED  BY <1>2, <2>1, <2>2
<1>5. CASE s \notin C(r)
  <2>1. C(s) \subseteq R \ C(r)  BY <1>4, <1>5
  <2>. QED  BY <1>1, <2>1 DEF Separate, AllIds
<1>6. CASE r \notin C(s)
  <2>1. C(r) \subseteq R \ C(s)  BY <1>4, <1>6
  <2>. QED  BY <1>1, <2>1 DEF Separate, AllIds
<1>7. CASE s \in C(r) /\ r \in C(s)
  BY <1>3, <1>7
<1>. QED  BY <1>5, <1>6, <1>7

(* A task is replaced by another with its records, or removed.             *)
LEMMA ReplacedTask ==
  ASSUME TasksInv, NEW t \in tasks, NEW new, new.recs = t.recs,
         new.stage = "marking" => new.group \in Group /\ new.left \subseteq AllIds(t.recs),
         tasks' \subseteq (tasks \ {t}) \cup {new}, mbatch' = mbatch
  PROVE  TasksInv'
<1>1. \A u \in tasks' : u \in tasks \ {t} \/ u = new  OBVIOUS
<1>2. ASSUME NEW u \in tasks'
      PROVE  /\ u.recs \subseteq ToSet(mbatch')
             /\ u.stage = "marking" => u.group \in Group /\ u.left \subseteq AllIds(u.recs)
  <2>1. CASE u \in tasks \ {t}  BY <2>1 DEF TasksInv
  <2>2. CASE u = new
    <3>1. t.recs \subseteq ToSet(mbatch)  BY DEF TasksInv
    <3>2. AllIds(u.recs) = AllIds(t.recs)  BY <2>2
    <3>. QED  BY <2>2, <3>1, <3>2
  <2>. QED  BY <1>1, <2>1, <2>2
<1>3. ASSUME NEW R, NEW Q, Separate(R, Q)  PROVE Separate(Q, R)
  BY <1>3 DEF Separate
<1>4. ASSUME NEW u \in tasks', NEW v \in tasks', u # v  PROVE Separate(u.recs, v.recs)
  <2>1. CASE u \in tasks \ {t} /\ v \in tasks \ {t}  BY <1>4, <2>1 DEF TasksInv
  <2>2. CASE u = new /\ v \in tasks \ {t}
    <3>1. Separate(t.recs, v.recs)  BY <2>2 DEF TasksInv
    <3>. QED  BY <2>2, <3>1
  <2>3. CASE u \in tasks \ {t} /\ v = new
    <3>1. Separate(u.recs, t.recs)  BY <2>3 DEF TasksInv
    <3>. QED  BY <2>3, <3>1
  <2>. QED  BY <1>1, <1>4, <2>1, <2>2, <2>3
<1>. QED  BY <1>2, <1>4 DEF TasksInv, Separate, AllIds

(* What the steps of a task make of it.                                    *)
LEMMA NewTasks ==
  ASSUME NEW t \in Task
  PROVE  /\ \A g, left :
              LET u == [t EXCEPT !.stage = "marking", !.group = g, !.left = left]
              IN  u.recs = t.recs /\ u.stage = "marking" /\ u.group = g /\ u.left = left
         /\ \A left :
              LET u == [t EXCEPT !.left = left]
              IN  u.recs = t.recs /\ u.stage = t.stage /\ u.group = t.group /\ u.left = left
         /\ \A sent : LET u == [NewTask(t.recs) EXCEPT !.sent = sent]
                      IN  u.recs = t.recs /\ u.stage = "reading"
         /\ LET u == [t EXCEPT !.stage = "reading", !.group = NoGroup, !.left = {}]
            IN  u.recs = t.recs /\ u.stage = "reading"
BY DEF Task, NewTask

LEMMA TakeBatchTasks ==
  ASSUME TypeOK, TypeOK', NEW n, TakeBatch(n)
  PROVE  /\ TasksInv' /\ \A t \in tasks' : t.stage = "reading"
         /\ \A r \in ToSet(mbatch') : \E t \in tasks' : r \in t.recs
<1>. DEFINE R == ToSet(mbatch')
<1>1. R \in SUBSET Record  BY LenProperties DEF TypeOK, ToSet
<1>2. tasks' = {NewTask(Component(r, R)) : r \in R}  BY DEF TakeBatch
<1>3. \A Q : NewTask(Q).recs = Q /\ NewTask(Q).stage = "reading"  BY DEF NewTask
<1>. HIDE DEF R
<1>4. ASSUME NEW t \in tasks'
      PROVE  \E r \in R : t.recs = Component(r, R) /\ t = NewTask(Component(r, R)) /\ t.stage = "reading"
  BY <1>2, <1>3
<1>5. ASSUME NEW t \in tasks'  PROVE t.recs \subseteq R
  <2>1. PICK r \in R : t.recs = Component(r, R)  BY <1>4
  <2>. QED  BY <1>1, <2>1, ComponentIsSeparate
<1>6. ASSUME NEW t \in tasks', NEW u \in tasks', t # u  PROVE Separate(t.recs, u.recs)
  <2>1. PICK r \in R, s \in R : /\ t.recs = Component(r, R) /\ t = NewTask(Component(r, R))
                                /\ u.recs = Component(s, R) /\ u = NewTask(Component(s, R))
    BY <1>4
  <2>2. Component(r, R) # Component(s, R)  BY <1>6, <2>1
  <2>. QED  BY <1>1, <2>1, <2>2, ComponentsAreSeparate
<1>7. ASSUME NEW r \in R  PROVE \E t \in tasks' : r \in t.recs
  <2>1. r \in Component(r, R)  BY <1>1, ComponentIsSeparate
  <2>. QED  BY <1>2, <1>3, <2>1
<1>8. \A t \in tasks' : t.stage = "reading"  BY <1>4
<1>9. TasksInv'
  <2>1. \A t \in tasks' : t.recs \subseteq ToSet(mbatch')  BY <1>5 DEF R
  <2>. QED  BY <2>1, <1>6, <1>8 DEF TasksInv, Separate, AllIds
<1>. QED  BY <1>7, <1>8, <1>9 DEF R

LEMMA TasksStep ==
  ASSUME BaseInv, TypeOK', [Next]_vars
  PROVE  TasksInv'
<1>. USE DEF BaseInv
<1>0. ASSUME UNCHANGED <<tasks, mbatch>>  PROVE TasksInv'
  BY <1>0 DEF TasksInv, Separate, AllIds
<1>1. ASSUME NEW n, TakeBatch(n)  PROVE TasksInv'
  BY <1>1, TakeBatchTasks
<1>2. ASSUME NEW t \in tasks, NEW missed, ReadDetails(t, missed)  PROVE TasksInv'
  <2>1. PICK g \in Group :
          Replace(t, [t EXCEPT !.stage = "marking", !.group = g, !.left = AllIds(t.recs)])
    BY <1>2 DEF ReadDetails, Choose
  <2>. DEFINE new == [t EXCEPT !.stage = "marking", !.group = g, !.left = AllIds(t.recs)]
  <2>2. new.recs = t.recs /\ new.group = g /\ new.left = AllIds(t.recs)  BY NewTasks DEF TypeOK
  <2>3. tasks' = (tasks \ {t}) \cup {new}  BY <2>1 DEF Replace
  <2>4. mbatch' = mbatch  BY <1>2 DEF ReadDetails
  <2>. HIDE DEF new
  <2>. QED  BY <2>2, <2>3, <2>4, ReplacedTask
<1>3. ASSUME NEW t \in tasks, NEW i \in t.left, Mark(t, i)  PROVE TasksInv'
  <2>. DEFINE new == [t EXCEPT !.left = t.left \ {i}]
  <2>1. new.recs = t.recs /\ new.group = t.group /\ new.left = t.left \ {i}  BY NewTasks DEF TypeOK
  <2>2. tasks' = (tasks \ {t}) \cup {new}  BY <1>3 DEF Mark, Replace
  <2>3. mbatch' = mbatch  BY <1>3 DEF Mark
  <2>4. t.group \in Group /\ t.left \subseteq AllIds(t.recs)  BY <1>3 DEF Mark, TasksInv
  <2>. HIDE DEF new
  <2>. QED  BY <2>1, <2>2, <2>3, <2>4, ReplacedTask
<1>4. ASSUME NEW t \in tasks, tasks' = tasks \ {t}, mbatch' = mbatch  PROVE TasksInv'
  BY <1>4 DEF TasksInv, Separate, AllIds
<1>5. ASSUME NEW t \in tasks, SendUnanswered(t)  PROVE TasksInv'
  <2>. DEFINE new == [NewTask(t.recs) EXCEPT !.sent = t.sent \cup {t.group}]
  <2>1. new.recs = t.recs /\ new.stage = "reading"  BY NewTasks DEF TypeOK
  <2>2. tasks' = (tasks \ {t}) \cup {new}  BY <1>5 DEF SendUnanswered, Replace
  <2>3. mbatch' = mbatch  BY <1>5 DEF SendUnanswered
  <2>. HIDE DEF new
  <2>. QED  BY <2>1, <2>2, <2>3, ReplacedTask
<1>6. ASSUME NEW t \in tasks, MuxError(t)  PROVE TasksInv'
  <2>. DEFINE new == [t EXCEPT !.stage = "reading", !.group = NoGroup, !.left = {}]
  <2>1. new.recs = t.recs /\ new.stage = "reading"  BY NewTasks DEF TypeOK
  <2>2. tasks' \subseteq (tasks \ {t}) \cup {new}  BY <1>6 DEF MuxError, Retry, Replace
  <2>3. mbatch' = mbatch  BY <1>6 DEF MuxError
  <2>. HIDE DEF new
  <2>. QED  BY <2>1, <2>2, <2>3, ReplacedTask
<1>7. ASSUME tasks' = {}  PROVE TasksInv'
  BY <1>7 DEF TasksInv
<1>8. ASSUME NEW t \in tasks, Finish(t)  PROVE TasksInv'
  <2>1. CASE Read(t)  BY <1>2, <2>1 DEF Read
  <2>2. CASE GiveUp(t)  BY <1>4, <2>2 DEF GiveUp
  <2>3. CASE \E i \in t.left : Mark(t, i)  BY <1>3, <2>3
  <2>4. CASE Send(t)  BY <1>4, <2>4 DEF Send
  <2>. QED  BY <1>8, <2>1, <2>2, <2>3, <2>4 DEF Finish
<1>9. CASE Multiplex
  <2>1. CASE MuxReturn  BY <1>7, <2>1 DEF MuxReturn
  <2>. QED  BY <1>1, <1>8, <1>9, <2>1 DEF Multiplex
<1>10. ASSUME NEW g \in Group, Run(g)  PROVE TasksInv'
  <2>1. UNCHANGED muxVars
    BY <1>10 DEF Run, Deliver, FinishRules, Unmark, Drop, DropRefused, NextRecord, RunnerReturn
  <2>. QED  BY <1>0, <2>1 DEF muxVars
<1>11. CASE Fault
  <2>1. ASSUME NEW t \in tasks, ReadStale(t)  PROVE TasksInv'
    BY <1>2, <2>1 DEF ReadStale
  <2>2. CASE MuxCrash  BY <1>7, <2>2 DEF MuxCrash
  <2>3. ASSUME NEW g \in Group, RunnerCrash(g)  PROVE TasksInv'
    BY <1>0, <2>3 DEF RunnerCrash, muxVars
  <2>. QED  BY <1>5, <1>6, <1>11, <2>1, <2>2, <2>3 DEF Fault
<1>12. CASE UNCHANGED vars  BY <1>0, <1>12 DEF vars, muxVars
<1>. QED  BY <1>9, <1>10, <1>11, <1>12 DEF Next

LEMMA TypeStep ==
  ASSUME TypeOK, TasksInv, [Next]_vars
  PROVE  TypeOK'
<1>1. ASSUME NEW t \in tasks, t.stage = "marking"  PROVE t.group \in Group
  BY <1>1 DEF TasksInv
<1>2. ASSUME NEW t \in tasks, Finish(t)  PROVE TypeOK'
  <2>1. CASE \E i \in t.left : Mark(t, i)  BY <2>1, MarkType
  <2>2. CASE Send(t)  BY <1>1, <2>2, SendType DEF Send
  <2>. QED  BY <1>2, <2>1, <2>2, ReadType, GiveUpType DEF Finish
<1>3. CASE Multiplex
  BY <1>2, <1>3, TakeBatchType, MuxReturnType DEF Multiplex
<1>4. ASSUME NEW g \in Group, Run(g)  PROVE TypeOK'
  <2>1. CASE \E n \in 1..BatchSize : Deliver(g, n)  BY <2>1, DeliverType
  <2>2. CASE FinishRules(g)  BY <2>2, FinishRulesType
  <2>3. CASE \E i \in unmark[g] : Unmark(g, i)  BY <2>3, UnmarkType
  <2>4. CASE \E i \in drop[g] : Drop(g, i) \/ DropRefused(g, i)  BY <2>4, DropType, DropRefusedType
  <2>5. CASE NextRecord(g) \/ RunnerReturn(g)  BY <2>5, NextRecordType, RunnerReturnType
  <2>. QED  BY <1>4, <2>1, <2>2, <2>3, <2>4, <2>5 DEF Run
<1>5. CASE Fault
  <2>1. ASSUME NEW t \in tasks, SendUnanswered(t)  PROVE TypeOK'
    BY <1>1, <2>1, SendType DEF SendUnanswered
  <2>2. ASSUME NEW t \in tasks, ReadStale(t) \/ MuxError(t)  PROVE TypeOK'
    BY <2>2, ReadType, MuxErrorType
  <2>. QED  BY <1>5, <2>1, <2>2, MuxReturnType, RunnerCrashType DEF Fault
<1>6. CASE UNCHANGED vars
  BY <1>6 DEF TypeOK, vars, muxVars, runnerVars, counters, Busy
<1>. QED  BY <1>3, <1>4, <1>5, <1>6 DEF Next

LEMMA ItemsStep ==
  ASSUME BaseInv, [Next]_vars
  PROVE  ItemsInv'
<1>. USE DEF BaseInv
<1>0. ASSUME items' = items  PROVE ItemsInv'
  BY <1>0 DEF ItemsInv
<1>1. ASSUME NEW t \in tasks, NEW i \in t.left, Mark(t, i)  PROVE ItemsInv'
  <2>1. items' = [items EXCEPT ![i] = Item(t.group, @.recs \cup {r \in t.recs : i \in Ids[r]})]
    BY <1>1 DEF Mark
  <2>. QED  BY <2>1 DEF ItemsInv, Item, TypeOK
<1>2. ASSUME NEW g \in Group, NEW i \in unmark[g], Unmark(g, i)  PROVE ItemsInv'
  <2>1. items' = [items EXCEPT ![i] = Item(@.group, @.recs \ {Cur(g)})]
    BY <1>2 DEF Unmark
  <2>. QED  BY <2>1 DEF ItemsInv, Item, TypeOK
<1>3. ASSUME NEW g \in Group, NEW i \in drop[g], Drop(g, i)  PROVE ItemsInv'
  <2>1. items' = [items EXCEPT ![i] = NoItem]
    BY <1>3 DEF Drop
  <2>. QED  BY <2>1 DEF ItemsInv, NoItem, TypeOK
<1>4. ASSUME NEW t \in tasks, Finish(t)  PROVE ItemsInv'
  <2>1. CASE \E i \in t.left : Mark(t, i)  BY <1>1, <2>1
  <2>2. CASE Read(t) \/ GiveUp(t) \/ Send(t)
    BY <1>0, <2>2 DEF Read, ReadDetails, GiveUp, Send
  <2>. QED  BY <1>4, <2>1, <2>2 DEF Finish
<1>5. CASE Multiplex
  <2>1. ASSUME NEW n, TakeBatch(n)  PROVE ItemsInv'  BY <1>0, <2>1 DEF TakeBatch
  <2>2. CASE MuxReturn  BY <1>0, <2>2 DEF MuxReturn
  <2>. QED  BY <1>4, <1>5, <2>1, <2>2 DEF Multiplex
<1>6. ASSUME NEW g \in Group, Run(g)  PROVE ItemsInv'
  <2>1. CASE \E i \in unmark[g] : Unmark(g, i)  BY <1>2, <2>1
  <2>2. ASSUME NEW i \in drop[g], Drop(g, i)  PROVE ItemsInv'  BY <1>3, <2>2
  <2>3. ASSUME NEW i \in drop[g], DropRefused(g, i)  PROVE ItemsInv'
    BY <1>0, <2>3 DEF DropRefused
  <2>4. ASSUME NEW n, Deliver(g, n)  PROVE ItemsInv'  BY <1>0, <2>4 DEF Deliver
  <2>5. CASE FinishRules(g) \/ NextRecord(g) \/ RunnerReturn(g)
    BY <1>0, <2>5 DEF FinishRules, NextRecord, RunnerReturn
  <2>. QED  BY <1>6, <2>1, <2>2, <2>3, <2>4, <2>5 DEF Run
<1>7. CASE Fault
  BY <1>0, <1>7, Zenon DEF Fault, ReadStale, ReadDetails, SendUnanswered, MuxError, MuxCrash, RunnerCrash
<1>8. CASE UNCHANGED vars  BY <1>0, <1>8 DEF vars
<1>. QED  BY <1>5, <1>6, <1>7, <1>8 DEF Next

LEMMA ClearingStep ==
  ASSUME BaseInv, [Next]_vars
  PROVE  ClearingInv'
<1>. USE DEF BaseInv
<1>0. ASSUME UNCHANGED <<rbatch, rat, rpc, ran>>  PROVE ClearingInv'
  BY <1>0 DEF ClearingInv, Cur
<1>1. ASSUME NEW g \in Group, Stop(g), UNCHANGED <<rat, ran>>  PROVE ClearingInv'
  <2>1. \A h \in Group \ {g} : rbatch'[h] = rbatch[h] /\ rpc'[h] = rpc[h]
    BY <1>1, Stopped
  <2>2. rpc'[g] = "idle"  BY <1>1 DEF Stop, TypeOK
  <2>. QED  BY <1>1, <2>1, <2>2 DEF ClearingInv, Cur
<1>2. ASSUME NEW g \in Group, Run(g)  PROVE ClearingInv'
  <2>1. ASSUME NEW n, Deliver(g, n)  PROVE ClearingInv'
    BY <2>1 DEF Deliver, ClearingInv, Cur, TypeOK
  <2>2. CASE FinishRules(g)
    BY <2>2 DEF FinishRules, ClearingInv, Cur, TypeOK
  <2>3. ASSUME NEW i \in unmark[g], Unmark(g, i)  PROVE ClearingInv'
    BY <1>0, <2>3 DEF Unmark
  <2>4. ASSUME NEW i \in drop[g], Drop(g, i)  PROVE ClearingInv'
    BY <1>0, <2>4 DEF Drop
  <2>5. ASSUME NEW i \in drop[g], DropRefused(g, i)  PROVE ClearingInv'
    BY <1>1, <2>5 DEF DropRefused
  <2>6. CASE NextRecord(g)
    BY <2>6 DEF NextRecord, ClearingInv, Cur, TypeOK
  <2>7. CASE RunnerReturn(g)  BY <1>1, <2>7 DEF RunnerReturn
  <2>. QED  BY <1>2, <2>1, <2>2, <2>3, <2>4, <2>5, <2>6, <2>7 DEF Run
<1>3. ASSUME NEW t \in tasks, Finish(t)  PROVE ClearingInv'
  BY <1>0, <1>3, Zenon DEF Finish, Read, ReadDetails, GiveUp, Mark, Send, runnerVars
<1>4. CASE Multiplex
  <2>1. ASSUME NEW n, TakeBatch(n)  PROVE ClearingInv'  BY <1>0, <2>1 DEF TakeBatch, runnerVars
  <2>2. CASE MuxReturn  BY <1>0, <2>2 DEF MuxReturn, runnerVars
  <2>. QED  BY <1>3, <1>4, <2>1, <2>2 DEF Multiplex
<1>5. CASE Fault
  <2>1. ASSUME NEW g \in Group, RunnerCrash(g)  PROVE ClearingInv'
    BY <1>1, <2>1 DEF RunnerCrash
  <2>2. ASSUME NEW t \in tasks, ReadStale(t) \/ SendUnanswered(t) \/ MuxError(t)
        PROVE  ClearingInv'
    BY <1>0, <2>2, Zenon DEF ReadStale, ReadDetails, SendUnanswered, MuxError, runnerVars
  <2>3. CASE MuxCrash  BY <1>0, <2>3 DEF MuxCrash, runnerVars
  <2>. QED  BY <1>5, <2>1, <2>2, <2>3 DEF Fault
<1>6. CASE UNCHANGED vars  BY <1>0, <1>6 DEF vars, runnerVars
<1>. QED  BY <1>2, <1>4, <1>5, <1>6 DEF Next

LEMMA InitBase == Init => BaseInv
<1>1. Init => TypeOK  BY InitType
<1>2. Init => TasksInv /\ ItemsInv /\ ClearingInv
  BY DEF Init, TasksInv, ItemsInv, ClearingInv, NoItem
<1>. QED  BY <1>1, <1>2 DEF BaseInv

LEMMA BaseStep == BaseInv /\ [Next]_vars => BaseInv'
BY TypeStep, TasksStep, ItemsStep, ClearingStep DEF BaseInv

(* The variables keep their types: batches are prefixes of their queues,   *)
(* and a runner is at a record of its batch.                               *)
THEOREM TypeCorrect == Spec => []TypeOK
<1>1. BaseInv => TypeOK  BY DEF BaseInv
<1>. QED  BY <1>1, InitBase, BaseStep, PTL DEF Spec

-----------------------------------------------------------------------------
(* What is queued is marked                                                *)

(* Nothing is lost while items, messages and marking tasks are those that  *)
(* were there, or fewer.                                                   *)
LEMMA MarksKept ==
  ASSUME MarkInv, items' = items,
         \A g \in Group : ToSet(procq'[g]) \subseteq ToSet(procq[g]),
         \A t \in tasks' : t.stage = "marking" => t \in tasks,
         ran \subseteq ran', misread \subseteq misread'
  PROVE  MarkInv'
<1>1. QueuedIsMarked'
  BY DEF MarkInv, QueuedIsMarked
<1>2. ASSUME NEW t \in tasks', t.stage = "marking"  PROVE Marked(t)' /\ Owns(t)'
  <2>1. t \in tasks /\ Marked(t) /\ Owns(t)  BY <1>2 DEF MarkInv
  <2>2. Marked(t)'  BY <2>1 DEF Marked
  <2>3. Owns(t)'  BY <2>1 DEF Owns
  <2>. QED  BY <2>2, <2>3
<1>. QED  BY <1>1, <1>2 DEF MarkInv

(* The chosen group is the one of every item found: what was queued for an *)
(* identifier of the task is in that group, unless the read missed it.     *)
LEMMA ReadMarks ==
  ASSUME BaseInv, MarkInv, NEW t \in tasks, NEW missed, ReadDetails(t, missed),
         misread' = misread \cup missed
  PROVE  MarkInv'
<1>. DEFINE found == {i \in AllIds(t.recs) : items[i].there} \ missed
<1>1. PICK g \in Choose(t, found) :
        Replace(t, [t EXCEPT !.stage = "marking", !.group = g, !.left = AllIds(t.recs)])
  BY DEF ReadDetails
<1>. DEFINE new == [t EXCEPT !.stage = "marking", !.group = g, !.left = AllIds(t.recs)]
<1>2. UNCHANGED <<items, procq, ran>>  BY DEF ReadDetails, runnerVars
<1>3. new.recs = t.recs /\ new.group = g /\ new.left = AllIds(t.recs)
  BY NewTasks DEF BaseInv, TypeOK
<1>4. tasks' = (tasks \ {t}) \cup {new}  BY <1>1 DEF Replace
<1>. HIDE DEF new
<1>5. QueuedIsMarked'  BY <1>2 DEF MarkInv, QueuedIsMarked
<1>6. Marked(new)'  BY <1>3 DEF Marked, AllIds
<1>7. Owns(new)'
  <2>. SUFFICES ASSUME NEW h \in Group, NEW r \in ToSet(procq[h]) \ ran,
                       NEW i \in (Ids[r] \cap AllIds(t.recs)) \ (misread \cup missed)
                PROVE  h = g
    BY <1>2, <1>3 DEF Owns
  <2>1. items[i].group = h /\ r \in items[i].recs  BY DEF MarkInv, QueuedIsMarked
  <2>2. i \in Identifier  BY TaskTypes, IdsOfRecords DEF BaseInv, TypeOK
  <2>3. items[i].there  BY <2>1, <2>2 DEF BaseInv, ItemsInv
  <2>4. i \in found  BY <2>3
  <2>5. h \in {items[j].group : j \in found}  BY <2>1, <2>4
  <2>. HIDE DEF found
  <2>6. {items[j].group : j \in found} = {g}  BY <1>1, <2>5 DEF Choose
  <2>. QED  BY <2>5, <2>6
<1>8. ASSUME NEW u \in tasks', u.stage = "marking"  PROVE Marked(u)' /\ Owns(u)'
  <2>1. CASE u = new  BY <1>6, <1>7, <2>1
  <2>2. CASE u \in tasks
    <3>1. Marked(u) /\ Owns(u)  BY <1>8, <2>2 DEF MarkInv
    <3>2. Marked(u)'  BY <1>2, <3>1 DEF Marked
    <3>3. Owns(u)'  BY <1>2, <3>1 DEF Owns
    <3>. QED  BY <3>2, <3>3
  <2>. QED  BY <1>4, <2>1, <2>2
<1>. QED  BY <1>5, <1>8 DEF MarkInv

(* An identifier is given the group that its queued records are in.        *)
LEMMA MarkMarks ==
  ASSUME BaseInv, MarkInv, NEW t \in tasks, NEW i \in t.left, Mark(t, i)
  PROVE  MarkInv'
<1>. DEFINE new == [t EXCEPT !.left = t.left \ {i}]
            hit == {r \in t.recs : i \in Ids[r]}
<1>1. /\ items' = [items EXCEPT ![i] = Item(t.group, items[i].recs \cup hit)]
      /\ tasks' = (tasks \ {t}) \cup {new}
      /\ UNCHANGED <<procq, ran, misread>> /\ t.stage = "marking"
  BY DEF Mark, Replace, runnerVars, counters
<1>2. new.recs = t.recs /\ new.group = t.group /\ new.left = t.left \ {i}
  BY NewTasks DEF BaseInv, TypeOK
<1>. HIDE DEF new
<1>3. i \in Identifier  BY TaskTypes DEF BaseInv, TypeOK
<1>4. /\ items'[i].group = t.group /\ items'[i].recs = items[i].recs \cup hit
      /\ \A j \in Identifier \ {i} : items'[j] = items[j]
  BY <1>1, <1>3 DEF Item, BaseInv, TypeOK
<1>. HIDE DEF hit
<1>5. Marked(t) /\ Owns(t)  BY <1>1 DEF MarkInv
<1>6. \A r \in t.recs : Ids[r] \subseteq AllIds(t.recs)  BY DEF AllIds
<1>7. \A r \in Record : Ids[r] \subseteq Identifier  BY RecordAssumption
<1>8. i \in AllIds(t.recs)  BY <1>1 DEF BaseInv, TasksInv
<1>9. t.recs \in SUBSET Record  BY TaskTypes DEF BaseInv, TypeOK
<1>10. Marked(new)'
  <2>. SUFFICES ASSUME NEW r \in t.recs \ ran, NEW j \in Ids[r] \ ((t.left \ {i}) \cup misread)
                PROVE  items'[j].group = t.group /\ r \in items'[j].recs
    BY <1>1, <1>2 DEF Marked
  <2>1. CASE j = i  BY <1>4, <2>1 DEF hit
  <2>2. CASE j # i
    <3>1. items[j].group = t.group /\ r \in items[j].recs  BY <1>5, <2>2 DEF Marked
    <3>. QED  BY <1>4, <1>7, <1>9, <2>2, <3>1
  <2>. QED  BY <2>1, <2>2
<1>11. Owns(new)'  BY <1>1, <1>2, <1>5 DEF Owns
<1>12. ASSUME NEW u \in tasks \ {t}, u.stage = "marking"  PROVE Marked(u)' /\ Owns(u)'
  <2>1. Marked(u) /\ Owns(u)  BY <1>12 DEF MarkInv
  <2>2. Owns(u)'  BY <1>1, <2>1 DEF Owns
  <2>3. Marked(u)'
    <3>. SUFFICES ASSUME NEW r \in u.recs \ ran, NEW j \in Ids[r] \ (u.left \cup misread)
                  PROVE  items'[j].group = u.group /\ r \in items'[j].recs
      BY <1>1 DEF Marked
    <3>1. items[j].group = u.group /\ r \in items[j].recs  BY <2>1 DEF Marked
    <3>2. r \in Record  BY TaskTypes DEF BaseInv, TypeOK
    <3>3. CASE j # i  BY <1>4, <1>7, <3>1, <3>2, <3>3
    <3>4. CASE j = i
      <4>1. Separate(t.recs, u.recs)  BY DEF BaseInv, TasksInv
      <4>2. i \in AllIds(u.recs)  BY <3>4 DEF AllIds
      <4>3. i \notin AllIds(t.recs)  BY <4>1, <4>2 DEF Separate
      <4>. QED  BY <1>8, <4>3
    <3>. QED  BY <3>3, <3>4
  <2>. QED  BY <2>2, <2>3
<1>13. QueuedIsMarked'
  <2>. SUFFICES ASSUME NEW g \in Group, NEW r \in ToSet(procq[g]) \ ran, NEW j \in Ids[r] \ misread
                PROVE  items'[j].group = g /\ r \in items'[j].recs
    BY <1>1 DEF QueuedIsMarked
  <2>1. items[j].group = g /\ r \in items[j].recs  BY DEF MarkInv, QueuedIsMarked
  <2>2. r \in Record
    <3>1. procq[g] \in Seq(Record)  BY DEF BaseInv, TypeOK
    <3>. QED  BY <3>1, LenProperties DEF ToSet
  <2>3. CASE j # i  BY <1>4, <1>7, <2>1, <2>2, <2>3
  <2>4. CASE j = i
    <3>1. g = t.group  BY <1>5, <1>8, <2>4 DEF Owns
    <3>. QED  BY <1>4, <2>1, <2>4, <3>1
  <2>. QED  BY <2>3, <2>4
<1>. QED  BY <1>1, <1>10, <1>11, <1>12, <1>13 DEF MarkInv

(* What a task sends is marked, in its group, and nobody else's.           *)
LEMMA SendMarks ==
  ASSUME BaseInv, MarkInv, NEW t \in tasks, Send(t) \/ SendUnanswered(t)
  PROVE  MarkInv'
<1>1. /\ Accept(t) /\ t.stage = "marking" /\ t.left = {} /\ t.group \in Group
      /\ UNCHANGED <<items, ran, misread>>
  BY DEF Send, SendUnanswered, runnerVars, BaseInv, TasksInv
<1>2. Marked(t) /\ Owns(t)  BY <1>1 DEF MarkInv
<1>3. \A u \in tasks' : u.stage = "marking" => u \in tasks \ {t}
  <2>1. [NewTask(t.recs) EXCEPT !.sent = t.sent \cup {t.group}].stage = "reading"
    BY NewTasks DEF BaseInv, TypeOK
  <2>. QED  BY <2>1 DEF Send, SendUnanswered, Replace
<1>4. ASSUME NEW g \in Group, NEW r \in ToSet(procq'[g])
      PROVE  r \in ToSet(procq[g]) \/ (r \in t.recs /\ g = t.group)
  <2>1. CASE procq' = procq  BY <2>1
  <2>2. CASE procq' = [procq EXCEPT ![t.group] = procq[t.group] \o Messages(t)]
    <3>1. procq[t.group] \in Seq(Record)  BY <1>1 DEF BaseInv, TypeOK
    <3>2. /\ Messages(t) \in Seq(Record)
          /\ ToSet(Messages(t)) = ToSet(mbatch) \cap t.recs
      BY MessagesOfTask DEF BaseInv
    <3>3. ToSet(procq[t.group] \o Messages(t)) = ToSet(procq[t.group]) \cup ToSet(Messages(t))
      BY <3>1, <3>2, ToSetConcat
    <3>4. procq'[g] = IF g = t.group THEN procq[t.group] \o Messages(t) ELSE procq[g]
      BY <2>2 DEF BaseInv, TypeOK
    <3>. QED  BY <3>2, <3>3, <3>4
  <2>. QED  BY <1>1, <2>1, <2>2 DEF Accept
<1>5. QueuedIsMarked'
  <2>. SUFFICES ASSUME NEW g \in Group, NEW r \in ToSet(procq'[g]) \ ran, NEW i \in Ids[r] \ misread
                PROVE  items[i].group = g /\ r \in items[i].recs
    BY <1>1 DEF QueuedIsMarked
  <2>1. CASE r \in ToSet(procq[g])  BY <2>1 DEF MarkInv, QueuedIsMarked
  <2>2. CASE r \in t.recs /\ g = t.group  BY <1>1, <1>2, <2>2 DEF Marked
  <2>. QED  BY <1>4, <2>1, <2>2
<1>6. ASSUME NEW u \in tasks', u.stage = "marking"  PROVE Marked(u)' /\ Owns(u)'
  <2>1. u \in tasks \ {t} /\ Marked(u) /\ Owns(u)  BY <1>3, <1>6 DEF MarkInv
  <2>2. Marked(u)'  BY <1>1, <2>1 DEF Marked
  <2>3. Owns(u)'
    <3>. SUFFICES ASSUME NEW g \in Group, NEW r \in ToSet(procq'[g]) \ ran,
                         NEW i \in (Ids[r] \cap AllIds(u.recs)) \ misread
                  PROVE  g = u.group
      BY <1>1 DEF Owns
    <3>1. CASE r \in ToSet(procq[g])  BY <2>1, <3>1 DEF Owns
    <3>2. CASE r \in t.recs
      <4>1. i \in AllIds(t.recs)  BY <3>2 DEF AllIds
      <4>2. Separate(t.recs, u.recs)  BY <2>1 DEF BaseInv, TasksInv
      <4>. QED  BY <4>1, <4>2 DEF Separate
    <3>. QED  BY <1>4, <3>1, <3>2
  <2>. QED  BY <2>2, <2>3
<1>. QED  BY <1>5, <1>6 DEF MarkInv

(* Items whose group stays, unless they were empty, and that lose records  *)
(* only once they have been run.                                           *)
LEMMA ClearingMarks ==
  ASSUME MarkInv, UNCHANGED <<tasks, procq, ran, misread>>,
         \A i \in Identifier : \A r \in items[i].recs \ ran :
           r \in items'[i].recs /\ items'[i].group = items[i].group,
         BaseInv
  PROVE  MarkInv'
<1>1. \A R \in SUBSET Record : \A r \in R : Ids[r] \subseteq Identifier  BY RecordAssumption
<1>2. QueuedIsMarked'
  <2>. SUFFICES ASSUME NEW g \in Group, NEW r \in ToSet(procq[g]) \ ran, NEW i \in Ids[r] \ misread
                PROVE  items'[i].group = g /\ r \in items'[i].recs
    BY DEF QueuedIsMarked
  <2>1. items[i].group = g /\ r \in items[i].recs  BY DEF MarkInv, QueuedIsMarked
  <2>2. r \in Record
    <3>1. procq[g] \in Seq(Record)  BY DEF BaseInv, TypeOK
    <3>. QED  BY <3>1, LenProperties DEF ToSet
  <2>. QED  BY <1>1, <2>1, <2>2
<1>3. ASSUME NEW t \in tasks, t.stage = "marking"  PROVE Marked(t)' /\ Owns(t)'
  <2>1. Marked(t) /\ Owns(t) /\ t.recs \in SUBSET Record
    BY <1>3, TaskTypes DEF MarkInv, BaseInv, TypeOK
  <2>2. Owns(t)'  BY <2>1 DEF Owns
  <2>3. Marked(t)'
    <3>. SUFFICES ASSUME NEW r \in t.recs \ ran, NEW i \in Ids[r] \ (t.left \cup misread)
                  PROVE  items'[i].group = t.group /\ r \in items'[i].recs
      BY DEF Marked
    <3>1. items[i].group = t.group /\ r \in items[i].recs  BY <2>1 DEF Marked
    <3>. QED  BY <1>1, <2>1, <3>1
  <2>. QED  BY <2>2, <2>3
<1>. QED  BY <1>2, <1>3 DEF MarkInv

LEMMA UnmarkMarks ==
  ASSUME BaseInv, MarkInv, NEW g \in Group, NEW i \in unmark[g], Unmark(g, i)
  PROVE  MarkInv'
<1>1. items' = [items EXCEPT ![i] = Item(items[i].group, items[i].recs \ {Cur(g)})]
  BY DEF Unmark
<1>2. Cur(g) \in ran  BY DEF Unmark, BaseInv, ClearingInv
<1>3. \A j \in Identifier : \A r \in items[j].recs \ ran :
        r \in items'[j].recs /\ items'[j].group = items[j].group
  BY <1>1, <1>2 DEF Item, BaseInv, TypeOK
<1>4. UNCHANGED <<tasks, procq, ran, misread>>  BY DEF Unmark, muxVars, counters
<1>. QED  BY <1>3, <1>4, ClearingMarks

LEMMA DropMarks ==
  ASSUME BaseInv, MarkInv, NEW g \in Group, NEW i \in drop[g], Drop(g, i)
  PROVE  MarkInv'
<1>1. items' = [items EXCEPT ![i] = NoItem] /\ items[i].recs = {}  BY DEF Drop
<1>2. \A j \in Identifier : \A r \in items[j].recs \ ran :
        r \in items'[j].recs /\ items'[j].group = items[j].group
  BY <1>1 DEF NoItem, BaseInv, TypeOK
<1>3. UNCHANGED <<tasks, procq, ran, misread>>  BY DEF Drop, muxVars, counters
<1>. QED  BY <1>2, <1>3, ClearingMarks

LEMMA MarkStep ==
  ASSUME BaseInv, BaseInv', MarkInv, [Next]_vars
  PROVE  MarkInv'
<1>1. ASSUME NEW n, TakeBatch(n)  PROVE MarkInv'
  <2>1. \A t \in tasks' : t.stage = "reading"  BY <1>1, TakeBatchTasks DEF BaseInv
  <2>2. UNCHANGED <<items, procq, ran, misread>>  BY <1>1 DEF TakeBatch, runnerVars, counters
  <2>. QED  BY <2>1, <2>2, MarksKept
<1>2. ASSUME NEW t \in tasks, Finish(t)  PROVE MarkInv'
  <2>1. CASE Read(t)
    <3>1. ReadDetails(t, {}) /\ misread' = misread \cup {}  BY <2>1 DEF Read, counters
    <3>. QED  BY <3>1, ReadMarks
  <2>2. CASE GiveUp(t)
    <3>1. UNCHANGED <<items, procq, ran, misread>> /\ tasks' \subseteq tasks
      BY <2>2 DEF GiveUp, runnerVars, counters
    <3>. QED  BY <3>1, MarksKept
  <2>3. CASE \E i \in t.left : Mark(t, i)  BY <2>3, MarkMarks
  <2>4. CASE Send(t)  BY <2>4, SendMarks
  <2>. QED  BY <1>2, <2>1, <2>2, <2>3, <2>4 DEF Finish
<1>3. ASSUME tasks' = {}, UNCHANGED <<items, procq, ran, misread>>  PROVE MarkInv'
  BY <1>3, MarksKept
<1>4. CASE Multiplex
  <2>1. CASE MuxReturn
    <3>1. tasks' = {} /\ UNCHANGED <<items, procq, ran, misread>>
      BY <2>1 DEF MuxReturn, runnerVars, counters
    <3>. QED  BY <1>3, <3>1
  <2>. QED  BY <1>1, <1>2, <1>4, <2>1 DEF Multiplex
<1>5. ASSUME UNCHANGED <<tasks, items, procq, misread>>, ran \subseteq ran'  PROVE MarkInv'
  BY <1>5, MarksKept
<1>6. ASSUME NEW g \in Group, Run(g)  PROVE MarkInv'
  <2>1. ASSUME NEW n, Deliver(g, n)  PROVE MarkInv'
    BY <1>5, <2>1 DEF Deliver, muxVars, counters
  <2>2. CASE FinishRules(g)  BY <1>5, <2>2 DEF FinishRules, muxVars, counters
  <2>3. CASE \E i \in unmark[g] : Unmark(g, i)  BY <2>3, UnmarkMarks
  <2>4. ASSUME NEW i \in drop[g], Drop(g, i)  PROVE MarkInv'
    BY <2>4, DropMarks
  <2>5. ASSUME NEW i \in drop[g], DropRefused(g, i)  PROVE MarkInv'
    BY <1>5, <2>5 DEF DropRefused, muxVars, counters
  <2>6. CASE NextRecord(g)  BY <1>5, <2>6 DEF NextRecord, muxVars, counters
  <2>7. CASE RunnerReturn(g)
    <3>1. \A h \in Group : ToSet(procq'[h]) \subseteq ToSet(procq[h])
      <4>. DEFINE rest == SubSeq(procq[g], Len(rbatch[g]) + 1, Len(procq[g]))
      <4>1. ToSet(rest) \subseteq ToSet(procq[g])  BY PrefixAndRest DEF BaseInv, TypeOK
      <4>2. procq' = [procq EXCEPT ![g] = rest]  BY <2>7 DEF RunnerReturn
      <4>. HIDE DEF rest
      <4>. QED  BY <4>1, <4>2 DEF BaseInv, TypeOK
    <3>2. UNCHANGED <<tasks, items, ran, misread>>  BY <2>7 DEF RunnerReturn, muxVars, counters
    <3>. QED  BY <3>1, <3>2, MarksKept
  <2>. QED  BY <1>6, <2>1, <2>2, <2>3, <2>4, <2>5, <2>6, <2>7 DEF Run
<1>7. CASE Fault
  <2>1. ASSUME NEW t \in tasks, ReadStale(t)  PROVE MarkInv'
    <3>1. PICK i : ReadDetails(t, {i}) /\ misread' = misread \cup {i}  BY <2>1 DEF ReadStale
    <3>. QED  BY <3>1, ReadMarks
  <2>2. ASSUME NEW t \in tasks, MuxError(t)  PROVE MarkInv'
    <3>. DEFINE new == [t EXCEPT !.stage = "reading", !.group = NoGroup, !.left = {}]
    <3>1. new.stage = "reading"  BY NewTasks DEF BaseInv, TypeOK
    <3>2. tasks' \subseteq (tasks \ {t}) \cup {new}  BY <2>2 DEF MuxError, Retry, Replace
    <3>3. UNCHANGED <<items, procq, ran, misread>>  BY <2>2 DEF MuxError, runnerVars
    <3>. HIDE DEF new
    <3>4. \A u \in tasks' : u.stage = "marking" => u \in tasks  BY <3>1, <3>2
    <3>. QED  BY <3>3, <3>4, MarksKept
  <2>3. CASE MuxCrash  BY <1>3, <2>3 DEF MuxCrash, runnerVars
  <2>4. ASSUME NEW g \in Group, RunnerCrash(g)  PROVE MarkInv'
    BY <1>5, <2>4 DEF RunnerCrash, muxVars
  <2>. QED  BY <1>7, <2>1, <2>2, <2>3, <2>4, SendMarks DEF Fault
<1>8. CASE UNCHANGED vars
  BY <1>5, <1>8 DEF vars, muxVars, runnerVars, counters
<1>. QED  BY <1>4, <1>6, <1>7, <1>8 DEF Next

MarksInv == BaseInv /\ MarkInv

LEMMA InitMarks == Init => MarksInv
<1>1. Init => MarkInv
  <2>. SUFFICES ASSUME Init PROVE MarkInv  OBVIOUS
  <2>1. \A g \in Group : ToSet(procq[g]) = {}  BY ToSetEmpty DEF Init
  <2>. QED  BY <2>1 DEF MarkInv, QueuedIsMarked, Init
<1>. QED  BY <1>1, InitBase DEF MarksInv

LEMMA MarksStep == MarksInv /\ [Next]_vars => MarksInv'
BY BaseStep, MarkStep DEF MarksInv

(* What the multiplexer reads in the table is so: a queued record that has *)
(* not been run is in the set of each of its identifiers, under the group  *)
(* it is queued in, whatever fails, dies or comes again.                   *)
THEOREM QueuedMarked == Spec => []QueuedIsMarked
<1>1. MarksInv => QueuedIsMarked  BY DEF MarksInv, MarkInv
<1>. QED  BY <1>1, InitMarks, MarksStep, PTL DEF Spec

(* The message groups do what locks would: two records that have an        *)
(* identifier in common do not run for the first time at once.  Both are   *)
(* queued and not run, so that the item of the identifier names the group  *)
(* of each.                                                                *)
THEOREM FirstRunsApart == Spec => []FirstRunsDontOverlap
<1>1. ASSUME MarksInv  PROVE FirstRunsDontOverlap
  <2>. SUFFICES ASSUME NEW g \in Group, NEW h \in Group, g # h,
                       rpc[g] = "running", rpc[h] = "running", {Cur(g), Cur(h)} \cap ran = {},
                       NEW i \in Shared(Cur(g), Cur(h)), i \notin misread
                PROVE  FALSE
    BY DEF FirstRunsDontOverlap
  <2>1. Busy(g) /\ Busy(h)  BY DEF Busy
  <2>2. Cur(g) \in ToSet(procq[g]) \ ran /\ Cur(h) \in ToSet(procq[h]) \ ran
    BY <1>1, <2>1, CurQueued DEF MarksInv, BaseInv
  <2>3. items[i].group = g /\ items[i].group = h
    BY <1>1, <2>2 DEF MarksInv, MarkInv, QueuedIsMarked, Shared
  <2>. QED  BY <2>3
<1>. QED  BY <1>1, InitMarks, MarksStep, PTL DEF Spec

-----------------------------------------------------------------------------
(* No orphans                                                              *)

(* What was accounted for still is, if nothing is marked.                  *)
LEMMA OrphansKept ==
  ASSUME OrphanInv, deduped \subseteq deduped',
         \A i \in Identifier : items'[i].recs \subseteq items[i].recs,
         \A i \in Identifier : \A r \in items'[i].recs :
           Unsettled(r) => Unsettled(r)' \/ r \in deduped' \/ Pending(i, r)',
         \A i \in Identifier : \A r \in items'[i].recs :
           i \in RunIds[r] /\ Pending(i, r) => Pending(i, r)'
  PROVE  OrphanInv'
BY DEF OrphanInv

LEMMA SamePending ==
  ASSUME NEW i, NEW r, UNCHANGED <<procq, rat, rpc, unmark>>
  PROVE  Pending(i, r) => Pending(i, r)'
BY DEF Pending, ClearedAt, Busy

LEMMA SameUnsettled ==
  ASSUME NEW r, UNCHANGED muxVars
  PROVE  Unsettled(r) => Unsettled(r)'
BY DEF Unsettled, muxVars

(* A task that gives up its records reports them.                          *)
LEMMA TasksUnsettled ==
  ASSUME NEW r, UNCHANGED <<inq, mbatch>>, failed \subseteq failed',
         \A t \in tasks : r \in t.recs => r \in failed' \/ \E u \in tasks' : r \in u.recs
  PROVE  Unsettled(r) => Unsettled(r)'
BY DEF Unsettled

LEMMA TakeBatchOrphans ==
  ASSUME BaseInv, BaseInv', OrphanInv, NEW n, TakeBatch(n)
  PROVE  OrphanInv'
<1>1. UNCHANGED <<inq, items, procq, rat, rpc, unmark, deduped>>
  BY DEF TakeBatch, runnerVars, counters
<1>2. \A r : Unsettled(r) => Unsettled(r)'
  BY <1>1, TakeBatchTasks DEF BaseInv, Unsettled
<1>. QED  BY <1>1, <1>2, SamePending, OrphansKept

LEMMA RetryOrphans ==
  ASSUME OrphanInv, NEW t \in tasks, NEW new, new.recs = t.recs,
         \/ tasks' = (tasks \ {t}) \cup {new} /\ failed' = failed
         \/ tasks' = tasks \ {t} /\ failed' = failed \cup t.recs,
         UNCHANGED <<inq, mbatch, items, procq, rat, rpc, unmark, deduped>>
  PROVE  OrphanInv'
<1>1. ASSUME NEW r, NEW u \in tasks, r \in u.recs
      PROVE  r \in failed' \/ \E v \in tasks' : r \in v.recs
  <2>1. CASE u = t  BY <1>1, <2>1
  <2>2. CASE u # t  BY <1>1, <2>2
  <2>. QED  BY <2>1, <2>2
<1>2. \A r : Unsettled(r) => Unsettled(r)'  BY <1>1, TasksUnsettled
<1>. QED  BY <1>2, SamePending, OrphansKept

LEMMA MarkOrphans ==
  ASSUME BaseInv, OrphanInv, NEW t \in tasks, NEW i \in t.left, Mark(t, i)
  PROVE  OrphanInv'
<1>. DEFINE new == [t EXCEPT !.left = t.left \ {i}]
            hit == {r \in t.recs : i \in Ids[r]}
<1>1. /\ items' = [items EXCEPT ![i] = Item(t.group, items[i].recs \cup hit)]
      /\ tasks' = (tasks \ {t}) \cup {new}
      /\ UNCHANGED <<inq, mbatch, failed, procq, rat, rpc, unmark, deduped>>
  BY DEF Mark, Replace, runnerVars, counters
<1>2. new.recs = t.recs  BY NewTasks DEF BaseInv, TypeOK
<1>. HIDE DEF new
<1>3. \A j \in Identifier : \A r \in items'[j].recs : r \in items[j].recs \/ r \in t.recs
  BY <1>1 DEF Item, BaseInv, TypeOK
<1>4. \A r : Unsettled(r) => Unsettled(r)'
  <2>1. ASSUME NEW r, NEW u \in tasks, r \in u.recs
        PROVE  \E v \in tasks' : r \in v.recs
    <3>1. CASE u = t  BY <1>1, <1>2, <2>1, <3>1
    <3>2. CASE u # t  BY <1>1, <2>1, <3>2
    <3>. QED  BY <3>1, <3>2
  <2>. QED  BY <1>1, <2>1, TasksUnsettled
<1>5. ASSUME NEW r \in t.recs  PROVE Unsettled(r)'
  <2>1. r \in ToSet(mbatch)  BY DEF BaseInv, TasksInv
  <2>2. ToSet(mbatch) \subseteq ToSet(inq)  BY PrefixAndRest DEF BaseInv, TypeOK
  <2>. QED  BY <1>1, <1>2, <2>1, <2>2 DEF Unsettled
<1>6. \A j \in Identifier : \A r : Pending(j, r) => Pending(j, r)'
  BY <1>1, SamePending
<1>. QED  BY <1>1, <1>3, <1>4, <1>5, <1>6 DEF OrphanInv

LEMMA ReadOrphans ==
  ASSUME BaseInv, OrphanInv, NEW t \in tasks, Read(t) \/ ReadStale(t)
  PROVE  OrphanInv'
<1>1. PICK missed : ReadDetails(t, missed)  BY DEF Read, ReadStale
<1>2. PICK g : Replace(t, [t EXCEPT !.stage = "marking", !.group = g, !.left = AllIds(t.recs)])
  BY <1>1 DEF ReadDetails
<1>. DEFINE new == [t EXCEPT !.stage = "marking", !.group = g, !.left = AllIds(t.recs)]
<1>3. new.recs = t.recs  BY NewTasks DEF BaseInv, TypeOK
<1>4. tasks' = (tasks \ {t}) \cup {new}  BY <1>2 DEF Replace
<1>5. UNCHANGED <<inq, mbatch, failed, items, procq, rat, rpc, unmark, deduped>>
  BY <1>1 DEF ReadDetails, Read, ReadStale, runnerVars, counters
<1>. HIDE DEF new
<1>. QED  BY <1>3, <1>4, <1>5, RetryOrphans

LEMMA FailedOrphans ==
  ASSUME BaseInv, OrphanInv, NEW t \in tasks, GiveUp(t) \/ MuxError(t)
  PROVE  OrphanInv'
<1>. DEFINE new == [t EXCEPT !.stage = "reading", !.group = NoGroup, !.left = {}]
<1>1. new.recs = t.recs  BY NewTasks DEF BaseInv, TypeOK
<1>2. \/ tasks' = (tasks \ {t}) \cup {new} /\ failed' = failed
      \/ tasks' = tasks \ {t} /\ failed' = failed \cup t.recs
  BY DEF GiveUp, MuxError, Retry, Replace
<1>3. UNCHANGED <<inq, mbatch, items, procq, rat, rpc, unmark, deduped>>
  BY DEF GiveUp, MuxError, runnerVars, counters
<1>. HIDE DEF new
<1>. QED  BY <1>1, <1>2, <1>3, RetryOrphans

(* What is sent is queued behind the batch of the runner.                  *)
LEMMA SentPending ==
  ASSUME BaseInv, NEW g \in Group, NEW m \in Seq(Record),
         procq' = [procq EXCEPT ![g] = procq[g] \o m], UNCHANGED <<rat, rpc, unmark>>
  PROVE  \A i : /\ \A r \in ToSet(m) : Pending(i, r)'
                /\ \A r : Pending(i, r) => Pending(i, r)'
<1>. DEFINE q == procq[g] \o m
<1>1. /\ procq[g] \in Seq(Record) /\ rbatch[g] \in Seq(Record)
      /\ IsPrefix(rbatch[g], procq[g])
  BY DEF BaseInv, TypeOK
<1>2. /\ Len(procq[g]) \in Nat /\ Len(m) \in Nat /\ Len(rbatch[g]) \in Nat
      /\ DOMAIN procq[g] = 1..Len(procq[g]) /\ DOMAIN m = 1..Len(m)
      /\ DOMAIN rbatch[g] = 1..Len(rbatch[g])
  BY <1>1, LenProperties
<1>3. /\ DOMAIN q = 1..(Len(procq[g]) + Len(m))
      /\ \A j \in 1..(Len(procq[g]) + Len(m)) :
           q[j] = IF j <= Len(procq[g]) THEN procq[g][j] ELSE m[j - Len(procq[g])]
  <2>1. /\ q \in Seq(Record) /\ Len(q) = Len(procq[g]) + Len(m)
        /\ \A j \in 1..(Len(procq[g]) + Len(m)) :
             q[j] = IF j <= Len(procq[g]) THEN procq[g][j] ELSE m[j - Len(procq[g])]
    BY <1>1, ConcatProperties
  <2>. HIDE DEF q
  <2>. QED  BY <2>1, LenProperties
<1>4. procq'[g] = q /\ \A h \in Group \ {g} : procq'[h] = procq[h]
  BY DEF BaseInv, TypeOK
<1>. HIDE DEF q
<1>5. Busy(g) => rat[g] \in Nat /\ rat[g] <= Len(procq[g])
  <2>1. Busy(g) => rat[g] \in 1..Len(rbatch[g])  BY <1>2 DEF BaseInv, TypeOK
  <2>2. Len(rbatch[g]) <= Len(procq[g])  BY <1>1, PrefixElements
  <2>. QED  BY <1>2, <2>1, <2>2
<1>6. ASSUME NEW i, NEW r \in ToSet(m)  PROVE Pending(i, r)'
  <2>1. PICK k \in 1..Len(m) : m[k] = r  BY <1>2 DEF ToSet
  <2>2. PICK j \in DOMAIN q : q[j] = r /\ j > Len(procq[g])
    <3>1. PICK n \in 1..(Len(procq[g]) + Len(m)) :
            ~(n <= Len(procq[g])) /\ n > Len(procq[g]) /\ n - Len(procq[g]) = k
      <4>1. k \in Nat /\ k > 0 /\ k <= Len(m)  BY <1>2
      <4>. WITNESS Len(procq[g]) + k \in 1..(Len(procq[g]) + Len(m))
      <4>. QED  BY <1>2, <4>1
    <3>2. q[n] = m[n - Len(procq[g])]  BY <1>3, <3>1
    <3>. QED  BY <1>3, <2>1, <3>1, <3>2
  <2>3. j \in Nat  BY <1>2, <1>3
  <2>4. ~ClearedAt(g, j, i)'  BY <1>2, <1>5, <2>2, <2>3 DEF ClearedAt, Busy
  <2>. QED  BY <1>4, <2>2, <2>4 DEF Pending
<1>7. ASSUME NEW i, NEW r, Pending(i, r)  PROVE Pending(i, r)'
  <2>1. PICK h \in Group : \E j \in DOMAIN procq[h] : procq[h][j] = r /\ ~ClearedAt(h, j, i)
    BY <1>7 DEF Pending
  <2>2. PICK j \in DOMAIN procq[h] : procq[h][j] = r /\ ~ClearedAt(h, j, i)
    BY <2>1
  <2>3. ~ClearedAt(h, j, i)'  BY <2>2 DEF ClearedAt, Busy
  <2>4. j \in DOMAIN procq'[h] /\ procq'[h][j] = r
    <3>1. CASE h = g  BY <1>2, <1>3, <1>4, <2>2, <3>1
    <3>2. CASE h # g  BY <1>4, <2>2, <3>2
    <3>. QED  BY <3>1, <3>2
  <2>. QED  BY <2>3, <2>4 DEF Pending
<1>. QED  BY <1>6, <1>7

LEMMA SendOrphans ==
  ASSUME BaseInv, OrphanInv, NEW t \in tasks, Send(t) \/ SendUnanswered(t)
  PROVE  OrphanInv'
<1>1. /\ Accept(t) /\ t.group \in Group /\ tasks \ {t} \subseteq tasks'
      /\ UNCHANGED <<inq, mbatch, failed, items, rat, rpc, unmark>>
  BY DEF Send, SendUnanswered, Replace, runnerVars, BaseInv, TasksInv
<1>2. /\ Messages(t) \in Seq(Record)
      /\ t.recs \subseteq ToSet(Messages(t))
  BY MessagesOfTask DEF BaseInv, TasksInv
<1>3. \A r : Unsettled(r) => Unsettled(r)' \/ r \in t.recs
  BY <1>1 DEF Unsettled
<1>4. CASE t.group \in t.sent
  <2>1. procq' = procq /\ deduped' = deduped \cup t.recs  BY <1>1, <1>4 DEF Accept
  <2>. QED  BY <1>1, <1>3, <2>1, SamePending, OrphansKept
<1>5. CASE t.group \notin t.sent
  <2>1. /\ procq' = [procq EXCEPT ![t.group] = procq[t.group] \o Messages(t)]
        /\ deduped' = deduped
    BY <1>1, <1>5 DEF Accept
  <2>2. \A i : /\ \A r \in ToSet(Messages(t)) : Pending(i, r)'
               /\ \A r : Pending(i, r) => Pending(i, r)'
    BY <1>1, <1>2, <2>1, SentPending
  <2>. QED  BY <1>1, <1>2, <1>3, <2>1, <2>2, OrphansKept
<1>. QED  BY <1>4, <1>5

LEMMA MuxReturnOrphans ==
  ASSUME BaseInv, OrphanInv, MuxReturn \/ MuxCrash
  PROVE  OrphanInv'
<1>1. mbatch' = <<>> /\ UNCHANGED <<items, procq, rat, rpc, unmark, deduped>>
  BY DEF MuxReturn, MuxCrash, runnerVars, counters
<1>2. ToSet(mbatch') = {}  BY <1>1, ToSetEmpty
<1>3. ASSUME NEW r, Unsettled(r)  PROVE Unsettled(r)'
  <2>1. CASE MuxReturn
    <3>1. r \in ToSet(inq) /\ (r \in failed \/ r \notin ToSet(mbatch))
      BY <1>3, <2>1 DEF Unsettled, MuxReturn
    <3>. QED  BY <1>2, <2>1, <3>1, ReturnedBatch DEF Unsettled, BaseInv
  <2>2. CASE MuxCrash  BY <1>2, <1>3, <2>2 DEF Unsettled, MuxCrash
  <2>. QED  BY <2>1, <2>2
<1>. QED  BY <1>1, <1>3, SamePending, OrphansKept

(* A step of a runner that leaves the queues alone and clears no place of  *)
(* a record that an identifier still has.                                  *)
LEMMA RunnerOrphans ==
  ASSUME OrphanInv, UNCHANGED muxVars, UNCHANGED <<procq, deduped>>, NEW g \in Group,
         \A i \in Identifier : items'[i].recs \subseteq items[i].recs,
         \A h \in Group \ {g} : /\ rat'[h] = rat[h] /\ rpc'[h] = rpc[h]
                                /\ unmark'[h] = unmark[h],
         \A i \in Identifier : \A j \in DOMAIN procq[g] :
           /\ procq[g][j] \in items'[i].recs /\ i \in RunIds[procq[g][j]]
           /\ ClearedAt(g, j, i)'
           => ClearedAt(g, j, i)
  PROVE  OrphanInv'
<1>1. ASSUME NEW i \in Identifier, NEW r \in items'[i].recs, i \in RunIds[r], Pending(i, r)
      PROVE  Pending(i, r)'
  <2>1. PICK h \in Group : \E j \in DOMAIN procq[h] : procq[h][j] = r /\ ~ClearedAt(h, j, i)
    BY <1>1 DEF Pending
  <2>2. PICK j \in DOMAIN procq[h] : procq[h][j] = r /\ ~ClearedAt(h, j, i)
    BY <2>1
  <2>3. ~ClearedAt(h, j, i)'
    <3>1. CASE h = g  BY <1>1, <2>2, <3>1
    <3>2. CASE h # g  BY <2>2, <3>2 DEF ClearedAt, Busy
    <3>. QED  BY <3>1, <3>2
  <2>. QED  BY <2>2, <2>3 DEF Pending
<1>2. \A r : Unsettled(r) => Unsettled(r)'  BY SameUnsettled
<1>. QED  BY <1>1, <1>2, OrphansKept

LEMMA DeliverOrphans ==
  ASSUME BaseInv, OrphanInv, NEW g \in Group, NEW n, Deliver(g, n)
  PROVE  OrphanInv'
<1>1. /\ UNCHANGED muxVars /\ UNCHANGED <<items, procq, deduped, unmark>>
      /\ \A h \in Group \ {g} : rat'[h] = rat[h] /\ rpc'[h] = rpc[h]
      /\ rat'[g] = 1 /\ rpc'[g] = "running"
  BY DEF Deliver, counters, BaseInv, TypeOK
<1>2. procq[g] \in Seq(Record)  BY DEF BaseInv, TypeOK
<1>3. ASSUME NEW i, NEW j \in DOMAIN procq[g]  PROVE ~ClearedAt(g, j, i)'
  <2>1. j \in 1..Len(procq[g]) /\ Len(procq[g]) \in Nat  BY <1>2, LenProperties
  <2>2. ~(j < 1)  BY <2>1
  <2>. QED  BY <1>1, <2>2 DEF ClearedAt
<1>. QED  BY <1>1, <1>3, RunnerOrphans

LEMMA FinishRulesOrphans ==
  ASSUME BaseInv, OrphanInv, NEW g \in Group, FinishRules(g)
  PROVE  OrphanInv'
<1>1. /\ UNCHANGED muxVars /\ UNCHANGED <<items, procq, rat, deduped>>
      /\ \A h \in Group \ {g} : rpc'[h] = rpc[h] /\ unmark'[h] = unmark[h]
      /\ rpc[g] = "running" /\ unmark'[g] = RunIds[Cur(g)]
  BY DEF FinishRules, counters, BaseInv, TypeOK
<1>2. Busy(g) /\ procq[g][rat[g]] = Cur(g)  BY <1>1, CurQueued DEF Busy, BaseInv
<1>3. ASSUME NEW i \in Identifier, NEW j \in DOMAIN procq[g],
             i \in RunIds[procq[g][j]], ClearedAt(g, j, i)'
      PROVE  ClearedAt(g, j, i)
  <2>1. j < rat[g]  BY <1>1, <1>2, <1>3 DEF ClearedAt
  <2>. QED  BY <1>2, <2>1 DEF ClearedAt
<1>. QED  BY <1>1, <1>3, RunnerOrphans

LEMMA UnmarkOrphans ==
  ASSUME BaseInv, OrphanInv, NEW g \in Group, NEW k \in unmark[g], Unmark(g, k)
  PROVE  OrphanInv'
<1>1. /\ UNCHANGED muxVars /\ UNCHANGED <<procq, rat, rpc, deduped>>
      /\ items' = [items EXCEPT ![k] = Item(items[k].group, items[k].recs \ {Cur(g)})]
      /\ unmark' = [unmark EXCEPT ![g] = unmark[g] \ {k}]
      /\ rpc[g] = "clearing"
  BY DEF Unmark, counters
<1>2. Busy(g) /\ procq[g][rat[g]] = Cur(g)  BY <1>1, CurQueued DEF Busy, BaseInv
<1>3. \A i \in Identifier : /\ items'[i].recs \subseteq items[i].recs
                            /\ i = k => Cur(g) \notin items'[i].recs
  BY <1>1 DEF Item, BaseInv, TypeOK
<1>4. /\ \A h \in Group \ {g} : unmark'[h] = unmark[h]
      /\ unmark'[g] = unmark[g] \ {k}
  BY <1>1 DEF BaseInv, TypeOK
<1>5. ASSUME NEW i \in Identifier, NEW j \in DOMAIN procq[g],
             procq[g][j] \in items'[i].recs, ClearedAt(g, j, i)'
      PROVE  ClearedAt(g, j, i)
  <2>1. j < rat[g] \/ (j = rat[g] /\ i \notin unmark[g] \ {k})
    BY <1>1, <1>4, <1>5 DEF ClearedAt
  <2>2. j = rat[g] => i # k  BY <1>2, <1>3, <1>5
  <2>. QED  BY <1>1, <1>2, <2>1, <2>2 DEF ClearedAt
<1>. QED  BY <1>1, <1>3, <1>4, <1>5, RunnerOrphans

LEMMA DropOrphans ==
  ASSUME BaseInv, OrphanInv, NEW g \in Group, NEW k \in drop[g], Drop(g, k)
  PROVE  OrphanInv'
<1>1. /\ UNCHANGED muxVars /\ UNCHANGED <<procq, rat, rpc, unmark, deduped>>
      /\ items' = [items EXCEPT ![k] = NoItem]
  BY DEF Drop, counters
<1>2. \A i \in Identifier : items'[i].recs \subseteq items[i].recs
  BY <1>1 DEF NoItem, BaseInv, TypeOK
<1>3. \A i \in Identifier : \A j : ClearedAt(g, j, i)' => ClearedAt(g, j, i)
  BY <1>1 DEF ClearedAt, Busy
<1>. QED  BY <1>1, <1>2, <1>3, RunnerOrphans

(* A runner that stops has its places to do again.                         *)
LEMMA StopOrphans ==
  ASSUME BaseInv, OrphanInv, NEW g \in Group, Stop(g),
         UNCHANGED muxVars, UNCHANGED <<items, procq, rat, deduped>>
  PROVE  OrphanInv'
<1>1. /\ ~Busy(g)'
      /\ \A h \in Group \ {g} : rpc'[h] = rpc[h] /\ unmark'[h] = unmark[h]
  BY Stopped DEF BaseInv
<1>2. \A i, j : ~ClearedAt(g, j, i)'  BY <1>1 DEF ClearedAt
<1>. QED  BY <1>1, <1>2, RunnerOrphans

LEMMA NextRecordOrphans ==
  ASSUME BaseInv, OrphanInv, NEW g \in Group, NextRecord(g)
  PROVE  OrphanInv'
<1>1. /\ UNCHANGED muxVars /\ UNCHANGED <<items, procq, unmark, deduped>>
      /\ \A h \in Group \ {g} : rat'[h] = rat[h] /\ rpc'[h] = rpc[h]
      /\ rat'[g] = rat[g] + 1 /\ rpc'[g] = "running"
      /\ rpc[g] = "clearing" /\ unmark[g] = {} /\ rat[g] \in Nat
  BY DEF NextRecord, Cleared, counters, BaseInv, TypeOK
<1>2. procq[g] \in Seq(Record)  BY DEF BaseInv, TypeOK
<1>3. ASSUME NEW i \in Identifier, NEW j \in DOMAIN procq[g], ClearedAt(g, j, i)'
      PROVE  ClearedAt(g, j, i)
  <2>1. j \in Nat /\ j < rat[g] + 1
    <3>1. j \in Nat  BY <1>2, LenProperties
    <3>. QED  BY <1>1, <1>3, <3>1 DEF ClearedAt
  <2>2. j < rat[g] \/ j = rat[g]  BY <1>1, <2>1
  <2>. QED  BY <1>1, <2>2 DEF ClearedAt, Busy
<1>. QED  BY <1>1, <1>3, RunnerOrphans

(* The places a runner leaves behind are cleared, the others move up.      *)
LEMMA RunnerReturnOrphans ==
  ASSUME BaseInv, OrphanInv, NEW g \in Group, RunnerReturn(g)
  PROVE  OrphanInv'
<1>. DEFINE done == Len(rbatch[g])
            rest == SubSeq(procq[g], done + 1, Len(procq[g]))
<1>1. /\ UNCHANGED muxVars /\ UNCHANGED <<items, rat, deduped>> /\ Stop(g)
      /\ procq' = [procq EXCEPT ![g] = rest]
      /\ rpc[g] = "clearing" /\ unmark[g] = {} /\ rat[g] = done
  BY DEF RunnerReturn, Cleared, counters
<1>2. /\ ~Busy(g)'
      /\ \A h \in Group \ {g} : rpc'[h] = rpc[h] /\ unmark'[h] = unmark[h]
  BY <1>1, Stopped DEF BaseInv
<1>3. /\ rbatch[g] \in Seq(Record) /\ procq[g] \in Seq(Record)
      /\ IsPrefix(rbatch[g], procq[g])
  BY DEF BaseInv, TypeOK
<1>4. /\ done \in 0..Len(procq[g]) /\ Len(procq[g]) \in Nat
      /\ DOMAIN procq[g] = 1..Len(procq[g])
  <2>1. Len(rbatch[g]) \in Nat /\ Len(procq[g]) \in Nat
    BY <1>3, LenProperties
  <2>2. Len(rbatch[g]) <= Len(procq[g])  BY <1>3, PrefixElements
  <2>. QED  BY <1>3, <2>1, <2>2, LenProperties
<1>5. /\ DOMAIN rest = 1..(Len(procq[g]) - done)
      /\ \A j \in 1..(Len(procq[g]) - done) : rest[j] = procq[g][done + j]
  <2>1. /\ rest \in Seq(Record) /\ Len(rest) = Len(procq[g]) - done
        /\ \A j \in 1..(Len(procq[g]) - done) : rest[j] = procq[g][done + j]
    BY <1>3, <1>4, OtherElements
  <2>. HIDE DEF rest, done
  <2>. QED  BY <2>1, LenProperties
<1>6. procq'[g] = rest /\ \A h \in Group \ {g} : procq'[h] = procq[h]
  BY <1>1 DEF BaseInv, TypeOK
<1>. HIDE DEF rest, done
<1>7. ASSUME NEW i, NEW r, Pending(i, r)  PROVE Pending(i, r)'
  <2>1. PICK h \in Group : \E j \in DOMAIN procq[h] : procq[h][j] = r /\ ~ClearedAt(h, j, i)
    BY <1>7 DEF Pending
  <2>2. PICK j \in DOMAIN procq[h] : procq[h][j] = r /\ ~ClearedAt(h, j, i)
    BY <2>1
  <2>3. CASE h # g
    <3>1. ~ClearedAt(h, j, i)'  BY <1>1, <1>2, <2>2, <2>3 DEF ClearedAt, Busy
    <3>. QED  BY <1>6, <2>2, <2>3, <3>1 DEF Pending
  <2>4. CASE h = g
    <3>1. j \in 1..Len(procq[g]) /\ ~(j < done) /\ j # done
      BY <1>1, <1>4, <2>2, <2>4 DEF ClearedAt, Busy
    <3>2. PICK k \in 1..(Len(procq[g]) - done) : done + k = j
      <4>1. j - done \in 1..(Len(procq[g]) - done) /\ done + (j - done) = j
        BY <1>4, <3>1
      <4>. QED  BY <4>1
    <3>3. k \in DOMAIN procq'[g] /\ procq'[g][k] = r  BY <1>5, <1>6, <2>2, <2>4, <3>2
    <3>4. ~ClearedAt(g, k, i)'  BY <1>2 DEF ClearedAt
    <3>. QED  BY <3>3, <3>4 DEF Pending
  <2>. QED  BY <2>3, <2>4
<1>8. \A r : Unsettled(r) => Unsettled(r)'  BY <1>1, SameUnsettled
<1>. QED  BY <1>1, <1>7, <1>8, OrphansKept

LEMMA OrphanStep ==
  ASSUME BaseInv, BaseInv', OrphanInv, [Next]_vars
  PROVE  OrphanInv'
<1>1. ASSUME NEW t \in tasks, Finish(t)  PROVE OrphanInv'
  <2>1. CASE \E i \in t.left : Mark(t, i)  BY <2>1, MarkOrphans
  <2>. QED  BY <1>1, <2>1, ReadOrphans, FailedOrphans, SendOrphans DEF Finish
<1>2. CASE Multiplex
  BY <1>1, <1>2, TakeBatchOrphans, MuxReturnOrphans DEF Multiplex
<1>3. ASSUME NEW g \in Group, Run(g)  PROVE OrphanInv'
  <2>1. CASE \E n \in 1..BatchSize : Deliver(g, n)  BY <2>1, DeliverOrphans
  <2>2. CASE \E i \in unmark[g] : Unmark(g, i)  BY <2>2, UnmarkOrphans
  <2>3. ASSUME NEW i \in drop[g], Drop(g, i)  PROVE OrphanInv'
    BY <2>3, DropOrphans
  <2>4. ASSUME NEW i \in drop[g], DropRefused(g, i)  PROVE OrphanInv'
    BY <2>4, StopOrphans DEF DropRefused, counters
  <2>. QED  BY <1>3, <2>1, <2>2, <2>3, <2>4, FinishRulesOrphans, NextRecordOrphans,
               RunnerReturnOrphans DEF Run
<1>4. CASE Fault
  <2>1. ASSUME NEW g \in Group, RunnerCrash(g)  PROVE OrphanInv'
    BY <2>1, StopOrphans DEF RunnerCrash
  <2>. QED  BY <1>4, <2>1, ReadOrphans, SendOrphans, FailedOrphans, MuxReturnOrphans DEF Fault
<1>5. CASE UNCHANGED vars
  <2>1. UNCHANGED muxVars /\ UNCHANGED <<items, procq, rat, rpc, unmark, deduped>>
    BY <1>5 DEF vars, runnerVars, counters
  <2>. QED  BY <2>1, SameUnsettled, SamePending, OrphansKept
<1>. QED  BY <1>2, <1>3, <1>4, <1>5 DEF Next

(* No record stays in the set of an identifier that its runner unmarks     *)
(* once it has left both queues, whatever fails, dies or comes again: it   *)
(* is a failed one, one of a task, or queued at a place that its runner    *)
(* has not cleared of the identifier.  Only a second sending that the      *)
(* queue dropped leaves one.  Of identifiers that are marked and not of    *)
(* the two types the runner unmarks nothing is said: their marks stay.     *)
THEOREM NoOrphans == Spec => []NoOrphanMarks
<1>. DEFINE Inv == BaseInv /\ OrphanInv
<1>1. Init => Inv
  <2>1. Init => OrphanInv  BY DEF Init, OrphanInv, NoItem
  <2>. QED  BY <2>1, InitBase
<1>2. Inv /\ [Next]_vars => Inv'  BY BaseStep, OrphanStep
<1>3. Inv => NoOrphanMarks
  <2>. SUFFICES ASSUME Inv, NEW i \in Identifier, NEW r \in items[i].recs,
                       i \in RunIds[r], r \notin deduped
                PROVE  r \in InSystem
    BY DEF NoOrphanMarks
  <2>1. CASE Unsettled(r)  BY <2>1 DEF Unsettled, InSystem
  <2>2. CASE Pending(i, r)
    <3>1. PICK g \in Group : \E j \in DOMAIN procq[g] : procq[g][j] = r
      BY <2>2 DEF Pending
    <3>. QED  BY <3>1 DEF InSystem, ToSet
  <2>. QED  BY <2>1, <2>2 DEF OrphanInv
<1>. QED  BY <1>1, <1>2, <1>3, PTL DEF Spec
=============================================================================
