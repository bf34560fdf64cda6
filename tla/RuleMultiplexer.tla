-------------------------- MODULE RuleMultiplexer --------------------------
(***************************************************************************)
(* The transaction multiplexer of a tenant with MULTIPLEX_ASYNC_RULES_TX   *)
(* (src/tarpon/src/services/transaction-multiplexer) and the runner behind *)
(* it (lambdas/async-rule/app.ts).                                         *)
(*                                                                         *)
(* Records come in one FIFO message group per tenant.  The multiplexer     *)
(* takes a batch, connects the records that share an identifier (user or   *)
(* payment details), and sends each connected group of records to one      *)
(* message group of the processor queue: the group that its identifiers    *)
(* are being processed in, or a new one.  A table item per identifier has  *)
(* that group and the set of records queued for the identifier.  When a    *)
(* record has been run, the runner takes it out of the items of its        *)
(* identifiers and deletes the items that have become empty.  But it does  *)
(* not know the identifiers that were marked.  The multiplexer marks those *)
(* of the types of the tenant's aggregation variables, the runner unmarks  *)
(* those of two types that are fixed, and neither contains the other.      *)
(*                                                                         *)
(* Instead of locks, the message groups keep records of one identifier     *)
(* from running at the same time.                                          *)
(***************************************************************************)
EXTENDS Naturals, Sequences, SequencesExt, Filtering

CONSTANTS
  Record, Identifier,
  Group,        \* the message groups that uuid() may name
  NoGroup,      \* the groupId of an item that has none
  Ids,          \* the identifiers of each record that are marked: those that
                \* getConnectors finds for the tenant's aggregation types
  RunIds,       \* those that are unmarked: what getConnectors finds for
                \* USER_TRANSACTIONS and PAYMENT_DETAILS_TRANSACTIONS
  Arrivals,     \* the records in the order they were sent
  BatchSize,    \* batchSize of both event sources
  MaxFaults,    \* bound on errors and crashes
  MaxStale      \* bound on reads that miss an item

ASSUME RecordAssumption ==
  /\ Ids \in [Record -> SUBSET Identifier]
  /\ RunIds \in [Record -> SUBSET Identifier]
  /\ Arrivals \in Seq(Record)
  /\ IsInjective(Arrivals)
ASSUME GroupAssumption == NoGroup \notin Group
ASSUME BoundAssumption ==
  /\ BatchSize \in Nat \ {0}
  /\ MaxFaults \in Nat
  /\ MaxStale \in Nat

VARIABLES
  inq,     \* the multiplexer's queue: the messages not deleted yet
  mbatch,  \* the batch the multiplexer was invoked with
  tasks,   \* the connected groups of the batch it has not finished
  failed,  \* batchItemFailures
  items,   \* ASYNC_RULE_PROCESSING_DETAILS of the transient table
  procq,   \* the processor queue: per group, the messages not deleted yet
  rbatch,  \* per group: the batch a runner was invoked with
  rat,     \* per group: the index of the record the runner is at
  rpc,     \* per group: what the runner does
  unmark,  \* per group: the identifiers whose sets the runner has to update
  drop,    \* per group: the identifiers whose items it has to delete
  ran,     \* the records whose rules ran to the end
  faults, stales,
  misread, \* ghost: the identifiers whose items a read has missed
  deduped  \* ghost: the records whose second sending was dropped

muxVars == <<inq, mbatch, tasks, failed>>
runnerVars == <<rbatch, rat, rpc, unmark, drop, ran>>
counters == <<faults, stales, misread, deduped>>
vars == <<muxVars, items, procq, runnerVars, counters>>

NoItem == [there |-> FALSE, group |-> NoGroup, recs |-> {}]
Item(g, R) == [there |-> TRUE, group |-> g, recs |-> R]

Task == [recs : SUBSET Record, stage : {"reading", "marking"},
         group : Group \cup {NoGroup}, left : SUBSET Identifier, sent : SUBSET Group]

Busy(g) == rpc[g] # "idle"
Cur(g) == rbatch[g][rat[g]]

TypeOK ==
  /\ inq \in Seq(Record)
  /\ mbatch \in Seq(Record)
  /\ IsPrefix(mbatch, inq)
  /\ tasks \in SUBSET Task
  /\ failed \in SUBSET Record
  /\ items \in [Identifier -> [there : BOOLEAN, group : Group \cup {NoGroup}, recs : SUBSET Record]]
  /\ procq \in [Group -> Seq(Record)]
  /\ rbatch \in [Group -> Seq(Record)]
  /\ \A g \in Group : IsPrefix(rbatch[g], procq[g])
  /\ rat \in [Group -> Nat]
  /\ rpc \in [Group -> {"idle", "running", "clearing"}]
  /\ \A g \in Group : Busy(g) => rat[g] \in DOMAIN rbatch[g]
  /\ unmark \in [Group -> SUBSET Identifier]
  /\ drop \in [Group -> SUBSET Identifier]
  /\ ran \in SUBSET Record
  /\ faults \in Nat
  /\ stales \in Nat
  /\ misread \in SUBSET Identifier
  /\ deduped \in SUBSET Record

Init ==
  /\ inq = Arrivals
  /\ mbatch = <<>>
  /\ tasks = {}
  /\ failed = {}
  /\ items = [i \in Identifier |-> NoItem]
  /\ procq = [g \in Group |-> <<>>]
  /\ rbatch = [g \in Group |-> <<>>]
  /\ rat = [g \in Group |-> 0]
  /\ rpc = [g \in Group |-> "idle"]
  /\ unmark = [g \in Group |-> {}]
  /\ drop = [g \in Group |-> {}]
  /\ ran = {}
  /\ faults = 0
  /\ stales = 0
  /\ misread = {}
  /\ deduped = {}

-----------------------------------------------------------------------------
(* The multiplexer                                                         *)

AllIds(R) == UNION {Ids[r] : r \in R}
Separate(R, S) == AllIds(R) \cap AllIds(S) = {}

(* Mutant: one connected group for the whole batch.                        *)
WholeBatch(r, R) == R

(* buildGroups: the records reached from r by shared identifiers.          *)
Component(r, R) ==
  {s \in R : \A C \in SUBSET R : r \in C /\ Separate(C, R \ C) => s \in C}

NewTask(R) ==
  [recs |-> R, stage |-> "reading", group |-> NoGroup, left |-> {}, sent |-> {}]

Replace(t, new) == tasks' = (tasks \ {t}) \cup {new}
Retry(t) == Replace(t, [t EXCEPT !.stage = "reading", !.group = NoGroup, !.left = {}])

TakeBatch(n) ==
  /\ mbatch = <<>>
  /\ n \in 1..Len(inq)
  /\ mbatch' = SubSeq(inq, 1, n)
  /\ tasks' = {NewTask(Component(r, ToSet(mbatch'))) : r \in ToSet(mbatch')}
  /\ UNCHANGED <<inq, failed, items, procq, runnerVars, counters>>

(* uuid(): a name that nothing refers to.                                  *)
Unused(g) ==
  /\ procq[g] = <<>>
  /\ \A i \in Identifier : items[i].group # g
  /\ \A t \in tasks : t.group # g /\ g \notin t.sent

(* Mutant: a new group for every connected group of records.               *)
ChooseNew(t, found) == {g \in Group : Unused(g)}

(* handleConnectedGroup: the one group of the items found, or a new one;   *)
(* none when the items conflict, or when the item has no group and the     *)
(* update that needs one is rejected.                                      *)
Choose(t, found) ==
  LET involved == {items[i].group : i \in found} IN
  IF involved = {} THEN {g \in Group : Unused(g)}
                   ELSE {g \in Group : involved = {g}}

ReadDetails(t, missed) ==
  LET found == {i \in AllIds(t.recs) : items[i].there} \ missed IN
  /\ t.stage = "reading"
  /\ \E g \in Choose(t, found) :
       Replace(t, [t EXCEPT !.stage = "marking", !.group = g, !.left = AllIds(t.recs)])
  /\ UNCHANGED <<inq, mbatch, failed, items, procq, runnerVars>>

(* getIdentifiersProcessingDetails finds every item.                       *)
Read(t) ==
  /\ ReadDetails(t, {})
  /\ UNCHANGED counters

(* It is an eventually consistent read, and may miss an item just written. *)
ReadStale(t) ==
  /\ stales < MaxStale
  /\ stales' = stales + 1
  /\ \E i \in AllIds(t.recs) :
       /\ items[i].there
       /\ ReadDetails(t, {i})
       /\ misread' = misread \cup {i}
  /\ UNCHANGED <<faults, deduped>>

(* ConflictingMessageGroupRetryError, or a rejected update, in the last of *)
(* the attempts: the records of the group are reported as failures.        *)
GiveUp(t) ==
  /\ t.stage = "reading"
  /\ Choose(t, {i \in AllIds(t.recs) : items[i].there}) = {}
  /\ tasks' = tasks \ {t}
  /\ failed' = failed \cup t.recs
  /\ UNCHANGED <<inq, mbatch, items, procq, runnerVars, counters>>

(* Mutant: the identifier's group is set only when there is no item yet.   *)
MarkNewOnly(t, i) ==
  /\ t.stage = "marking"
  /\ i \in t.left
  /\ items' = IF items[i].there THEN items
              ELSE [items EXCEPT ![i] = Item(t.group, {r \in t.recs : i \in Ids[r]})]
  /\ Replace(t, [t EXCEPT !.left = @ \ {i}])
  /\ UNCHANGED <<inq, mbatch, failed, procq, runnerVars, counters>>

(* markIdentifiersAsProcessing, one identifier: SET groupId, ADD the       *)
(* records of the batch that have the identifier.                          *)
Mark(t, i) ==
  /\ t.stage = "marking"
  /\ i \in t.left
  /\ items' = [items EXCEPT ![i] =
                 Item(t.group, @.recs \cup {r \in t.recs : i \in Ids[r]})]
  /\ Replace(t, [t EXCEPT !.left = @ \ {i}])
  /\ UNCHANGED <<inq, mbatch, failed, procq, runnerVars, counters>>

Messages(t) == Keep(mbatch, t.recs)

(* bulkSendMessages.  A group drops what it was sent in the last minutes.  *)
Accept(t) ==
  IF t.group \in t.sent
  THEN UNCHANGED procq /\ deduped' = deduped \cup t.recs
  ELSE procq' = [procq EXCEPT ![t.group] = @ \o Messages(t)] /\ UNCHANGED deduped

Send(t) ==
  /\ t.stage = "marking"
  /\ t.left = {}
  /\ Accept(t)
  /\ tasks' = tasks \ {t}
  /\ UNCHANGED <<inq, mbatch, failed, items, runnerVars, faults, stales, misread>>

(* The messages are accepted and the call fails: it is made again.         *)
SendUnanswered(t) ==
  /\ t.stage = "marking"
  /\ t.left = {}
  /\ faults < MaxFaults
  /\ faults' = faults + 1
  /\ Accept(t)
  /\ Replace(t, [NewTask(t.recs) EXCEPT !.sent = t.sent \cup {t.group}])
  /\ UNCHANGED <<inq, mbatch, failed, items, runnerVars, stales, misread>>

(* A call fails: backOff starts over, or is out of attempts.               *)
MuxError(t) ==
  /\ faults < MaxFaults
  /\ faults' = faults + 1
  /\ \/ Retry(t) /\ UNCHANGED failed
     \/ tasks' = tasks \ {t} /\ failed' = failed \cup t.recs
  /\ UNCHANGED <<inq, mbatch, items, procq, runnerVars, stales, misread, deduped>>

(* Mutant: reportBatchItemFailures is off, the whole batch is deleted.     *)
MuxReturnDeletingAll ==
  /\ mbatch # <<>>
  /\ tasks = {}
  /\ inq' = SubSeq(inq, Len(mbatch) + 1, Len(inq))
  /\ mbatch' = <<>>
  /\ failed' = {}
  /\ UNCHANGED <<tasks, items, procq, runnerVars, counters>>

(* The handler returns: the messages it did not report are deleted.        *)
MuxReturn ==
  /\ mbatch # <<>>
  /\ tasks = {}
  /\ inq' = Keep(mbatch, failed)
              \o SubSeq(inq, Len(mbatch) + 1, Len(inq))
  /\ mbatch' = <<>>
  /\ failed' = {}
  /\ UNCHANGED <<tasks, items, procq, runnerVars, counters>>

(* The multiplexer's lambda dies and the batch becomes visible again.      *)
MuxCrash ==
  /\ mbatch # <<>>
  /\ faults < MaxFaults
  /\ faults' = faults + 1
  /\ mbatch' = <<>>
  /\ tasks' = {}
  /\ failed' = {}
  /\ UNCHANGED <<inq, items, procq, runnerVars, stales, misread, deduped>>

-----------------------------------------------------------------------------
(* The runner of a message group                                           *)

Stop(g) ==
  /\ rbatch' = [rbatch EXCEPT ![g] = <<>>]
  /\ rpc' = [rpc EXCEPT ![g] = "idle"]
  /\ unmark' = [unmark EXCEPT ![g] = {}]
  /\ drop' = [drop EXCEPT ![g] = {}]

Deliver(g, n) ==
  /\ ~Busy(g)
  /\ n \in 1..Len(procq[g])
  /\ rbatch' = [rbatch EXCEPT ![g] = SubSeq(procq[g], 1, n)]
  /\ rat' = [rat EXCEPT ![g] = 1]
  /\ rpc' = [rpc EXCEPT ![g] = "running"]
  /\ UNCHANGED <<muxVars, items, procq, unmark, drop, ran, counters>>

(* runAsyncRules returns; markIdentifierAsProcessed begins, with the       *)
(* identifiers of the two fixed types.                                     *)
FinishRules(g) ==
  /\ rpc[g] = "running"
  /\ rpc' = [rpc EXCEPT ![g] = "clearing"]
  /\ ran' = ran \cup {Cur(g)}
  /\ unmark' = [unmark EXCEPT ![g] = RunIds[Cur(g)]]
  /\ UNCHANGED <<muxVars, items, procq, rbatch, rat, drop, counters>>

(* Update: DELETE the record from the set; the item is made if absent.     *)
Unmark(g, i) ==
  /\ rpc[g] = "clearing"
  /\ i \in unmark[g]
  /\ items' = [items EXCEPT ![i] = Item(@.group, @.recs \ {Cur(g)})]
  /\ unmark' = [unmark EXCEPT ![g] = @ \ {i}]
  /\ drop' = [drop EXCEPT ![g] = @ \cup {i}]
  /\ UNCHANGED <<muxVars, procq, rbatch, rat, rpc, ran, counters>>

(* Mutant: the Delete has no condition.                                    *)
DropAlways(g, i) ==
  /\ rpc[g] = "clearing"
  /\ i \in drop[g]
  /\ items' = [items EXCEPT ![i] = NoItem]
  /\ drop' = [drop EXCEPT ![g] = @ \ {i}]
  /\ UNCHANGED <<muxVars, procq, rbatch, rat, rpc, unmark, ran, counters>>

(* The conditional Delete succeeds.                                        *)
Drop(g, i) ==
  /\ rpc[g] = "clearing"
  /\ i \in drop[g]
  /\ items[i].recs = {}
  /\ items' = [items EXCEPT ![i] = NoItem]
  /\ drop' = [drop EXCEPT ![g] = @ \ {i}]
  /\ UNCHANGED <<muxVars, procq, rbatch, rat, rpc, unmark, ran, counters>>

(* The condition fails, the handler throws, and the whole batch comes back.*)
DropRefused(g, i) ==
  /\ rpc[g] = "clearing"
  /\ i \in drop[g]
  /\ items[i].recs # {}
  /\ Stop(g)
  /\ UNCHANGED <<muxVars, items, procq, rat, ran, counters>>

Cleared(g) == rpc[g] = "clearing" /\ unmark[g] = {} /\ drop[g] = {}

(* Mutant: the loop goes one past the batch.                               *)
NextRecordPastTheEnd(g) ==
  /\ Cleared(g)
  /\ rat[g] <= Len(rbatch[g])
  /\ rat' = [rat EXCEPT ![g] = @ + 1]
  /\ rpc' = [rpc EXCEPT ![g] = "running"]
  /\ UNCHANGED <<muxVars, items, procq, rbatch, unmark, drop, ran, counters>>

NextRecord(g) ==
  /\ Cleared(g)
  /\ rat[g] < Len(rbatch[g])
  /\ rat' = [rat EXCEPT ![g] = @ + 1]
  /\ rpc' = [rpc EXCEPT ![g] = "running"]
  /\ UNCHANGED <<muxVars, items, procq, rbatch, unmark, drop, ran, counters>>

RunnerReturn(g) ==
  /\ Cleared(g)
  /\ rat[g] = Len(rbatch[g])
  /\ procq' = [procq EXCEPT ![g] = SubSeq(@, Len(rbatch[g]) + 1, Len(@))]
  /\ Stop(g)
  /\ UNCHANGED <<muxVars, items, rat, ran, counters>>

RunnerCrash(g) ==
  /\ Busy(g)
  /\ faults < MaxFaults
  /\ faults' = faults + 1
  /\ Stop(g)
  /\ UNCHANGED <<muxVars, items, procq, rat, ran, stales, misread, deduped>>

-----------------------------------------------------------------------------
Finish(t) == Read(t) \/ GiveUp(t) \/ (\E i \in t.left : Mark(t, i)) \/ Send(t)

Multiplex ==
  \/ \E n \in 1..BatchSize : TakeBatch(n)
  \/ \E t \in tasks : Finish(t)
  \/ MuxReturn

Run(g) ==
  \/ \E n \in 1..BatchSize : Deliver(g, n)
  \/ FinishRules(g)
  \/ \E i \in unmark[g] : Unmark(g, i)
  \/ \E i \in drop[g] : Drop(g, i) \/ DropRefused(g, i)
  \/ NextRecord(g)
  \/ RunnerReturn(g)

Fault ==
  \/ \E t \in tasks : ReadStale(t) \/ SendUnanswered(t) \/ MuxError(t)
  \/ MuxCrash
  \/ \E g \in Group : RunnerCrash(g)

Next == Multiplex \/ (\E g \in Group : Run(g)) \/ Fault

Spec == Init /\ [][Next]_vars

(* Invocations run on.  The queue hands out as many messages of a group as *)
(* it has and the batch takes, again and again even if not every time.     *)
FullBatch(q) == IF Len(q) < BatchSize THEN Len(q) ELSE BatchSize

Fairness ==
  /\ WF_vars(Multiplex)
  /\ SF_vars(TakeBatch(FullBatch(inq)))
  /\ \A g \in Group : WF_vars(Run(g)) /\ SF_vars(Deliver(g, FullBatch(procq[g])))

FairSpec == Spec /\ Fairness

-----------------------------------------------------------------------------
Shared(r, s) == Ids[r] \cap Ids[s]

(* The first runs of two records with a common identifier do not overlap   *)
(* (a run that repeats one which ended may overlap others), unless a read  *)
(* missed the item of that identifier.                                     *)
FirstRunsDontOverlap ==
  \A g, h \in Group :
    g # h /\ rpc[g] = "running" /\ rpc[h] = "running" /\ {Cur(g), Cur(h)} \cap ran = {}
      => Shared(Cur(g), Cur(h)) \subseteq misread

(* The table tells the multiplexer the truth about the processor queue: a  *)
(* queued record that has not been run is in the set of each of its        *)
(* identifiers, under the group it is queued in.                           *)
QueuedIsMarked ==
  \A g \in Group : \A r \in ToSet(procq[g]) \ ran : \A i \in Ids[r] \ misread :
    items[i].group = g /\ r \in items[i].recs

(* No record stays in the set of an identifier that its runner unmarks     *)
(* once it has left the system: it would pin the identifier to a dead      *)
(* group for ever, and make every later record's Delete fail.  Only a      *)
(* second sending that the queue dropped leaves such a record behind.  An  *)
(* identifier of another type keeps every record it was marked with, and   *)
(* its first group, without any fault; that is out of this property.       *)
InSystem == ToSet(inq) \cup UNION {ToSet(procq[g]) : g \in Group}

NoOrphanMarks ==
  \A i \in Identifier : \A r \in items[i].recs :
    i \in RunIds[r] => r \in InSystem \cup deduped

(* A record that shares no identifier with another, marked or unmarked, is *)
(* run at last, even while others conflict or come back again and again.   *)
Isolated(r) ==
  \A s \in Record \ {r} :
    (Ids[r] \cup RunIds[r]) \cap (Ids[s] \cup RunIds[s]) = {}
IsolatedRecordRuns == \A r \in ToSet(Arrivals) : Isolated(r) => <>(r \in ran)

(* What "Delete the item only if the set is empty" (repository.ts:96)      *)
(* promises: the item of an identifier with more records is left alone,    *)
(* and the record that was run is done with.                               *)
RunRecordLeavesQueue ==
  \A r \in Record : r \in ran ~> \A g \in Group : r \notin ToSet(procq[g])
=============================================================================
