------------------------- MODULE AggregationUpdate --------------------------
(***************************************************************************)
(* Updating one aggregation variable of one user with new transactions, as *)
(* the rules engine does after it evaluated a rule (LogicEvaluator,        *)
(* src/tarpon/src/services/logic-evaluator/engine/index.ts).               *)
(*                                                                         *)
(* A process evaluates the rule for its transaction, then takes the lock   *)
(* of the transaction, checks the "transaction applied" marker, reads the  *)
(* time bucket of the user, writes it back with the transaction folded in, *)
(* writes the marker and releases the lock.  Several processes may handle  *)
(* the same transaction (the transaction and its events, the rules and the *)
(* risk factors that share the variable, a redelivered message).           *)
(*                                                                         *)
(* While a rule is deployed, builders (the tasks of its pre-aggregation)   *)
(* make the same bucket from the user's stored transactions.  They take no *)
(* lock: they read, write the bucket as a whole, mark the transactions of  *)
(* the last days and say that the variable is ready.  The processes are    *)
(* then those of the stream, which come after a transaction is stored.     *)
(*                                                                         *)
(* The bucket is a count per transaction: what the aggregator folded in.   *)
(* A key is a transaction in one of its directions, as lock and marker     *)
(* have the direction in their keys.                                       *)
(***************************************************************************)
EXTENDS Naturals, SharedLock

CONSTANTS
  TxOf,                  \* the transaction a process handles
  Builder,               \* the tasks that rebuild the bucket
  History,               \* the transactions stored at the start
  InRange,               \* those with timestamps in the range of a rebuild
  Recent,                \* those of the last three days, which it marks
  IncludeCurrentEntity,  \* aggregationVariable.includeCurrentEntity
  MaxFaults              \* bound on crashes and on late lock holders

ASSUME TxOfAssumption == TxOf \in [Proc -> Key]
ASSUME HistoryAssumption ==
  History \subseteq Key /\ InRange \subseteq Key /\ Recent \subseteq Key
ASSUME FlagAssumption == IncludeCurrentEntity \in BOOLEAN
ASSUME MaxFaultsAssumption == MaxFaults \in Nat

VARIABLES
  pc,       \* where each process is
  memo,     \* isTransactionApplied's memoized answer, per process
  seen,     \* the bucket as the process read it
  bucket,   \* the V8_LOGIC_USER_TIME_AGGREGATION item
  marker,   \* the V8_LOGIC_USER_TIME_AGGREGATION_TX_MARKER items
  stored,   \* the user's transactions in the database
  ready,    \* the V8_LOGIC_USER_TIME_AGGREGATION_READY_MARKER item
  stage,    \* where each builder is
  found,    \* what the builder found of the user's transactions
  faults,   \* faults so far
  exposed,  \* ghost: transactions that are open to double counting
  mixed     \* ghost: those that are open to being overwritten

building == <<stored, ready, stage, found>>
ghosts == <<exposed, mixed>>
vars == <<lockVars, pc, memo, seen, bucket, marker, building, faults, ghosts>>

Counts == [Key -> Nat]
Zero == [t \in Key |-> 0]

Critical == {"locked", "reading", "writing", "marking", "releasing"}
Active == Critical \cup {"evaluated"}

TypeOK ==
  /\ LockTypeOK
  /\ pc \in [Proc -> Active \cup {"idle", "done"}]
  /\ memo \in [Proc -> {"none", "applied", "notApplied"}]
  /\ seen \in [Proc -> Counts]
  /\ bucket \in Counts
  /\ marker \in SUBSET Key
  /\ stored \in SUBSET Key
  /\ ready \in BOOLEAN
  /\ stage \in [Builder -> {"idle", "reading", "writing", "marking",
                           "readying", "done"}]
  /\ found \in [Builder -> SUBSET InRange]
  /\ faults \in Nat
  /\ exposed \in SUBSET Key
  /\ mixed \in SUBSET Key

Init ==
  /\ LockInit
  /\ pc = [p \in Proc |-> "idle"]
  /\ memo = [p \in Proc |-> "none"]
  /\ seen = [p \in Proc |-> Zero]
  /\ bucket = Zero
  /\ marker = {}
  /\ stored = History
  /\ ready = FALSE
  /\ stage = [b \in Builder |-> "idle"]
  /\ found = [b \in Builder |-> {}]
  /\ faults = 0
  /\ exposed = {}
  /\ mixed = {}

-----------------------------------------------------------------------------
Step(p, from, to) ==
  /\ pc[p] = from
  /\ pc' = [pc EXCEPT ![p] = to]

MarkerState(t) == IF t \in marker THEN "applied" ELSE "notApplied"

(* The transaction is saved.                                               *)
Store(t) ==
  /\ t \notin stored
  /\ stored' = stored \cup {t}
  /\ UNCHANGED <<lockVars, pc, memo, seen, bucket, marker, ready, stage, found,
                 faults, ghosts>>

(* Mutant: a failed read of the marker is memoized and the rule goes on.   *)
EvaluateMemoizingFailure(p) ==
  /\ Step(p, "idle", "evaluated")
  /\ memo' = [memo EXCEPT ![p] = "failed"]
  /\ UNCHANGED <<lockVars, seen, bucket, marker, building, faults, ghosts>>

(* loadAggregationData: when the variable includes the current entity, the *)
(* evaluation asks isTransactionApplied, whose answer is memoized.  (The   *)
(* stream consumer updates without evaluating.)                            *)
Evaluate(p) ==
  /\ TxOf[p] \in stored
  /\ Step(p, "idle", "evaluated")
  /\ memo' = [memo EXCEPT ![p] =
                IF IncludeCurrentEntity THEN MarkerState(TxOf[p]) ELSE "none"]
  /\ UNCHANGED <<lockVars, seen, bucket, marker, building, faults, ghosts>>

(* The other transactions of the user whose updates are under way.         *)
Others(p) == {TxOf[q] : q \in {r \in Proc : pc[r] \in Critical}} \ {TxOf[p]}

(* A rebuild under way has found t, or has missed it and will overwrite it. *)
Found(t) ==
  \E b \in Builder : stage[b] \in {"writing", "marking"} /\ t \in found[b]
Missed(t) ==
  \E b \in Builder : stage[b] = "writing" /\ found[b] # {} /\ t \notin found[b]

Lock(p) ==
  /\ Step(p, "evaluated", "locked")
  /\ AcquireLock(p, TxOf[p])
  /\ exposed' = exposed \cup {t \in {TxOf[p]} : Found(t)}
  /\ mixed' = mixed \cup Others(p)
                    \cup {t \in {TxOf[p]} : Others(p) # {} \/ Missed(t)}
  /\ UNCHANGED <<memo, seen, bucket, marker, building, faults>>

(* isTransactionApplied under the lock: the memoized answer if there is    *)
(* one, otherwise a consistent read of the marker.                         *)
Applied(p) == IF memo[p] = "none" THEN MarkerState(TxOf[p]) ELSE memo[p]

(* Mutant: the check under the lock is left out.                           *)
CheckNothing(p) ==
  /\ Step(p, "locked", "reading")
  /\ UNCHANGED <<lockVars, memo, seen, bucket, marker, building, faults, ghosts>>

CheckApplied(p) ==
  /\ Step(p, "locked",
          IF Applied(p) = "applied" THEN "releasing" ELSE "reading")
  /\ memo' = [memo EXCEPT ![p] = Applied(p)]
  /\ UNCHANGED <<lockVars, seen, bucket, marker, building, faults, ghosts>>

ReadBucket(p) ==
  /\ Step(p, "reading", "writing")
  /\ seen' = [seen EXCEPT ![p] = bucket]
  /\ UNCHANGED <<lockVars, memo, bucket, marker, building, faults, ghosts>>

(* Mutant: the new value is reduced into aggregator.init().                *)
WriteFromInit(p) ==
  /\ Step(p, "writing", "marking")
  /\ bucket' = [Zero EXCEPT ![TxOf[p]] = @ + 1]
  /\ seen' = [seen EXCEPT ![p] = Zero]
  /\ UNCHANGED <<lockVars, memo, marker, building, faults, ghosts>>

(* aggregator.reduce on what was read, then a Put of the whole bucket.     *)
WriteBucket(p) ==
  /\ Step(p, "writing", "marking")
  /\ bucket' = [seen[p] EXCEPT ![TxOf[p]] = @ + 1]
  /\ seen' = [seen EXCEPT ![p] = Zero]
  /\ UNCHANGED <<lockVars, memo, marker, building, faults, ghosts>>

SetApplied(p) ==
  /\ Step(p, "marking", "releasing")
  /\ marker' = marker \cup {TxOf[p]}
  /\ UNCHANGED <<lockVars, memo, seen, bucket, building, faults, ghosts>>

(* releaseLock, then handleV8Aggregation clears the memoized answers.      *)
Release(p) ==
  /\ Step(p, "releasing", "done")
  /\ ReleaseLock(TxOf[p])
  /\ memo' = [memo EXCEPT ![p] = "none"]
  /\ UNCHANGED <<seen, bucket, marker, building, faults, ghosts>>

-----------------------------------------------------------------------------
(* A builder: rebuildAggregationVariable, as a task calls it.              *)

To(b, from, to) ==
  /\ stage[b] = from
  /\ stage' = [stage EXCEPT ![b] = to]

CheckReady(b) ==
  /\ To(b, "idle", IF ready THEN "done" ELSE "reading")
  /\ UNCHANGED <<lockVars, pc, memo, seen, bucket, marker, stored, ready, found,
                 faults, ghosts>>

UnderWay == {TxOf[p] : p \in {q \in Proc : pc[q] \in Critical}}

(* Mutant: the range starts three days ago.                                *)
ReadRecent(b) ==
  /\ To(b, "reading", "writing")
  /\ found' = [found EXCEPT ![b] = stored \cap InRange \cap Recent]
  /\ UNCHANGED <<lockVars, pc, memo, seen, bucket, marker, stored, ready, faults,
                 ghosts>>

(* getRebuiltAggregationVariableResult: the transactions with a timestamp  *)
(* before the one the tasks were sent with.                                *)
ReadHistory(b) ==
  LET all == stored \cap InRange IN
  /\ To(b, "reading", "writing")
  /\ found' = [found EXCEPT ![b] = all]
  /\ exposed' = exposed \cup (UnderWay \cap all)
  /\ mixed' = mixed \cup {t \in all : Missed(t)}
  /\ UNCHANGED <<lockVars, pc, memo, seen, bucket, marker, stored, ready, faults>>

Counted == marker \cup {TxOf[p] : p \in {q \in Proc : pc[q] = "marking"}}

(* rebuildUserTimeAggregations: a bucket without transactions is not put,  *)
(* any other is replaced.                                                  *)
WriteBuckets(b) ==
  /\ To(b, "writing", "marking")
  /\ \/ /\ found[b] = {}
        /\ UNCHANGED <<bucket, mixed>>
     \/ /\ found[b] # {}
        /\ bucket' = [t \in Key |-> IF t \in found[b] THEN 1 ELSE 0]
        /\ mixed' = mixed \cup (Counted \ InRange)
             \cup (IF \E p \in Proc : pc[p] = "writing" THEN found[b] ELSE {})
  /\ UNCHANGED <<lockVars, pc, memo, seen, marker, stored, ready, found, faults,
                 exposed>>

(* bulkMarkTransactionApplied, with the transactions of the last days.     *)
MarkApplied(b) ==
  /\ To(b, "marking", "readying")
  /\ marker' = marker \cup (found[b] \cap Recent)
  /\ exposed' = exposed \cup ((found[b] \ Recent) \ marker)
  /\ UNCHANGED <<lockVars, pc, memo, seen, bucket, stored, ready, found, faults,
                 mixed>>

SetReady(b) ==
  /\ To(b, "readying", "done")
  /\ ready' = TRUE
  /\ UNCHANGED <<lockVars, pc, memo, seen, bucket, marker, stored, found, faults,
                 ghosts>>

-----------------------------------------------------------------------------
(* The process throws or dies.  The lock is not released in a finally, so  *)
(* its item stays until its ttl passes.  The message is redelivered and    *)
(* handled from the start, or verifyTransactionRule swallowed the error    *)
(* and nobody retries.                                                     *)
Crash(p) ==
  /\ pc[p] \in Active
  /\ faults < MaxFaults
  /\ faults' = faults + 1
  /\ \E next \in {"idle", "done"} : pc' = [pc EXCEPT ![p] = next]
  /\ memo' = [memo EXCEPT ![p] = "none"]
  /\ seen' = [seen EXCEPT ![p] = Zero]
  /\ exposed' = IF pc[p] = "marking" THEN exposed \cup {TxOf[p]} ELSE exposed
  /\ UNCHANGED <<lockVars, bucket, marker, building, mixed>>

(* A task throws or dies, and its message comes again.                     *)
CrashBuilder(b) ==
  /\ stage[b] \notin {"idle", "done"}
  /\ faults < MaxFaults
  /\ faults' = faults + 1
  /\ stage' = [stage EXCEPT ![b] = "idle"]
  /\ found' = [found EXCEPT ![b] = {}]
  /\ exposed' = exposed \cup
       (IF stage[b] = "marking" THEN found[b] \ marker ELSE {})
  /\ UNCHANGED <<lockVars, pc, memo, seen, bucket, marker, stored, ready, mixed>>

(* The ttl passes on an item whose owner is gone.                          *)
ExpireAbandoned(k) ==
  /\ ExpireLock(k)
  /\ \A p \in Proc : pc[p] \in Critical => TxOf[p] # k
  /\ UNCHANGED <<pc, memo, seen, bucket, marker, building, faults, ghosts>>

(* The ttl (15 s) passes while a process is still inside the update.       *)
ExpireLate(k) ==
  /\ ExpireLock(k)
  /\ \E p \in Proc : pc[p] \in Critical /\ TxOf[p] = k
  /\ faults < MaxFaults
  /\ faults' = faults + 1
  /\ exposed' = exposed \cup {k}
  /\ UNCHANGED <<pc, memo, seen, bucket, marker, building, mixed>>

Update(p) ==
  \/ Lock(p)
  \/ CheckApplied(p)
  \/ ReadBucket(p)
  \/ WriteBucket(p)
  \/ SetApplied(p)
  \/ Release(p)

Rebuild(b) ==
  \/ CheckReady(b)
  \/ ReadHistory(b)
  \/ WriteBuckets(b)
  \/ MarkApplied(b)
  \/ SetReady(b)

Next ==
  \/ \E t \in Key : Store(t)
  \/ \E b \in Builder : Rebuild(b) \/ CrashBuilder(b)
  \/ \E p \in Proc : Evaluate(p) \/ Update(p) \/ Crash(p)
  \/ \E k \in Key : ExpireAbandoned(k) \/ ExpireLate(k)

Spec == Init /\ [][Next]_vars

(* A lambda invocation runs on, and time passes.                           *)
Fairness ==
  /\ \A p \in Proc : WF_vars(Evaluate(p)) /\ WF_vars(Update(p))
  /\ \A k \in Key : WF_vars(ExpireAbandoned(k))

FairSpec == Spec /\ Fairness

-----------------------------------------------------------------------------
(* A transaction is folded into the bucket at most once, whatever          *)
(* processes and builders handle it, unless it was exposed: a process or a *)
(* builder died between the bucket write and the marker write, a process   *)
(* outlived the lock's ttl, a builder that had found it overlapped with an *)
(* update of it, or a builder counted it and did not mark it, as it was    *)
(* older than three days.                                                  *)
(* (logic-evaluator/engine/index.ts: lock, marker check, marker write.)    *)
CountedOnce == \A t \in Key \ exposed : bucket[t] <= 1

(* What the comment above acquireLock promises: no double counting when    *)
(* several events are processed at the same time.                          *)
NoDoubleCount == \A t \in Key : bucket[t] <= 1

(* A transaction with a marker is in the bucket: no process of another     *)
(* transaction has overwritten it, and a process that died has not marked  *)
(* what it did not count, as it would be skipped for good.  The lock is    *)
(* the transaction's and builders take none, so this holds only for one    *)
(* that was not mixed: its update overlapped with that of another, it      *)
(* began while a builder that had missed it was about to write, it is out  *)
(* of the range of a rebuild that replaced the bucket, or a process wrote  *)
(* back what it had read before the rebuild.                               *)
AppliedIsCounted == \A t \in marker \ mixed : bucket[t] >= 1

(* A variable that is ready has the whole history in its bucket: no update *)
(* of a transaction of the deployment, and no other builder, has           *)
(* overwritten what a builder wrote (but for what was mixed).              *)
ReadyHasHistory ==
  ready => \A t \in (History \cap InRange) \ mixed : bucket[t] >= 1

(* A lock left behind by a process that died does not hold up the other    *)
(* processes of the transaction for ever.                                  *)
LockIsRecovered ==
  \A p \in Proc : pc[p] = "evaluated" ~> pc[p] \in {"idle", "done"}

=============================================================================
