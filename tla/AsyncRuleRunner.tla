-------------------------- MODULE AsyncRuleRunner --------------------------
(***************************************************************************)
(* asyncRuleRunnerHandler (src/tarpon/src/lambdas/async-rule/app.ts) for a *)
(* tenant with CONCURRENT_ASYNC_RULES: lambda invocations take batches     *)
(* from a FIFO queue, and handle the records of a batch one after another. *)
(* For each record they lock its users, all at once and in no order, run   *)
(* the rules, and release the locks.  Nothing is released when a step      *)
(* throws: the batch as a whole comes back, and the items stay until their *)
(* ttl of 15 seconds has passed.                                           *)
(*                                                                         *)
(* A slot is one call of acquireLock for a record: a transfer of a user to *)
(* herself has two slots with one key.                                     *)
(***************************************************************************)
EXTENDS Naturals, Sequences, SharedLock

CONSTANTS
  Record,      \* the messages of the queue
  Group,       \* the message groups
  Backlog,     \* the messages of each group, in the order they were sent
  LockKeys,    \* getLockKeys: the users to lock for a record, one or two
  BatchSize,   \* batchSize of the event source
  MaxFailures, \* bound on invocations that throw or die
  MaxLapses    \* bound on leases that run out while the rules run

ASSUME QueueAssumption ==
  /\ Backlog \in [Group -> Seq(Record)]
  /\ LockKeys \in [Record -> Seq(Key)]
ASSUME BoundAssumption ==
  /\ BatchSize \in Nat \ {0}
  /\ MaxFailures \in Nat
  /\ MaxLapses \in Nat

VARIABLES
  queue,    \* per group: the messages not deleted yet
  source,   \* per invocation: the group its batch is from, if any
  batch,    \* per invocation: the records it was invoked with
  at,       \* per invocation: the index of the record it is at
  pc,       \* per invocation: what it does with that record
  got,      \* per invocation: the slots it has acquired and not released
  ran,      \* the records whose rules ran to the end
  failures, lapses,
  lapsed    \* ghost: keys whose lease ran out under somebody who holds them

runnerVars == <<queue, source, batch, at, pc, got, ran>>
vars == <<lockVars, runnerVars, failures, lapses, lapsed>>

Keys(r) == {LockKeys[r][i] : i \in DOMAIN LockKeys[r]}
Cur(w) == batch[w][at[w]]
Slots(w) == DOMAIN LockKeys[Cur(w)]
SlotKey(w, i) == LockKeys[Cur(w)][i]

Busy(w) == pc[w] # "idle"
Holds(w, k) == Busy(w) /\ \E i \in got[w] : SlotKey(w, i) = k
Waiting(w) == pc[w] = "locking" /\ got[w] # Slots(w)
Running(w) == pc[w] = "running"

TypeOK ==
  /\ LockTypeOK
  /\ queue \in [Group -> Seq(Record)]
  /\ source \in [Proc -> SUBSET Group]
  /\ batch \in [Proc -> Seq(Record)]
  /\ at \in [Proc -> Nat]
  /\ pc \in [Proc -> {"idle", "locking", "running", "releasing"}]
  /\ got \in [Proc -> SUBSET Nat]
  /\ \A w \in Proc : IF Busy(w)
                     THEN at[w] \in DOMAIN batch[w] /\ got[w] \subseteq Slots(w)
                     ELSE got[w] = {}
  /\ ran \in SUBSET Record
  /\ failures \in Nat
  /\ lapses \in Nat
  /\ lapsed \in SUBSET Key

Init ==
  /\ LockInit
  /\ queue = Backlog
  /\ source = [w \in Proc |-> {}]
  /\ batch = [w \in Proc |-> <<>>]
  /\ at = [w \in Proc |-> 0]
  /\ pc = [w \in Proc |-> "idle"]
  /\ got = [w \in Proc |-> {}]
  /\ ran = {}
  /\ failures = 0
  /\ lapses = 0
  /\ lapsed = {}

-----------------------------------------------------------------------------
(* The queue delivers the first messages of a group, and no more of it     *)
(* while they are in flight.                                               *)
Receive(w, g) ==
  /\ ~Busy(w)
  /\ \A v \in Proc : g \notin source[v]
  /\ \E n \in 1..BatchSize :
       /\ n <= Len(queue[g])
       /\ batch' = [batch EXCEPT ![w] = SubSeq(queue[g], 1, n)]
  /\ source' = [source EXCEPT ![w] = {g}]
  /\ at' = [at EXCEPT ![w] = 1]
  /\ pc' = [pc EXCEPT ![w] = "locking"]
  /\ UNCHANGED <<lockVars, queue, got, ran, failures, lapses, lapsed>>

(* Mutant: a key is taken whether or not somebody has it.                  *)
LockUnconditionally(w, i) ==
  /\ pc[w] = "locking"
  /\ i \in Slots(w) \ got[w]
  /\ item' = [item EXCEPT ![SlotKey(w, i)] = "live"]
  /\ owner' = [owner EXCEPT ![SlotKey(w, i)] = {w}]
  /\ got' = [got EXCEPT ![w] = @ \cup {i}]
  /\ UNCHANGED <<queue, source, batch, at, pc, ran, failures, lapses, lapsed>>

(* One of the acquireLock calls under Promise.all succeeds.                *)
Lock(w, i) ==
  /\ pc[w] = "locking"
  /\ i \in Slots(w) \ got[w]
  /\ AcquireLock(w, SlotKey(w, i))
  /\ got' = [got EXCEPT ![w] = @ \cup {i}]
  /\ UNCHANGED <<queue, source, batch, at, pc, ran, failures, lapses, lapsed>>

(* Mutant: Promise.race, the first key is enough.                          *)
StartRulesWithOneKey(w) ==
  /\ pc[w] = "locking"
  /\ Slots(w) # {} => got[w] # {}
  /\ pc' = [pc EXCEPT ![w] = "running"]
  /\ UNCHANGED <<lockVars, queue, source, batch, at, got, ran, failures, lapses, lapsed>>

(* Promise.all resolves and runAsyncRules is called.                       *)
StartRules(w) ==
  /\ pc[w] = "locking"
  /\ got[w] = Slots(w)
  /\ pc' = [pc EXCEPT ![w] = "running"]
  /\ UNCHANGED <<lockVars, queue, source, batch, at, got, ran, failures, lapses, lapsed>>

FinishRules(w) ==
  /\ Running(w)
  /\ pc' = [pc EXCEPT ![w] = "releasing"]
  /\ ran' = ran \cup {Cur(w)}
  /\ UNCHANGED <<lockVars, queue, source, batch, at, got, failures, lapses, lapsed>>

(* The key is no longer lapsed once its last holder is gone.               *)
StillHeld == {k \in lapsed : \E v \in Proc : Holds(v, k)'}

(* One of the releaseLock calls: a Delete, whoever's item is there.        *)
Unlock(w, i) ==
  /\ pc[w] = "releasing"
  /\ i \in got[w]
  /\ ReleaseLock(SlotKey(w, i))
  /\ got' = [got EXCEPT ![w] = @ \ {i}]
  /\ UNCHANGED <<queue, source, batch, at, pc, ran, failures, lapses>>
  /\ lapsed' = StillHeld

Handled(w) == pc[w] = "releasing" /\ got[w] = {}

(* Mutant: the loop over the records goes one too far.                     *)
NextRecordPastTheEnd(w) ==
  /\ Handled(w)
  /\ at[w] <= Len(batch[w])
  /\ at' = [at EXCEPT ![w] = @ + 1]
  /\ pc' = [pc EXCEPT ![w] = "locking"]
  /\ UNCHANGED <<lockVars, queue, source, batch, got, ran, failures, lapses, lapsed>>

NextRecord(w) ==
  /\ Handled(w)
  /\ at[w] < Len(batch[w])
  /\ at' = [at EXCEPT ![w] = @ + 1]
  /\ pc' = [pc EXCEPT ![w] = "locking"]
  /\ UNCHANGED <<lockVars, queue, source, batch, got, ran, failures, lapses, lapsed>>

(* The handler returns and the batch is deleted from the queue.            *)
Return(w) ==
  /\ Handled(w)
  /\ at[w] = Len(batch[w])
  /\ queue' = [g \in Group |->
                 IF g \in source[w]
                 THEN SubSeq(queue[g], Len(batch[w]) + 1, Len(queue[g]))
                 ELSE queue[g]]
  /\ source' = [source EXCEPT ![w] = {}]
  /\ batch' = [batch EXCEPT ![w] = <<>>]
  /\ pc' = [pc EXCEPT ![w] = "idle"]
  /\ UNCHANGED <<lockVars, at, got, ran, failures, lapses, lapsed>>

(* The rules throw, an acquireLock is out of attempts, or the lambda dies: *)
(* the messages become visible again and the lock items stay.              *)
Fail(w) ==
  /\ Busy(w)
  /\ failures < MaxFailures
  /\ failures' = failures + 1
  /\ source' = [source EXCEPT ![w] = {}]
  /\ batch' = [batch EXCEPT ![w] = <<>>]
  /\ pc' = [pc EXCEPT ![w] = "idle"]
  /\ got' = [got EXCEPT ![w] = {}]
  /\ UNCHANGED <<lockVars, queue, at, ran, lapses>>
  /\ lapsed' = StillHeld

-----------------------------------------------------------------------------
(* The ttl passes on an item nobody relies on.                             *)
ExpireAbandoned(k) ==
  /\ ExpireLock(k)
  /\ \A w \in Proc : ~Holds(w, k)
  /\ UNCHANGED <<runnerVars, failures, lapses, lapsed>>

(* It passes on an item whose holder still waits for its other key.        *)
ExpireWaiting(k) ==
  /\ ExpireLock(k)
  /\ \E w \in Proc : Holds(w, k)
  /\ \A w \in Proc : Holds(w, k) => Waiting(w)
  /\ lapsed' = lapsed \cup {k}
  /\ UNCHANGED <<runnerVars, failures, lapses>>

(* The rules of the record take longer than the ttl.                       *)
ExpireRunning(k) ==
  /\ ExpireLock(k)
  /\ \E w \in Proc : Holds(w, k) /\ ~Waiting(w)
  /\ lapses < MaxLapses
  /\ lapses' = lapses + 1
  /\ lapsed' = lapsed \cup {k}
  /\ UNCHANGED <<runnerVars, failures>>

Handle(w) ==
  \/ \E i \in Slots(w) : Lock(w, i)
  \/ StartRules(w)
  \/ FinishRules(w)
  \/ \E i \in got[w] : Unlock(w, i)
  \/ NextRecord(w)
  \/ Return(w)

Next ==
  \/ \E w \in Proc, g \in Group : Receive(w, g)
  \/ \E w \in Proc : Busy(w) /\ Handle(w)
  \/ \E w \in Proc : Fail(w)
  \/ \E k \in Key : ExpireAbandoned(k) \/ ExpireWaiting(k) \/ ExpireRunning(k)

Spec == Init /\ [][Next]_vars

(* Time passes; a visible message is received; an invocation runs on.      *)
Fairness ==
  /\ \A g \in Group : WF_vars(\E w \in Proc : Receive(w, g))
  /\ \A w \in Proc : WF_vars(Busy(w) /\ Handle(w))
  /\ \A k \in Key : WF_vars(ExpireAbandoned(k)) /\ WF_vars(ExpireWaiting(k))

FairSpec == Spec /\ Fairness

-----------------------------------------------------------------------------
(* Rules of two records with a common user never run at the same time,     *)
(* unless the lease of that user's key ran out under one of its holders:   *)
(* the deletes of late holders and the items left behind by failures do    *)
(* not break it on their own.  (app.ts:236-273, lock.ts:72.)               *)
ExclusiveUnlessLapsed ==
  \A v, w \in Proc :
    v # w /\ Running(v) /\ Running(w) => Keys(Cur(v)) \cap Keys(Cur(w)) \subseteq lapsed

(* Every record is run at last: neither two transfers in opposite          *)
(* directions, each waiting for the other's key, nor a transfer to oneself *)
(* nor the lock items of a dead invocation hold a record up for ever.      *)
Everything == UNION {{Backlog[g][i] : i \in DOMAIN Backlog[g]} : g \in Group}
EveryRecordRuns == \A r \in Everything : <>(r \in ran)

(* The runner does what ExclusiveProcessing says, whatever is received,    *)
(* fails and expires: each run that starts, ends or is cut short, and each *)
(* lease that lapses or is given back, is such a step there, and nothing   *)
(* else is.                                                                *)
Exclusive == INSTANCE ExclusiveProcessing WITH
  Worker <- Proc,
  User <- Key,
  Touches <- [r \in Record |-> Keys(r)],
  running <- {<<w, Cur(w)>> : w \in {v \in Proc : Running(v)}}

ProcessesExclusively == Exclusive!Spec
=============================================================================
