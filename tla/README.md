# TLA+ models of the transaction-monitoring backend

The repository is an AML and fraud monitoring product. `tarpon/` is the backend:
AWS lambdas behind a public API and a console API, with DynamoDB tables, MongoDB,
SQS queues (FIFO and plain), Kinesis streams and Step Functions between them.
`phytoplankton-console/` is the React console, `lib/` holds shared code. This
directory models the parts of `tarpon/` in which several processes change common
state without a transaction: the rules pipeline, the deployment of rules, the
approval of changes, the lock of a user's risk level, and the making and closing of
cases.

Paths below are relative to `src/tarpon/src/` unless they start with `src/`.

1. [Inventory](#1-inventory)
2. [Modules](#2-modules)
3. [Runs](#3-runs)
4. [Fairness](#4-fairness)
5. [Proofs](#5-proofs)
6. [What is not modelled](#6-what-is-not-modelled)
7. [Plan](#7-plan)

## 1. Inventory

### How a transaction flows

    public API ── verify rules synchronously ──► aggregation buckets (DynamoDB)
        │                                             ▲
        └─► async rule queue (FIFO) ─► runner ────────┤   locks: transient table
              │ (multiplexed tenants)    ▲            │
              └─► multiplexer ─► processor queue      │
                     │                ▲               │
                     └── table of identifiers         │
                                                      │
    console ─► save rule ─► pre-aggregation job ─► tasks ─► rebuild of buckets
            └► propose a change ─► approval steps ─► applied to the user
                          scores, console, untimer job ─► CRA and its lock ◄─┘
    DynamoDB streams ─► MongoDB copies, case creation ─► cases, alerts, webhooks

### Components

| component | state it keeps | operations | what is hard | what makes it correct |
|---|---|---|---|---|
| Shared lock (`utils/lock.ts`) | an item with a ttl per key | acquire with backoff, release | the ttl passes under a holder; release deletes anybody's item | exclusion while leases last |
| Aggregation update (`services/logic-evaluator/engine`) | a bucket per user and time, a marker per transaction, a ready marker | evaluate, lock, check, read, write, mark; rebuild from history | several events and rules update one bucket; crash between two writes; a memoized check; rebuilds that take no lock | each transaction counted exactly once; ready means that the history is there |
| Async rule runner (`lambdas/async-rule/app.ts`) | batches in flight, the locks they hold | receive, lock the users, run, release, return | two keys taken in no order, ttl as the only way out, redelivery of whole batches | no two runs for one user; every record runs |
| Transaction multiplexer (`services/transaction-multiplexer`, `lambdas/async-rule-multiplexer`) | a table: identifier → message group and queued records | connect, read, mark, send; unmark, delete | stale reads, crashes between mark and send, conditional deletes | records of one identifier stay in one message group; nothing is left behind |
| Grouping of a batch (`multiplexer-utils.ts`, `utils/dsu.ts`) | a disjoint-set forest | find with compression, union, push | particular sequences of unions | groups are connected components, in order |
| Rule deployment (`services/rules-engine`, `lambdas/transaction-aggregation`, `services/batch-jobs/rule-pre-aggregation-…`) | rule status and version, job counters, queue of tasks | save, job attempts, tasks, activation | counting tasks while they are still sent, retries, saves in between | live means built; a deployment ends |
| Approval of user changes (`services/users`, `services/workflow`) | one pending proposal with its step and workflow version | propose, accept, reject, cancel, apply, restart | read–decide–write without conditions, new workflow versions, a lock on what is changed | every step accepted; a decision stands |
| Approval of risk changes (`services/risk`) | pending risk levels and factors | the same steps, over settings of the tenant | the same | planned |
| Risk scoring (`services/risk-scoring`) | KRS, ARS, CRA scores, overrides; of the CRA a lock, and an item per timed lock | recompute, set a level by hand, lock, unlock, end the locks that ran out | a lock set while a change or a score is under way; assignment and item written one after the other | a locked level stays; a timed lock ends when its time has come, and no other does |
| Stream consumers (`core/dynamodb/dynamodb-stream-consumer-builder.ts`, `lambdas/*-change-mongodb-consumer`) | MongoDB copies, with the version each has | group updates by key, lock, drop what is not newer, store, react | reordered and repeated updates; what is stored before the reaction to it is done is not done again | every version's hits become alerts (transactions only) |
| Case creation (`services/cases/case-creation-service.ts`) | case documents with their alerts, counters of ids | lock the subject, read, create, extend or split, write, relate | documents read and replaced whole; the lock is on the version of the user; related cases written without it; a death between the halves of a split | no second case for a subject; no hit and no update of a case lost |
| Cases and alerts (`services/cases`, `services/alerts`) | status, assignments, escalation | close alerts or cases, each with the other | hits that come while somebody looks, writes in two collections' worth of steps | the alerts of a closed case are closed (escalation and review: not modelled) |
| Webhooks (`lambdas/webhook-deliverer`, `services/webhook`) | retry events, delivery counts | deliver, retry, disable | late answers, retry job against deliverer | planned |
| Batch jobs (`services/batch-jobs`, `lambdas/batch-job-*`) | a document in MongoDB and an item in DynamoDB per job | send, look up, insert, start once, run, retry | repeated and concurrent deliveries of the message, look-ups before inserts, two stores written one after the other, attempts that die without a word | a job that was asked for is started, whoever dies; one that has ended does not look as if it ran |
| SLA, lists, sanctions, simulation, flat files, counters, accounts, notifications, copilot, SAR, analytics, tenants, CRM, API handlers, generated models, console, infrastructure | see `PROJECT.json` | CRUD, search, file and network I/O | little that interleaves | not modelled; each with its reason |

`PROJECT.json` lists every component with its status, and under `hazards` each place
where an order of events nobody wrote a test for could go wrong, with the
properties about it or the reason why there is none.

## 2. Modules

| module | extends | models |
|---|---|---|
| `SharedLock` | | `utils/lock.ts`, the lock both pipelines use |
| `AggregationUpdate` | `SharedLock` | the update of a user's time bucket |
| `AggregationUpdateProofs` | `AggregationUpdate` | its theorems |
| `ExclusiveProcessing` | | abstract: what the runner's locks are for |
| `AsyncRuleRunner` | `SharedLock`, instance of `ExclusiveProcessing` | `asyncRuleRunnerHandler` |
| `AsyncRuleRunnerProofs` | `AsyncRuleRunner` | its theorems, and the refinement |
| `Filtering` | | `Keep`, the filter of an array |
| `SequenceLemmas` | | what the proofs need of sequences, of `Keep`, and of induction over sets of numbers |
| `BuildGroups` | | `buildGroups` over the DSU |
| `BuildGroupsProofs` | `BuildGroups`, `SequenceLemmas` | its theorems |
| `RuleMultiplexer` | `Filtering` | multiplexer, its table, and the runner behind it |
| `RuleMultiplexerProofs` | `RuleMultiplexer`, `SequenceLemmas` | its theorems |
| `BatchJob` | | a batch job from its message to the end of its execution, in both stores |
| `RuleDeployment` | `BatchJob` | saves, job, tasks and activation |
| `RuleDeploymentProofs` | `RuleDeployment` | lemmas about the steps of a `BatchJob`, and the theorems |
| `UserApproval` | | proposals and their decisions |
| `CraLock` | | a user's CRA, its lock, scores and the job that ends locks |
| `RiskApproval` | `UserApproval`, `CraLock` | proposed changes of a CRA |
| `RiskApprovalProofs` | `RiskApproval` | the theorems about `UserApproval` and `CraLock`, that the composition implements both, and what follows |
| `CaseCreation` | `SharedLock`, `Filtering` | stream consumers that make cases, and a person who closes them |
| `CaseCreationProofs` | `CaseCreation`, `SequenceLemmas` | its theorems |
| `MC…` | each of the above | instances for TLC |

Every action is one atomic access to shared state (a DynamoDB call, a queue
operation) together with the local code up to the next one. "Ghost" variables
record history for the properties; no guard reads them. Operators marked
"Mutant" are plausible bugs; each run's properties are known to be violated when
the code's definition is replaced by its mutant.

### SharedLock and AggregationUpdate

`item[k]` is the lock item: absent, live, or expired but still stored.
`AcquireLock` is the conditional put (`attribute_not_exists OR ttl < now`),
`ReleaseLock` an unconditional delete. The clock is reduced to whether an item's
ttl has passed.

A process of `AggregationUpdate` goes through `Evaluate` (`loadAggregationData`,
which memoizes `isTransactionApplied` when the variable includes the current
entity), `Lock`, `CheckApplied`, `ReadBucket`, `WriteBucket`, `SetApplied` and
`Release` (`updateAggregationVariableInternal…`). `Crash` is an exception or a
dead lambda anywhere between: there is no `finally`, so the lock stays; the
message comes again, or `verifyTransactionRule` swallowed the error and it does
not. The bucket is abstracted to how often each transaction was folded in, which
is what double counting and lost updates are about. One user, one time bucket and
one variable; a `Key` is a transaction in one direction, so a transfer to oneself is
two keys.

A *builder* is a task of the pre-aggregation, `rebuildAggregationVariable`:
`CheckReady`, `ReadHistory`, `WriteBuckets`, `MarkApplied`, `SetReady`, and
`CrashBuilder`. It takes no lock. While a rule is deploying, the processes are those
of the stream consumer, so `Evaluate` waits until `Store` has saved the transaction;
with `History = Key` and no builder the model is that of a live rule. `InRange` are
the transactions with a timestamp before the one the job gave its tasks, `Recent`
those of the last three days, which alone a rebuild marks. The read of the history is
one step. Not modelled: variables over user events, `lastNEntities`, time slices of a
task, rebuilds that an evaluation starts itself, and the timeout after which a
rebuild takes what it has for all.

### AsyncRuleRunner and ExclusiveProcessing

For tenants with `CONCURRENT_ASYNC_RULES`. Invocations take prefixes of message
groups; for each record all `acquireLock` calls run under `Promise.all` (a *slot*
is one such call, so a transfer to oneself has two slots with one key); then rules
run; then the keys are deleted, whoever has them by then. `Fail` returns the batch
to the queue and leaves the items. The three `Expire…` actions tell apart a ttl
that passes on an abandoned item, on one whose holder waits for its other key, and
under a run (bounded by `MaxLapses`). `ExclusiveProcessing` is the promise:
records that touch a common user are never processed at once.

### BuildGroups and RuleMultiplexer

`BuildGroups` is the algorithm, step by step, on every batch within its bounds;
its reference definition is reachability by shared identifiers. `RuleMultiplexer`
uses that reference (`Component`) and models the protocol: a batch's connected
groups are tasks that run concurrently; each reads the items of its identifiers,
chooses a message group, marks identifiers one by one, and sends. The FIFO queue
drops a message that was sent to the same group before (`Accept`). Behind it a
runner per message group runs records, unmarks them and deletes empty items; a
refused delete throws and brings the batch back.

Abstractions, all of which a reader should know: the infrastructure code has no
event source for the processor queue, and its consumer is taken to be
`asyncRuleRunnerHandler`, which unmarks; its batches are taken per message group;
mapping calls that go on in the background after one of them threw are not
modelled; nor are message retention and dead-letter queues (a message that fails
comes back for ever); the tenant's aggregation variables do not change; the records
of a batch have distinct ids.

`Ids` and `RunIds` are two constants because the code has two sets. The multiplexer
marks the identifiers of every aggregation type of the tenant's variables
(`services/transaction-multiplexer/index.ts:54-64`), the runner unmarks those of
`USER_TRANSACTIONS` and `PAYMENT_DETAILS_TRANSACTIONS` (`lambdas/async-rule/app.ts:254-262`,
where a comment says that other types are missing). So the marks of another type, a
name or an address, are never removed: without any fault such an identifier keeps its
first message group for ever, and a record with two of them in different groups
conflicts for ever. And an identifier of the two types that the tenant has no variable
of gets an empty item, which is deleted at once. Both are in the model and in the
instance of `multiplexer_safety`.

### BatchJob and RuleDeployment

`BatchJob` is what all batch jobs have in common. The message is handled by
invocations (`Trigger`) that look the job up (`LookUp`, always in MongoDB, as the
consumer knows no features of the tenant), insert it (`Insert`) and start an
execution under the job's name (`StartExecution`, which starts it once). `Insert`
replaces the item of DynamoDB first; if the job is in MongoDB by then, the unique
index of job ids refuses it, the invocation throws and the message comes again.
`Store` says what the region and the tenant have: MongoDB only, both, or both with
DynamoDB read. The execution makes up to `MaxAttempts` attempts; one may succeed,
fail (the job is FAILED until it is tried again) or die and write nothing.
`TriggerFails` is an invocation that dies, or one that goes on although its message
was given to another. What a job does, and what may fail, is left to the module
that extends this one. Abstractions: a write of both stores is one step; of the
history of statuses only the latest is kept; `isAnyJobRunning` is what it sees of
one job (in DynamoDB it applies its limit of one item before its filter, so that it
may miss a job that runs, which is not modelled).

`RuleDeployment` is one rule or risk factor (`Kind`) with one aggregation variable,
one console session, any number of versions up to `MaxSaves`; the job of a version
is a `BatchJob`. The save is three writes
(`Put`, `SetDeploying`, `CreateJob`) and a response that shows the status that was
asked for, and dies anywhere (`SaveFails`); `Put` is `getLogicAggVarsWithUpdatedVersion`
with the table of variables
in use. An attempt of the job sends a task per target, adds the number of tasks to the
job's total, and ends as a success. A consumer reads
the rule when the task arrives, rebuilds or skips, counts, compares, looks at the
job, and activates. `Die` gives the message back. Where the job's item in DynamoDB
has lost its metadata, no count can be written (`CountRefused`, `TaskCountRefused`).
Not modelled: deletion of rules, variables shared by rules, time slices of a task,
and the manual pre-aggregation feature.

### UserApproval

One proposal for a field that has a workflow. A request reads the item, decides
from what it read, and writes without a condition, so between `Begin` and the
write everything else may happen, including `SaveWorkflow`, `FindPending` and
`PutBack`, which restart what is pending under a new version with another chain.
The status is left out, as a stored item is always PENDING. An eventually
consistent read that is stale is a request that began earlier. The role check of
an approver is disabled in the code and so is not there. Applying is one step here,
and `autoApplyPendingUserApprovals` has no caller and is not modelled.

### CraLock and RiskApproval

`cra` is the assignment of one user: its level, `updatable` (`isUpdatable`), whether
`lockedAt` is there, and `expires` (`lockExpiresAt`, 0 if it is not there). `timers`
are the user's `drs-lock` items, by the time each has in its key. A change goes
through `BeginChange`, which reads the assignment and decides, and then the writes of
its path: `SetLevel` and `PutTimer` (`createOrUpdateManualDRSRiskItem`, the
assignment first), `PutTimer` and `SetLock` (locking with
`updateRiskAssignmentLock`, the item first), or `FindTimers`, `RemoveTimer` and
`Unlock` (unlocking). `Abandon` is a death between any two. A score is `BeginScore`, which reads, and `WriteScore`.
The untimer job is `FindExpired`, a `ReleaseLock` per item, and `Clean`, or
`SweepFails`. A change is `unaware` if it did not look at the lock: the console's
manual assignment has no check, a request of the API that unlocks skips it, and
`getDrsScore` answers an error with "no assignment", which passes for an unlocked
one. `now` only grows when `Tick` says so, and each lock runs out at one of
`1..MaxTime`.

`RiskApproval` composes the two: `Apply` of a reviewer, or `AutoApprove` of the
proposer, is the `BeginChange` of the same request, so that a change which the lock
refuses leaves the proposal where it is; when the writes are done the request deletes
the proposal. The console and the scores act on their own.

Not modelled: users without an assignment and tenants without `CRA_LOCK_TIMER` (their
locks are the perpetual ones); several users in one run of the job, and its batches of
25; the deaths of the console's and of the proposer's requests in the runs (the proofs
have them). A level stands for the score and the level derived from it.

### CaseCreation

A consumer takes a version of a transaction (`Deliver`: the version check and the
store are one step, under the lock on the transaction's id), and goes through the
case groups the version hit (the constant `Groups`: which subjects
`getTransactionSubjects` selects, and how `createCaseGroups` groups them, is an input
of the model): `Lock`, `ReadCases`, one `WriteCase` per document,
`Unlock`; with several documents written, `Relate` writes each of them again, from
the copies in `saved`. `ReadCases` holds the decisions: which hits
`filterDuplicateHitRules` lets through, which open case takes the hits (any that is not full, as the timestamps
do not order the inserts), and how a document with too many alerts is cut in two.
The lock's key is the checksum of the user's document, so a *version* of a user is
a `Key`, and `UserOf` tells whose it is. `Throw` runs the `finally`, `Die` does
not, and in both cases the message that comes again finds the version stored.
`person` is the console: `ChooseCase` or `ChooseAlert`, then `SetCase` and
`SetAlerts` in the order of the cascade, with `Check` and `Reread` where closing
the last alert closes its case.

Abstractions: one alert per rule and no delay, frozen or default status, so that
the alerts of a case are told apart by their rule; the two queries of
`ReadCases` are one step; `handleUser` and cases made from alerts by hand are left
out, as are escalation, review and comments; the lock on the transaction's id does
not lapse; and the requests of the person do not fail half-way, although
`withTransaction` does not make them one transaction.

## 3. Runs

| run | instance | properties | shows |
|---|---|---|---|
| `aggregation_updates` | 2 processes for one transaction in range, 1 for another out of range, 1 builder, 1 transaction of the history, 1 fault | `TypeOK`, `CountedOnce`, `AppliedIsCounted`, `ReadyHasHistory`, `LockIsRecovered` | at most one count per transaction unless it was exposed; marked stays counted and a ready variable has its history unless mixed; an abandoned lock does not hold others up |
| `aggregation_memo` | the same with `includeCurrentEntity`, no fault | `NoDoubleCount` — **violated** | the check under the lock repeats an answer from before the lock |
| `runner_crossing` | transfers A→B, B→A, A→A in two groups, 2 failures, 1 late run | `TypeOK`, `ExclusiveUnlessLapsed`, `EveryRecordRuns`, `ProcessesExclusively` | overlap only after a lease ran out; no deadlock outlasts the ttl; the runner implements `ExclusiveProcessing` |
| `multiplexer_safety` | records marked at {x}, {y,n}, {x,y,n} and unmarked at {x}, {y}, {x,y,z}, batches of 2, 1 error or crash, 1 stale read | `TypeOK`, `FirstRunsDontOverlap`, `QueuedIsMarked`, `NoOrphanMarks` | the table tells the truth about the queue, and at the identifiers a record's runner unmarks nothing of it stays behind |
| `multiplexer_isolated` | two records of one identifier, one isolated that is unmarked where it was not marked, no fault | `IsolatedRecordRuns` | a conflict that comes back for ever does not hold up a third record |
| `multiplexer_stuck` | the same | `RunRecordLeavesQueue` — **violated** | the refused delete brings a record that was run back for ever |
| `groups` | every batch of 3 messages with up to 3 of 4 identifiers | `TypeOK`, `RootsAreComponents`, `GroupsAreComponents`, `GroupsShareNoIdentifier`, `BatchOrderKept` | `buildGroups` computes connected components in order |
| `deployment_safety` | a rule, 2 saves (the second version without data), 2 workers, 1 invocation that starts jobs, both stores, 1 fault of a save, a start or a task | `TypeOK`, `ActivationIsEarned`, `CountedIsBuilt`, `DeployingHasJob` | with the exemptions below, activation sees every task counted, what was counted for the rule's version is built, and a deploying rule has a job |
| `deployment_progress` | a risk factor, 1 save, 2 invocations that start jobs, 2 attempts, DynamoDB read, 1 fault of a start, an attempt or a task | `ActivationIsEarned`, `EndedIsNotRunning`, `LateTaskGoesLive` | a task that ends after the job ends the deployment; an ended job does not keep others from starting |
| `deployment_stuck` | a rule, 1 save, no fault | `LiveOnceDeployed` — **violated** | tasks that are all counted before the job's success leave the rule deploying for ever |
| `approval_safety` | a proposed change of a CRA, 2 requests, 2 new versions with chains of 2, 1, 2 steps, the console, 1 score, the job; of console changes, scores, versions and failures at most 2, of failures 1; 1 time at which locks run out | `RiskTypeOK`, `StepsAccepted`, `UndisturbedIsFinal`, `ItemsMatchLock`, `LockedLevelStays` | applied only after every step, unless a request crossed versions; an undisturbed decision stands; who finds the lock does not change the level; an undisturbed lock has its item and no other |
| `cases_safety` | 2 consumers, a user in 2 versions and another, 2 transactions in 2 versions each, one of them with other rules when it comes again, 2 alerts and 2 transactions per case, 1 act of a person, 1 fault | `TypeOK`, `NoTwinCases`, `HitsKept`, `LostUpdateHasCause`, `OneCasePerAlert`, `ClosedCasesAreDone` | hits that the filter lets through are in alerts of their own and stay there, and cases are not made twice, as long as no document is written back from an older copy; and which writes do that |

### The three disagreements

- `aggregation_memo`: the comment above `acquireLock` in the engine says the lock
  prevents double counting when several events run at once; the check of the
  marker under the lock is memoized from before it.
- `multiplexer_stuck`: the comment says the item is deleted *only if the set is
  empty*; the failed condition is thrown, so a non-empty set fails the batch.
- `deployment_stuck`: the console says the rule *will be live once deployed*; the
  consumer only activates if the job is already a success.

### Exemptions

Several properties hold only with an exemption, and the exemption is the part of
the statement a reader should look at. Each is a ghost variable or a conjunct,
and without it TLC finds a counterexample:

- `exposed` (aggregation): a process or a builder died between bucket and marker, a
  process outlived the lock's ttl, a builder that had found the transaction
  overlapped with an update of it, or counted it without a marker, as it was old.
- `mixed` (aggregation): the lock is the transaction's and the bucket the user's,
  so two transactions of a user updated at once may overwrite each other. And the
  rebuild takes no lock: an update that begins between its read and its write is
  overwritten, and one that read the bucket before that write undoes the rebuild,
  history included, while the variable is ready. A transaction out of a rebuild's
  range needs no overlap: it was counted and marked while the rule was deploying, the
  task comes after that, and the bucket of the day is replaced by one without it.
- `lapsed` (runner): a lease ran out under somebody who relies on it, which
  waiting for the second key is enough for.
- `misread` and `deduped` (multiplexer): a read missed an item just written; a
  second sending was dropped by the queue after its marks were written. And
  `NoOrphanMarks` is about the identifiers in `RunIds`: marks at others always stay
  (see section 2).
- `repeated`, `tasks > 0`, `reusable` (deployment): a retry or a redelivery counted
  a task twice; the task was counted while the total was 0, when any comparison
  held; the version was disabled while its tasks ran, and they were skipped, or the
  rule left it while it was in use. The last takes five saves: two workers pass the
  comparison with a total of 0, and the second switches the rule on only after it
  was disabled; the page is reloaded in the middle of the next save, which then dies,
  and shows a rule that is live; the switch turned off sends that old version, and as
  the save before found the rule DEPLOYING the newer version stays in the table of
  variables in use. Its tasks are skipped, and the next save takes it up again as
  one that is there. `CountedIsBuilt` is about rules: a risk factor that is deploying
  has its tasks skipped.
- `abandoned` (deployment): the save died between the rule and the job; nothing in
  the code finds such a rule.
- `overlapped`, `silent` (batch jobs): two invocations handled the job's message at
  once. The later insert resets the item of DynamoDB while the job runs or after it
  ended, and takes its metadata, without which no count is written: a job that is a
  success is PENDING again, and the tasks of one that runs come back for ever. It
  does no harm where MongoDB is read and is the only store. And an attempt that is
  stopped from outside leaves the job IN_PROGRESS, if it was the last.
- `crossed` (approval): a request that read the proposal under one version of the
  workflow set the step of another. The same writes can leave a proposal past the
  end of a shorter chain, or make an item without its changes after a delete; two
  requests that overlap can both decide.
- `early`, `unaware` (CRA): a request that had read the assignment before it was
  locked writes all the same, and undoes the lock with it; so does one that does not
  look. `LockedLevelStays` is that nobody else does: `early` is emptied of a request
  as soon as it writes, and who begins under the lock is not in it.
- `orderly`, `alone` (CRA): the item of a lock is only sure while changes of the lock,
  and the job, do not overlap, none dies between its two writes, and no timed lock is
  replaced without an unlock. After any of these an item may be left behind that ends
  a later lock too soon (the job's condition is that there is some lock), or a lock
  may be left that nothing ends. An unlock with nobody in between (`alone`) removes
  what it finds, and everything is in order again.
- `lapsed`, different keys, `half`, `overwritten`, `late` (cases). Two open
  cases with room: after a lease ran out, for two versions of the user, as the rest
  of a split case, or after a document was written back from an older copy. The
  comment at `services/cases/case-creation-service.ts:1519` says that the lock is
  there to avoid duplicate cases for a subject; with the checksum of the user as its
  key it does so for one version of the user. `overwritten` records each
  replacement of a document that had changed since it was read, and
  `LostUpdateHasCause` says who can do that: two locks, the rewriting of related
  cases, or the person's writes. `HitsKept` needs no exemption for the delivery that
  dies between the halves of a split: `updateExistingCase` puts the new alerts last,
  so the half that is written first has all that the case had. `late` is a case closed over an alert that
  came between the look and the write.
- `masked` (cases): `filterDuplicateHitRules` drops a hit whose rule has any alert in
  a case that has the transaction, be it by the alert of another rule
  (`services/cases/case-creation-service.ts:1887-1906`). A transaction t hits r3, and
  the alert joins a case where r1 has one for another transaction; t comes again with
  r1 and r3. Both rules have an alert in a case with t, so both hits are dropped, and
  (t, r1) is in no alert, for good. (Had a third rule been let through, t would have
  been added to the open alert of r1 too.) The comment at :1774 speaks of rules *that
  already have cases for the same transaction*, which says no more than the code does,
  so this is listed as a hazard. `HitsKept` says that the filter loses a hit in this
  way only, and nothing else loses one at all.

### Bounds

Processes: two or three, which is enough for a stale read, a write in between and
the late write; a third is there where a released lock lets somebody in, or two
conflicting parties need a bystander. Records: as many as it takes to connect two
independent ones. Faults: one or two, each at any step; the exemptions above are
stated for any number, and the theorems prove them for any number. Saves: two,
so that an edit, a deactivation or a stale page meets a running deployment; the
second version has nobody to aggregate, so that both ways of going live occur.
Jobs: two attempts, and two deliveries at a time where the question is what their
meeting does; `Faulty` says whose steps may fail in a run, and the proofs allow all of them.
Cases hold two alerts and two
transactions: an alert of each of two transactions in one case is what the filter for
duplicates needs to go wrong, and a third alert splits the case; two versions of a user, as two locks are as
many as it takes. Message groups: as many as records. Chains get shorter with each version, which is
the direction in which a stale step goes past the end. One time of release is enough
for a lock to end too soon, as a perpetual lock over a timed one would show the item
that was left; two console
changes, scores, versions or failures are enough for one to meet another and for an
exemption to be used up and earned again, while a proposal's change is there besides. `MaxMessages` and
`MaxConnectors` are 3 over four identifiers: the smallest at which two classes
with more than one element are united through a third message.
Deadlock checking is off, as every system here may stop: the queues are
drained, and the bounds end the rest.

## 4. Fairness

- Aggregation and runner: weak fairness of each invocation's next step, since a
  running lambda goes on until it returns, throws or dies; of the delivery of a
  visible message; and of a ttl that passes. Nothing makes a crash happen.
- Multiplexer: weak fairness of each invocation, and strong fairness of delivering
  a full batch. SQS may hand out fewer messages than it has; without the strong
  form it could hand out only the head of a group for ever. It may not do so, as
  its polling covers what is visible, and the property is false without it.
- Deployment: weak fairness of a save in progress, of the invocations that start the
  job, of the job (the state machine retries it) and of the consumers. The console is not fair: nobody has to click.
- Approval and CRA: no liveness. Nobody has to approve, and a lock without its item
  never ends.
- Cases: no liveness. A delivery that throws is not made good (see the hazard at
  `lambdas/tarpon-change-mongodb-consumer/app.ts:602`), and nobody has to close a case.

## 5. Proofs

TLAPS proves, for every value of the constants:

| theorem | states | argument |
|---|---|---|
| `AggregationUpdateProofs!TypeCorrect` | `[]TypeOK` | action by action |
| `…!CountedOnceHolds` | `[]CountedOnce` if the variable does not include the current entity | `IInv`: who is inside for an unexposed transaction owns its item (`InsideOwns`), nothing is memoized before the lock (`MemoFresh`), who passed the check is still right (`CheckHolds`), no builder has found what is being updated (`FoundApart`), and what is not marked or about to be is in no bucket, stored or carried (`UncountedIsZero`) |
| `…!AppliedIsCountedHolds`, `…!ReadyHasHistoryHolds` | `[]AppliedIsCounted`, `[]ReadyHasHistory`, no assumption on the flags | `CountedInv`: what the bucket should have is in it and in whatever is about to be written back (`DueIsKept`); a builder about to write has found all that others touched (`WriterHasFound`); both but for what is mixed |
| `AsyncRuleRunnerProofs!TypeCorrect` | `[]TypeOK` | action by action |
| `…!Exclusion` | `[]ExclusiveUnlessLapsed` | `Held`: the item of a key that has not lapsed belongs to the one slot that believes to hold it; a run holds all its slots |
| `…!RunnerRefinesExclusive` | `ProcessesExclusively`, for any number of users per record, failures and leases that run out | a lapse maps to the abstract `Lapse`, the last late holder's release to `Recover`; by `Held` a start meets nobody inside whose users have not lapsed; each other step maps to a step of `ExclusiveProcessing` or a stutter |
| `RiskApprovalProofs!TypeCorrect` | `[]TypeOK`, with no request past the end of the chain it read | action by action |
| `…!StepsAcceptedHolds` | `[]StepsAccepted` | `StepsInv`: the step of what is stored, and of what any request has read, was earned by acceptances of all the steps before it, unless the version was crossed |
| `…!UndisturbedIsFinalHolds` | `[]UndisturbedIsFinal` | `FinalInv`: after such a decision, as before the proposal, nothing is stored and nobody holds it |
| `…!CraTypeCorrect` | `[]CraTypeOK` | action by action |
| `…!LockedLevelStaysHolds` | `LockedLevelStays`, for any changes and scores, also those that do not look | `LevelInv`: while the assignment is locked, whoever is about to write the level had read it before that, or did not look |
| `…!ItemsMatchLockHolds` | `[]ItemsMatchLock` | `LockInv`: while nothing overlaps there is one change at a time, or the job (`OneAtATime`); it knows what its writes so far have left (`PathInv`), and the job has released at most the lock's own item (`SweepInv`) |
| `…!ImplementsApproval`, `…!ImplementsLock` | `RiskSpec => Spec`, `RiskSpec => CraSpec` | `PartSteps`: each step of the whole is one of each part or a stutter |
| `…!RiskTypeCorrect`, `…!RiskApprovalsHold`, `…!RiskLocksHold` | `[]RiskTypeOK` and the four properties, of `RiskSpec` | from the two |
| `BuildGroupsProofs!TypeCorrect` | `[]TypeOK` | from the invariant of the next row |
| `…!RootsAreTheComponents` | `[]RootsAreComponents`, for any identifiers and batches | the map is a forest: a rank falls on the way to each representative (`Ranked`), so `find` ends there (`RootIsRep`). Compression keeps representatives, union hands those of a tree another (`CompressedForest`, `LinkedForest`); so the identifiers of a united message have one root (`Joins`), and no tree crosses what no united message straddles (`Apart`) |
| `…!GroupsAreTheComponents`, `…!NothingShared`, `…!OrderKept` | `[]GroupsAreComponents`, `[]GroupsShareNoIdentifier`, `[]BatchOrderKept` | `Grouped`: the messages placed so far are in the groups of the roots of their first identifiers, in order, and the finds of the second pass move no root |
| `RuleMultiplexerProofs!TypeCorrect` | `[]TypeOK` | action by action |
| `…!QueuedMarked`, `…!FirstRunsApart` | `[]QueuedIsMarked`, `[]FirstRunsDontOverlap`, for any records, faults and stale reads | wherever a record is held (a task that has chosen its group, the queue, a runner), its identifiers' items name that group and hold the record, unless it was run or the identifier was misread; records of one identifier that were not run are then in one group, which has one runner |
| `…!NoOrphans` | `[]NoOrphanMarks` | for any `Ids` and `RunIds`: a record in the set of an identifier that its runner unmarks is in the incoming queue or at a place of a runner's that is not cleared of it, unless the queue dropped a second sending of it; a batch is deleted from the incoming queue only for the tasks that were sent |
| `RuleDeploymentProofs!TypeCorrect` | `[]TypeOK` | action by action |
| `…!EarnedActivation` | `[]ActivationIsEarned`, for any targets, consumers, retries and faults | `CountInv`: unless a task was counted or sent twice, the count is at most the number of tasks counted, and the total, if it is there, at least the number of tasks there are; so a count that reaches the total leaves none out (`EarnedInv`) |
| `…!DeploymentsHaveJobs` | `[]DeployingHasJob` | `SaveInv`: until it responds, a save finds the rule as it wrote it; a job on its way stays so (`JobStaysOnItsWay`) |
| `…!CountedAreBuilt` | `[]CountedIsBuilt`, for any saves, deliveries and faults | `SkippedIsLeft`: who skips a task, or counts one that is not built, is at a version that the rule has left; a version that was put and left comes back only as one that is reusable (`LeftStaysLeft`), as the page and the table of variables in use hold no other (`VersionInv`) |
| `…!EndedJobsDoNotBlock` | `[]EndedIsNotRunning`, for every store | `JobInv`: who inserts what is there already has met another delivery (`LateInsertIsSeen`); `RunInv`: an attempt about to return has left its success behind |
| `CaseCreationProofs!LostUpdates` | `[]LostUpdateHasCause`, for any consumers, versions, cases and faults | `OwnsLock` and `OneConsumer`: before the first lapse, who reads or writes under a key owns it, alone; `CopiesExplained`: a copy about to be written back is the stored document, or whoever wrote that since is one of the causes |
| `…!TypeCorrect` | `[]TypeOK` | from `DocsInv`, which speaks of the documents and of every copy in hand |
| `…!OneCase` | `[]OneCasePerAlert`, without exemption | `HomeInv`: every alert number has a home, the case it was made for; a document, stored or in hand, holds only alerts at home, and a split moves only alerts that are in no document yet |
| `…!HitsStay` | `[]HitsKept`, for any faults | `HitsInv`: a hit of a group gone through is `Settled`, in an alert of its rule with the transaction or `masked`, and one of the group in hand is that or in an alert still to be written; a case keeps its alerts, with their rules and transactions, unless it is disturbed |
| `…!NoTwins` | `[]NoTwinCases` | `TwinsInv`: who is about to make a case owns the lock and found no open case with room under its key, and nobody else can make one meanwhile (`FoundNone`) |
| `…!ClosedAreDone` | `[]ClosedCasesAreDone` | `ClosedInv`, `PersonInv`: what the person has still to close is known, and a hit is never written to a document that was closed when it was read |

The invariants themselves are not inductive: `CountedOnce` says nothing of the
bucket a process carries between its read and its write, `ExclusiveUnlessLapsed`
nothing of keys that are held but not yet all, `StepsAccepted` nothing of steps
that were read and not yet written, `LockedLevelStays` nothing of who is about to
write, `ItemsMatchLock` nothing of a lock half written,
`LostUpdateHasCause`, `HitsKept` and `OneCasePerAlert` nothing of the copies that are
still to be written, `NoTwinCases` nothing of who found no case and has not made one,
`QueuedIsMarked` nothing of records chosen and not yet sent, `NoOrphanMarks` nothing of
tasks under way, `RootsAreComponents` nothing that tells where a way ends,
`ActivationIsEarned` nothing of a count that is not yet complete, `CountedIsBuilt`
nothing of tasks skipped and not yet counted, nor of the versions a save may bring back. The assumptions used are the named `ASSUME`s
on constants (bounds are natural numbers, records have keys, chains are not
empty), which TLC evaluates in every run.

`CaseCreation` assumes that transactions and rules are finitely many
(`FiniteAssumption`) and that a hit has no more rules than a case has room for alerts,
1000 in the code (`FewRulesAssumption`): else the new half of a split would itself be
too long.

Induction over data is done where a set can stand for the predicate: the lemma
`Induction` of `SequenceLemmas` is that a set with 0 and each successor has all of `Nat`, which the prover
applies to `{n \in Nat : ...}`. With it the recursive functions of `Keep`, of
`find`'s way and of `UnionAll` are shown to exist and to compute what the proofs use.

Only model-checked: the liveness properties, as the prover has neither `ENABLED`
nor reasoning under fairness. The proof of `CountedAreBuilt` found what TLC's two saves
could not: as first stated, with deactivation as the only way for a version to come
back, the invariant is not one, and the scenario of five saves above refutes it.

## 6. What is not modelled

What a rule computes (the logic of variables, operators and aggregators is
sequential and has unit tests); storage formats, pagination, retries inside the AWS
SDK; permissions; and everything in the components whose status is
`not_modelled`, each with its reason. In modelled components the omissions are
named above and in the components' notes.

## 7. Plan

With the runs and theorems worth stating:

1. `WebhookDelivery`: deliverer, retry events and retry job; every event is
   delivered or given up, and not retried after that.

The number of runs is kept small on purpose: a new question replaces or joins an
existing run where the instance allows it.
