------------------------------ MODULE BatchJob ------------------------------
(***************************************************************************)
(* How a batch job is started, tried and ended.                            *)
(*                                                                         *)
(* sendBatchJobCommand puts the job in a queue.  The consumer of the queue *)
(* (lambdas/batch-job-trigger-consumer/app.ts) looks the job up, inserts   *)
(* it if it is not there, and starts an execution of the state machine     *)
(* under the job's name, which is started once.  The execution runs        *)
(* genericJobRunnerHandler (lambdas/batch-job-runner/app.ts) and retries   *)
(* it.  Where the region has ClickHouse, each write of the job's MongoDB   *)
(* document is preceded by one of its DynamoDB item, and for tenants that  *)
(* were migrated the item is the one that is read.                         *)
(*                                                                         *)
(* What a job does while it runs, and which of its steps fail, is for the  *)
(* module that extends this one to say: the actions leave the rest open.   *)
(***************************************************************************)
EXTENDS Naturals

CONSTANTS
  Job,
  Trigger,      \* concurrent invocations of the trigger's consumer
  MaxAttempts,  \* the first attempt and the state machine's retries
  Store         \* "MongoDB", "both", or "migrated": both, and DynamoDB is read

ASSUME JobNotEmpty == Job # {}
ASSUME AttemptsAssumption == MaxAttempts \in Nat \ {0}
ASSUME StoreAssumption == Store \in {"MongoDB", "both", "migrated"}

VARIABLES
  request,     \* per job, the copies of its message in the queue
  trigger,     \* per invocation, what it does
  doc,         \* per job, its MongoDB document: the latest status, any metadata
  copy,        \* per job, its DynamoDB item
  execution,   \* per job, its execution of the state machine
  attempts,    \* per job, the attempts begun
  overlapped,  \* ghost: the jobs that two invocations handled at once
  silent       \* ghost: the jobs whose latest attempt died

jobVars == <<request, trigger, doc, copy, execution, attempts, overlapped, silent>>

JobStatus == {"none", "PENDING", "IN_PROGRESS", "SUCCESS", "FAILED"}
Item == [status : JobStatus, metadata : BOOLEAN]

JobTypeOK ==
  /\ request \in [Job -> Nat]
  /\ trigger \in [Trigger -> [pc : {"idle", "looking", "inserting", "starting"}, job : Job]]
  /\ doc \in [Job -> Item]
  /\ copy \in [Job -> Item]
  /\ execution \in [Job -> {"none", "waiting", "running", "ended"}]
  /\ attempts \in [Job -> 0..MaxAttempts]
  /\ overlapped \in SUBSET Job
  /\ silent \in SUBSET Job

JobInit ==
  /\ request = [j \in Job |-> 0]
  /\ trigger = [c \in Trigger |-> [pc |-> "idle", job |-> CHOOSE j \in Job : TRUE]]
  /\ doc = [j \in Job |-> [status |-> "none", metadata |-> FALSE]]
  /\ copy = doc
  /\ execution = [j \in Job |-> "none"]
  /\ attempts = [j \in Job |-> 0]
  /\ overlapped = {}
  /\ silent = {}

-----------------------------------------------------------------------------
(* Both stores, one after the other                                        *)

Copied(item) == IF Store = "MongoDB" THEN copy ELSE item

(* updateJobStatus                                                         *)
UpdateStatus(j, s) ==
  /\ doc' = [doc EXCEPT ![j].status = s]
  /\ copy' = Copied([copy EXCEPT ![j].status = s])

(* What getJobById finds, once the tenant's features are known.            *)
Stored(j) == IF Store = "migrated" THEN copy[j] ELSE doc[j]

(* An $inc of a count in the metadata of an item that has none is refused. *)
CountsCanBeWritten(j) == Store = "MongoDB" \/ copy[j].metadata

-----------------------------------------------------------------------------
(* The queue and its consumer                                              *)

SendBatchJob(j) ==
  /\ request' = [request EXCEPT ![j] = @ + 1]
  /\ UNCHANGED <<trigger, doc, copy, execution, attempts, overlapped, silent>>

Handles(c, j) == trigger[c].pc # "idle" /\ trigger[c].job = j

ReceiveRequest(c, j) ==
  /\ trigger[c].pc = "idle"
  /\ request[j] > 0
  /\ request' = [request EXCEPT ![j] = @ - 1]
  /\ trigger' = [trigger EXCEPT ![c] = [pc |-> "looking", job |-> j]]
  /\ overlapped' = IF \E d \in Trigger : Handles(d, j) THEN overlapped \cup {j} ELSE overlapped
  /\ UNCHANGED <<doc, copy, execution, attempts, silent>>

GoOn(c, pc) == trigger' = [trigger EXCEPT ![c].pc = pc]

(* Mutant: the item of DynamoDB is put again, whatever was found.          *)
SaveAnyway(c) ==
  /\ trigger[c].pc = "looking"
  /\ GoOn(c, IF doc[trigger[c].job].status = "none" THEN "inserting" ELSE "starting")
  /\ copy' = Copied([copy EXCEPT ![trigger[c].job].status = "PENDING"])
  /\ UNCHANGED <<request, doc, execution, attempts, overlapped, silent>>

(* Mutant: a job that is there was started.                                *)
FoundIsStarted(c) ==
  /\ trigger[c].pc = "looking"
  /\ GoOn(c, IF doc[trigger[c].job].status = "none" THEN "inserting" ELSE "idle")
  /\ UNCHANGED <<request, doc, copy, execution, attempts, overlapped, silent>>

(* getJobById, in MongoDB: the consumer knows no features of the tenant.   *)
LookUp(c) ==
  /\ trigger[c].pc = "looking"
  /\ GoOn(c, IF doc[trigger[c].job].status = "none" THEN "inserting" ELSE "starting")
  /\ UNCHANGED <<request, doc, copy, execution, attempts, overlapped, silent>>

(* insertJob replaces the item of DynamoDB.  The index of job ids then     *)
(* refuses a second document, which throws and returns the message.        *)
Insert(c) ==
  LET j == trigger[c].job
      new == [status |-> "PENDING", metadata |-> FALSE]
      isNew == doc[j].status = "none"
  IN
  /\ trigger[c].pc = "inserting"
  /\ copy' = Copied([copy EXCEPT ![j] = new])
  /\ doc' = IF isNew THEN [doc EXCEPT ![j] = new] ELSE doc
  /\ request' = IF isNew THEN request ELSE [request EXCEPT ![j] = @ + 1]
  /\ GoOn(c, IF isNew THEN "starting" ELSE "idle")
  /\ UNCHANGED <<execution, attempts, overlapped, silent>>

(* StartExecution; ExecutionAlreadyExists is as good.                      *)
StartExecution(c) ==
  LET j == trigger[c].job IN
  /\ trigger[c].pc = "starting"
  /\ execution' = IF execution[j] = "none" THEN [execution EXCEPT ![j] = "waiting"]
                                           ELSE execution
  /\ GoOn(c, "idle")
  /\ UNCHANGED <<request, doc, copy, attempts, overlapped, silent>>

(* The invocation throws or dies, or outlives the message's invisibility:  *)
(* the message is delivered again.                                         *)
TriggerFails(c) ==
  /\ trigger[c].pc # "idle"
  /\ request' = [request EXCEPT ![trigger[c].job] = @ + 1]
  /\ GoOn(c, "idle") \/ UNCHANGED trigger
  /\ UNCHANGED <<doc, copy, execution, attempts, overlapped, silent>>

TriggerStep(c) ==
  \/ \E j \in Job : ReceiveRequest(c, j)
  \/ LookUp(c) \/ Insert(c) \/ StartExecution(c)

-----------------------------------------------------------------------------
(* The execution                                                           *)

(* IN_PROGRESS; a run that finds no metadata sets it, others leave it.     *)
BeginAttempt(j) ==
  LET begun(item) == [status |-> "IN_PROGRESS",
                      metadata |-> item.metadata \/ ~Stored(j).metadata]
  IN
  /\ execution[j] = "waiting"
  /\ execution' = [execution EXCEPT ![j] = "running"]
  /\ doc' = [doc EXCEPT ![j] = begun(@)]
  /\ copy' = Copied([copy EXCEPT ![j] = begun(@)])
  /\ attempts' = [attempts EXCEPT ![j] = @ + 1]
  /\ silent' = silent \ {j}
  /\ UNCHANGED <<request, trigger, overlapped>>

SucceedAttempt(j) ==
  /\ execution[j] = "running"
  /\ UpdateStatus(j, "SUCCESS")
  /\ UNCHANGED <<request, trigger, execution, attempts, overlapped, silent>>

(* The handler returns, with the job a success.                            *)
EndAttempt(j) ==
  /\ execution[j] = "running"
  /\ execution' = [execution EXCEPT ![j] = "ended"]
  /\ UNCHANGED <<request, trigger, doc, copy, attempts, overlapped, silent>>

Retried(j) ==
  execution' = [execution EXCEPT ![j] = IF attempts[j] < MaxAttempts THEN "waiting" ELSE "ended"]

(* The runner throws: the job is FAILED until it is tried again.           *)
FailAttempt(j) ==
  /\ execution[j] = "running"
  /\ UpdateStatus(j, "FAILED")
  /\ Retried(j)
  /\ UNCHANGED <<request, trigger, attempts, overlapped, silent>>

(* The lambda or the task times out or is stopped, and writes nothing.     *)
DieInAttempt(j) ==
  /\ execution[j] = "running"
  /\ Retried(j)
  /\ silent' = silent \cup {j}
  /\ UNCHANGED <<request, trigger, doc, copy, attempts, overlapped>>

-----------------------------------------------------------------------------
(* isAnyJobRunning, as far as this job is concerned                        *)
SeenRunning(j) == Stored(j).status \in {"PENDING", "IN_PROGRESS"}

(* A job is somewhere between the queue and its execution, or past it.     *)
OnItsWay(j) == request[j] > 0 \/ (\E c \in Trigger : Handles(c, j)) \/ execution[j] # "none"

(* Nothing can have reset what is read of the job.                         *)
Unreset(j) == Store = "migrated" => j \notin overlapped

(* A job that has ended is not taken for one that runs, which keeps others *)
(* from being started, unless its last attempt died, or two deliveries of  *)
(* its message met and reset what is read.                                 *)
EndedIsNotRunning ==
  \A j \in Job :
    execution[j] = "ended" /\ j \notin silent /\ Unreset(j) => ~SeenRunning(j)
=============================================================================
