------------------------ MODULE RuleDeploymentProofs ------------------------
(***************************************************************************)
(* Theorems about RuleDeployment, for any number of saves, tasks, workers, *)
(* attempts and faults, and either kind of rule.                           *)
(*                                                                         *)
(* ActivationIsEarned is about a number, the count of complete tasks, and  *)
(* a set, the tasks counted.  As long as no task is counted twice, the     *)
(* number is at most the size of the set (CountInv), and the total, once   *)
(* it is there, is at least the number of tasks: so a count that reaches   *)
(* the total leaves no task out (EarnedInv).                               *)
(*                                                                         *)
(* CountedIsBuilt is about the versions that may come back to a rule: who  *)
(* skips a task is at one the rule has left (SkippedIsLeft), and only what *)
(* was disabled or stays in use is brought back by a save (LeftStaysLeft). *)
(***************************************************************************)
EXTENDS RuleDeployment, FiniteSetTheorems, TLAPS

(***************************************************************************)
(* Batch jobs: what their steps keep, whatever a job does while it runs.   *)
(***************************************************************************)
(* A step of the consumer's, of the execution's, or of whoever sends a job.*)
JobStep ==
  \/ \E c \in Trigger : TriggerStep(c) \/ TriggerFails(c)
  \/ \E j \in Job : \/ SendBatchJob(j) \/ BeginAttempt(j) \/ SucceedAttempt(j)
                    \/ EndAttempt(j) \/ FailAttempt(j) \/ DieInAttempt(j)
  \/ UNCHANGED jobVars

(* An attempt to come is one of the attempts allowed.                      *)
AttemptsLeft ==
  \A j \in Job : /\ execution[j] = "none" => attempts[j] = 0
                 /\ execution[j] = "waiting" => attempts[j] < MaxAttempts

(* What is started was inserted.                                           *)
StartedIsStored ==
  /\ \A j \in Job : execution[j] # "none" => doc[j].status # "none"
  /\ \A c \in Trigger : trigger[c].pc = "starting" => doc[trigger[c].job].status # "none"

(* Two invocations at one job have overlapped.                             *)
OverlapIsSeen ==
  \A c, d \in Trigger : \A j \in Job :
    c # d /\ Handles(c, j) /\ Handles(d, j) => j \in overlapped

(* Who is about to insert what is there was overtaken by another.          *)
LateInsertIsSeen ==
  \A c \in Trigger :
    trigger[c].pc = "inserting" /\ doc[trigger[c].job].status # "none"
      => trigger[c].job \in overlapped

JobInv == JobTypeOK /\ AttemptsLeft /\ StartedIsStored /\ OverlapIsSeen /\ LateInsertIsSeen

(* Nothing is on its way, stored or started at the beginning.              *)
LEMMA JobInitInv == JobInit => JobInv
<1> SUFFICES ASSUME JobInit PROVE JobInv
  OBVIOUS
<1> USE DEF JobInit
<1>1. JobTypeOK
  <2>1. (CHOOSE j \in Job : TRUE) \in Job
    BY JobNotEmpty
  <2>2. trigger \in [Trigger -> [pc : {"idle", "looking", "inserting", "starting"}, job : Job]]
    BY <2>1
  <2>3. doc \in [Job -> Item] /\ copy \in [Job -> Item]
    BY DEF Item, JobStatus
  <2>4. attempts \in [Job -> 0..MaxAttempts]
    BY AttemptsAssumption
  <2> HIDE DEF JobInit
  <2>5. request \in [Job -> Nat] /\ execution \in [Job -> {"none", "waiting", "running", "ended"}]
    BY DEF JobInit
  <2>6. overlapped = {} /\ silent = {}
    BY DEF JobInit
  <2> QED BY <2>2, <2>3, <2>4, <2>5, <2>6 DEF JobTypeOK
<1>2. AttemptsLeft
  BY DEF AttemptsLeft
<1>3. StartedIsStored
  BY DEF StartedIsStored
<1>4. OverlapIsSeen /\ LateInsertIsSeen
  BY DEF OverlapIsSeen, LateInsertIsSeen, Handles
<1> QED BY <1>1, <1>2, <1>3, <1>4 DEF JobInv

(* The consumer's steps: only Insert writes a store, and only one of two   *)
(* that found nothing finds nothing when it inserts.                       *)
LEMMA TriggerStepInv ==
  ASSUME JobInv, NEW c \in Trigger, TriggerStep(c) \/ TriggerFails(c)
  PROVE  JobInv'
<1> USE DEF JobInv, JobTypeOK
<1>1. ASSUME NEW j \in Job, ReceiveRequest(c, j) PROVE JobInv'
  <2> USE <1>1 DEF ReceiveRequest
  <2>1. JobTypeOK'
    BY DEF Item
  <2>2. AttemptsLeft' /\ StartedIsStored'
    BY DEF AttemptsLeft, StartedIsStored
  <2>3. OverlapIsSeen'
    BY DEF OverlapIsSeen, Handles
  <2>4. LateInsertIsSeen'
    BY DEF LateInsertIsSeen
  <2> QED BY <2>1, <2>2, <2>3, <2>4
<1>2. ASSUME LookUp(c) PROVE JobInv'
  <2> USE <1>2 DEF LookUp, GoOn
  <2>1. JobTypeOK'
    OBVIOUS
  <2>2. AttemptsLeft' /\ StartedIsStored'
    BY DEF AttemptsLeft, StartedIsStored
  <2>3. OverlapIsSeen'
    BY DEF OverlapIsSeen, Handles
  <2>4. LateInsertIsSeen'
    BY DEF LateInsertIsSeen
  <2> QED BY <2>1, <2>2, <2>3, <2>4
<1>3. ASSUME Insert(c) PROVE JobInv'
  <2> DEFINE j == trigger[c].job
             new == [status |-> "PENDING", metadata |-> FALSE]
  <2> USE <1>3 DEF Insert, GoOn
  <2>1. j \in Job /\ new \in Item
    BY DEF Item, JobStatus
  <2>2. JobTypeOK'
    <3>1. doc' \in [Job -> Item] /\ copy' \in [Job -> Item]
      BY <2>1 DEF Copied
    <3>2. request' \in [Job -> Nat]
      BY <2>1
    <3>3. trigger' \in [Trigger -> [pc : {"idle", "looking", "inserting", "starting"}, job : Job]]
      OBVIOUS
    <3> QED BY <3>1, <3>2, <3>3
  <2>3. \A i \in Job : doc[i].status # "none" => doc'[i].status # "none"
    BY <2>1
  <2>4. AttemptsLeft' /\ StartedIsStored'
    BY <2>1, <2>3 DEF AttemptsLeft, StartedIsStored
  <2>5. OverlapIsSeen'
    BY DEF OverlapIsSeen, Handles
  <2>6. LateInsertIsSeen'
    <3> SUFFICES ASSUME NEW d \in Trigger, trigger'[d].pc = "inserting",
                        doc'[trigger'[d].job].status # "none"
                 PROVE  trigger'[d].job \in overlapped
      BY DEF LateInsertIsSeen
    <3>1. d # c /\ trigger'[d] = trigger[d]
      OBVIOUS
    <3>2. CASE trigger[d].job = j
      BY <2>1, <3>1, <3>2 DEF OverlapIsSeen, Handles
    <3>3. CASE trigger[d].job # j
      BY <2>1, <3>1, <3>3 DEF LateInsertIsSeen
    <3> QED BY <3>2, <3>3
  <2> QED BY <2>2, <2>4, <2>5, <2>6
<1>4. ASSUME StartExecution(c) PROVE JobInv'
  <2> USE <1>4 DEF StartExecution, GoOn
  <2>1. JobTypeOK'
    OBVIOUS
  <2>2. AttemptsLeft'
    BY AttemptsAssumption DEF AttemptsLeft
  <2>3. StartedIsStored'
    BY DEF StartedIsStored
  <2>4. OverlapIsSeen' /\ LateInsertIsSeen'
    BY DEF OverlapIsSeen, LateInsertIsSeen, Handles
  <2> QED BY <2>1, <2>2, <2>3, <2>4
<1>5. ASSUME TriggerFails(c) PROVE JobInv'
  <2> USE <1>5 DEF TriggerFails, GoOn
  <2>1. JobTypeOK'
    OBVIOUS
  <2>2. AttemptsLeft' /\ StartedIsStored'
    BY DEF AttemptsLeft, StartedIsStored
  <2>3. OverlapIsSeen' /\ LateInsertIsSeen'
    BY DEF OverlapIsSeen, LateInsertIsSeen, Handles
  <2> QED BY <2>1, <2>2, <2>3
<1> QED BY <1>1, <1>2, <1>3, <1>4, <1>5 DEF TriggerStep

(* The steps of an execution write the stores of a job that is stored.     *)
LEMMA ExecutionStepInv ==
  ASSUME JobInv, NEW j \in Job,
         \/ BeginAttempt(j) \/ SucceedAttempt(j) \/ EndAttempt(j)
         \/ FailAttempt(j) \/ DieInAttempt(j)
  PROVE  JobInv'
<1> USE DEF JobInv
<1>1. doc' \in [Job -> Item] /\ copy' \in [Job -> Item]
  <2> USE DEF JobTypeOK
  <2>1. CASE BeginAttempt(j)
    <3> DEFINE begun(item) == [status |-> "IN_PROGRESS",
                               metadata |-> item.metadata \/ ~Stored(j).metadata]
    <3>1. begun(doc[j]) \in Item /\ begun(copy[j]) \in Item
      BY DEF Item, JobStatus
    <3>2. doc' = [doc EXCEPT ![j] = begun(doc[j])]
      BY <2>1 DEF BeginAttempt
    <3>3. copy' = copy \/ copy' = [copy EXCEPT ![j] = begun(copy[j])]
      BY <2>1 DEF BeginAttempt, Copied
    <3> HIDE DEF begun
    <3> QED BY <3>1, <3>2, <3>3
  <2>2. CASE EndAttempt(j) \/ DieInAttempt(j)
    BY <2>2 DEF EndAttempt, DieInAttempt
  <2>3. CASE SucceedAttempt(j) \/ FailAttempt(j)
    <3>1. PICK s \in JobStatus : UpdateStatus(j, s)
      BY <2>3 DEF SucceedAttempt, FailAttempt, JobStatus
    <3>2. /\ doc' = [doc EXCEPT ![j].status = s]
          /\ copy' = copy \/ copy' = [copy EXCEPT ![j].status = s]
      BY <3>1 DEF UpdateStatus, Copied
    <3>3. \A f \in [Job -> Item] : [f EXCEPT ![j].status = s] \in [Job -> Item]
      BY Zenon DEF Item
    <3> QED BY <3>2, <3>3
  <2> QED BY <2>1, <2>2, <2>3
<1>2. execution' \in [Job -> {"none", "waiting", "running", "ended"}] /\ execution[j] # "none"
  BY DEF JobTypeOK, BeginAttempt, SucceedAttempt, EndAttempt, FailAttempt, DieInAttempt, Retried
<1>3. attempts' \in [Job -> 0..MaxAttempts]
  BY AttemptsAssumption
  DEF JobTypeOK, AttemptsLeft, BeginAttempt, SucceedAttempt, EndAttempt, FailAttempt, DieInAttempt
<1>4. /\ UNCHANGED <<request, trigger, overlapped>>
      /\ silent' \in SUBSET Job
  BY DEF JobTypeOK, BeginAttempt, SucceedAttempt, EndAttempt, FailAttempt, DieInAttempt
<1>5. JobTypeOK'
  BY <1>1, <1>2, <1>3, <1>4 DEF JobTypeOK
<1>6. AttemptsLeft'
  BY DEF JobTypeOK, AttemptsLeft, BeginAttempt, SucceedAttempt, EndAttempt, FailAttempt,
         DieInAttempt, Retried
<1>7. \A i \in Job : doc'[i].status # "none" <=> doc[i].status # "none"
  BY DEF JobTypeOK, Item, StartedIsStored, BeginAttempt, SucceedAttempt, EndAttempt, FailAttempt,
         DieInAttempt, UpdateStatus
<1>8. \A i \in Job : execution'[i] # "none" => execution[i] # "none"
  BY <1>2 DEF JobTypeOK, BeginAttempt, SucceedAttempt, EndAttempt, FailAttempt, DieInAttempt,
              Retried
<1>9. StartedIsStored'
  BY <1>4, <1>7, <1>8 DEF StartedIsStored, JobTypeOK
<1>10. OverlapIsSeen' /\ LateInsertIsSeen'
  BY <1>4, <1>7 DEF OverlapIsSeen, LateInsertIsSeen, Handles, JobTypeOK
<1> QED BY <1>5, <1>6, <1>9, <1>10

(* JobInv holds, whatever else the extending module's steps do.            *)
LEMMA JobStepInv == JobInv /\ JobStep => JobInv'
<1> SUFFICES ASSUME JobInv, JobStep PROVE JobInv'
  OBVIOUS
<1>1. ASSUME NEW j \in Job, SendBatchJob(j) PROVE JobInv'
  <2> USE <1>1 DEF JobInv, SendBatchJob
  <2>1. JobTypeOK'
    BY DEF JobTypeOK
  <2>2. AttemptsLeft' /\ StartedIsStored' /\ OverlapIsSeen' /\ LateInsertIsSeen'
    BY DEF AttemptsLeft, StartedIsStored, OverlapIsSeen, LateInsertIsSeen, Handles
  <2> QED BY <2>1, <2>2
<1>2. CASE UNCHANGED jobVars
  BY <1>2 DEF jobVars, JobInv, JobTypeOK, AttemptsLeft, StartedIsStored, OverlapIsSeen,
              LateInsertIsSeen, Handles
<1> QED BY <1>1, <1>2, TriggerStepInv, ExecutionStepInv DEF JobStep

(* The consumer changes what is read of a stored job only if deliveries of *)
(* its message met.                                                        *)
LEMMA TriggerKeepsStored ==
  ASSUME JobInv, NEW c \in Trigger, TriggerStep(c) \/ TriggerFails(c),
         NEW j \in Job, doc[j].status # "none", Unreset(j)
  PROVE  Stored(j)' = Stored(j)
<1> USE DEF JobInv, JobTypeOK
<1>1. ASSUME Insert(c) PROVE Stored(j)' = Stored(j)
  <2>1. doc'[j] = doc[j]
    BY <1>1 DEF Insert
  <2>2. CASE trigger[c].job = j
    BY <1>1, <2>1, <2>2, StoreAssumption
    DEF Insert, LateInsertIsSeen, Unreset, Stored, Copied
  <2>3. CASE trigger[c].job # j
    BY <1>1, <2>1, <2>3 DEF Insert, Stored, Copied
  <2> QED BY <2>2, <2>3
<1>2. CASE UNCHANGED <<doc, copy>>
  BY <1>2 DEF Stored
<1> QED BY <1>1, <1>2 DEF TriggerStep, ReceiveRequest, LookUp, StartExecution, TriggerFails

(* A job that is on its way or was started stays so.                       *)
LEMMA JobStaysOnItsWay ==
  ASSUME JobInv, JobStep, NEW j \in Job, OnItsWay(j)
  PROVE  OnItsWay(j)'
<1> USE DEF JobInv, JobTypeOK, OnItsWay, Handles
<1>1. ASSUME NEW c \in Trigger, TriggerStep(c) PROVE OnItsWay(j)'
  <2>1. ASSUME NEW i \in Job, ReceiveRequest(c, i) PROVE OnItsWay(j)'
    BY <2>1 DEF ReceiveRequest
  <2>2. ASSUME LookUp(c) PROVE OnItsWay(j)'
    BY <2>2 DEF LookUp, GoOn
  <2>3. ASSUME Insert(c) PROVE OnItsWay(j)'
    BY <2>3 DEF Insert, GoOn
  <2>4. ASSUME StartExecution(c) PROVE OnItsWay(j)'
    BY <2>4 DEF StartExecution, GoOn
  <2> QED BY <1>1, <2>1, <2>2, <2>3, <2>4 DEF TriggerStep
<1>2. ASSUME NEW c \in Trigger, TriggerFails(c) PROVE OnItsWay(j)'
  BY <1>2 DEF TriggerFails, GoOn
<1>3. ASSUME NEW i \in Job, SendBatchJob(i) PROVE OnItsWay(j)'
  BY <1>3 DEF SendBatchJob
<1>4. ASSUME NEW i \in Job, \/ BeginAttempt(i) \/ SucceedAttempt(i) \/ EndAttempt(i)
                           \/ FailAttempt(i) \/ DieInAttempt(i)
      PROVE  OnItsWay(j)'
  BY <1>4 DEF BeginAttempt, SucceedAttempt, EndAttempt, FailAttempt, DieInAttempt, Retried
<1>5. CASE UNCHANGED jobVars
  BY <1>5 DEF jobVars
<1> QED BY <1>1, <1>2, <1>3, <1>4, <1>5 DEF JobStep

ExecutionStep(j) ==
  \/ BeginAttempt(j) \/ SucceedAttempt(j) \/ EndAttempt(j)
  \/ FailAttempt(j) \/ DieInAttempt(j)

(* The steps of the consumer and of executions: a job they put on its way  *)
(* was on its way.                                                         *)
OwnStep ==
  \/ \E c \in Trigger : TriggerStep(c) \/ TriggerFails(c)
  \/ \E j \in Job : ExecutionStep(j)
  \/ UNCHANGED jobVars

LEMMA OwnStepSendsNone ==
  ASSUME JobInv, OwnStep, NEW j \in Job, OnItsWay(j)'
  PROVE  OnItsWay(j)
<1> USE DEF JobInv, JobTypeOK, OnItsWay, Handles
<1>1. ASSUME NEW c \in Trigger, TriggerStep(c) \/ TriggerFails(c) PROVE OnItsWay(j)
  <2>1. ASSUME NEW i \in Job, ReceiveRequest(c, i) PROVE OnItsWay(j)
    BY <2>1 DEF ReceiveRequest
  <2>2. ASSUME LookUp(c) PROVE OnItsWay(j)
    BY <2>2 DEF LookUp, GoOn
  <2>3. ASSUME Insert(c) PROVE OnItsWay(j)
    BY <2>3 DEF Insert, GoOn
  <2>4. ASSUME StartExecution(c) PROVE OnItsWay(j)
    BY <2>4 DEF StartExecution, GoOn
  <2>5. ASSUME TriggerFails(c) PROVE OnItsWay(j)
    BY <2>5 DEF TriggerFails, GoOn
  <2> QED BY <1>1, <2>1, <2>2, <2>3, <2>4, <2>5 DEF TriggerStep
<1>2. ASSUME NEW i \in Job, ExecutionStep(i) PROVE OnItsWay(j)
  BY <1>2 DEF ExecutionStep, BeginAttempt, SucceedAttempt, EndAttempt, FailAttempt,
              DieInAttempt, Retried
<1>3. CASE UNCHANGED jobVars
  BY <1>3 DEF jobVars
<1> QED BY <1>1, <1>2, <1>3 DEF OwnStep

(* A step of one job's execution leaves the other jobs alone.              *)
LEMMA OtherJobsKept ==
  ASSUME JobInv, NEW j \in Job, ExecutionStep(j), NEW i \in Job, i # j
  PROVE  /\ Stored(i)' = Stored(i)
         /\ execution'[i] = execution[i]
         /\ i \in silent' <=> i \in silent
         /\ overlapped' = overlapped
<1> USE DEF JobInv, JobTypeOK, ExecutionStep, BeginAttempt, SucceedAttempt, EndAttempt, FailAttempt,
            DieInAttempt
<1>1. doc'[i] = doc[i] /\ copy'[i] = copy[i]
  BY DEF UpdateStatus, Copied
<1>2. Stored(i)' = Stored(i)
  BY <1>1 DEF Stored
<1>3. execution'[i] = execution[i] /\ (i \in silent' <=> i \in silent) /\ overlapped' = overlapped
  BY DEF Retried
<1> QED BY <1>2, <1>3

(* What is written to the stores is what is read.                          *)
LEMMA WrittenIsRead ==
  ASSUME JobTypeOK, NEW j \in Job, NEW s \in JobStatus, UpdateStatus(j, s)
  PROVE  Stored(j)'.status = s
<1>1. doc'[j].status = s
  BY DEF JobTypeOK, Item, UpdateStatus
<1>2. Store = "migrated" => copy'[j].status = s
  BY DEF JobTypeOK, Item, UpdateStatus, Copied
<1> QED BY <1>1, <1>2 DEF Stored

-----------------------------------------------------------------------------
(***************************************************************************)
(* The deployment of a rule.                                               *)
(***************************************************************************)
(* Between its steps a save relies on what it wrote to the rule.           *)
SaveInv ==
  /\ save.pc # "idle" => saves \in Version
  /\ save.pc = "putting" => save.new.status # "DEPLOYING"
  /\ save.pc \in {"deploying", "creating"} => rule.version = saves
  /\ save.pc = "deploying" => rule.status # "DEPLOYING"
  /\ rule.status = "DEPLOYING" => rule.version \in Version

(* An attempt that goes on is one of a running execution, and leaves its   *)
(* success behind.                                                         *)
RunInv ==
  \A v \in Version :
    /\ job[v].stage # "idle" => execution[v] = "running"
    /\ job[v].stage = "done" /\ Unreset(v) => Stored(v).status = "SUCCESS"

(* There are only tasks for those who have data.                           *)
TaskInv ==
  /\ \A v \in Version, t \in Target : queue[v][t] > 0 => t \in TargetsOf[v]
  /\ \A w \in Worker : work[w].pc # "idle" => work[w].target \in TargetsOf[work[w].job]
  /\ \A v \in Version, t \in Target : <<v, t>> \in counted => t \in TargetsOf[v]

Done(v) == {t \in Target : <<v, t>> \in counted}

CountInv ==
  \A v \in Version :
    /\ job[v].tasks = 0 \/ job[v].tasks >= Cardinality(TargetsOf[v])
    /\ v \notin repeated => job[v].complete <= Cardinality(Done(v))

EarnedInv ==
  \A w \in Worker :
    work[w].pc \in {"checking", "activating"} /\ work[w].tasks > 0 /\ work[w].job \notin repeated
      => Tasks(work[w].job) \subseteq counted

IInv ==
  TypeOK /\ SaveInv /\ JobInv /\ RunInv /\ TaskInv /\ CountInv /\ EarnedInv
    /\ DeployingHasJob /\ EndedIsNotRunning

-----------------------------------------------------------------------------
(* Every step is one of the batch job's own, or CreateJob, or leaves the   *)
(* batch jobs alone.                                                       *)
LEMMA NextIsOwnStep ==
  ASSUME Next \/ UNCHANGED vars
  PROVE  OwnStep \/ CreateJob
<1> USE JobAssumption DEF OwnStep, ExecutionStep
<1>1. CASE Console
  BY <1>1 DEF Console, Refresh, Enable, Disable, Edit, Request
<1>2. CASE Saving
  BY <1>2 DEF Saving, Put, SetDeploying, Respond
<1>3. ASSUME NEW c \in Trigger, StartJob(c) PROVE OwnStep
  BY <1>3 DEF StartJob
<1>4. ASSUME NEW v \in Version, RunJob(v) PROVE OwnStep
  <2>1. CASE StartAttempt(v)
    BY <2>1 DEF StartAttempt
  <2>2. CASE \E t \in Target : SendTask(v, t)
    BY <2>2 DEF SendTask
  <2>3. CASE CountTasks(v) \/ ActivateWithoutTasks(v)
    BY <2>3 DEF CountTasks, ActivateWithoutTasks
  <2>4. CASE CountRefused(v) \/ Succeed(v) \/ Return(v)
    BY <2>4 DEF CountRefused, Succeed, Return
  <2> QED BY <1>4, <2>1, <2>2, <2>3, <2>4 DEF RunJob
<1>5. ASSUME NEW w \in Worker, Consume(w) PROVE OwnStep
  BY <1>5 DEF Consume, Receive, Rebuild, Count, TaskCountRefused, Check, Activate
<1>6. CASE Fault
  <2>1. CASE SaveFails
    BY <2>1 DEF SaveFails
  <2>2. ASSUME NEW c \in Trigger, StartFails(c) PROVE OwnStep
    BY <2>2 DEF StartFails
  <2>3. ASSUME NEW v \in Version, AttemptFails(v) PROVE OwnStep
    BY <2>3 DEF AttemptFails
  <2>4. ASSUME NEW w \in Worker, Die(w) PROVE OwnStep
    BY <2>4 DEF Die
  <2> QED BY <1>6, <2>1, <2>2, <2>3, <2>4 DEF Fault
<1>7. CASE UNCHANGED vars
  BY <1>7 DEF vars
<1> QED BY <1>1, <1>2, <1>3, <1>4, <1>5, <1>6, <1>7 DEF Next

LEMMA NextIsJobStep ==
  ASSUME SaveInv, Next \/ UNCHANGED vars
  PROVE  JobStep
BY NextIsOwnStep, JobAssumption DEF OwnStep, ExecutionStep, JobStep, CreateJob, SaveInv

-----------------------------------------------------------------------------
(* Types                                                                   *)

(* The parts of a state that the job's attempts and tasks do not write.    *)
SaveTypeOK ==
  /\ rule \in Rule
  /\ used \in [Content -> Version \cup {NoVersion}]
  /\ page \in Rule
  /\ save \in [pc : {"idle", "putting", "deploying", "creating", "responding"}, new : Rule, old : Rule]
  /\ saves \in 0..MaxSaves
  /\ reusable \in SUBSET (Version \cup {NoVersion})
  /\ abandoned \in SUBSET Version

TaskTypeOK ==
  /\ job \in [Version -> [stage : Stage, tasks : Nat, complete : Nat]]
  /\ sent \in [Version -> SUBSET Target]
  /\ \A v \in Version : sent[v] \subseteq TargetsOf[v]
  /\ queue \in [Version -> [Target -> Nat]]
  /\ work \in [Worker -> [pc : {"idle", "rebuilding", "counting", "checking", "activating"},
                          job : Version \cup {NoVersion}, target : Target, seen : Rule,
                          tasks : Nat]]
  /\ \A w \in Worker : work[w].pc # "idle" => work[w].job \in Version
  /\ built \in SUBSET (Version \X Target)
  /\ faults \in 0..MaxFaults
  /\ counted \in SUBSET (Version \X Target)
  /\ repeated \in SUBSET Version

LEMMA TypeInParts == TypeOK <=> SaveTypeOK /\ TaskTypeOK /\ JobTypeOK
BY DEF TypeOK, SaveTypeOK, TaskTypeOK

saveVars == <<rule, used, page, save, saves, reusable, abandoned>>
taskVars == <<job, sent, queue, work, built, faults, counted, repeated>>

LEMMA SaveTypeKept == SaveTypeOK /\ UNCHANGED saveVars => SaveTypeOK'
BY DEF SaveTypeOK, saveVars

LEMMA TaskTypeKept == TaskTypeOK /\ UNCHANGED taskVars => TaskTypeOK'
BY DEF TaskTypeOK, taskVars

LEMMA RuleType ==
  ASSUME NEW r \in Rule
  PROVE  /\ \A s \in Status : [r EXCEPT !.status = s] \in Rule
         /\ \A v \in Version \cup {NoVersion} : [r EXCEPT !.version = v] \in Rule
         /\ \A c \in Content : [r EXCEPT !.content = c] \in Rule
BY DEF Rule

LEMMA InitType == Init => TypeOK
<1> SUFFICES ASSUME Init PROVE TypeOK
  OBVIOUS
<1>1. rule \in Rule
  BY BoundAssumption DEF Init, Rule, Status, Content
<1>2. SaveTypeOK
  <2>1. used \in [Content -> Version \cup {NoVersion}]
    BY DEF Init
  <2>2. save \in [pc : {"idle", "putting", "deploying", "creating", "responding"},
                  new : Rule, old : Rule]
    BY <1>1 DEF Init
  <2>3. page \in Rule /\ reusable = {} /\ abandoned = {}
    BY <1>1 DEF Init
  <2>4. saves \in 0..MaxSaves
    BY BoundAssumption DEF Init
  <2> QED BY <1>1, <2>1, <2>2, <2>3, <2>4 DEF SaveTypeOK
<1>3. TaskTypeOK
  <2>1. (CHOOSE t \in Target : TRUE) \in Target
    BY TargetsAssumption
  <2>2. work \in [Worker -> [pc : {"idle", "rebuilding", "counting", "checking", "activating"},
                             job : Version \cup {NoVersion}, target : Target, seen : Rule,
                             tasks : Nat]]
    BY <1>1, <2>1 DEF Init
  <2>3. job \in [Version -> [stage : Stage, tasks : Nat, complete : Nat]]
    BY DEF Init, Stage
  <2>4. /\ sent \in [Version -> SUBSET Target]
        /\ \A v \in Version : sent[v] \subseteq TargetsOf[v]
        /\ queue \in [Version -> [Target -> Nat]]
        /\ built = {} /\ counted = {} /\ repeated = {}
    BY DEF Init
  <2>5. faults \in 0..MaxFaults
    BY BoundAssumption DEF Init
  <2>6. \A w \in Worker : work[w].pc = "idle"
    BY DEF Init
  <2> QED BY <2>2, <2>3, <2>4, <2>5, <2>6 DEF TaskTypeOK
<1>4. JobTypeOK
  BY JobInitInv DEF Init, JobInv
<1> QED BY <1>2, <1>3, <1>4, TypeInParts

(* The steps that save a rule.                                             *)
LEMMA SaveStepType ==
  ASSUME SaveTypeOK, SaveInv, Console \/ Saving \/ SaveFails
  PROVE  SaveTypeOK' /\ SaveInv'
<1> USE DEF SaveTypeOK, console, ghosts
<1>1. ASSUME NEW new \in Rule, new.status # "DEPLOYING", Request(new)
      PROVE  SaveTypeOK' /\ SaveInv'
  <2>1. saves' \in Version /\ saves' \in 0..MaxSaves
    BY <1>1, BoundAssumption DEF Request, Version
  <2>2. save' \in [pc : {"idle", "putting", "deploying", "creating", "responding"},
                   new : Rule, old : Rule]
    BY <1>1 DEF Request
  <2>3. UNCHANGED <<rule, used, page, reusable, abandoned>>
    BY <1>1 DEF Request
  <2>4. save'.pc = "putting" /\ save'.new = new
    BY <1>1 DEF Request
  <2> QED BY <1>1, <2>1, <2>2, <2>3, <2>4 DEF SaveInv
<1>2. CASE Refresh
  BY <1>2 DEF Refresh, SaveInv
<1>3. CASE Enable \/ Disable \/ Edit
  <2>1. saves < MaxSaves => saves + 1 \in Content
    BY BoundAssumption DEF Content
  <2>2. CASE Enable
    BY <1>1, <2>2, RuleType DEF Enable, Status, Rule
  <2>3. CASE Disable
    BY <1>1, <2>3, RuleType DEF Disable, Status, Rule
  <2>4. CASE Edit
    <3>1. saves < MaxSaves
      BY <2>4 DEF Edit, Request
    <3>2. [page EXCEPT !.content = saves + 1] \in Rule
      BY <2>1, <3>1, RuleType
    <3>3. [page EXCEPT !.content = saves + 1].status # "DEPLOYING"
      BY <2>4 DEF Edit, Rule
    <3> QED BY <1>1, <2>4, <3>2, <3>3 DEF Edit
  <2> QED BY <1>3, <2>2, <2>3, <2>4
<1>4. CASE Put
  <2> DEFINE u == CASE BeingDisabled                -> Removed(save.new.content)
                    [] KeepsVersion \/ BeingEnabled -> used
                    [] OTHER                        -> Removed(save.old.content)
             v == IF KeepsVersion THEN save.new.version ELSE Found(u, save.new.content)
  <2>0. save.new \in Rule /\ save.old \in Rule /\ save.new.content \in Content
    BY DEF Rule
  <2>1. u \in [Content -> Version \cup {NoVersion}]
    BY <2>0 DEF Removed
  <2>2. saves \in Version
    BY <1>4 DEF Put, SaveInv
  <2> HIDE DEF u
  <2>3. v \in Version \cup {NoVersion}
    BY <2>0, <2>1, <2>2 DEF Found, Rule
  <2> HIDE DEF v
  <2>4. /\ rule' = [save.new EXCEPT !.version = v]
        /\ used' = IF KeepsVersion THEN u ELSE [u EXCEPT ![save.new.content] = v]
        /\ save' = [save EXCEPT !.pc = IF v = saves THEN "deploying" ELSE "responding",
                                !.new = rule']
        /\ reusable' = reusable \cup {n \in {v} : save.new.status = "INACTIVE"}
                                \cup {n \in {rule.version} \ {v} : \E c \in Content : used'[c] = n}
        /\ UNCHANGED <<page, saves, abandoned>>
    BY <1>4 DEF Put, u, v
  <2>5. rule' \in Rule /\ rule'.version = v /\ rule'.status = save.new.status
    BY <2>0, <2>3, <2>4, RuleType DEF Rule
  <2>6. save' \in [pc : {"idle", "putting", "deploying", "creating", "responding"},
                   new : Rule, old : Rule]
    BY <2>4, <2>5, Zenon
  <2>7. used' \in [Content -> Version \cup {NoVersion}]
    BY <2>1, <2>3, <2>4
  <2>8. SaveTypeOK'
    <3>1. rule.version \in Version \cup {NoVersion}
      BY DEF Rule
    <3>2. reusable' \in SUBSET (Version \cup {NoVersion})
      BY <2>3, <2>4, <3>1
    <3> QED BY <2>4, <2>5, <2>6, <2>7, <3>2
  <2>9. save'.pc = IF v = saves THEN "deploying" ELSE "responding"
    BY <2>4
  <2>10. save.new.status # "DEPLOYING"
    BY <1>4 DEF Put, SaveInv
  <2> QED BY <2>2, <2>4, <2>5, <2>8, <2>9, <2>10 DEF SaveInv
<1>5. CASE SetDeploying
  <2>1. rule' \in Rule /\ rule'.version = rule.version
    BY <1>5, RuleType DEF SetDeploying, Status, Rule
  <2>2. save' \in [pc : {"idle", "putting", "deploying", "creating", "responding"},
                   new : Rule, old : Rule] /\ save'.pc = "creating"
    BY <1>5 DEF SetDeploying
  <2> QED BY <1>5, <2>1, <2>2 DEF SetDeploying, SaveInv
<1>6. CASE CreateJob \/ Respond
  BY <1>6 DEF CreateJob, Respond, SaveInv
<1>7. CASE SaveFails
  BY <1>7 DEF SaveFails, SaveInv
<1> QED BY <1>2, <1>3, <1>4, <1>5, <1>6, <1>7 DEF Console, Saving

(* The others only switch the rule on.                                     *)
LEMMA OtherStepSaveType ==
  ASSUME SaveTypeOK, SaveInv,
         \/ \E c \in Trigger : StartJob(c) \/ StartFails(c)
         \/ \E v \in Version : RunJob(v) \/ AttemptFails(v)
         \/ \E w \in Worker : Consume(w) \/ Die(w)
         \/ UNCHANGED vars
  PROVE  SaveTypeOK' /\ SaveInv'
<1>1. CASE UNCHANGED saveVars
  BY <1>1, SaveTypeKept DEF saveVars, SaveInv
<1>2. CASE rule' = [rule EXCEPT !.status = "ACTIVE"]
             /\ UNCHANGED <<used, page, save, saves, reusable, abandoned>>
  <2>1. rule' \in Rule /\ rule'.version = rule.version /\ rule'.status = "ACTIVE"
    BY <1>2, RuleType DEF SaveTypeOK, Status, Rule
  <2> QED BY <1>2, <2>1 DEF SaveTypeOK, SaveInv
<1> USE DEF saveVars, console, ghosts
<1>3. CASE \E c \in Trigger : StartJob(c) \/ StartFails(c)
  BY <1>1, <1>3 DEF StartJob, StartFails
<1>4. ASSUME NEW v \in Version, RunJob(v) \/ AttemptFails(v) PROVE SaveTypeOK' /\ SaveInv'
  <2>1. CASE StartAttempt(v) \/ \E t \in Target : SendTask(v, t)
    BY <1>1, <2>1 DEF StartAttempt, SendTask
  <2>2. CASE CountTasks(v) \/ CountRefused(v) \/ AttemptFails(v)
    BY <1>1, <2>2 DEF CountTasks, CountRefused, AttemptFails
  <2>3. CASE Succeed(v) \/ Return(v)
    BY <1>1, <2>3 DEF Succeed, Return
  <2>4. CASE ActivateWithoutTasks(v)
    BY <1>2, <2>4 DEF ActivateWithoutTasks
  <2> QED BY <1>4, <2>1, <2>2, <2>3, <2>4 DEF RunJob
<1>5. ASSUME NEW w \in Worker, Consume(w) \/ Die(w) PROVE SaveTypeOK' /\ SaveInv'
  <2>1. CASE \E v \in Version, t \in Target : Receive(w, v, t)
    BY <1>1, <2>1 DEF Receive
  <2>2. CASE Rebuild(w) \/ Count(w) \/ TaskCountRefused(w) \/ Check(w) \/ Die(w)
    BY <1>1, <2>2 DEF Rebuild, Count, TaskCountRefused, Check, Die
  <2>3. CASE Activate(w)
    BY <1>2, <2>3 DEF Activate
  <2> QED BY <1>5, <2>1, <2>2, <2>3 DEF Consume
<1>6. CASE UNCHANGED vars
  BY <1>1, <1>6 DEF vars
<1> QED BY <1>3, <1>4, <1>5, <1>6
(* The steps of a job's attempt.                                           *)
LEMMA AttemptStepType ==
  ASSUME TaskTypeOK, NEW v \in Version, RunJob(v) \/ AttemptFails(v)
  PROVE  TaskTypeOK'
<1> USE DEF TaskTypeOK, console, ghosts
<1>1. CASE StartAttempt(v)
  <2>1. /\ job' \in [Version -> [stage : Stage, tasks : Nat, complete : Nat]]
        /\ sent' = [sent EXCEPT ![v] = {}]
        /\ UNCHANGED <<queue, work, built, faults, counted, repeated>>
    BY <1>1 DEF StartAttempt, Stage
  <2> QED BY <2>1
<1>2. ASSUME NEW t \in Target, SendTask(v, t) PROVE TaskTypeOK'
  <2>1. /\ sent' = [sent EXCEPT ![v] = @ \cup {t}] /\ t \in TargetsOf[v]
        /\ queue' = [queue EXCEPT ![v][t] = @ + 1]
        /\ repeated' \in SUBSET Version
        /\ UNCHANGED <<job, work, built, faults, counted>>
    BY <1>2 DEF SendTask
  <2>2. queue' \in [Version -> [Target -> Nat]]
    BY <2>1
  <2>3. sent' \in [Version -> SUBSET Target] /\ \A u \in Version : sent'[u] \subseteq TargetsOf[u]
    BY <2>1
  <2> QED BY <2>1, <2>2, <2>3
<1>3. CASE CountTasks(v)
  <2>1. Cardinality(sent[v]) \in Nat
    BY TargetsAssumption, FS_Subset, FS_CardinalityType
  <2> DEFINE n == job[v].tasks + Cardinality(sent[v])
             s == IF sent[v] = {} THEN "noTasks" ELSE "sent"
             one == [job EXCEPT ![v].tasks = n]
  <2>2. one \in [Version -> [stage : Stage, tasks : Nat, complete : Nat]]
    BY <2>1
  <2>3. s \in Stage
    BY DEF Stage
  <2>4. job' = [one EXCEPT ![v].stage = s]
    BY <1>3, Zenon DEF CountTasks
  <2> HIDE DEF one, s
  <2>5. job' \in [Version -> [stage : Stage, tasks : Nat, complete : Nat]]
    BY <2>2, <2>3, <2>4
  <2> QED BY <1>3, <2>5 DEF CountTasks
<1>4. ASSUME \E s \in Stage : job' = [job EXCEPT ![v].stage = s],
             UNCHANGED <<sent, queue, work, built, counted, repeated>>,
             faults' \in 0..MaxFaults
      PROVE  TaskTypeOK'
  BY <1>4
<1>5. CASE CountRefused(v) \/ ActivateWithoutTasks(v) \/ Succeed(v) \/ Return(v)
  BY <1>4, <1>5 DEF CountRefused, ActivateWithoutTasks, Succeed, Return, Stage
<1>6. CASE AttemptFails(v)
  BY <1>4, <1>6, BoundAssumption DEF AttemptFails, Stage
<1> QED BY <1>1, <1>2, <1>3, <1>5, <1>6 DEF RunJob

WorkType ==
  [pc : {"idle", "rebuilding", "counting", "checking", "activating"},
   job : Version \cup {NoVersion}, target : Target, seen : Rule, tasks : Nat]

(* The steps of an invocation of the consumer.                             *)
LEMMA WorkStepType ==
  ASSUME TaskTypeOK, rule \in Rule, NEW w \in Worker, Consume(w) \/ Die(w)
  PROVE  TaskTypeOK'
<1> USE DEF TaskTypeOK, console, ghosts
<1>0. work \in [Worker -> WorkType] /\ work[w] \in WorkType
  BY DEF WorkType
<1>1. ASSUME NEW v \in Version, NEW t \in Target, Receive(w, v, t) PROVE TaskTypeOK'
  <2>1. queue' \in [Version -> [Target -> Nat]]
    BY <1>1 DEF Receive
  <2> DEFINE new == [pc |-> "rebuilding", job |-> v, target |-> t, seen |-> rule, tasks |-> 0]
  <2>2. new \in WorkType
    BY DEF WorkType
  <2>3. work' = [work EXCEPT ![w] = new] /\ UNCHANGED <<job, sent, built, faults, counted, repeated>>
    BY <1>1 DEF Receive
  <2>4. new.job \in Version
    OBVIOUS
  <2> HIDE DEF new
  <2>5. work' \in [Worker -> WorkType]
    BY <1>0, <2>2, <2>3
  <2>6. \A x \in Worker : work'[x].pc # "idle" => work'[x].job \in Version
    BY <1>0, <2>3, <2>4
  <2> QED BY <2>1, <2>3, <2>5, <2>6 DEF WorkType
<1>2. ASSUME NEW pc \in {"idle", "rebuilding", "counting", "checking", "activating"},
             Go(w, pc), work[w].pc # "idle"
      PROVE  /\ work' \in [Worker -> WorkType]
             /\ \A x \in Worker : work'[x].pc # "idle" => work'[x].job \in Version
  <2>1. work' \in [Worker -> WorkType]
    BY <1>0, <1>2 DEF Go, WorkType
  <2>2. \A x \in Worker : work'[x].job = work[x].job
    BY <1>0, <1>2 DEF Go
  <2>3. \A x \in Worker : work'[x].pc # "idle" => work[x].pc # "idle"
    BY <1>0, <1>2 DEF Go
  <2> QED BY <2>1, <2>2, <2>3
<1>3. CASE Rebuild(w)
  <2>1. Go(w, "counting") /\ work[w].pc # "idle" /\ UNCHANGED <<job, sent, queue, faults, counted, repeated>>
    BY <1>3 DEF Rebuild
  <2>2. built' \in SUBSET (Version \X Target)
    <3>1. <<work[w].job, work[w].target>> \in Version \X Target
      BY <1>0, <2>1 DEF WorkType
    <3> QED BY <1>3, <3>1 DEF Rebuild
  <2> QED BY <1>2, <2>1, <2>2 DEF WorkType
<1>4. CASE Count(w)
  <2> DEFINE v == work[w].job
             newJob == [job[v] EXCEPT !.complete = @ + 1]
  <2>1. v \in Version /\ work[w].target \in Target
    BY <1>0, <1>4 DEF Count, WorkType
  <2>2. newJob \in [stage : Stage, tasks : Nat, complete : Nat]
    BY <2>1
  <2>3. job' = [job EXCEPT ![v] = newJob]
    BY <1>4 DEF Count
  <2>4. /\ counted' \in SUBSET (Version \X Target) /\ repeated' \in SUBSET Version
        /\ UNCHANGED <<sent, queue, built, faults>>
    BY <1>4, <2>1 DEF Count
  <2>5. PICK pc \in {"idle", "checking"} :
          work' = [work EXCEPT ![w].pc = pc, ![w].tasks = newJob.tasks]
    BY <1>4 DEF Count
  <2>6. newJob.tasks \in Nat /\ job' \in [Version -> [stage : Stage, tasks : Nat, complete : Nat]]
    BY <2>2, <2>3
  <2> HIDE DEF newJob
  <2>7. work' \in [Worker -> WorkType]
    BY <1>0, <2>5, <2>6, Zenon DEF WorkType
  <2>8. \A x \in Worker : work'[x].pc # "idle" => work'[x].job \in Version
    <3>1. \A x \in Worker : work'[x].job = work[x].job
      BY <1>0, <2>5
    <3>2. \A x \in Worker : work'[x].pc # "idle" => work[x].pc # "idle"
      BY <1>0, <1>4, <2>5 DEF Count
    <3> QED BY <3>1, <3>2
  <2> QED BY <2>4, <2>6, <2>7, <2>8 DEF WorkType
<1>5. ASSUME GiveBack(w), work[w].pc # "idle", faults' \in 0..MaxFaults,
             UNCHANGED <<job, sent, built, counted, repeated>>
      PROVE  TaskTypeOK'
  <2>1. queue' \in [Version -> [Target -> Nat]]
    BY <1>0, <1>5 DEF GiveBack, WorkType
  <2> QED BY <1>2, <1>5, <2>1 DEF GiveBack, WorkType
<1>6. CASE TaskCountRefused(w)
  BY <1>5, <1>6 DEF TaskCountRefused
<1>7. CASE Check(w)
  BY <1>2, <1>7 DEF Check, WorkType
<1>8. CASE Activate(w)
  BY <1>2, <1>8 DEF Activate, WorkType
<1>9. CASE Die(w)
  BY <1>5, <1>9, BoundAssumption DEF Die
<1> QED BY <1>1, <1>3, <1>4, <1>6, <1>7, <1>8, <1>9 DEF Consume

(* The steps that leave tasks and jobs alone.                              *)
LEMMA OutsideStepType ==
  ASSUME TaskTypeOK,
         \/ Console \/ Saving \/ SaveFails
         \/ \E c \in Trigger : StartJob(c) \/ StartFails(c)
  PROVE  TaskTypeOK'
<1> USE DEF TaskTypeOK
<1>1. UNCHANGED <<job, sent, queue, work, built, counted, repeated>>
  BY DEF Console, Refresh, Enable, Disable, Edit, Request, Saving, Put, SetDeploying, CreateJob,
         Respond, SaveFails, StartJob, StartFails, console, ghosts
<1>2. faults' \in 0..MaxFaults
  BY BoundAssumption
  DEF Console, Refresh, Enable, Disable, Edit, Request, Saving, Put, SetDeploying, CreateJob,
      Respond, SaveFails, StartJob, StartFails
<1> QED BY <1>1, <1>2

LEMMA StepType ==
  ASSUME TypeOK, SaveInv, JobInv, Next \/ UNCHANGED vars
  PROVE  TypeOK' /\ SaveInv' /\ JobInv'
<1>1. SaveTypeOK /\ TaskTypeOK /\ rule \in Rule
  BY TypeInParts DEF TypeOK
<1>2. JobInv' /\ JobTypeOK'
  BY NextIsJobStep, JobStepInv DEF JobInv
<1>3. SaveTypeOK' /\ SaveInv'
  BY <1>1, SaveStepType, OtherStepSaveType DEF Next, Fault
<1>4. TaskTypeOK'
  <2>1. CASE UNCHANGED vars
    BY <1>1, <2>1, TaskTypeKept DEF vars, taskVars, ghosts
  <2> QED BY <1>1, <2>1, AttemptStepType, WorkStepType, OutsideStepType DEF Next, Fault
<1> QED BY <1>2, <1>3, <1>4, TypeInParts, PTL

-----------------------------------------------------------------------------
(* The job and its attempt                                                 *)

(* Steps that leave the attempts alone: what is read of a job that was     *)
(* started changes for none, unless deliveries of its message met.         *)
LEMMA OutsideKeepsRun ==
  ASSUME TypeOK, JobInv, RunInv, EndedIsNotRunning, DeployingHasJob,
         \A v \in Version : job'[v].stage = job[v].stage,
         \/ \E c \in Trigger : TriggerStep(c) \/ TriggerFails(c)
         \/ \E v \in Version : SendBatchJob(v)
         \/ UNCHANGED jobVars
  PROVE  RunInv' /\ EndedIsNotRunning'
<1> USE JobAssumption
<1>1. ASSUME NEW j \in Job
      PROVE  /\ execution'[j] = execution[j]
                  \/ (execution[j] = "none" /\ execution'[j] = "waiting")
             /\ silent' = silent
             /\ Unreset(j)' => Unreset(j)
  BY DEF JobInv, JobTypeOK, TriggerStep, TriggerFails, ReceiveRequest, LookUp, Insert,
         StartExecution, SendBatchJob, jobVars, Unreset
<1>2. ASSUME NEW j \in Job, execution[j] # "none", Unreset(j)'
      PROVE  Stored(j)' = Stored(j)
  <2>1. CASE \E c \in Trigger : TriggerStep(c) \/ TriggerFails(c)
    BY <1>1, <1>2, <2>1, TriggerKeepsStored DEF JobInv, StartedIsStored
  <2>2. CASE UNCHANGED <<doc, copy>>
    BY <2>2 DEF Stored
  <2> QED BY <2>1, <2>2 DEF SendBatchJob, jobVars
<1>3. RunInv'
  <2> SUFFICES ASSUME NEW v \in Version
               PROVE  /\ job'[v].stage # "idle" => execution'[v] = "running"
                      /\ job'[v].stage = "done" /\ Unreset(v)' => Stored(v)'.status = "SUCCESS"
    BY DEF RunInv
  <2>1. job'[v].stage # "idle" => execution[v] = "running" /\ execution'[v] = "running"
    BY <1>1 DEF RunInv
  <2>2. job'[v].stage = "done" /\ Unreset(v)' => Stored(v)'.status = "SUCCESS"
    BY <1>1, <1>2, <2>1 DEF RunInv
  <2> QED BY <2>1, <2>2
<1>4. EndedIsNotRunning'
  <2> SUFFICES ASSUME NEW j \in Job, execution'[j] = "ended", j \notin silent', Unreset(j)'
               PROVE  ~(SeenRunning(j)')
    BY DEF EndedIsNotRunning
  <2>1. execution[j] = "ended" /\ j \notin silent /\ Unreset(j)
    BY <1>1
  <2>2. Stored(j)' = Stored(j)
    BY <1>2, <2>1
  <2> QED BY <2>1, <2>2 DEF EndedIsNotRunning, SeenRunning
<1> QED BY <1>3, <1>4

(* A step of one execution decides for its own job, and for no other.      *)
LEMMA ExecutionKeepsRun ==
  ASSUME TypeOK, JobInv, RunInv, EndedIsNotRunning, NEW v \in Version, ExecutionStep(v),
         \A u \in Version : u # v => job'[u].stage = job[u].stage,
         job'[v].stage # "idle" => execution'[v] = "running",
         job'[v].stage = "done" => Stored(v)'.status = "SUCCESS",
         execution'[v] = "ended" /\ v \notin silent' /\ Unreset(v)' => ~(SeenRunning(v)')
  PROVE  RunInv' /\ EndedIsNotRunning'
<1> USE JobAssumption
<1>1. ASSUME NEW u \in Version, u # v
      PROVE  /\ Stored(u)' = Stored(u) /\ execution'[u] = execution[u]
             /\ u \in silent' <=> u \in silent
             /\ Unreset(u)' <=> Unreset(u)
  BY <1>1, OtherJobsKept DEF Unreset
<1>2. ASSUME NEW u \in Version
      PROVE  /\ job'[u].stage # "idle" => execution'[u] = "running"
             /\ job'[u].stage = "done" /\ Unreset(u)' => Stored(u)'.status = "SUCCESS"
  <2>1. CASE u = v
    BY <2>1
  <2>2. CASE u # v
    BY <1>1, <2>2 DEF RunInv
  <2> QED BY <2>1, <2>2
<1>3. ASSUME NEW u \in Version, execution'[u] = "ended", u \notin silent', Unreset(u)'
      PROVE  ~(SeenRunning(u)')
  <2>1. CASE u = v
    BY <1>3, <2>1
  <2>2. CASE u # v
    BY <1>1, <1>3, <2>2 DEF EndedIsNotRunning, SeenRunning
  <2> QED BY <2>1, <2>2
<1>4. RunInv'
  BY <1>2 DEF RunInv
<1>5. EndedIsNotRunning'
  BY <1>3 DEF EndedIsNotRunning
<1> QED BY <1>4, <1>5

LEMMA RunStep ==
  ASSUME IInv, Next \/ UNCHANGED vars
  PROVE  RunInv' /\ EndedIsNotRunning'
<1> USE JobAssumption DEF IInv
<1>0. job \in [Version -> [stage : Stage, tasks : Nat, complete : Nat]]
  BY DEF TypeOK
<1>1. CASE Console \/ Saving \/ SaveFails \/ UNCHANGED vars
  <2>1. job' = job
    BY <1>1 DEF Console, Refresh, Enable, Disable, Edit, Request, Saving, Put, SetDeploying,
                CreateJob, Respond, SaveFails, vars
  <2>2. UNCHANGED jobVars \/ \E v \in Version : SendBatchJob(v)
    BY <1>1 DEF Console, Refresh, Enable, Disable, Edit, Request, Saving, Put, SetDeploying,
                CreateJob, Respond, SaveFails, vars, SaveInv
  <2> QED BY <2>1, <2>2, OutsideKeepsRun
<1>2. ASSUME NEW c \in Trigger, StartJob(c) \/ StartFails(c) PROVE RunInv' /\ EndedIsNotRunning'
  <2>1. job' = job /\ (TriggerStep(c) \/ TriggerFails(c))
    BY <1>2 DEF StartJob, StartFails
  <2> QED BY <2>1, OutsideKeepsRun
<1>3. ASSUME NEW w \in Worker, Consume(w) \/ Die(w) PROVE RunInv' /\ EndedIsNotRunning'
  <2>1. UNCHANGED jobVars
    BY <1>3 DEF Consume, Receive, Rebuild, Count, TaskCountRefused, Check, Activate, Die
  <2>2. \A v \in Version : job'[v].stage = job[v].stage
    <3>1. CASE Count(w)
      BY <1>0, <3>1 DEF Count
    <3>2. CASE job' = job
      BY <3>2
    <3> QED BY <1>3, <3>1, <3>2 DEF Consume, Receive, Rebuild, TaskCountRefused, Check, Activate, Die
  <2> QED BY <2>1, <2>2, OutsideKeepsRun
<1>4. ASSUME NEW v \in Version, RunJob(v) \/ AttemptFails(v) PROVE RunInv' /\ EndedIsNotRunning'
  <2>0. JobTypeOK /\ execution \in [Job -> {"none", "waiting", "running", "ended"}] /\ v \in Job
    BY DEF JobInv, JobTypeOK
  <2>1. ASSUME NEW s \in Stage \ {"done"}, \/ job[v].stage = s
                                           \/ job[v].stage # "idle",
               \A u \in Version : job'[u].stage = IF u = v THEN s ELSE job[u].stage,
               UNCHANGED jobVars
        PROVE  RunInv' /\ EndedIsNotRunning'
    <3>1. RunInv'
      BY <2>1 DEF RunInv, Stored, Unreset, jobVars
    <3>2. EndedIsNotRunning'
      BY <2>1 DEF EndedIsNotRunning, Stored, Unreset, SeenRunning, jobVars
    <3> QED BY <3>1, <3>2
  <2>2. CASE \E t \in Target : SendTask(v, t)
    BY <2>2, OutsideKeepsRun DEF SendTask
  <2>3. CASE CountTasks(v) \/ ActivateWithoutTasks(v)
    <3>1. PICK s \in {"sent", "noTasks"} :
            \A u \in Version : job'[u].stage = IF u = v THEN s ELSE job[u].stage
      BY <1>0, <2>3 DEF CountTasks, ActivateWithoutTasks
    <3>2. job[v].stage # "idle" /\ UNCHANGED jobVars
      BY <2>3 DEF CountTasks, ActivateWithoutTasks
    <3> QED BY <2>1, <3>1, <3>2 DEF Stage
  <2>4. CASE StartAttempt(v)
    <3>1. /\ ExecutionStep(v)
          /\ \A u \in Version : u # v => job'[u].stage = job[u].stage
          /\ job'[v].stage = "sending"
          /\ execution'[v] = "running"
      BY <1>0, <2>0, <2>4 DEF StartAttempt, BeginAttempt, ExecutionStep
    <3> QED BY <3>1, ExecutionKeepsRun
  <2>5. CASE Succeed(v)
    <3>1. /\ ExecutionStep(v)
          /\ \A u \in Version : u # v => job'[u].stage = job[u].stage
          /\ execution'[v] = "running"
          /\ UpdateStatus(v, "SUCCESS")
      BY <1>0, <2>0, <2>5 DEF Succeed, SucceedAttempt, ExecutionStep
    <3>2. Stored(v)'.status = "SUCCESS"
      BY <2>0, <3>1, WrittenIsRead DEF JobStatus
    <3> QED BY <3>1, <3>2, ExecutionKeepsRun
  <2>6. CASE Return(v)
    <3>1. /\ ExecutionStep(v) /\ UNCHANGED <<doc, copy, overlapped, silent>>
          /\ \A u \in Version : u # v => job'[u].stage = job[u].stage
          /\ job'[v].stage = "idle" /\ job[v].stage = "done"
      BY <1>0, <2>0, <2>6 DEF Return, EndAttempt, ExecutionStep
    <3>2. Unreset(v)' => Stored(v)'.status = "SUCCESS"
      BY <3>1 DEF RunInv, Unreset, Stored
    <3>3. Unreset(v)' => ~(SeenRunning(v)')
      BY <3>2 DEF SeenRunning
    <3> QED BY <3>1, <3>3, ExecutionKeepsRun
  <2>7. CASE CountRefused(v) \/ AttemptFails(v)
    <3>1. /\ ExecutionStep(v)
          /\ \A u \in Version : u # v => job'[u].stage = job[u].stage
          /\ job'[v].stage = "idle"
          /\ FailAttempt(v) \/ DieInAttempt(v)
      BY <1>0, <2>0, <2>7 DEF CountRefused, AttemptFails, ExecutionStep
    <3>2. CASE FailAttempt(v)
      <4>1. Stored(v)'.status = "FAILED"
        BY <2>0, <3>2, WrittenIsRead DEF FailAttempt, JobStatus
      <4>2. ~(SeenRunning(v)')
        BY <4>1 DEF SeenRunning
      <4> QED BY <3>1, <4>2, ExecutionKeepsRun
    <3>3. CASE DieInAttempt(v)
      <4>1. v \in silent'
        BY <3>3 DEF DieInAttempt
      <4> QED BY <3>1, <4>1, ExecutionKeepsRun
    <3> QED BY <3>1, <3>2, <3>3
  <2> QED BY <1>4, <2>2, <2>3, <2>4, <2>5, <2>6, <2>7 DEF RunJob
<1> QED BY <1>1, <1>2, <1>3, <1>4 DEF Next, Fault

(* A rule is set DEPLOYING under the version whose job its save then sends.*)
LEMMA DeployingHasJobStep ==
  ASSUME TypeOK, SaveInv, JobInv, DeployingHasJob, Next \/ UNCHANGED vars
  PROVE  DeployingHasJob'
<1> USE JobAssumption DEF SaveInv
<1>0. rule \in Rule
  BY DEF TypeOK
<1>1. ASSUME NEW j \in Job, rule.version = j, OnItsWay(j), rule' = rule PROVE DeployingHasJob'
  <2>1. OnItsWay(j)'
    BY <1>1, NextIsJobStep, JobStaysOnItsWay
  <2> QED BY <1>1, <2>1 DEF DeployingHasJob, OnItsWay, Handles
<1>2. CASE save.pc = "creating" /\ save' = save /\ rule' = rule
  BY <1>2 DEF DeployingHasJob
<1>3. CASE UNCHANGED <<rule, abandoned>> /\ save.pc # "creating"
  BY <1>1, <1>3 DEF DeployingHasJob
<1>4. CASE rule' = [rule EXCEPT !.status = "ACTIVE"]
  BY <1>0, <1>4 DEF DeployingHasJob, Rule
<1>5. CASE Put
  <2>1. save.new \in Rule /\ save.new.status # "DEPLOYING"
    BY <1>5 DEF Put, TypeOK
  <2>2. rule'.status = save.new.status
    BY <1>5, <2>1 DEF Put, Rule
  <2> QED BY <2>1, <2>2 DEF DeployingHasJob
<1>6. CASE SetDeploying
  BY <1>6 DEF SetDeploying, DeployingHasJob, TypeOK
<1>7. CASE CreateJob
  <2>1. rule' = rule /\ rule.version = saves /\ saves \in Job /\ SendBatchJob(saves)
    BY <1>7 DEF CreateJob
  <2>2. request'[rule'.version] > 0
    BY <2>1 DEF SendBatchJob, JobInv, JobTypeOK
  <2> QED BY <2>2 DEF DeployingHasJob, OnItsWay
<1>8. CASE SaveFails
  <2>1. CASE save.pc \in {"deploying", "creating"}
    BY <1>8, <2>1 DEF SaveFails, DeployingHasJob, ghosts, jobVars
  <2>2. CASE save.pc \notin {"deploying", "creating"}
    BY <1>3, <1>8, <2>2 DEF SaveFails
  <2> QED BY <2>1, <2>2
<1>9. CASE Console \/ Respond
  BY <1>2, <1>3, <1>9
  DEF Console, Refresh, Enable, Disable, Edit, Request, Respond, ghosts, TypeOK
<1>10. CASE UNCHANGED <<rule, save, abandoned>>
  BY <1>2, <1>3, <1>10
<1>11. ASSUME NEW v \in Version, RunJob(v) \/ AttemptFails(v) PROVE DeployingHasJob'
  BY <1>4, <1>10, <1>11
  DEF RunJob, StartAttempt, SendTask, CountTasks, CountRefused, ActivateWithoutTasks, Succeed,
      Return, AttemptFails, console, ghosts
<1>12. ASSUME NEW w \in Worker, Consume(w) \/ Die(w) PROVE DeployingHasJob'
  BY <1>4, <1>10, <1>12
  DEF Consume, Receive, Rebuild, Count, TaskCountRefused, Check, Activate, Die, console, ghosts
<1>13. ASSUME NEW c \in Trigger, StartJob(c) \/ StartFails(c) PROVE DeployingHasJob'
  BY <1>10, <1>13 DEF StartJob, StartFails, console, ghosts
<1>14. CASE UNCHANGED vars
  BY <1>10, <1>14 DEF vars, console, ghosts
<1> QED BY <1>5, <1>6, <1>7, <1>8, <1>9, <1>11, <1>12, <1>13, <1>14 DEF Next, Saving, Fault

-----------------------------------------------------------------------------
(* Counts and tasks                                                        *)

LEMMA TargetsFinite ==
  ASSUME NEW v \in Version, NEW S \in SUBSET TargetsOf[v]
  PROVE  /\ IsFiniteSet(TargetsOf[v]) /\ IsFiniteSet(S)
         /\ Cardinality(TargetsOf[v]) \in Nat /\ Cardinality(S) \in Nat
         /\ Cardinality(S) <= Cardinality(TargetsOf[v])
         /\ Cardinality(S) = Cardinality(TargetsOf[v]) => S = TargetsOf[v]
<1>1. IsFiniteSet(TargetsOf[v])
  BY TargetsAssumption, FS_Subset
<1> QED BY <1>1, FS_Subset, FS_CardinalityType

(* A step that counts nothing.                                             *)
LEMMA NothingCounted ==
  ASSUME TypeOK, TaskInv, CountInv, EarnedInv,
         counted' = counted, repeated \subseteq repeated',
         \A v \in Version : /\ job'[v].tasks = job[v].tasks \/ job'[v].tasks = 0
                            /\ job'[v].complete = job[v].complete \/ job'[v].complete = 0,
         \A v \in Version, t \in Target : queue'[v][t] > 0 => t \in TargetsOf[v],
         \A w \in Worker : \/ work'[w] = work[w]
                           \/ work'[w].pc = "idle"
                           \/ /\ work'[w].target \in TargetsOf[work'[w].job]
                              /\ work'[w].pc \notin {"checking", "activating"}
                           \/ /\ work[w].pc = "checking" /\ work'[w].pc = "activating"
                              /\ work'[w].tasks = work[w].tasks /\ work'[w].job = work[w].job
                              /\ work'[w].target = work[w].target
  PROVE  TaskInv' /\ CountInv' /\ EarnedInv'
<1>1. TaskInv'
  BY DEF TaskInv
<1>2. CountInv'
  <2> SUFFICES ASSUME NEW v \in Version
               PROVE  /\ job'[v].tasks = 0 \/ job'[v].tasks >= Cardinality(TargetsOf[v])
                      /\ v \notin repeated' => job'[v].complete <= Cardinality(Done(v)')
    BY DEF CountInv
  <2>1. Done(v)' = Done(v) /\ Done(v) \subseteq TargetsOf[v]
    BY DEF Done, TaskInv
  <2>2. Cardinality(Done(v)) \in Nat
    BY <2>1, TargetsFinite
  <2> QED BY <2>1, <2>2 DEF CountInv
<1>3. EarnedInv'
  BY DEF EarnedInv, Tasks
<1> QED BY <1>1, <1>2, <1>3

(* A task is counted.                                                      *)
LEMMA CountStep ==
  ASSUME TypeOK, TaskInv, CountInv, EarnedInv, NEW w \in Worker, Count(w)
  PROVE  TaskInv' /\ CountInv' /\ EarnedInv'
<1> SUFFICES ASSUME NEW v, NEW t, v = work[w].job, t = work[w].target
             PROVE  TaskInv' /\ CountInv' /\ EarnedInv'
  OBVIOUS
<1> DEFINE new == [job[v] EXCEPT !.complete = @ + 1]
<1>1. v \in Version /\ t \in Target /\ t \in TargetsOf[v]
  BY DEF TypeOK, Count, TaskInv
<1>2. job[v] \in [stage : Stage, tasks : Nat, complete : Nat]
  BY <1>1 DEF TypeOK
<1>3. /\ new.tasks = job[v].tasks /\ new.complete = job[v].complete + 1
      /\ new.tasks \in Nat /\ new.complete \in Nat
  BY <1>2
<1>4. /\ job' = [job EXCEPT ![v] = new]
      /\ counted' = counted \cup {<<v, t>>}
      /\ repeated' = IF <<v, t>> \in counted THEN repeated \cup {v} ELSE repeated
      /\ work' = [work EXCEPT ![w].pc = IF Completes(w, new) THEN "checking" ELSE "idle",
                              ![w].tasks = new.tasks]
      /\ queue' = queue
  BY DEF Count
<1> HIDE DEF new
<1>5. \A u \in Version : job'[u] = IF u = v THEN new ELSE job[u]
  BY <1>1, <1>4 DEF TypeOK
<1>6. /\ work'[w].job = v /\ work'[w].target = t /\ work'[w].tasks = new.tasks
      /\ work'[w].pc = IF Completes(w, new) THEN "checking" ELSE "idle"
      /\ \A x \in Worker : x # w => work'[x] = work[x]
  BY <1>4 DEF TypeOK
<1>7. TaskInv'
  BY <1>1, <1>4, <1>6 DEF TaskInv, Count
<1>8. ASSUME NEW u \in Version PROVE Done(u) \in SUBSET TargetsOf[u] /\ Done(u)' \in SUBSET TargetsOf[u]
  BY <1>7 DEF Done, TaskInv
<1>9. ASSUME v \notin repeated' PROVE Cardinality(Done(v)') = Cardinality(Done(v)) + 1
  <2>1. <<v, t>> \notin counted
    BY <1>4, <1>9
  <2>2. t \notin Done(v) /\ Done(v)' = Done(v) \cup {t}
    BY <1>1, <1>4, <2>1 DEF Done
  <2>3. IsFiniteSet(Done(v))
    BY <1>1, <1>8, TargetsFinite
  <2> QED BY <2>2, <2>3, FS_AddElement
<1>10. CountInv'
  <2>1. ASSUME NEW u \in Version
        PROVE  job'[u].tasks = 0 \/ job'[u].tasks >= Cardinality(TargetsOf[u])
    BY <1>3, <1>5 DEF CountInv
  <2>2. v \notin repeated' => job'[v].complete <= Cardinality(Done(v)')
    <3>1. Cardinality(Done(v)) \in Nat
      BY <1>1, <1>8, TargetsFinite
    <3>2. v \notin repeated' => job[v].complete <= Cardinality(Done(v))
      BY <1>1, <1>4 DEF CountInv
    <3> QED BY <1>1, <1>2, <1>3, <1>5, <1>9, <3>1, <3>2
  <2>3. ASSUME NEW u \in Version, u # v, u \notin repeated'
        PROVE  job'[u].complete <= Cardinality(Done(u)')
    <3>1. Done(u)' = Done(u)
      BY <1>4, <2>3 DEF Done
    <3> QED BY <1>4, <1>5, <2>3, <3>1 DEF CountInv
  <2> QED BY <2>1, <2>2, <2>3 DEF CountInv
<1>11. ASSUME Completes(w, new), new.tasks > 0, v \notin repeated' PROVE Tasks(v) \subseteq counted'
  <2>1. new.complete >= Cardinality(TargetsOf[v])
    <3>1. new.tasks >= Cardinality(TargetsOf[v])
      BY <1>1, <1>3, <1>11 DEF CountInv
    <3>2. Cardinality(TargetsOf[v]) \in Nat /\ new.complete >= new.tasks
      BY <1>1, <1>11, TargetsFinite DEF Completes
    <3> QED BY <1>3, <3>1, <3>2
  <2>2. new.complete <= Cardinality(Done(v)')
    BY <1>1, <1>5, <1>10, <1>11 DEF CountInv
  <2>3. Done(v)' = TargetsOf[v]
    <3> DEFINE S == Done(v)'
    <3>1. S \in SUBSET TargetsOf[v]
      BY <1>1, <1>8
    <3> HIDE DEF S
    <3>2. /\ Cardinality(TargetsOf[v]) \in Nat /\ Cardinality(S) \in Nat
          /\ Cardinality(S) <= Cardinality(TargetsOf[v])
          /\ Cardinality(S) = Cardinality(TargetsOf[v]) => S = TargetsOf[v]
      BY <1>1, <3>1, TargetsFinite
    <3>3. new.complete <= Cardinality(S)
      BY <2>2 DEF S
    <3>4. S = TargetsOf[v]
      BY <1>3, <2>1, <3>2, <3>3
    <3> QED BY <3>4 DEF S
  <2> QED BY <1>1, <2>3 DEF Done, Tasks
<1>12. EarnedInv'
  <2> SUFFICES ASSUME NEW x \in Worker, work'[x].pc \in {"checking", "activating"},
                      work'[x].tasks > 0, work'[x].job \notin repeated'
               PROVE  Tasks(work'[x].job) \subseteq counted'
    BY DEF EarnedInv, Tasks
  <2>1. CASE x = w
    BY <1>6, <1>11, <2>1
  <2>2. CASE x # w
    <3>1. work'[x] = work[x]
      BY <1>6, <2>2
    <3>2. work[x].job \notin repeated
      BY <1>4, <3>1
    <3>3. Tasks(work[x].job) \subseteq counted
      BY <3>1, <3>2 DEF EarnedInv
    <3> QED BY <1>4, <3>1, <3>3
  <2> QED BY <2>1, <2>2
<1> QED BY <1>7, <1>10, <1>12

(* The total is set from the tasks that were sent: all of them.            *)
LEMMA TotalStep ==
  ASSUME TypeOK, TaskInv, CountInv, EarnedInv, NEW v \in Version, CountTasks(v)
  PROVE  TaskInv' /\ CountInv' /\ EarnedInv'
<1>1. UNCHANGED <<queue, work, counted, repeated>>
  BY DEF CountTasks, ghosts
<1>2. TaskInv' /\ EarnedInv'
  BY <1>1 DEF TaskInv, EarnedInv, Tasks
<1>3. CountInv'
  <2>1. /\ job[v].tasks \in Nat /\ Cardinality(TargetsOf[v]) \in Nat
        /\ job'[v].tasks = job[v].tasks + Cardinality(TargetsOf[v])
        /\ job'[v].complete = job[v].complete
        /\ \A u \in Version : u # v => job'[u] = job[u]
    BY TargetsFinite DEF TypeOK, CountTasks
  <2>2. \A u \in Version : Done(u)' = Done(u)
    BY <1>1 DEF Done
  <2>3. job'[v].tasks >= Cardinality(TargetsOf[v])
    BY <2>1
  <2> QED BY <1>1, <2>1, <2>2, <2>3 DEF CountInv
<1> QED BY <1>2, <1>3

LEMMA TaskStep ==
  ASSUME TypeOK, SaveInv, TaskInv, CountInv, EarnedInv, Next \/ UNCHANGED vars
  PROVE  TaskInv' /\ CountInv' /\ EarnedInv'
<1> USE DEF console, ghosts
<1>0. /\ job \in [Version -> [stage : Stage, tasks : Nat, complete : Nat]]
      /\ queue \in [Version -> [Target -> Nat]]
      /\ work \in [Worker -> WorkType]
  BY DEF TypeOK, WorkType
<1>1. CASE UNCHANGED <<job, queue, work, counted, repeated>>
  BY <1>1, NothingCounted DEF TaskInv
<1>2. CASE Console \/ Saving \/ SaveFails \/ \E c \in Trigger : StartJob(c) \/ StartFails(c)
  BY <1>1, <1>2
  DEF Console, Refresh, Enable, Disable, Edit, Request, Saving, Put, SetDeploying, CreateJob,
      Respond, SaveFails, StartJob, StartFails
<1>3. ASSUME NEW v \in Version, RunJob(v) \/ AttemptFails(v), ~CountTasks(v)
      PROVE  TaskInv' /\ CountInv' /\ EarnedInv'
  <2>1. ASSUME NEW t \in Target, SendTask(v, t) PROVE TaskInv' /\ CountInv' /\ EarnedInv'
    <3>1. /\ UNCHANGED <<job, work, counted>> /\ repeated \subseteq repeated'
          /\ queue' = [queue EXCEPT ![v][t] = @ + 1] /\ t \in TargetsOf[v]
      BY <2>1 DEF SendTask
    <3>2. \A u \in Version, s \in Target : queue'[u][s] > 0 => s \in TargetsOf[u]
      BY <1>0, <3>1 DEF TaskInv
    <3> QED BY <3>1, <3>2, NothingCounted
  <2>2. ASSUME \A u \in Version : /\ job'[u].tasks = job[u].tasks \/ job'[u].tasks = 0
                                  /\ job'[u].complete = job[u].complete \/ job'[u].complete = 0,
               UNCHANGED <<queue, work, counted, repeated>>
        PROVE  TaskInv' /\ CountInv' /\ EarnedInv'
    BY <2>2, NothingCounted DEF TaskInv
  <2>3. CASE StartAttempt(v)
    BY <1>0, <2>2, <2>3 DEF StartAttempt
  <2>4. CASE CountRefused(v) \/ ActivateWithoutTasks(v) \/ Succeed(v) \/ Return(v) \/ AttemptFails(v)
    <3>1. UNCHANGED <<queue, work, counted, repeated>>
      BY <2>4 DEF CountRefused, ActivateWithoutTasks, Succeed, Return, AttemptFails
    <3>2. PICK s \in Stage : job' = [job EXCEPT ![v].stage = s]
      BY <2>4 DEF CountRefused, ActivateWithoutTasks, Succeed, Return, AttemptFails, Stage
    <3> QED BY <1>0, <2>2, <3>1, <3>2
  <2> QED BY <1>3, <2>1, <2>3, <2>4 DEF RunJob
<1>4. ASSUME NEW w \in Worker, Consume(w) \/ Die(w), ~Count(w)
      PROVE  TaskInv' /\ CountInv' /\ EarnedInv'
  <2>1. ASSUME NEW v \in Version, NEW t \in Target, Receive(w, v, t)
        PROVE  TaskInv' /\ CountInv' /\ EarnedInv'
    <3>1. /\ UNCHANGED <<job, counted, repeated>> /\ t \in TargetsOf[v]
          /\ queue' = [queue EXCEPT ![v][t] = @ - 1]
      BY <2>1 DEF Receive, TaskInv
    <3>2. \A u \in Version, s \in Target : queue'[u][s] > 0 => s \in TargetsOf[u]
      BY <1>0, <3>1 DEF TaskInv
    <3>3. /\ work'[w].pc = "rebuilding" /\ work'[w].job = v /\ work'[w].target = t
          /\ \A x \in Worker : x # w => work'[x] = work[x]
      BY <1>0, <2>1 DEF Receive
    <3> QED BY <3>1, <3>2, <3>3, NothingCounted
  <2>2. ASSUME NEW pc, Go(w, pc)
        PROVE  /\ work'[w].pc = pc /\ work'[w].tasks = work[w].tasks
               /\ work'[w].job = work[w].job /\ work'[w].target = work[w].target
               /\ \A x \in Worker : x # w => work'[x] = work[x]
    BY <1>0, <2>2 DEF Go, WorkType
  <2>3. CASE Rebuild(w)
    <3>1. UNCHANGED <<job, queue, counted, repeated>> /\ Go(w, "counting") /\ work[w].pc = "rebuilding"
      BY <2>3 DEF Rebuild
    <3>2. work'[w].pc = "counting" /\ work'[w].target \in TargetsOf[work'[w].job]
      BY <2>2, <3>1 DEF TaskInv
    <3>3. \A x \in Worker : x # w => work'[x] = work[x]
      BY <2>2, <3>1
    <3> QED BY <3>1, <3>2, <3>3, NothingCounted DEF TaskInv
  <2>4. CASE Check(w) \/ Activate(w)
    <3>1. UNCHANGED <<job, queue, counted, repeated>>
      BY <2>4 DEF Check, Activate
    <3>2. Go(w, "idle") \/ (Go(w, "activating") /\ work[w].pc = "checking")
      BY <2>4 DEF Check, Activate
    <3>3. \A x \in Worker : x # w => work'[x] = work[x]
      BY <2>2, <3>2
    <3>4. \/ work'[w].pc = "idle"
          \/ /\ work[w].pc = "checking" /\ work'[w].pc = "activating"
             /\ work'[w].tasks = work[w].tasks /\ work'[w].job = work[w].job
             /\ work'[w].target = work[w].target
      BY <2>2, <3>2
    <3> QED BY <3>1, <3>3, <3>4, NothingCounted DEF TaskInv
  <2>5. CASE TaskCountRefused(w) \/ Die(w)
    <3>1. UNCHANGED <<job, counted, repeated>> /\ GiveBack(w) /\ work[w].pc # "idle"
      BY <2>5 DEF TaskCountRefused, Die
    <3>2. work'[w].pc = "idle" /\ \A x \in Worker : x # w => work'[x] = work[x]
      BY <2>2, <3>1 DEF GiveBack
    <3>3. /\ work[w].job \in Version /\ work[w].target \in TargetsOf[work[w].job]
          /\ queue' = [queue EXCEPT ![work[w].job][work[w].target] = @ + 1]
      BY <3>1 DEF GiveBack, TypeOK, TaskInv
    <3>4. \A u \in Version, s \in Target : queue'[u][s] > 0 => s \in TargetsOf[u]
      BY <1>0, <3>3 DEF TaskInv
    <3> QED BY <3>1, <3>2, <3>4, NothingCounted
  <2> QED BY <1>4, <2>1, <2>3, <2>4, <2>5 DEF Consume
<1>5. CASE UNCHANGED vars
  BY <1>1, <1>5 DEF vars
<1> QED BY <1>2, <1>3, <1>4, <1>5, TotalStep, CountStep DEF Next, Fault, RunJob, Consume

-----------------------------------------------------------------------------
LEMMA InitIInv == Init => IInv
<1> SUFFICES ASSUME Init PROVE IInv
  OBVIOUS
<1>1. TypeOK
  BY InitType
<1>2. JobInv
  BY JobInitInv DEF Init
<1>3. SaveInv
  BY DEF Init, SaveInv
<1>4. RunInv
  BY DEF Init, RunInv
<1>5. TaskInv
  BY DEF Init, TaskInv
<1>6. CountInv
  <2> SUFFICES ASSUME NEW v \in Version PROVE 0 <= Cardinality(Done(v))
    BY DEF Init, CountInv
  <2>1. Done(v) \in SUBSET TargetsOf[v]
    BY DEF Init, Done
  <2> QED BY <2>1, TargetsFinite
<1>7. EarnedInv
  BY DEF Init, EarnedInv
<1>8. DeployingHasJob
  BY DEF Init, DeployingHasJob
<1>9. EndedIsNotRunning
  BY JobAssumption DEF Init, JobInit, EndedIsNotRunning
<1> QED BY <1>1, <1>2, <1>3, <1>4, <1>5, <1>6, <1>7, <1>8, <1>9 DEF IInv

LEMMA NextIInv == IInv /\ [Next]_vars => IInv'
<1> SUFFICES ASSUME IInv, Next \/ UNCHANGED vars PROVE IInv'
  OBVIOUS
<1>1. TypeOK' /\ SaveInv' /\ JobInv'
  BY StepType DEF IInv
<1>2. RunInv' /\ EndedIsNotRunning'
  BY RunStep
<1>3. TaskInv' /\ CountInv' /\ EarnedInv'
  BY TaskStep DEF IInv
<1>4. DeployingHasJob'
  BY DeployingHasJobStep DEF IInv
<1> QED BY <1>1, <1>2, <1>3, <1>4 DEF IInv

LEMMA Invariance == Spec => []IInv
BY InitIInv, NextIInv, PTL DEF Spec

-----------------------------------------------------------------------------
(***************************************************************************)
(* What was counted for a rule's version is built.                         *)
(*                                                                         *)
(* A task is skipped when the rule has another version than the task's, or *)
(* is INACTIVE.  In the first case the rule has left the task's version,   *)
(* in the second it was saved as INACTIVE (VersionInv).  The version of a  *)
(* task was put by a save (SentInv, TaskOfJob), and one that was put and   *)
(* left comes back only through the page, as INACTIVE, or from the items   *)
(* of variables in use: it is reusable in both cases (LeftStaysLeft).      *)
(***************************************************************************)
(* What an INACTIVE rule or a variable in use has for a version, and what  *)
(* a request may keep for one.                                             *)
VersionInv ==
  /\ rule.status = "INACTIVE" => rule.version \in reusable \cup {NoVersion}
  /\ page.status = "INACTIVE" => page.version \in reusable \cup {NoVersion}
  /\ save.pc = "putting" /\ save.new.status = "ACTIVE"
       => save.new.version \in reusable \cup {NoVersion} \/ save.new.content # save.old.content
  /\ save.pc \notin {"idle", "putting"} /\ save.new.status = "INACTIVE"
       => save.new.version \in reusable
  /\ rule.content <= saves /\ page.content <= saves
  /\ save.pc # "idle" => save.new.content <= saves
  /\ \A c \in Content : used[c] \in {rule.version, NoVersion} \cup reusable

(* The save that names the version has come as far as its write.           *)
WasPut(v) == v < saves \/ (v = saves /\ save.pc # "putting")

SentInv == \A v \in Version : OnItsWay(v) => WasPut(v)

(* A task is one of a job that was sent.                                   *)
TaskOfJob ==
  /\ \A v \in Version, t \in Target : queue[v][t] > 0 \/ <<v, t>> \in counted => OnItsWay(v)
  /\ \A w \in Worker : work[w].pc # "idle" => OnItsWay(work[w].job)

Left(v) == v \in reusable \/ rule.version # v

(* Whoever skips a task, or counts one that is not built, is at a version  *)
(* the rule has left.                                                      *)
SkippedIsLeft ==
  Kind = "RULE" =>
    /\ \A w \in Worker : work[w].pc = "rebuilding" /\ Skips(w) => Left(work[w].job)
    /\ \A w \in Worker : work[w].pc = "counting" /\ <<work[w].job, work[w].target>> \notin built
         => Left(work[w].job)
    /\ \A v \in Version, t \in Target : <<v, t>> \in counted \ built => Left(v)

BuiltInv == VersionInv /\ SentInv /\ TaskOfJob /\ SkippedIsLeft

LEMMA InitBuiltInv == Init => BuiltInv
<1> SUFFICES ASSUME Init PROVE BuiltInv
  OBVIOUS
<1>1. VersionInv
  BY DEF Init, VersionInv
<1>2. ASSUME NEW v \in Version PROVE ~OnItsWay(v)
  <2>1. v \in Job /\ JobInit
    BY JobAssumption DEF Init
  <2>2. \A c \in Trigger : trigger[c].pc = "idle"
    BY <2>1 DEF JobInit
  <2>3. request[v] = 0 /\ execution[v] = "none"
    BY <2>1, Zenon DEF JobInit
  <2> QED BY <2>2, <2>3 DEF OnItsWay, Handles
<1>3. SentInv /\ TaskOfJob
  BY <1>2 DEF SentInv, TaskOfJob, Init
<1>4. SkippedIsLeft
  BY DEF SkippedIsLeft, Init
<1> QED BY <1>1, <1>3, <1>4 DEF BuiltInv

(* A step that neither begins a save nor writes what was requested, as far *)
(* as versions are concerned.                                              *)
QuietStep ==
  /\ UNCHANGED <<used, reusable, saves>>
  /\ rule'.version = rule.version /\ rule'.content = rule.content
  /\ rule'.status # "INACTIVE" \/ rule'.status = rule.status
  /\ page' \in {page, rule} \/ (page' = save.new /\ save.pc = "responding")
  /\ save'.new = save.new /\ save'.old = save.old
  /\ \/ save'.pc \in {save.pc, "idle"}
     \/ save.pc \in {"deploying", "creating"} /\ save'.pc \in {"creating", "responding"}

LEMMA OtherStepIsQuiet ==
  ASSUME TypeOK, Next \/ UNCHANGED vars
  PROVE  QuietStep \/ Enable \/ Disable \/ Edit \/ Put
<1> USE DEF console, ghosts, QuietStep
<1>0. /\ rule \in Rule
      /\ save \in [pc : {"idle", "putting", "deploying", "creating", "responding"},
                   new : Rule, old : Rule]
  BY DEF TypeOK
<1>1. CASE UNCHANGED saveVars
  BY <1>1 DEF saveVars
<1>2. CASE rule' = [rule EXCEPT !.status = "ACTIVE"] /\ UNCHANGED <<used, page, save, saves, reusable>>
  BY <1>0, <1>2 DEF Rule
<1>3. CASE Refresh \/ SetDeploying \/ CreateJob \/ Respond \/ SaveFails
  <2>1. CASE Refresh
    BY <2>1 DEF Refresh
  <2>2. CASE SetDeploying
    BY <1>0, <2>2 DEF SetDeploying, Rule
  <2>3. CASE CreateJob
    BY <1>0, <2>3 DEF CreateJob
  <2>4. CASE Respond
    BY <1>0, <2>4 DEF Respond
  <2>5. CASE SaveFails
    BY <1>0, <2>5 DEF SaveFails
  <2> QED BY <1>3, <2>1, <2>2, <2>3, <2>4, <2>5
<1> USE DEF saveVars
<1>4. CASE \E c \in Trigger : StartJob(c) \/ StartFails(c)
  BY <1>1, <1>4 DEF StartJob, StartFails
<1>5. ASSUME NEW v \in Version, RunJob(v) \/ AttemptFails(v) PROVE QuietStep
  <2>1. CASE StartAttempt(v) \/ \E t \in Target : SendTask(v, t)
    BY <1>1, <2>1 DEF StartAttempt, SendTask
  <2>2. CASE CountTasks(v) \/ CountRefused(v) \/ AttemptFails(v)
    BY <1>1, <2>2 DEF CountTasks, CountRefused, AttemptFails
  <2>3. CASE Succeed(v) \/ Return(v)
    BY <1>1, <2>3 DEF Succeed, Return
  <2>4. CASE ActivateWithoutTasks(v)
    BY <1>2, <2>4 DEF ActivateWithoutTasks
  <2> QED BY <1>5, <2>1, <2>2, <2>3, <2>4 DEF RunJob
<1>6. ASSUME NEW w \in Worker, Consume(w) \/ Die(w) PROVE QuietStep
  <2>1. CASE \E v \in Version, t \in Target : Receive(w, v, t)
    BY <1>1, <2>1 DEF Receive
  <2>2. CASE Rebuild(w) \/ Count(w) \/ TaskCountRefused(w) \/ Check(w) \/ Die(w)
    BY <1>1, <2>2 DEF Rebuild, Count, TaskCountRefused, Check, Die
  <2>3. CASE Activate(w)
    BY <1>2, <2>3 DEF Activate
  <2> QED BY <1>6, <2>1, <2>2, <2>3 DEF Consume
<1>7. CASE UNCHANGED vars
  BY <1>1, <1>7 DEF vars
<1> HIDE DEF QuietStep
<1> QED BY <1>3, <1>4, <1>5, <1>6, <1>7 DEF Next, Console, Saving, Fault

(* What Put makes of the versions: the one it writes is new, reusable, or  *)
(* the rule's own, and the one it replaces is reusable if it stays in use. *)
LEMMA PutVersions ==
  ASSUME TypeOK, SaveInv, VersionInv, Put
  PROVE  /\ rule'.status = save.new.status /\ rule'.content = save.new.content
         /\ save'.new = rule' /\ save'.pc # "putting"
         /\ reusable \subseteq reusable'
         /\ rule'.status = "INACTIVE" => rule'.version \in reusable'
         /\ rule'.version \in {saves, NoVersion, rule.version} \cup reusable'
         /\ \A c \in Content : used'[c] \in {rule'.version, NoVersion} \cup reusable'
<1> DEFINE u == CASE BeingDisabled                -> Removed(save.new.content)
                  [] KeepsVersion \/ BeingEnabled -> used
                  [] OTHER                        -> Removed(save.old.content)
           v == IF KeepsVersion THEN save.new.version ELSE Found(u, save.new.content)
<1>0. /\ save.new \in Rule /\ save.old \in Rule /\ save.new.content \in Content
      /\ save.new.status \in Status /\ save.new.version \in Version \cup {NoVersion}
      /\ used \in [Content -> Version \cup {NoVersion}]
  BY DEF TypeOK, Rule
<1>1. /\ u \in [Content -> Version \cup {NoVersion}]
      /\ \A c \in Content : u[c] \in {used[c], NoVersion}
  BY <1>0 DEF Removed
<1> HIDE DEF u
<1>2. v \in {save.new.version} \/ v \in {saves, u[save.new.content]}
  BY DEF Found
<1>3. KeepsVersion /\ save.new.status # "INACTIVE"
        => v = save.new.version /\ save.new.content = save.old.content
  BY DEF KeepsVersion
<1>4. ~KeepsVersion => v \in {saves, u[save.new.content]} /\ save.new.status # "INACTIVE"
  BY DEF Found, KeepsVersion
<1> HIDE DEF v
<1>5. /\ rule' = [save.new EXCEPT !.version = v]
      /\ used' = IF KeepsVersion THEN u ELSE [u EXCEPT ![save.new.content] = v]
      /\ save' = [save EXCEPT !.pc = IF v = saves THEN "deploying" ELSE "responding",
                              !.new = rule']
      /\ reusable' = reusable \cup {n \in {v} : save.new.status = "INACTIVE"}
                              \cup {n \in {rule.version} \ {v} : \E c \in Content : used'[c] = n}
      /\ save.pc = "putting"
  BY DEF Put, u, v
<1>6. rule'.version = v /\ rule'.status = save.new.status /\ rule'.content = save.new.content
  BY <1>0, <1>5 DEF Rule
<1>7. save'.new = rule' /\ save'.pc # "putting"
  BY <1>5 DEF TypeOK
<1>8. reusable \subseteq reusable' /\ (save.new.status = "INACTIVE" => v \in reusable')
  BY <1>5
<1>9. \A c \in Content : u[c] \in {rule.version, NoVersion} \cup reusable
  BY <1>1 DEF VersionInv
<1>10. v \in {saves, NoVersion, rule.version} \cup reusable'
  <2>1. CASE save.new.status = "INACTIVE"
    BY <1>8, <2>1
  <2>2. CASE save.new.status # "INACTIVE" /\ KeepsVersion
    <3>1. save.new.status = "ACTIVE"
      BY <1>0, <1>5, <2>2 DEF SaveInv, Status
    <3> QED BY <1>3, <1>5, <1>8, <2>2, <3>1 DEF VersionInv
  <2>3. CASE ~KeepsVersion
    BY <1>0, <1>4, <1>8, <1>9, <2>3
  <2> QED BY <2>1, <2>2, <2>3
<1>11. ASSUME NEW c \in Content PROVE used'[c] \in {v, NoVersion} \cup reusable'
  <2>1. used'[c] \in {u[c], v}
    BY <1>0, <1>1, <1>5
  <2>2. CASE used'[c] = rule.version /\ used'[c] # v
    BY <1>5, <2>2
  <2>3. CASE used'[c] # rule.version \/ used'[c] = v
    BY <1>8, <1>9, <2>1, <2>3
  <2> QED BY <2>2, <2>3
<1> QED BY <1>6, <1>7, <1>8, <1>10, <1>11

LEMMA VersionStep ==
  ASSUME TypeOK, SaveInv, VersionInv, Next \/ UNCHANGED vars
  PROVE  VersionInv'
<1>0. /\ rule \in Rule /\ page \in Rule /\ saves \in 0..MaxSaves
      /\ \A r \in Rule : r.content \in Nat
  BY BoundAssumption DEF TypeOK, Rule, Content
<1>1. CASE QuietStep
  <2> USE <1>1 DEF QuietStep, VersionInv
  <2>1. /\ rule'.status = "INACTIVE" => rule'.version \in reusable' \cup {NoVersion}
        /\ rule'.content <= saves'
    OBVIOUS
  <2>2. /\ page'.status = "INACTIVE" => page'.version \in reusable' \cup {NoVersion}
        /\ page'.content <= saves'
    OBVIOUS
  <2>3. /\ save'.pc = "putting" => save.pc = "putting"
        /\ save'.pc \notin {"idle", "putting"} => save.pc \notin {"idle", "putting"}
        /\ save'.pc # "idle" => save.pc # "idle"
    OBVIOUS
  <2>4. \A c \in Content : used'[c] \in {rule'.version, NoVersion} \cup reusable'
    OBVIOUS
  <2> QED BY <2>1, <2>2, <2>3, <2>4
<1>2. ASSUME NEW new \in Rule, Request(new), new.content <= saves + 1,
             new.status = "ACTIVE" => \/ new.version \in reusable \cup {NoVersion}
                                      \/ new.content # rule.content
      PROVE  VersionInv'
  <2>1. /\ UNCHANGED <<rule, used, page, reusable>> /\ saves' = saves + 1
        /\ save'.pc = "putting" /\ save'.new = new /\ save'.old = rule
    BY <1>2 DEF Request, ghosts
  <2>2. rule'.content <= saves' /\ page'.content <= saves' /\ new.content <= saves'
    BY <1>0, <1>2, <2>1 DEF VersionInv
  <2> QED BY <1>2, <2>1, <2>2 DEF VersionInv
<1>3. CASE Enable \/ Disable
  <2>1. PICK s \in Status : /\ Request([page EXCEPT !.status = s])
                            /\ s = "ACTIVE" => page.status = "INACTIVE"
    BY <1>3 DEF Enable, Disable, Status
  <2>2. [page EXCEPT !.status = s] \in Rule
    BY <1>0, RuleType
  <2>3. /\ [page EXCEPT !.status = s].content = page.content
        /\ [page EXCEPT !.status = s].version = page.version
        /\ [page EXCEPT !.status = s].status = s
    BY <1>0 DEF Rule
  <2>4. page.content <= saves + 1
    BY <1>0 DEF VersionInv
  <2> QED BY <1>2, <2>1, <2>2, <2>3, <2>4 DEF VersionInv
<1>4. CASE Edit
  <2>1. Request([page EXCEPT !.content = saves + 1]) /\ saves < MaxSaves
    BY <1>4 DEF Edit, Request
  <2>2. saves + 1 \in Content
    BY <1>0, <2>1, BoundAssumption DEF Content
  <2>3. [page EXCEPT !.content = saves + 1] \in Rule
    BY <1>0, <2>2, RuleType
  <2>4. [page EXCEPT !.content = saves + 1].content = saves + 1
    BY <1>0 DEF Rule
  <2>5. saves + 1 # rule.content
    BY <1>0 DEF VersionInv
  <2>6. saves + 1 <= saves + 1
    BY <1>0
  <2> QED BY <1>2, <2>1, <2>3, <2>4, <2>5, <2>6
<1>5. CASE Put
  <2>1. UNCHANGED <<page, saves>> /\ save.pc = "putting"
    BY <1>5 DEF Put
  <2> QED BY <1>5, <2>1, PutVersions DEF VersionInv
<1> QED BY <1>1, <1>3, <1>4, <1>5, OtherStepIsQuiet

(* A save that was written stays written.                                  *)
LEMMA WasPutStays ==
  ASSUME TypeOK, SaveInv, Next \/ UNCHANGED vars, NEW v \in Version, WasPut(v)
  PROVE  WasPut(v)'
<1>0. saves \in Nat /\ v \in Nat
  BY BoundAssumption DEF TypeOK, Version
<1>1. CASE QuietStep
  BY <1>1 DEF QuietStep, WasPut
<1>2. CASE Enable \/ Disable \/ Edit
  <2>1. saves' = saves + 1
    BY <1>2 DEF Enable, Disable, Edit, Request
  <2> QED BY <1>0, <2>1 DEF WasPut
<1>3. CASE Put
  BY <1>3 DEF Put, WasPut
<1> QED BY <1>1, <1>2, <1>3, OtherStepIsQuiet

(* A version that was put and that the rule has left does not come back as *)
(* one that is not reusable.                                               *)
LEMMA LeftStaysLeft ==
  ASSUME TypeOK, SaveInv, VersionInv, Next \/ UNCHANGED vars,
         NEW v \in Version, WasPut(v), Left(v)
  PROVE  Left(v)'
<1>1. CASE QuietStep
  BY <1>1 DEF QuietStep, Left
<1>2. CASE Enable \/ Disable \/ Edit
  BY <1>2 DEF Enable, Disable, Edit, Request, ghosts, Left
<1>3. CASE Put
  <2>1. v # saves /\ v # NoVersion
    BY <1>3, BoundAssumption DEF Put, WasPut, TypeOK, Version, NoVersion
  <2> QED BY <1>3, <2>1, PutVersions DEF Left
<1> QED BY <1>1, <1>2, <1>3, OtherStepIsQuiet

(* Only CreateJob puts a job on its way, and its save is written.          *)
LEMMA SentStep ==
  ASSUME TypeOK, SaveInv, JobInv, SentInv, Next \/ UNCHANGED vars
  PROVE  SentInv'
<1> SUFFICES ASSUME NEW v \in Version, OnItsWay(v)'
             PROVE  WasPut(v)'
  BY DEF SentInv
<1>1. OnItsWay(v) \/ (CreateJob /\ v = saves)
  <2>1. CASE OwnStep
    BY <2>1, OwnStepSendsNone, JobAssumption
  <2>2. CASE CreateJob /\ v # saves
    BY <2>2, JobAssumption DEF CreateJob, SendBatchJob, OnItsWay, Handles, JobInv, JobTypeOK
  <2> QED BY <2>1, <2>2, NextIsOwnStep
<1>2. CASE OnItsWay(v)
  BY <1>2, WasPutStays DEF SentInv
<1>3. CASE CreateJob /\ v = saves
  BY <1>3 DEF CreateJob, WasPut, TypeOK
<1> QED BY <1>1, <1>2, <1>3

(* Tasks are sent by a job that runs, and received after they were sent.   *)
LEMMA TaskOfJobStep ==
  ASSUME TypeOK, SaveInv, JobInv, RunInv, TaskOfJob, Next \/ UNCHANGED vars
  PROVE  TaskOfJob'
<1>0. /\ queue \in [Version -> [Target -> Nat]]
      /\ work \in [Worker -> WorkType]
  BY DEF TypeOK, WorkType
<1>1. ASSUME NEW v \in Version, OnItsWay(v) PROVE OnItsWay(v)'
  BY <1>1, NextIsJobStep, JobStaysOnItsWay, JobAssumption
<1>2. ASSUME \A v \in Version, t \in Target :
               queue'[v][t] > 0 \/ <<v, t>> \in counted' => OnItsWay(v),
             \A w \in Worker : work'[w].pc # "idle" =>
               work'[w].job \in Version /\ OnItsWay(work'[w].job)
      PROVE  TaskOfJob'
  <2>1. ASSUME NEW v \in Version, NEW t \in Target, queue'[v][t] > 0 \/ <<v, t>> \in counted'
        PROVE  OnItsWay(v)'
    BY <1>1, <1>2, <2>1
  <2>2. ASSUME NEW w \in Worker, work'[w].pc # "idle" PROVE OnItsWay(work[w].job)'
    <3>1. PICK v \in Version : v = work'[w].job /\ OnItsWay(v)
      BY <1>2, <2>2
    <3>2. OnItsWay(v)'
      BY <1>1, <3>1
    <3> QED BY <3>1, <3>2 DEF OnItsWay, Handles
  <2> QED BY <2>1, <2>2 DEF TaskOfJob
<1>3. \A w \in Worker : work[w].pc # "idle" => work[w].job \in Version /\ OnItsWay(work[w].job)
  BY DEF TypeOK, TaskOfJob
<1>4. CASE UNCHANGED <<queue, work, counted>>
  BY <1>2, <1>3, <1>4 DEF TaskOfJob
<1>5. ASSUME NEW v \in Version, NEW t \in Target, SendTask(v, t) PROVE TaskOfJob'
  <2>1. OnItsWay(v)
    BY <1>5 DEF SendTask, RunInv, OnItsWay
  <2>2. \A u \in Version, s \in Target : queue'[u][s] > 0 => queue[u][s] > 0 \/ u = v
    BY <1>0, <1>5 DEF SendTask
  <2> QED BY <1>2, <1>3, <1>5, <2>1, <2>2 DEF SendTask, TaskOfJob
<1>6. ASSUME NEW w \in Worker, Consume(w) \/ Die(w) PROVE TaskOfJob'
  <2>1. \A x \in Worker : x # w => work'[x] = work[x]
    BY <1>0, <1>6
    DEF Consume, Receive, Rebuild, Count, TaskCountRefused, Check, Activate, Die, GiveBack, Go
  <2>2. ASSUME NEW v \in Version, NEW t \in Target, Receive(w, v, t) PROVE TaskOfJob'
    <3>1. work'[w].job = v /\ queue[v][t] > 0 /\ counted' = counted
      BY <1>0, <2>2 DEF Receive, ghosts
    <3>2. \A u \in Version, s \in Target : queue'[u][s] > 0 => queue[u][s] > 0
      BY <1>0, <2>2 DEF Receive
    <3> QED BY <1>2, <1>3, <2>1, <3>1, <3>2 DEF TaskOfJob
  <2>3. CASE ~\E v \in Version, t \in Target : Receive(w, v, t)
    <3>1. work[w].pc # "idle" /\ work'[w].job = work[w].job
      BY <1>0, <1>6, <2>3
      DEF Consume, Rebuild, Count, TaskCountRefused, Check, Activate, Die, GiveBack, Go, WorkType
    <3>2. PICK v \in Version : v = work[w].job /\ OnItsWay(v)
      BY <1>3, <3>1
    <3>3. \A u \in Version, s \in Target : <<u, s>> \in counted' => <<u, s>> \in counted \/ u = v
      BY <1>6, <2>3, <3>2
      DEF Consume, Rebuild, Count, TaskCountRefused, Check, Activate, Die, ghosts
    <3>4. \A u \in Version, s \in Target : queue'[u][s] > 0 => queue[u][s] > 0 \/ u = v
      BY <1>0, <1>6, <2>3, <3>2
      DEF Consume, Rebuild, Count, TaskCountRefused, Check, Activate, Die, GiveBack
    <3> QED BY <1>2, <1>3, <2>1, <3>1, <3>2, <3>3, <3>4 DEF TaskOfJob
  <2> QED BY <2>2, <2>3
<1>7. CASE Console \/ Saving \/ SaveFails \/ \E c \in Trigger : StartJob(c) \/ StartFails(c)
  BY <1>4, <1>7
  DEF Console, Refresh, Enable, Disable, Edit, Request, Saving, Put, SetDeploying, CreateJob,
      Respond, SaveFails, StartJob, StartFails, ghosts
<1>8. ASSUME NEW v \in Version, RunJob(v) \/ AttemptFails(v) PROVE TaskOfJob'
  BY <1>4, <1>5, <1>8
  DEF RunJob, StartAttempt, CountTasks, CountRefused, ActivateWithoutTasks, Succeed, Return,
      AttemptFails, ghosts
<1>9. CASE UNCHANGED vars
  BY <1>4, <1>9 DEF vars, ghosts
<1> QED BY <1>6, <1>7, <1>8, <1>9 DEF Next, Fault

(* A task is skipped when the rule has left its version, or is off.        *)
LEMMA SkippedStep ==
  ASSUME TypeOK, SaveInv, BuiltInv, Next \/ UNCHANGED vars
  PROVE  SkippedIsLeft'
<1> SUFFICES ASSUME Kind = "RULE" PROVE SkippedIsLeft'
  BY DEF SkippedIsLeft
<1> DEFINE Gone(v) == v \in reusable' \/ rule'.version # v
<1>0. /\ work \in [Worker -> WorkType] /\ rule \in Rule
      /\ counted \in SUBSET (Version \X Target)
      /\ \A w \in Worker : work[w].pc # "idle" => work[w].job \in Version
  BY DEF TypeOK, WorkType
<1>1. ASSUME NEW v \in Version, OnItsWay(v), Left(v) PROVE Gone(v)
  BY <1>1, LeftStaysLeft DEF BuiltInv, SentInv, Left
<1>2. ASSUME NEW w \in Worker, work[w].pc # "idle", Left(work[w].job) PROVE Gone(work[w].job)
  BY <1>0, <1>1, <1>2 DEF BuiltInv, TaskOfJob
<1>3. ASSUME NEW v \in Version, NEW t \in Target, <<v, t>> \in counted \ built PROVE Gone(v)
  BY <1>1, <1>3 DEF BuiltInv, TaskOfJob, SkippedIsLeft
<1>4. ASSUME NEW w \in Worker, work[w].pc = "rebuilding" /\ Skips(w) PROVE Gone(work[w].job)
  BY <1>2, <1>4 DEF BuiltInv, SkippedIsLeft
<1>5. ASSUME NEW w \in Worker, work[w].pc = "counting",
             <<work[w].job, work[w].target>> \notin built
      PROVE  Gone(work[w].job)
  BY <1>2, <1>5 DEF BuiltInv, SkippedIsLeft
<1>6. ASSUME built \subseteq built',
             \A v \in Version, t \in Target : <<v, t>> \in counted' \ built' => Gone(v),
             \A w \in Worker :
               \/ work'[w] = work[w]
               \/ work'[w].pc \notin {"rebuilding", "counting"}
               \/ work'[w].pc = "rebuilding" /\ (Skips(w)' => Gone(work'[w].job))
               \/ /\ work'[w].pc = "counting"
                  /\ <<work'[w].job, work'[w].target>> \in built' \/ Gone(work'[w].job)
      PROVE  SkippedIsLeft'
  <2>1. ASSUME NEW w \in Worker, work'[w].pc = "rebuilding", Skips(w)' PROVE Gone(work'[w].job)
    <3>1. CASE work'[w] = work[w]
      BY <1>4, <2>1, <3>1 DEF Skips
    <3> QED BY <1>6, <2>1, <3>1
  <2>2. ASSUME NEW w \in Worker, work'[w].pc = "counting",
               <<work'[w].job, work'[w].target>> \notin built'
        PROVE  Gone(work'[w].job)
    <3>1. CASE work'[w] = work[w]
      BY <1>5, <1>6, <2>2, <3>1
    <3> QED BY <1>6, <2>2, <3>1
  <2> QED BY <1>6, <2>1, <2>2 DEF SkippedIsLeft, Left
<1> HIDE DEF Gone
<1>7. CASE UNCHANGED <<work, built, counted>>
  BY <1>3, <1>6, <1>7
<1>8. ASSUME NEW w \in Worker, Consume(w) \/ Die(w) PROVE SkippedIsLeft'
  <2>1. \A x \in Worker : x # w => work'[x] = work[x]
    BY <1>0, <1>8
    DEF Consume, Receive, Rebuild, Count, TaskCountRefused, Check, Activate, Die, GiveBack, Go
  <2>2. ASSUME NEW v \in Version, NEW t \in Target, Receive(w, v, t) PROVE SkippedIsLeft'
    <3>1. /\ work'[w].pc = "rebuilding" /\ work'[w].job = v /\ work'[w].seen = rule
          /\ UNCHANGED <<built, counted, rule, reusable>>
      BY <1>0, <2>2 DEF Receive, ghosts
    <3>2. v # NoVersion
      BY BoundAssumption DEF Version, NoVersion
    <3>3. Skips(w)' => rule.version # v \/ rule.status = "INACTIVE"
      BY <3>1 DEF Skips
    <3>4. Skips(w)' => Gone(v)
      BY <3>1, <3>2, <3>3 DEF Gone, BuiltInv, VersionInv
    <3> QED BY <1>3, <1>6, <2>1, <3>1, <3>4
  <2>3. CASE Rebuild(w)
    <3>1. /\ work[w].pc = "rebuilding" /\ work'[w].pc = "counting" /\ counted' = counted
          /\ work'[w].job = work[w].job /\ work'[w].target = work[w].target
          /\ built' = IF Skips(w) THEN built ELSE built \cup {<<work[w].job, work[w].target>>}
      BY <1>0, <2>3 DEF Rebuild, Go, WorkType, ghosts
    <3>2. <<work'[w].job, work'[w].target>> \in built' \/ Gone(work'[w].job)
      BY <1>4, <3>1
    <3>3. built \subseteq built'
      BY <3>1
    <3> QED BY <1>3, <1>6, <2>1, <3>1, <3>2, <3>3
  <2>4. CASE Count(w)
    <3>1. /\ work[w].pc = "counting" /\ built' = built
          /\ counted' = counted \cup {<<work[w].job, work[w].target>>}
          /\ work'[w].pc \in {"checking", "idle"}
      BY <1>0, <2>4 DEF Count, WorkType
    <3>2. \A v \in Version, t \in Target : <<v, t>> \in counted' \ built' => Gone(v)
      BY <1>3, <1>5, <3>1
    <3> QED BY <1>6, <2>1, <3>1, <3>2
  <2>5. CASE TaskCountRefused(w) \/ Check(w) \/ Activate(w) \/ Die(w)
    <3>1. work'[w].pc \notin {"rebuilding", "counting"} /\ UNCHANGED <<built, counted>>
      BY <1>0, <2>5 DEF TaskCountRefused, Check, Activate, Die, GiveBack, Go, WorkType, ghosts
    <3> QED BY <1>3, <1>6, <2>1, <3>1
  <2> QED BY <1>8, <2>2, <2>3, <2>4, <2>5 DEF Consume
<1>9. CASE Console \/ Saving \/ SaveFails \/ \E c \in Trigger : StartJob(c) \/ StartFails(c)
  BY <1>7, <1>9
  DEF Console, Refresh, Enable, Disable, Edit, Request, Saving, Put, SetDeploying, CreateJob,
      Respond, SaveFails, StartJob, StartFails, ghosts
<1>10. ASSUME NEW v \in Version, RunJob(v) \/ AttemptFails(v) PROVE SkippedIsLeft'
  BY <1>7, <1>10
  DEF RunJob, StartAttempt, SendTask, CountTasks, CountRefused, ActivateWithoutTasks, Succeed,
      Return, AttemptFails, ghosts
<1>11. CASE UNCHANGED vars
  BY <1>7, <1>11 DEF vars, ghosts
<1> QED BY <1>8, <1>9, <1>10, <1>11 DEF Next, Fault

LEMMA BuiltStep ==
  ASSUME TypeOK, SaveInv, JobInv, RunInv, BuiltInv, Next \/ UNCHANGED vars
  PROVE  BuiltInv'
BY VersionStep, SentStep, TaskOfJobStep, SkippedStep DEF BuiltInv

LEMMA BuiltInvariance == Spec => []BuiltInv
<1>1. IInv /\ BuiltInv /\ [Next]_vars => BuiltInv'
  BY BuiltStep DEF IInv
<1> QED BY <1>1, InitBuiltInv, Invariance, PTL DEF Spec

-----------------------------------------------------------------------------
(* Every variable keeps its type: a version is that of a save, a counted   *)
(* task one that exists, an attempt one of those the state machine makes.  *)
THEOREM TypeCorrect == Spec => []TypeOK
<1>1. IInv => TypeOK
  BY DEF IInv
<1> QED BY <1>1, Invariance, PTL

(* Whoever switches a rule to ACTIVE has seen every task of its job        *)
(* counted, unless one was counted or sent twice, or the total was not     *)
(* there yet.                                                              *)
THEOREM EarnedActivation == Spec => []ActivationIsEarned
<1>1. IInv => ActivationIsEarned
  BY DEF IInv, EarnedInv, ActivationIsEarned
<1> QED BY <1>1, Invariance, PTL

(* A rule that is deploying has a job that is on its way or was started,   *)
(* unless its save died before it sent the job.                            *)
THEOREM DeploymentsHaveJobs == Spec => []DeployingHasJob
<1>1. IInv => DeployingHasJob
  BY DEF IInv
<1> QED BY <1>1, Invariance, PTL

(* A job that has ended is not taken for one that runs, unless its last    *)
(* attempt died or deliveries of its message met.                          *)
THEOREM EndedJobsDoNotBlock == Spec => []EndedIsNotRunning
<1>1. IInv => EndedIsNotRunning
  BY DEF IInv
<1> QED BY <1>1, Invariance, PTL
(* Of the tasks that were counted for the version of its variable a rule   *)
(* has none was skipped, unless the version is one that the rule may take  *)
(* up as it is: it was disabled, or left while it was in use.              *)
THEOREM CountedAreBuilt == Spec => []CountedIsBuilt
<1>1. BuiltInv => CountedIsBuilt
  <2> SUFFICES ASSUME BuiltInv, Kind = "RULE", rule.version \notin reusable,
                      NEW x \in Tasks(rule.version) \cap counted
               PROVE  x \in built
    BY DEF CountedIsBuilt
  <2>1. PICK v \in Version, t \in TargetsOf[rule.version] : v = rule.version /\ x = <<v, t>>
    BY DEF Tasks
  <2>2. t \in Target
    BY <2>1, TargetsAssumption
  <2> QED BY <2>1, <2>2 DEF BuiltInv, SkippedIsLeft, Left
<1> QED BY <1>1, BuiltInvariance, PTL
=============================================================================
