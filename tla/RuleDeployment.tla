--------------------------- MODULE RuleDeployment ---------------------------
(***************************************************************************)
(* How a rule (or a risk factor) goes live.                                *)
(*                                                                         *)
(* A save of a rule that gives its aggregation variable a new version sets *)
(* the rule DEPLOYING and sends a RULE_PRE_AGGREGATION batch job (services/*)
(* rules-engine/utils.ts).  The job sends one task per user or payment     *)
(* method that has data, counts them, and is set to SUCCESS (services/     *)
(* batch-jobs/rule-pre-aggregation-batch-job-runner.ts).  A consumer per   *)
(* task rebuilds the variable, counts the task as complete, and the one    *)
(* that completes the count sets the rule ACTIVE (lambdas/transaction-     *)
(* aggregation/app.ts).  Meanwhile the rule may be saved again.  A job is  *)
(* named by the version it builds.                                         *)
(***************************************************************************)
EXTENDS BatchJob, FiniteSets

CONSTANTS
  Kind,         \* "RULE" or "RISK_FACTOR"
  Target,       \* users and payment methods
  TargetsOf,    \* those with data in the time window, by version
  Worker,       \* concurrent invocations of the consumer
  MaxSaves,     \* bound on saves from the console
  Faulty,       \* who may throw, die or be slow: "save", "trigger", "job", "task"
  MaxFaults     \* bound on how often they do

Version == 1..MaxSaves
NoVersion == 0

ASSUME KindAssumption == Kind \in {"RULE", "RISK_FACTOR"}
ASSUME JobAssumption == Job = Version
ASSUME FaultyAssumption == Faulty \subseteq {"save", "trigger", "job", "task"}
ASSUME BoundAssumption == MaxSaves \in Nat \ {0} /\ MaxFaults \in Nat
ASSUME TargetsAssumption ==
  IsFiniteSet(Target) /\ Target # {} /\ TargetsOf \in [Version -> SUBSET Target]

VARIABLES
  rule,      \* the stored rule: status, and the variable's version and content
  used,      \* AGGREGATION_VARIABLE items: the version by content, if any
  page,      \* the rule as the console page shows it
  save,      \* the PUT request in progress
  saves,     \* the number of saves begun
  job,       \* per job, how far its attempt is, and the counts in its metadata
  sent,      \* per job, the tasks sent in this attempt
  queue,     \* per job and target, the messages in the pre-aggregation queue
  work,      \* per invocation, what it does
  built,     \* <<version, target>> rebuilt and ready
  faults,
  counted,   \* ghost: <<version, target>> counted as complete
  repeated,  \* ghost: the jobs with a task counted, or sent, more than once
  reusable,  \* ghost: the versions saved as INACTIVE, or left while they were in use
  abandoned  \* ghost: the versions whose save died before it sent the job

console == <<page, save, saves>>
ghosts == <<counted, repeated, reusable, abandoned>>
vars == <<rule, used, console, job, sent, queue, work, built, faults, ghosts, jobVars>>

Content == 0..MaxSaves
Status == {"ACTIVE", "INACTIVE", "DEPLOYING"}
Rule == [status : Status, version : Version \cup {NoVersion}, content : Content]
Stage == {"idle", "sending", "noTasks", "sent", "done"}

TypeOK ==
  /\ rule \in Rule
  /\ used \in [Content -> Version \cup {NoVersion}]
  /\ page \in Rule
  /\ save \in [pc : {"idle", "putting", "deploying", "creating", "responding"}, new : Rule, old : Rule]
  /\ saves \in 0..MaxSaves
  /\ job \in [Version -> [stage : Stage, tasks : Nat, complete : Nat]]
  /\ sent \in [Version -> SUBSET Target]
  /\ \A v \in Version : sent[v] \subseteq TargetsOf[v]
  /\ queue \in [Version -> [Target -> Nat]]
  /\ work \in [Worker -> [pc : {"idle", "rebuilding", "counting", "checking", "activating"},
                          job : Version \cup {NoVersion}, target : Target, seen : Rule,
                          tasks : Nat]]
  /\ \A w \in Worker : work[w].pc # "idle" => work[w].job \in Version
  /\ built \in SUBSET (Version \X Target)
  /\ faults \in 0..MaxFaults
  /\ counted \in SUBSET (Version \X Target)
  /\ repeated \in SUBSET Version
  /\ reusable \in SUBSET (Version \cup {NoVersion})
  /\ abandoned \in SUBSET Version
  /\ JobTypeOK

(* A rule that was never enabled, on a page that shows it.                 *)
Init ==
  /\ rule = [status |-> "INACTIVE", version |-> NoVersion, content |-> 0]
  /\ used = [c \in Content |-> NoVersion]
  /\ page = rule
  /\ save = [pc |-> "idle", new |-> rule, old |-> rule]
  /\ saves = 0
  /\ job = [v \in Version |-> [stage |-> "idle", tasks |-> 0, complete |-> 0]]
  /\ sent = [v \in Version |-> {}]
  /\ queue = [v \in Version |-> [t \in Target |-> 0]]
  /\ work = [w \in Worker |-> [pc |-> "idle", job |-> NoVersion,
                               target |-> CHOOSE t \in Target : TRUE, seen |-> rule,
                               tasks |-> 0]]
  /\ built = {}
  /\ faults = 0
  /\ counted = {}
  /\ repeated = {}
  /\ reusable = {}
  /\ abandoned = {}
  /\ JobInit

-----------------------------------------------------------------------------
(* The console and the PUT handler                                         *)

Refresh ==
  /\ page # rule
  /\ page' = rule
  /\ UNCHANGED <<rule, used, save, saves, job, sent, queue, work, built, faults, ghosts, jobVars>>

(* putRuleInstance reads the old rule and goes on with the one it was sent.*)
Request(new) ==
  /\ save.pc = "idle"
  /\ saves < MaxSaves
  /\ saves' = saves + 1
  /\ save' = [pc |-> "putting", new |-> new, old |-> rule]
  /\ UNCHANGED <<rule, used, page, job, sent, queue, work, built, faults, ghosts, jobVars>>

(* The switch sends what the page shows, with the status flipped.  It is   *)
(* off while the page shows DEPLOYING.                                     *)
Enable == page.status = "INACTIVE" /\ Request([page EXCEPT !.status = "ACTIVE"])
Disable == page.status = "ACTIVE" /\ Request([page EXCEPT !.status = "INACTIVE"])

(* A changed aggregation variable.                                         *)
Edit == page.status = "ACTIVE" /\ Request([page EXCEPT !.content = saves + 1])

(* getLogicAggVarsWithUpdatedVersion                                       *)
BeingEnabled == save.old.status = "INACTIVE" /\ save.new.status = "ACTIVE"
BeingDisabled == save.old.status = "ACTIVE" /\ save.new.status = "INACTIVE"
KeepsVersion ==
  \/ save.new.status = "INACTIVE"
  \/ ~BeingEnabled /\ save.new.content = save.old.content

(* removeEntityFromOldAggVar: nobody else uses the variable.               *)
Removed(c) == [used EXCEPT ![c] = NoVersion]

(* Mutant: the clock is read again.                                        *)
FoundLater(u, c) == IF u[c] = NoVersion THEN saves + 1 ELSE u[c]

(* getUsedAggVar: the version of a variable in use, or Date.now().         *)
Found(u, c) == IF u[c] = NoVersion THEN saves ELSE u[c]

Put ==
  LET u == CASE BeingDisabled                  -> Removed(save.new.content)
             [] KeepsVersion \/ BeingEnabled   -> used
             [] OTHER                          -> Removed(save.old.content)
      v == IF KeepsVersion THEN save.new.version ELSE Found(u, save.new.content)
  IN
  /\ save.pc = "putting"
  /\ rule' = [save.new EXCEPT !.version = v]
  /\ used' = IF KeepsVersion THEN u ELSE [u EXCEPT ![save.new.content] = v]
  /\ save' = [save EXCEPT !.pc = IF v = saves THEN "deploying" ELSE "responding",
                          !.new = rule']
  /\ reusable' = reusable \cup {n \in {v} : save.new.status = "INACTIVE"}
                         \cup {n \in {rule.version} \ {v} : \E c \in Content : used'[c] = n}
  /\ UNCHANGED <<page, saves, job, sent, queue, work, built, faults, counted, repeated,
                 abandoned, jobVars>>

(* ruleInstanceAggregationVariablesRebuild, for a version that is new.     *)
SetDeploying ==
  /\ save.pc = "deploying"
  /\ rule' = [rule EXCEPT !.status = "DEPLOYING"]
  /\ save' = [save EXCEPT !.pc = "creating"]
  /\ UNCHANGED <<used, page, saves, job, sent, queue, work, built, faults, ghosts, jobVars>>

CreateJob ==
  /\ save.pc = "creating"
  /\ SendBatchJob(saves)
  /\ save' = [save EXCEPT !.pc = "responding"]
  /\ UNCHANGED <<rule, used, page, saves, job, sent, queue, work, built, faults, ghosts>>

(* The response, and with it the page, shows the status that was asked for.*)
Respond ==
  /\ save.pc = "responding"
  /\ page' = save.new
  /\ save' = [save EXCEPT !.pc = "idle"]
  /\ UNCHANGED <<rule, used, saves, job, sent, queue, work, built, faults, ghosts, jobVars>>

-----------------------------------------------------------------------------
(* The job                                                                 *)

(* The handler sets IN_PROGRESS; the first run sets the metadata, a retry  *)
(* keeps what it finds.                                                    *)
StartAttempt(v) ==
  LET found == Stored(v).metadata IN
  /\ BeginAttempt(v)
  /\ job' = [job EXCEPT ![v] = [stage |-> "sending",
                               tasks |-> IF found THEN @.tasks ELSE 0,
                               complete |-> IF found THEN @.complete ELSE 0]]
  /\ sent' = [sent EXCEPT ![v] = {}]
  /\ UNCHANGED <<rule, used, console, queue, work, built, faults, ghosts>>

AttemptedBefore(v, t) ==
  queue[v][t] > 0 \/ <<v, t>> \in counted \/ \E w \in Worker :
    work[w].pc # "idle" /\ work[w].job = v /\ work[w].target = t

SendTask(v, t) ==
  /\ job[v].stage = "sending"
  /\ t \in TargetsOf[v] \ sent[v]
  /\ sent' = [sent EXCEPT ![v] = @ \cup {t}]
  /\ queue' = [queue EXCEPT ![v][t] = @ + 1]
  /\ repeated' = IF AttemptedBefore(v, t) THEN repeated \cup {v} ELSE repeated
  /\ UNCHANGED <<rule, used, console, job, work, built, faults, counted, reusable, abandoned,
                 jobVars>>

(* incrementMetadataTasksCount, once all tasks are sent.                   *)
CountTasks(v) ==
  /\ job[v].stage = "sending"
  /\ sent[v] = TargetsOf[v]
  /\ CountsCanBeWritten(v)
  /\ job' = [job EXCEPT ![v].tasks = @ + Cardinality(sent[v]),
                        ![v].stage = IF sent[v] = {} THEN "noTasks" ELSE "sent"]
  /\ UNCHANGED <<rule, used, console, sent, queue, work, built, faults, ghosts, jobVars>>

(* Nothing to aggregate: the job itself switches the rule to ACTIVE.       *)
ActivateWithoutTasks(v) ==
  /\ job[v].stage = "noTasks"
  /\ rule' = [rule EXCEPT !.status = "ACTIVE"]
  /\ job' = [job EXCEPT ![v].stage = "sent"]
  /\ UNCHANGED <<used, console, sent, queue, work, built, faults, ghosts, jobVars>>

Succeed(v) ==
  /\ job[v].stage = "sent"
  /\ SucceedAttempt(v)
  /\ job' = [job EXCEPT ![v].stage = "done"]
  /\ UNCHANGED <<rule, used, console, sent, queue, work, built, faults, ghosts>>

Return(v) ==
  /\ job[v].stage = "done"
  /\ EndAttempt(v)
  /\ job' = [job EXCEPT ![v].stage = "idle"]
  /\ UNCHANGED <<rule, used, console, sent, queue, work, built, faults, ghosts>>

(* The total cannot be written.                                            *)
CountRefused(v) ==
  /\ job[v].stage = "sending"
  /\ sent[v] = TargetsOf[v]
  /\ ~CountsCanBeWritten(v)
  /\ FailAttempt(v)
  /\ job' = [job EXCEPT ![v].stage = "idle"]
  /\ UNCHANGED <<rule, used, console, sent, queue, work, built, faults, ghosts>>

(* Any other call of the runner throws, or the runner dies.                *)
AttemptFails(v) ==
  /\ \/ job[v].stage # "done" /\ FailAttempt(v)
     \/ DieInAttempt(v)
  /\ faults < MaxFaults
  /\ faults' = faults + 1
  /\ job' = [job EXCEPT ![v].stage = "idle"]
  /\ UNCHANGED <<rule, used, console, sent, queue, work, built, ghosts>>

-----------------------------------------------------------------------------
(* The consumer                                                            *)

Receive(w, v, t) ==
  /\ work[w].pc = "idle"
  /\ queue[v][t] > 0
  /\ queue' = [queue EXCEPT ![v][t] = @ - 1]
  /\ work' = [work EXCEPT ![w] = [pc |-> "rebuilding", job |-> v, target |-> t,
                                  seen |-> rule, tasks |-> 0]]
  /\ UNCHANGED <<rule, used, console, job, sent, built, faults, ghosts, jobVars>>

(* Mutant: a rule that is deploying is skipped too.                        *)
SkipsDeploying(w) ==
  work[w].seen.version # work[w].job \/ work[w].seen.status # "ACTIVE"

(* shouldSkipPreAggregation, noRiskFactorAggregateConditions               *)
Skips(w) ==
  \/ work[w].seen.version # work[w].job
  \/ IF Kind = "RULE" THEN work[w].seen.status = "INACTIVE"
                      ELSE work[w].seen.status # "ACTIVE"

Go(w, pc) == work' = [work EXCEPT ![w].pc = pc]

Rebuild(w) ==
  /\ work[w].pc = "rebuilding"
  /\ built' = IF Skips(w) THEN built ELSE built \cup {<<work[w].job, work[w].target>>}
  /\ Go(w, "counting")
  /\ UNCHANGED <<rule, used, console, job, sent, queue, faults, ghosts, jobVars>>

(* Mutant: the last task but one is taken for the last.                    *)
OneTooFew(w, j) == j.complete + 1 >= j.tasks /\ work[w].seen.status = "DEPLOYING"

(* Mutant: === for >=.                                                     *)
Exactly(w, j) == j.complete = j.tasks /\ work[w].seen.status = "DEPLOYING"

(* The rule's status is that of the time when the task began.              *)
Completes(w, j) == j.complete >= j.tasks /\ work[w].seen.status = "DEPLOYING"

(* incrementCompleteTasksCount returns the job as it is after it.          *)
Count(w) ==
  LET v == work[w].job
      newJob == [job[v] EXCEPT !.complete = @ + 1]
  IN
  /\ work[w].pc = "counting"
  /\ CountsCanBeWritten(v)
  /\ job' = [job EXCEPT ![v] = newJob]
  /\ counted' = counted \cup {<<v, work[w].target>>}
  /\ repeated' = IF <<v, work[w].target>> \in counted THEN repeated \cup {v} ELSE repeated
  /\ work' = [work EXCEPT ![w].pc = IF Completes(w, newJob) THEN "checking" ELSE "idle",
                          ![w].tasks = newJob.tasks]
  /\ UNCHANGED <<rule, used, console, sent, queue, built, faults, reusable, abandoned,
                 jobVars>>

GiveBack(w) ==
  /\ queue' = [queue EXCEPT ![work[w].job][work[w].target] = @ + 1]
  /\ Go(w, "idle")

(* The count throws; the message comes again.                              *)
TaskCountRefused(w) ==
  /\ work[w].pc = "counting"
  /\ ~CountsCanBeWritten(work[w].job)
  /\ GiveBack(w)
  /\ UNCHANGED <<rule, used, console, job, sent, built, faults, ghosts, jobVars>>

(* The task is complete, and unless the job is a success nothing follows.  *)
Check(w) ==
  /\ work[w].pc = "checking"
  /\ Go(w, IF Stored(work[w].job).status = "SUCCESS" THEN "activating" ELSE "idle")
  /\ UNCHANGED <<rule, used, console, job, sent, queue, built, faults, ghosts, jobVars>>

Activate(w) ==
  /\ work[w].pc = "activating"
  /\ rule' = [rule EXCEPT !.status = "ACTIVE"]
  /\ Go(w, "idle")
  /\ UNCHANGED <<used, console, job, sent, queue, built, faults, ghosts, jobVars>>

(* The invocation dies; its message is delivered again.                    *)
Die(w) ==
  /\ work[w].pc # "idle"
  /\ faults < MaxFaults
  /\ faults' = faults + 1
  /\ GiveBack(w)
  /\ UNCHANGED <<rule, used, console, job, sent, built, ghosts, jobVars>>

-----------------------------------------------------------------------------
(* The batch job's consumer, and the save that dies                        *)

StartJob(c) ==
  /\ TriggerStep(c)
  /\ UNCHANGED <<rule, used, console, job, sent, queue, work, built, faults, ghosts>>

StartFails(c) ==
  /\ TriggerFails(c)
  /\ faults < MaxFaults
  /\ faults' = faults + 1
  /\ UNCHANGED <<rule, used, console, job, sent, queue, work, built, ghosts>>

(* The request throws or dies; the page goes on to show what it showed.    *)
SaveFails ==
  /\ save.pc # "idle"
  /\ faults < MaxFaults
  /\ faults' = faults + 1
  /\ save' = [save EXCEPT !.pc = "idle"]
  /\ abandoned' = IF save.pc \in {"deploying", "creating"} THEN abandoned \cup {saves}
                                                          ELSE abandoned
  /\ UNCHANGED <<rule, used, page, saves, job, sent, queue, work, built, counted, repeated,
                 reusable, jobVars>>

-----------------------------------------------------------------------------
Console == Refresh \/ Enable \/ Disable \/ Edit
Saving == Put \/ SetDeploying \/ CreateJob \/ Respond
RunJob(v) ==
  \/ StartAttempt(v)
  \/ \E t \in Target : SendTask(v, t)
  \/ CountTasks(v) \/ CountRefused(v)
  \/ ActivateWithoutTasks(v)
  \/ Succeed(v) \/ Return(v)
Consume(w) ==
  \/ \E v \in Version, t \in Target : Receive(w, v, t)
  \/ Rebuild(w) \/ Count(w) \/ TaskCountRefused(w) \/ Check(w) \/ Activate(w)
Fault ==
  \/ "save" \in Faulty /\ SaveFails
  \/ \E c \in Trigger : "trigger" \in Faulty /\ StartFails(c)
  \/ \E v \in Version : "job" \in Faulty /\ AttemptFails(v)
  \/ \E w \in Worker : "task" \in Faulty /\ Die(w)

Next ==
  \/ Console
  \/ Saving
  \/ \E c \in Trigger : StartJob(c)
  \/ \E v \in Version : RunJob(v)
  \/ \E w \in Worker : Consume(w)
  \/ Fault

Spec == Init /\ [][Next]_vars

(* Requests and invocations run on, the state machine retries a failed     *)
(* job, and the queue delivers.  Nobody has to touch the console.          *)
Fairness ==
  /\ WF_vars(Saving)
  /\ \A c \in Trigger : WF_vars(StartJob(c))
  /\ \A v \in Version : WF_vars(RunJob(v))
  /\ \A w \in Worker : WF_vars(Consume(w))

FairSpec == Spec /\ Fairness

-----------------------------------------------------------------------------
Tasks(v) == IF v \in Version THEN {v} \X TargetsOf[v] ELSE {}

(* Whoever switches the rule to ACTIVE has seen every task of its job      *)
(* counted, however saves, tasks and the job interleave, unless a task was *)
(* counted or sent twice, or the job's total was still 0 when the task was *)
(* counted (the comparison with a total that is not there yet holds).      *)
ActivationIsEarned ==
  \A w \in Worker :
    work[w].pc = "activating" /\ work[w].tasks > 0 /\ work[w].job \notin repeated
      => Tasks(work[w].job) \subseteq counted

(* Of the tasks that were counted for the version of its variable a rule   *)
(* has, deploying or live, none was skipped: what the rule reads of a user *)
(* is built if her task is done.  This is so for rules, unless the version *)
(* was disabled at some time, or left by a save that did not take it out   *)
(* of use: its tasks are then skipped, and it may be taken up as it is.    *)
CountedIsBuilt ==
  Kind = "RULE" /\ rule.version \notin reusable => Tasks(rule.version) \cap counted \subseteq built

(* A rule that is deploying has a job that is on its way or was started,   *)
(* whatever dies while it is looked up, inserted and started, unless the   *)
(* save died that should have sent it.                                     *)
DeployingHasJob ==
  rule.status = "DEPLOYING" /\ rule.version \notin abandoned
    => save.pc = "creating" \/ OnItsWay(rule.version)

(* "The rule will be live once deployed" (RuleStatusSwitch/index.tsx:21):  *)
(* a deployment that nobody disturbs ends, and the rule is live.           *)
LiveOnceDeployed == rule.status = "DEPLOYING" ~> rule.status = "ACTIVE"

(* As long as the job is a success while a task is yet to be counted, the  *)
(* deployment ends, even if an invocation dies between the count and the   *)
(* switch.  Where the job is kept in DynamoDB too, two deliveries of its   *)
(* message that meet may reset it, and it then takes no count.             *)
TaskToCome(v) ==
  execution[v] = "ended" /\ Stored(v).status = "SUCCESS" /\ ~(Tasks(v) \subseteq counted)
Reset(v) == Store # "MongoDB" /\ v \in overlapped
LateTaskGoesLive ==
  \A v \in Version :
    rule.status = "DEPLOYING" /\ rule.version = v /\ TaskToCome(v)
      ~> rule.status # "DEPLOYING" \/ Reset(v)
=============================================================================
