---------------------------- MODULE UserApproval ----------------------------
(***************************************************************************)
(* The approval of a proposed change of a user (services/users/index.ts):  *)
(* a proposal goes through the steps of its workflow's approval chain and  *)
(* is then applied to the user and deleted, unless it is rejected or       *)
(* cancelled.  Every request reads the proposal's item, decides from what  *)
(* it read, and writes without a condition.  Meanwhile a new version of    *)
(* the workflow may be posted, which puts every pending proposal back to   *)
(* the first step (services/workflow/index.ts).                            *)
(*                                                                         *)
(* A stored item is always PENDING, so the status is left out; reads are   *)
(* eventually consistent, and a stale one is a request that began earlier. *)
(***************************************************************************)
EXTENDS Naturals

CONSTANTS
  Reviewer,      \* concurrent requests to processUserApproval
  MaxEdits,      \* bound on new versions of the workflow
  ChainLength,   \* the length of the approval chain, by version
  MaxFaults      \* bound on requests that throw or die after they read

Version == 0..MaxEdits

ASSUME BoundAssumption == MaxEdits \in Nat /\ MaxFaults \in Nat
ASSUME ChainAssumption == ChainLength \in [Version -> Nat \ {0}]

VARIABLES
  item,      \* the proposal's item; without its changes it is not `whole`
  proposer,  \* the request that makes the proposal
  req,       \* per reviewer, the action and what was read for it
  latest,    \* the latest version of the workflow
  editor,    \* the request that posts a version, and the item it found
  faults,
  accepted,  \* ghost: <<version, step>> accepted, or skipped by the proposer
  appliedIn, \* ghost: the versions in which the changes were applied
  crossed,   \* ghost: versions whose step was set by a request that read another
  final      \* ghost: decided while nobody else had read the proposal

ghosts == <<accepted, appliedIn, crossed, final>>
vars == <<item, proposer, req, latest, editor, faults, ghosts>>

Item == [stored : BOOLEAN, whole : BOOLEAN, version : Version, step : Nat]
Nothing == [stored |-> FALSE, whole |-> FALSE, version |-> 0, step |-> 0]
NoRequest == [pc |-> "idle", action |-> "accept", seen |-> Nothing]
NoEdit == [pc |-> "idle", seen |-> Nothing]

TypeOK ==
  /\ item \in Item
  /\ proposer \in [pc : {"idle", "proposing", "done"}, version : Version]
  /\ req \in [Reviewer -> [pc : {"idle", "deciding", "deleting"},
                           action : {"accept", "reject", "cancel"}, seen : Item]]
  /\ \A r \in Reviewer :
       req[r].pc # "idle" => req[r].seen.step < ChainLength[req[r].seen.version]
  /\ latest \in Version
  /\ editor \in [pc : {"idle", "saved", "found"}, seen : Item]
  /\ faults \in 0..MaxFaults
  /\ accepted \in SUBSET (Version \X Nat)
  /\ appliedIn \in SUBSET Version
  /\ crossed \in SUBSET Version
  /\ final \in BOOLEAN

Init ==
  /\ item = Nothing
  /\ proposer = [pc |-> "idle", version |-> 0]
  /\ req = [r \in Reviewer |-> NoRequest]
  /\ latest = 0
  /\ editor = NoEdit
  /\ faults = 0
  /\ accepted = {}
  /\ appliedIn = {}
  /\ crossed = {}
  /\ final = FALSE

-----------------------------------------------------------------------------
(* proposeUserFieldChange, for a field that has a workflow                 *)

ReadWorkflow ==
  /\ proposer.pc = "idle"
  /\ proposer' = [pc |-> "proposing", version |-> latest]
  /\ UNCHANGED <<item, req, latest, editor, faults, ghosts>>

(* The proposer has the role of the first approver and is the only one:    *)
(* applied without a proposal.                                             *)
AutoApprove ==
  LET v == proposer.version IN
  /\ proposer.pc = "proposing"
  /\ ChainLength[v] = 1
  /\ proposer' = [pc |-> "done", version |-> 0]
  /\ accepted' = accepted \cup {<<v, 0>>}
  /\ appliedIn' = appliedIn \cup {v}
  /\ final' = TRUE
  /\ UNCHANGED <<item, req, latest, editor, faults, crossed>>

(* A proposer who has the role of the first approver skips that step.      *)
Propose(skips) ==
  LET v == proposer.version IN
  /\ proposer.pc = "proposing"
  /\ skips => ChainLength[v] > 1
  /\ proposer' = [pc |-> "done", version |-> 0]
  /\ item' = [stored |-> TRUE, whole |-> TRUE, version |-> v, step |-> IF skips THEN 1 ELSE 0]
  /\ accepted' = IF skips THEN accepted \cup {<<v, 0>>} ELSE accepted
  /\ UNCHANGED <<req, latest, editor, faults, appliedIn, crossed, final>>

-----------------------------------------------------------------------------
(* processUserApproval                                                     *)

(* Mutant: off by one in getApprovalStep.                                  *)
OnePastTheEnd(i, action) ==
  /\ i.stored /\ i.whole
  /\ IF action = "cancel" THEN i.step = 0 ELSE i.step <= ChainLength[i.version]

(* getApprovalStep throws at the end of the chain, and a proposal without  *)
(* a workflow reference is refused; so is cancelling after the first step. *)
Processable(i, action) ==
  /\ i.stored /\ i.whole
  /\ IF action = "cancel" THEN i.step = 0 ELSE i.step < ChainLength[i.version]

Begin(r, action) ==
  /\ req[r].pc = "idle"
  /\ Processable(item, action)
  /\ req' = [req EXCEPT ![r] = [pc |-> "deciding", action |-> action, seen |-> item]]
  /\ UNCHANGED <<item, proposer, latest, editor, faults, ghosts>>

IsLastStep(i) == i.step = ChainLength[i.version] - 1

(* updatePendingUserApproval sets the step of the item, and makes an item  *)
(* of its key and step if it is gone.                                      *)
Advance(r) ==
  LET seen == req[r].seen IN
  /\ req[r].pc = "deciding" /\ req[r].action = "accept"
  /\ ~IsLastStep(seen)
  /\ item' = [item EXCEPT !.stored = TRUE, !.step = seen.step + 1]
  /\ req' = [req EXCEPT ![r] = NoRequest]
  /\ accepted' = accepted \cup {<<seen.version, seen.step>>}
  /\ crossed' = IF item.stored /\ item.version # seen.version
                THEN crossed \cup {item.version} ELSE crossed
  /\ UNCHANGED <<proposer, latest, editor, faults, appliedIn, final>>

(* applyUserApprovalChanges                                                *)
Apply(r) ==
  LET seen == req[r].seen IN
  /\ req[r].pc = "deciding" /\ req[r].action = "accept"
  /\ IsLastStep(seen)
  /\ req' = [req EXCEPT ![r].pc = "deleting"]
  /\ accepted' = accepted \cup {<<seen.version, seen.step>>}
  /\ appliedIn' = appliedIn \cup {seen.version}
  /\ UNCHANGED <<item, proposer, latest, editor, faults, crossed, final>>

(* Mutant: the item of a rejected proposal is kept.                        *)
KeptIfRejected(r) == IF req[r].action = "reject" THEN item ELSE Nothing

(* deletePendingUserApproval                                               *)
Deleted(r) == Nothing

Alone(r) ==
  /\ \A q \in Reviewer \ {r} : req[q].pc = "idle"
  /\ editor.pc # "found"

(* An accepted proposal is deleted after it was applied, a rejected or     *)
(* cancelled one at once.                                                  *)
Decide(r) ==
  /\ \/ req[r].pc = "deleting"
     \/ req[r].pc = "deciding" /\ req[r].action # "accept"
  /\ item' = Deleted(r)
  /\ req' = [req EXCEPT ![r] = NoRequest]
  /\ final' = (final \/ Alone(r))
  /\ UNCHANGED <<proposer, latest, editor, faults, accepted, appliedIn, crossed>>

(* The request throws (the user's CRA level is locked) or dies.            *)
Fail(r) ==
  /\ req[r].pc # "idle"
  /\ faults < MaxFaults
  /\ faults' = faults + 1
  /\ req' = [req EXCEPT ![r] = NoRequest]
  /\ UNCHANGED <<item, proposer, latest, editor, ghosts>>

-----------------------------------------------------------------------------
(* A new version of the workflow                                           *)

SaveWorkflow ==
  /\ editor.pc = "idle"
  /\ latest < MaxEdits
  /\ latest' = latest + 1
  /\ editor' = [editor EXCEPT !.pc = "saved"]
  /\ UNCHANGED <<item, proposer, req, faults, ghosts>>

(* bulkUpdateUserApprovalsWorkflow queries the items with a workflow.      *)
FindPending ==
  /\ editor.pc = "saved"
  /\ editor' = IF item.stored /\ item.whole
               THEN [pc |-> "found", seen |-> item]
               ELSE NoEdit
  /\ UNCHANGED <<item, proposer, req, latest, faults, ghosts>>

(* Mutant: the step is kept.                                               *)
SameStep == [editor.seen EXCEPT !.version = latest]

Restarted == [editor.seen EXCEPT !.version = latest, !.step = 0]

(* ... and puts each back, whatever became of it.                          *)
PutBack ==
  /\ editor.pc = "found"
  /\ item' = Restarted
  /\ editor' = NoEdit
  /\ UNCHANGED <<proposer, req, latest, faults, ghosts>>

-----------------------------------------------------------------------------
Edit == SaveWorkflow \/ FindPending \/ PutBack

Process(r) ==
  \/ \E action \in {"accept", "reject", "cancel"} : Begin(r, action)
  \/ Advance(r) \/ Apply(r) \/ Decide(r) \/ Fail(r)

Next ==
  \/ ReadWorkflow \/ AutoApprove
  \/ \E skips \in BOOLEAN : Propose(skips)
  \/ \E r \in Reviewer : Process(r)
  \/ Edit

Spec == Init /\ [][Next]_vars

-----------------------------------------------------------------------------
Steps(v) == {v} \X (0..ChainLength[v] - 1)

(* Changes are applied in a version of the workflow only when every step   *)
(* of its chain was accepted in that version, or skipped by the proposer,  *)
(* however requests and new versions interleave, unless a request that     *)
(* read the proposal in another version has set the step.                  *)
StepsAccepted == \A v \in appliedIn \ crossed : Steps(v) \subseteq accepted

(* A decision taken while nobody else had read the proposal stands: the    *)
(* proposal is gone, and nobody is about to apply it or to put it back.    *)
UndisturbedIsFinal ==
  final => /\ ~item.stored
           /\ \A r \in Reviewer : req[r].pc = "idle"
           /\ editor.pc # "found"
=============================================================================
