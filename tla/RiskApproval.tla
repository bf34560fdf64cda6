---------------------------- MODULE RiskApproval ----------------------------
(***************************************************************************)
(* A proposed change of a user's CRA: the request that accepts the last    *)
(* step of the proposal (UserApproval) applies it to the assignment        *)
(* (CraLock) before it deletes the proposal, while the console, the scores *)
(* and the untimer job change the assignment too.  A change that the lock  *)
(* refuses throws, and the proposal stays.                                 *)
(***************************************************************************)
EXTENDS UserApproval, CraLock

CONSTANTS
  Proposer, Console,  \* the changers that are not reviewers
  Changes,            \* the changes that are asked for
  MaxTrouble          \* bound on console changes, scores, versions and failures

ASSUME ChangerAssumption ==
  /\ Changer = Reviewer \cup {Proposer, Console}
  /\ Proposer # Console /\ Reviewer \cap {Proposer, Console} = {}
ASSUME ChangesAssumption == Changes \subseteq Change /\ MaxTrouble \in Nat

VARIABLES
  proposal,  \* what is proposed
  asked      \* how many changes of the console and scores have begun

RiskVars == <<vars, craVars, proposal, asked>>

RiskTypeOK == TypeOK /\ CraTypeOK /\ proposal \in Changes /\ asked \in 0..MaxTrouble

RiskInit == Init /\ CraInit /\ proposal \in Changes /\ asked = 0

Calm == asked + latest + faults < MaxTrouble

(* Steps that do not touch the assignment.                                 *)
Deliberate(r) ==
  \/ \E action \in {"accept", "reject", "cancel"} : Begin(r, action)
  \/ Advance(r)
  \/ req[r].pc = "deciding" /\ (Decide(r) \/ (Calm /\ Fail(r)))

Approval ==
  /\ \/ ReadWorkflow \/ \E skips \in BOOLEAN : Propose(skips)
     \/ \E r \in Reviewer : Deliberate(r)
     \/ Calm /\ SaveWorkflow
     \/ FindPending \/ PutBack
  /\ UNCHANGED <<craVars, proposal, asked>>

(* The change is begun: what the lock refuses does not get here.           *)
ApplyChange ==
  \E unaware \in BOOLEAN :
    /\ \/ AutoApprove /\ BeginChange(Proposer, proposal, unaware)
       \/ \E r \in Reviewer : Apply(r) /\ BeginChange(r, proposal, unaware)
    /\ UNCHANGED <<proposal, asked>>

(* It is written, and the proposal deleted; or the request dies before.    *)
FinishChange(r) ==
  /\ req[r].pc = "deleting"
  /\ \/ Decide(r) /\ Answer(r)
     \/ Calm /\ Fail(r) /\ Abandon(r)
  /\ UNCHANGED <<proposal, asked>>

(* The console's own changes, of a level or of a field without a workflow, *)
(* and the scores.                                                         *)
Ask ==
  /\ Calm
  /\ asked' = asked + 1
  /\ \/ \E change \in Changes, unaware \in BOOLEAN : BeginChange(Console, change, unaware)
     \/ \E s \in Scorer, manual, unaware \in BOOLEAN : BeginScore(s, manual, unaware)
  /\ UNCHANGED <<vars, proposal>>

Proceed ==
  /\ \/ \E c \in Changer : ContinueChange(c)
     \/ \E c \in {Proposer, Console} : Answer(c)
     \/ \E s \in Scorer, level \in Level, updatable \in BOOLEAN : WriteScore(s, level, updatable)
     \/ Untimer \/ Tick
  /\ UNCHANGED <<vars, proposal, asked>>

RiskNext == Approval \/ ApplyChange \/ (\E r \in Reviewer : FinishChange(r)) \/ Ask \/ Proceed

RiskSpec == RiskInit /\ [][RiskNext]_RiskVars
=============================================================================
