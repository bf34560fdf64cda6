------------------------- MODULE RiskApprovalProofs -------------------------
(***************************************************************************)
(* Theorems about the approvals of UserApproval, about the lock of CraLock *)
(* and about the two composed in RiskApproval, in a part each.             *)
(***************************************************************************)
EXTENDS RiskApproval, TLAPS

(***************************************************************************)
(* UserApproval is type correct, applies changes only in a version whose   *)
(* every step was accepted, unless a request crossed into it, and stands   *)
(* by a decision nobody disturbed: for any number of requests, versions    *)
(* and failures, and chains of any length.                                 *)
(***************************************************************************)
-----------------------------------------------------------------------------
(* Types                                                                   *)

LEMMA NothingType == Nothing \in Item
BY BoundAssumption DEF Nothing, Item, Version

LEMMA AdvanceType ==
  ASSUME NEW i \in Item, NEW n \in Nat
  PROVE  [i EXCEPT !.stored = TRUE, !.step = n] \in Item
BY Zenon DEF Item

LEMMA PutBackType ==
  ASSUME NEW i \in Item, NEW v \in Version, NEW n \in Nat
  PROVE  [i EXCEPT !.version = v, !.step = n] \in Item
BY Zenon DEF Item

LEMMA InitTypes == ASSUME Init PROVE TypeOK
<1>1. 0 \in Version  BY BoundAssumption DEF Version
<1>2. /\ item \in Item
      /\ proposer \in [pc : {"idle", "proposing", "done"}, version : Version]
      /\ latest \in Version
      /\ editor \in [pc : {"idle", "saved", "found"}, seen : Item]
  BY <1>1, NothingType, SMT DEF Init, NoEdit
<1>3. req \in [Reviewer -> [pc : {"idle", "deciding", "deleting"},
                            action : {"accept", "reject", "cancel"}, seen : Item]]
  BY NothingType, SMT DEF Init, NoRequest
<1>4. \A r \in Reviewer :
        req[r].pc # "idle" => req[r].seen.step < ChainLength[req[r].seen.version]
  BY SMT DEF Init, NoRequest
<1>5. /\ faults \in 0..MaxFaults
      /\ accepted \in SUBSET (Version \X Nat)
      /\ appliedIn \in SUBSET Version /\ crossed \in SUBSET Version
  BY BoundAssumption, SMT DEF Init
<1>6. final \in BOOLEAN  BY Zenon DEF Init
<1>. QED  BY <1>2, <1>3, <1>4, <1>5, <1>6, Zenon DEF TypeOK

LEMMA BeginTypes ==
  ASSUME TypeOK, NEW r \in Reviewer, NEW action \in {"accept", "reject", "cancel"},
         Begin(r, action)
  PROVE  TypeOK'
<1>1. item.step < ChainLength[item.version]
  BY ChainAssumption, SMT DEF TypeOK, Item, Begin, Processable, Version
<1>2. req' \in [Reviewer -> [pc : {"idle", "deciding", "deleting"},
                            action : {"accept", "reject", "cancel"}, seen : Item]]
  BY SMT DEF TypeOK, Begin
<1>3. \A q \in Reviewer :
        req'[q].pc # "idle" => req'[q].seen.step < ChainLength[req'[q].seen.version]
  BY <1>1, SMT DEF TypeOK, Begin
<1>. QED  BY <1>2, <1>3, Zenon DEF TypeOK, Begin, ghosts

LEMMA NextTypes == ASSUME TypeOK, [Next]_vars PROVE TypeOK'
<1>1. CASE UNCHANGED vars  BY <1>1 DEF TypeOK, vars, ghosts
<1>2. CASE ReadWorkflow  BY <1>2, SMT DEF ReadWorkflow, TypeOK, ghosts
<1>3. CASE AutoApprove
  <2>1. /\ proposer' \in [pc : {"idle", "proposing", "done"}, version : Version]
        /\ accepted' \in SUBSET (Version \X Nat)
        /\ appliedIn' \in SUBSET Version
    <3>1. 0 \in Version  BY BoundAssumption DEF Version
    <3>. QED  BY <1>3, <3>1, SMT DEF AutoApprove, TypeOK
  <2>2. final' \in BOOLEAN  BY <1>3, Zenon DEF AutoApprove
  <2>. QED  BY <1>3, <2>1, <2>2, Zenon DEF AutoApprove, TypeOK
<1>4. ASSUME NEW skips \in BOOLEAN, Propose(skips)  PROVE TypeOK'
  BY <1>4, BoundAssumption, SMT DEF Propose, TypeOK, Item, Version
<1>5. ASSUME NEW r \in Reviewer, Process(r)  PROVE TypeOK'
  <2>1. ASSUME NEW action \in {"accept", "reject", "cancel"}, Begin(r, action)  PROVE TypeOK'
    BY <2>1, BeginTypes
  <2>2. CASE Advance(r)
    <3>1. item' \in Item
      <4>1. req[r].seen.step + 1 \in Nat  BY SMT DEF TypeOK, Item
      <4>. QED  BY <2>2, <4>1, AdvanceType DEF Advance, TypeOK
    <3>2. /\ req' \in [Reviewer -> [pc : {"idle", "deciding", "deleting"},
                            action : {"accept", "reject", "cancel"}, seen : Item]]
          /\ \A q \in Reviewer :
               req'[q].pc # "idle" => req'[q].seen.step < ChainLength[req'[q].seen.version]
      BY <2>2, NothingType, SMT DEF Advance, TypeOK, NoRequest
    <3>3. accepted' \in SUBSET (Version \X Nat)
      BY <2>2, SMT DEF Advance, TypeOK, Item
    <3>4. crossed' \in SUBSET Version  BY <2>2, SMT DEF Advance, TypeOK, Item
    <3>. QED  BY <2>2, <3>1, <3>2, <3>3, <3>4, Zenon DEF Advance, TypeOK
  <2>3. CASE Apply(r)  BY <2>3, SMT DEF Apply, TypeOK, Item
  <2>4. CASE Decide(r)
    <3>1. item' \in Item  BY <2>4, NothingType DEF Decide, Deleted
    <3>2. final' \in BOOLEAN  BY <2>4, Zenon DEF Decide, TypeOK, Alone
    <3>3. /\ req' \in [Reviewer -> [pc : {"idle", "deciding", "deleting"},
                            action : {"accept", "reject", "cancel"}, seen : Item]]
          /\ \A q \in Reviewer :
               req'[q].pc # "idle" => req'[q].seen.step < ChainLength[req'[q].seen.version]
      BY <2>4, NothingType, SMT DEF Decide, TypeOK, NoRequest
    <3>. QED  BY <2>4, <3>1, <3>2, <3>3, Zenon DEF Decide, TypeOK
  <2>5. CASE Fail(r)  BY <2>5, BoundAssumption, NothingType, SMT DEF Fail, TypeOK, ghosts, NoRequest
  <2>. QED  BY <1>5, <2>1, <2>2, <2>3, <2>4, <2>5 DEF Process
<1>6. CASE SaveWorkflow
  BY <1>6, BoundAssumption, SMT DEF SaveWorkflow, TypeOK, Version, ghosts
<1>7. CASE FindPending  BY <1>7, NothingType, SMT DEF FindPending, TypeOK, ghosts, NoEdit
<1>8. CASE PutBack
  <2>1. item' \in Item
    BY <1>8, PutBackType DEF PutBack, Restarted, TypeOK
  <2>2. editor' \in [pc : {"idle", "saved", "found"}, seen : Item]
    BY <1>8, NothingType, SMT DEF PutBack, TypeOK, NoEdit
  <2>. QED  BY <1>8, <2>1, <2>2, Zenon DEF PutBack, TypeOK, ghosts
<1>. QED
  BY <1>1, <1>2, <1>3, <1>4, <1>5, <1>6, <1>7, <1>8 DEF Next, Edit

(* The variables keep their types, and no request is ever past the end of  *)
(* the chain it read, whatever the lengths of the versions' chains.        *)
THEOREM TypeCorrect == Spec => []TypeOK
BY InitTypes, NextTypes, PTL DEF Spec

-----------------------------------------------------------------------------
(* The steps that were accepted                                            *)

(* The steps of version v before the n-th are among those `done`.          *)
Earned(done, v, n) == \A s \in Nat : s < n => <<v, s>> \in done

(* What is stored, and what any request has read, was earned; an item with *)
(* its changes is a stored one, and so is one that the editor found.       *)
ItemEarned ==
  /\ item.whole => item.stored
  /\ editor.seen.whole => editor.seen.stored
  /\ item.whole /\ item.version \notin crossed => Earned(accepted, item.version, item.step)
SeenEarned ==
  \A r \in Reviewer :
    req[r].pc # "idle" /\ req[r].seen.version \notin crossed
      => Earned(accepted, req[r].seen.version, req[r].seen.step)

StepsInv == ItemEarned /\ SeenEarned /\ StepsAccepted

LEMMA StepsInit == Init => StepsInv
BY SMT DEF Init, StepsInv, ItemEarned, SeenEarned, StepsAccepted, Nothing, NoRequest, NoEdit

(* An acceptance of a step that was earned earns the next one.             *)
LEMMA NextEarned ==
  ASSUME NEW done, NEW v \in Version, NEW n \in Nat, Earned(done, v, n)
  PROVE  Earned(done \cup {<<v, n>>}, v, n + 1)
BY SMT DEF Earned

LEMMA MoreEarned ==
  ASSUME NEW done, NEW more, done \subseteq more, NEW v, NEW n, Earned(done, v, n)
  PROVE  Earned(more, v, n)
BY DEF Earned

LEMMA AdvanceSteps ==
  ASSUME TypeOK, StepsInv, NEW r \in Reviewer, Advance(r)
  PROVE  StepsInv'
<1>. DEFINE seen == req[r].seen
<1>1. /\ seen.version \in Version /\ seen.step \in Nat /\ editor' = editor
      /\ item' = [item EXCEPT !.stored = TRUE, !.step = seen.step + 1]
      /\ accepted' = accepted \cup {<<seen.version, seen.step>>}
      /\ crossed \subseteq crossed'
      /\ item.stored /\ item.version # seen.version => item.version \in crossed'
      /\ req[r].pc # "idle"
  BY SMT DEF Advance, TypeOK, Item
<1>2. /\ item'.whole = item.whole /\ item'.stored = TRUE
      /\ item'.version = item.version /\ item'.step = seen.step + 1
  BY <1>1, SMT DEF TypeOK, Item
<1>3. ItemEarned'
  <2>. SUFFICES ASSUME item'.whole, item'.version \notin crossed'
                PROVE  Earned(accepted', item.version, seen.step + 1)
    BY <1>1, <1>2 DEF StepsInv, ItemEarned
  <2>1. item.version = seen.version
    BY <1>1, <1>2 DEF StepsInv, ItemEarned
  <2>2. Earned(accepted, seen.version, seen.step)
    BY <1>1, <1>2, <2>1 DEF StepsInv, SeenEarned
  <2>. QED  BY <1>1, <2>1, <2>2, NextEarned
<1>4. SeenEarned'
  <2>. SUFFICES ASSUME NEW q \in Reviewer, req'[q].pc # "idle",
                       req'[q].seen.version \notin crossed'
                PROVE  Earned(accepted', req'[q].seen.version, req'[q].seen.step)
    BY DEF SeenEarned
  <2>1. req'[q] = req[q]  BY SMT DEF Advance, TypeOK, NoRequest
  <2>2. Earned(accepted, req[q].seen.version, req[q].seen.step)
    BY <1>1, <2>1 DEF StepsInv, SeenEarned
  <2>. QED  BY <1>1, <2>1, <2>2, MoreEarned
<1>5. StepsAccepted'
  BY <1>1 DEF Advance, StepsInv, StepsAccepted, Steps
<1>. QED  BY <1>3, <1>4, <1>5 DEF StepsInv

LEMMA ApplySteps ==
  ASSUME TypeOK, StepsInv, NEW r \in Reviewer, Apply(r)
  PROVE  StepsInv'
<1>. DEFINE seen == req[r].seen
<1>1. /\ seen.version \in Version /\ seen.step \in Nat /\ editor' = editor
      /\ seen.step = ChainLength[seen.version] - 1
      /\ accepted' = accepted \cup {<<seen.version, seen.step>>}
      /\ appliedIn' = appliedIn \cup {seen.version}
      /\ item' = item /\ crossed' = crossed
      /\ req[r].pc # "idle"
  BY SMT DEF Apply, TypeOK, Item, IsLastStep
<1>2. ItemEarned'  BY <1>1, MoreEarned DEF StepsInv, ItemEarned
<1>3. SeenEarned'
  <2>. SUFFICES ASSUME NEW q \in Reviewer, req'[q].pc # "idle",
                       req'[q].seen.version \notin crossed
                PROVE  Earned(accepted', req'[q].seen.version, req'[q].seen.step)
    BY <1>1 DEF SeenEarned
  <2>1. req'[q].seen = req[q].seen /\ req[q].pc # "idle"
    BY <1>1, SMT DEF Apply, TypeOK
  <2>2. Earned(accepted, req[q].seen.version, req[q].seen.step)
    BY <2>1 DEF StepsInv, SeenEarned
  <2>. QED  BY <1>1, <2>1, <2>2, MoreEarned
<1>4. StepsAccepted'
  <2>. SUFFICES ASSUME NEW v \in appliedIn', v \notin crossed
                PROVE  Steps(v) \subseteq accepted'
    BY <1>1 DEF StepsAccepted
  <2>1. CASE v \in appliedIn
    BY <1>1, <2>1 DEF StepsInv, StepsAccepted
  <2>2. CASE v = seen.version
    <3>1. Earned(accepted, v, seen.step)  BY <1>1, <2>2 DEF StepsInv, SeenEarned
    <3>2. ChainLength[v] \in Nat  BY <1>1, <2>2, ChainAssumption
    <3>3. Earned(accepted', v, ChainLength[v])
      BY <1>1, <2>2, <3>1, <3>2, SMT DEF Earned
    <3>. QED  BY <3>2, <3>3, SMT DEF Earned, Steps
  <2>. QED  BY <1>1, <2>1, <2>2
<1>. QED  BY <1>2, <1>3, <1>4 DEF StepsInv

LEMMA StepsNext == ASSUME TypeOK, StepsInv, [Next]_vars PROVE StepsInv'
<1>. USE DEF StepsInv
<1>1. CASE UNCHANGED vars
  BY <1>1 DEF vars, ghosts, ItemEarned, SeenEarned, StepsAccepted, Earned, Steps
<1>2. CASE ReadWorkflow
  BY <1>2 DEF ReadWorkflow, ghosts, ItemEarned, SeenEarned, StepsAccepted, Earned, Steps
<1>3. CASE AutoApprove
  <2>1. ItemEarned' /\ SeenEarned'
    BY <1>3 DEF AutoApprove, ItemEarned, SeenEarned, Earned
  <2>2. StepsAccepted'
    BY <1>3, SMT DEF AutoApprove, StepsAccepted, Steps, TypeOK
  <2>. QED  BY <2>1, <2>2
<1>4. ASSUME NEW skips \in BOOLEAN, Propose(skips)  PROVE StepsInv'
  <2>1. accepted \subseteq accepted' /\ crossed' = crossed /\ req' = req /\ appliedIn' = appliedIn
    BY <1>4 DEF Propose
  <2>2. ItemEarned'
    <3>1. CASE skips
      BY <1>4, <3>1, SMT DEF Propose, ItemEarned, Earned
    <3>2. CASE ~skips
      BY <1>4, <3>2, SMT DEF Propose, ItemEarned, Earned
    <3>. QED  BY <3>1, <3>2
  <2>3. SeenEarned'  BY <2>1 DEF SeenEarned, Earned
  <2>4. StepsAccepted'  BY <2>1 DEF StepsAccepted, Steps
  <2>. QED  BY <2>2, <2>3, <2>4
<1>5. ASSUME NEW r \in Reviewer, Process(r)  PROVE StepsInv'
  <2>1. ASSUME NEW action \in {"accept", "reject", "cancel"}, Begin(r, action)
        PROVE  StepsInv'
    <3>1. ItemEarned' /\ StepsAccepted'
      BY <2>1 DEF Begin, ghosts, ItemEarned, StepsAccepted, Earned, Steps
    <3>2. SeenEarned'
      BY <2>1, SMT DEF Begin, Processable, ghosts, TypeOK, ItemEarned, SeenEarned, Earned
    <3>. QED  BY <3>1, <3>2
  <2>2. CASE Advance(r)  BY <2>2, AdvanceSteps
  <2>3. CASE Apply(r)  BY <2>3, ApplySteps
  <2>4. CASE Decide(r)
    <3>1. ItemEarned'  BY <2>4 DEF Decide, Deleted, Nothing, ItemEarned
    <3>2. SeenEarned'  BY <2>4, SMT DEF Decide, TypeOK, SeenEarned, Earned, NoRequest
    <3>3. StepsAccepted'  BY <2>4 DEF Decide, StepsAccepted, Steps
    <3>. QED  BY <3>1, <3>2, <3>3
  <2>5. CASE Fail(r)
    <3>1. ItemEarned' /\ StepsAccepted'
      BY <2>5 DEF Fail, ghosts, ItemEarned, StepsAccepted, Earned, Steps
    <3>2. SeenEarned'  BY <2>5, SMT DEF Fail, ghosts, TypeOK, SeenEarned, Earned, NoRequest
    <3>. QED  BY <3>1, <3>2
  <2>. QED  BY <1>5, <2>1, <2>2, <2>3, <2>4, <2>5 DEF Process
<1>6. CASE SaveWorkflow
  BY <1>6 DEF SaveWorkflow, ghosts, ItemEarned, SeenEarned, StepsAccepted, Earned, Steps
<1>7. CASE FindPending
  BY <1>7 DEF FindPending, ghosts, ItemEarned, SeenEarned, StepsAccepted, Earned, Steps, NoEdit, Nothing
<1>8. CASE PutBack
  <2>1. SeenEarned' /\ StepsAccepted'
    BY <1>8 DEF PutBack, ghosts, SeenEarned, StepsAccepted, Earned, Steps
  <2>2. ItemEarned'
    BY <1>8, SMT DEF PutBack, Restarted, ghosts, TypeOK, Item, ItemEarned, Earned, NoEdit, Nothing
  <2>. QED  BY <2>1, <2>2
<1>. QED
  BY <1>1, <1>2, <1>3, <1>4, <1>5, <1>6, <1>7, <1>8 DEF Next, Edit

(* Changes are applied only in a version of the workflow whose every step  *)
(* was accepted, except in versions whose step a request set that had read *)
(* the proposal in another (processUserApproval, bulkUpdateUserApprovals-  *)
(* Workflow).                                                              *)
THEOREM StepsAcceptedHolds == Spec => []StepsAccepted
<1>1. Spec => []TypeOK  BY TypeCorrect
<1>2. Init => StepsInv  BY StepsInit
<1>3. TypeOK /\ StepsInv /\ [Next]_vars => StepsInv'  BY StepsNext
<1>4. StepsInv => StepsAccepted  BY DEF StepsInv
<1>. QED  BY <1>1, <1>2, <1>3, <1>4, PTL DEF Spec

-----------------------------------------------------------------------------
(* Decisions                                                               *)

(* Nobody is left that could touch the proposal, and it is gone.           *)
Settled ==
  /\ ~item.stored
  /\ \A r \in Reviewer : req[r].pc = "idle"
  /\ editor.pc # "found"

(* It is so also until the proposal is made, and no decision is before.    *)
FinalInv ==
  /\ final => Settled
  /\ proposer.pc # "done" => Settled /\ ~final

LEMMA FinalNext == ASSUME TypeOK, FinalInv, [Next]_vars PROVE FinalInv'
<1>1. CASE UNCHANGED vars  BY <1>1, Zenon DEF vars, ghosts, FinalInv, Settled
<1>2. CASE ReadWorkflow
  <2>1. proposer.pc # "done"  BY <1>2 DEF ReadWorkflow
  <2>2. Settled' /\ ~final'
    BY <1>2, <2>1, Zenon DEF ReadWorkflow, ghosts, FinalInv, Settled
  <2>. QED  BY <2>2 DEF FinalInv
<1>3. CASE AutoApprove
  <2>1. proposer.pc # "done" /\ proposer'.pc = "done"
    BY <1>3, SMT DEF AutoApprove, TypeOK
  <2>2. Settled'  BY <1>3, <2>1, Zenon DEF AutoApprove, FinalInv, Settled
  <2>. QED  BY <2>1, <2>2 DEF FinalInv
<1>4. ASSUME NEW skips \in BOOLEAN, Propose(skips)  PROVE FinalInv'
  <2>1. proposer.pc # "done" /\ proposer'.pc = "done"
    BY <1>4, SMT DEF Propose, TypeOK
  <2>2. ~final'  BY <1>4, <2>1, Zenon DEF Propose, FinalInv
  <2>. QED  BY <2>1, <2>2 DEF FinalInv
<1>5. ASSUME NEW r \in Reviewer, Process(r)  PROVE FinalInv'
  <2>1. ~Settled
    BY <1>5, Zenon DEF Process, Begin, Processable, Advance, Apply, Decide, Fail, Settled
  <2>2. ~final /\ proposer.pc = "done"  BY <2>1, Zenon DEF FinalInv
  <2>3. proposer' = proposer
    BY <1>5, Zenon DEF Process, Begin, Advance, Apply, Decide, Fail
  <2>4. CASE Decide(r) /\ Alone(r)
    <3>1. item'.stored = FALSE
      BY <2>4 DEF Decide, Deleted, Nothing
    <3>2. \A q \in Reviewer : req'[q].pc = "idle"
      BY <2>4, SMT DEF Decide, Alone, TypeOK, NoRequest
    <3>3. editor'.pc # "found"  BY <2>4 DEF Decide, Alone
    <3>. QED  BY <2>2, <2>3, <3>1, <3>2, <3>3 DEF FinalInv, Settled
  <2>5. CASE ~(Decide(r) /\ Alone(r))
    <3>1. ~final'
      BY <1>5, <2>2, <2>5, Zenon DEF Process, Begin, Advance, Apply, Decide, Fail, ghosts
    <3>. QED  BY <2>2, <2>3, <3>1, Zenon DEF FinalInv
  <2>. QED  BY <2>4, <2>5
<1>6. CASE SaveWorkflow
  <2>1. editor'.pc # "found"  BY <1>6, SMT DEF SaveWorkflow, TypeOK
  <2>. QED  BY <1>6, <2>1, Zenon DEF SaveWorkflow, ghosts, FinalInv, Settled
<1>7. CASE FindPending
  <2>1. ~item.stored => editor'.pc # "found"  BY <1>7, SMT DEF FindPending, TypeOK, NoEdit
  <2>. QED  BY <1>7, <2>1, Zenon DEF FindPending, ghosts, FinalInv, Settled
<1>8. CASE PutBack
  <2>1. ~final /\ proposer.pc = "done"
    BY <1>8, Zenon DEF PutBack, FinalInv, Settled
  <2>. QED  BY <1>8, <2>1, Zenon DEF PutBack, ghosts, FinalInv
<1>. QED
  BY <1>1, <1>2, <1>3, <1>4, <1>5, <1>6, <1>7, <1>8 DEF Next, Edit

(* A decision that was taken while nobody else had read the proposal       *)
(* stands (processUserApproval, deletePendingUserApproval): no request and *)
(* no new version of the workflow can bring the proposal back.             *)
THEOREM UndisturbedIsFinalHolds == Spec => []UndisturbedIsFinal
<1>1. Spec => []TypeOK  BY TypeCorrect
<1>2. Init => FinalInv  BY DEF Init, FinalInv, Settled, Nothing, NoRequest, NoEdit
<1>3. TypeOK /\ FinalInv /\ [Next]_vars => FinalInv'  BY FinalNext
<1>4. FinalInv => UndisturbedIsFinal
  BY DEF FinalInv, Settled, UndisturbedIsFinal
<1>. QED  BY <1>1, <1>2, <1>3, <1>4, PTL DEF Spec

-----------------------------------------------------------------------------
(***************************************************************************)
(* Whatever changes, scores and the untimer job do to an assignment, for   *)
(* any number of each: its level stays while it is locked, and a lock that *)
(* nothing disturbed has exactly the item that will end it.                *)
(***************************************************************************)
Pcs == {"idle", "setting", "recording", "listing", "locking", "finding",
        "removing", "applied"}
Chg == [pc : Pcs, change : Change, unaware : BOOLEAN, found : SUBSET Time]

(* What is known of a changer's record in its state.                       *)
Known(k) == /\ k.pc = "setting" => k.change.level # Same
            /\ k.pc \in {"recording", "listing"} => k.change.release # 0

-----------------------------------------------------------------------------
(* Types                                                                   *)

LEMMA NoneType == 0 \in Release
BY TimeAssumption, SMT DEF Release

LEMMA IdleType == Idle \in Chg /\ Known(Idle)
<1>1. [level |-> Same, lock |-> "keep", release |-> 0] \in Change
  BY TimeAssumption, SMT DEF Change, Release
<1>. QED  BY <1>1 DEF Idle, Chg, Pcs, Known

LEMMA CraInitTypes == ASSUME CraInit PROVE CraTypeOK
<1>1. cra \in Assignment /\ cra.lockedAt = FALSE /\ cra.expires = 0
  <2>1. cra \in [level : Level, updatable : {TRUE}, lockedAt : {FALSE}, expires : {0}]
    BY DEF CraInit
  <2>2. {0} \subseteq Release /\ {TRUE} \subseteq BOOLEAN /\ {FALSE} \subseteq BOOLEAN
    BY NoneType, Zenon
  <2>. QED  BY <2>1, <2>2, Zenon DEF Assignment
<1>2. chg \in [Changer -> Chg] /\ \A c \in Changer : Known(chg[c])
  BY IdleType DEF CraInit
<1>3. scoring \in [Scorer -> [pc : {"idle", "scoring", "manual"}, unaware : BOOLEAN]]
  BY DEF CraInit
<1>4. sweep \in [running : BOOLEAN, found : SUBSET Time, released : SUBSET Time]
  BY DEF CraInit, NoSweep
<1>5. now \in 1..MaxTime + 1  BY TimeAssumption, SMT DEF CraInit
<1>. QED  BY <1>1, <1>2, <1>3, <1>4, <1>5, Zenon DEF CraInit, CraTypeOK, Chg, Pcs, Known

(* The type invariant, in the words of this module.                        *)
LEMMA Typed ==
  CraTypeOK <=>
    /\ cra \in Assignment /\ (~cra.lockedAt => cra.expires = 0)
    /\ timers \in SUBSET Time
    /\ now \in 1..MaxTime + 1
    /\ chg \in [Changer -> Chg] /\ \A c \in Changer : Known(chg[c])
    /\ scoring \in [Scorer -> [pc : {"idle", "scoring", "manual"}, unaware : BOOLEAN]]
    /\ sweep \in [running : BOOLEAN, found : SUBSET Time, released : SUBSET Time]
    /\ early \in SUBSET (Changer \cup Scorer)
    /\ alone \in BOOLEAN /\ orderly \in BOOLEAN
BY Zenon DEF CraTypeOK, Chg, Pcs, Known

(* A changer's record is replaced by another of its type.                  *)
LEMMA ChgType ==
  ASSUME chg \in [Changer -> Chg], \A c \in Changer : Known(chg[c]),
         NEW c \in Changer, NEW k \in Chg, Known(k)
  PROVE  /\ [chg EXCEPT ![c] = k] \in [Changer -> Chg]
         /\ \A d \in Changer : Known([chg EXCEPT ![c] = k][d])
OBVIOUS

LEMMA PcType ==
  ASSUME NEW k \in Chg, NEW pc \in Pcs,
         pc = "setting" => k.change.level # Same,
         pc \in {"recording", "listing"} => k.change.release # 0
  PROVE  [k EXCEPT !.pc = pc] \in Chg /\ Known([k EXCEPT !.pc = pc])
BY DEF Chg, Known

LEMMA WritesTypes ==
  ASSUME CraTypeOK, NEW a, NEW new \in Assignment, Writes(a, new)
  PROVE  /\ cra' = new /\ early' \in SUBSET (Changer \cup Scorer)
         /\ orderly' \in BOOLEAN
<1>1. LevelWriters \subseteq Changer \cup Scorer  BY DEF LevelWriters
<1>2. early' \in SUBSET (Changer \cup Scorer)  BY <1>1 DEF Writes, CraTypeOK
<1>3. orderly' \in BOOLEAN  BY Zenon DEF Writes
<1>. QED  BY <1>2, <1>3 DEF Writes

LEMMA UnlockedType == CraTypeOK => Unlocked \in Assignment /\ Unlocked.expires = 0
BY NoneType, Zenon DEF CraTypeOK, Unlocked, Assignment

LEMMA ChangeTypes ==
  ASSUME CraTypeOK, NEW c \in Changer, NEW change \in Change, NEW unaware \in BOOLEAN,
         BeginChange(c, change, unaware)
  PROVE  CraTypeOK'
<1>. DEFINE k == [pc |-> FirstStep(change, unaware), change |-> change,
                  unaware |-> unaware, found |-> {}]
<1>1. FirstStep(change, unaware) \in Pcs
  BY Zenon DEF FirstStep, Pcs
<1>2. k \in Chg  BY <1>1 DEF Chg
<1>3. Known(k)
  BY SMT DEF Known, FirstStep, Changing
<1>4. chg' = [chg EXCEPT ![c] = k]  BY DEF BeginChange
<1>5. chg' \in [Changer -> Chg] /\ \A d \in Changer : Known(chg'[d])
  BY <1>2, <1>3, <1>4, ChgType, Typed, Zenon
<1>6. alone' \in BOOLEAN /\ orderly' \in BOOLEAN  BY Zenon DEF BeginChange, Joins, Undisturbed
<1>. QED  BY <1>5, <1>6, Typed, Zenon DEF BeginChange, CraTypeOK, Chg, Pcs, Known

LEMMA SetLevelTypes ==
  ASSUME CraTypeOK, NEW c \in Changer, SetLevel(c)
  PROVE  CraTypeOK'
<1>. DEFINE change == chg[c].change
            locks == change.lock = "lock"
            new == [level |-> change.level, updatable |-> ~locks, lockedAt |-> locks,
                    expires |-> change.release]
            pc == IF change.release = 0 THEN "applied" ELSE "recording"
<1>1. change \in Change /\ chg[c] \in Chg /\ change.level # Same
  BY Typed, Zenon DEF SetLevel, Chg, Known
<1>2. new \in Assignment /\ (~new.lockedAt => new.expires = 0)
  <2>1. change.level \in Level /\ change.release \in Release /\ (~locks => change.release = 0)
    BY <1>1 DEF Change
  <2>2. locks \in BOOLEAN /\ (~locks) \in BOOLEAN  OBVIOUS
  <2>. QED  BY <2>1, <2>2, Zenon DEF Assignment
<1>3. /\ cra' = new /\ early' \in SUBSET (Changer \cup Scorer) /\ orderly' \in BOOLEAN
  BY <1>2, WritesTypes DEF SetLevel
<1>4. chg' \in [Changer -> Chg] /\ \A d \in Changer : Known(chg'[d])
  <2>1. pc \in Pcs /\ pc # "setting" /\ pc # "listing" /\ (pc = "recording" => change.release # 0)
    BY DEF Pcs
  <2>. DEFINE k == [chg[c] EXCEPT !.pc = pc]
  <2>2. k \in Chg /\ Known(k)  BY <1>1, <2>1, PcType
  <2>3. chg' = [chg EXCEPT ![c] = k]  BY DEF SetLevel
  <2>. QED  BY <2>2, <2>3, ChgType, Typed, Zenon
<1>. QED  BY <1>2, <1>3, <1>4, Typed, Zenon DEF SetLevel, CraTypeOK, Chg, Pcs, Known

LEMMA SetLockTypes ==
  ASSUME CraTypeOK, NEW c \in Changer, SetLock(c)
  PROVE  CraTypeOK'
<1>. DEFINE new == [cra EXCEPT !.updatable = FALSE, !.lockedAt = TRUE,
                               !.expires = chg[c].change.release]
<1>1. chg[c] \in Chg  BY Typed, Zenon
<1>2. new \in Assignment /\ new.lockedAt
  <2>1. chg[c].change.release \in Release  BY <1>1 DEF Chg, Change
  <2>. QED  BY <2>1, Typed, Zenon DEF Assignment
<1>3. /\ cra' = new /\ early' \in SUBSET (Changer \cup Scorer) /\ orderly' \in BOOLEAN
  BY <1>2, WritesTypes DEF SetLock
<1>4. chg' \in [Changer -> Chg] /\ \A d \in Changer : Known(chg'[d])
  <2>. DEFINE k == [chg[c] EXCEPT !.pc = "applied"]
  <2>1. k \in Chg /\ Known(k)  BY <1>1, PcType DEF Pcs
  <2>2. chg' = [chg EXCEPT ![c] = k]  BY DEF SetLock
  <2>. QED  BY <2>1, <2>2, ChgType, Typed, Zenon
<1>. QED  BY <1>2, <1>3, <1>4, Typed, Zenon DEF SetLock, CraTypeOK, Chg, Pcs, Known

(* The steps of a change that write no level and set no lock.              *)
LEMMA ItemTypes ==
  ASSUME CraTypeOK, NEW c \in Changer,
         \/ PutTimer(c) \/ FindTimers(c) \/ (\E t \in Time : RemoveTimer(c, t))
         \/ Unlock(c) \/ Answer(c) \/ Abandon(c)
  PROVE  CraTypeOK'
<1>1. chg[c] \in Chg /\ Known(chg[c]) /\ timers \in SUBSET Time  BY Typed, Zenon
<1>2. CASE PutTimer(c)
  <2>. DEFINE pc == IF chg[c].pc = "recording" THEN "applied" ELSE "locking"
              k == [chg[c] EXCEPT !.pc = pc]
  <2>1. chg[c].change.release \in Time
    BY <1>1, <1>2, TimeAssumption, SMT DEF PutTimer, Known, Chg, Change, Release, Time
  <2>2. k \in Chg /\ Known(k)  BY <1>1, PcType DEF Pcs
  <2>3. chg' = [chg EXCEPT ![c] = k]  BY <1>2 DEF PutTimer
  <2>4. chg' \in [Changer -> Chg] /\ \A d \in Changer : Known(chg'[d])
    BY <2>2, <2>3, ChgType, Typed, Zenon
  <2>5. timers' \in SUBSET Time  BY <1>1, <1>2, <2>1 DEF PutTimer
  <2>. QED  BY <1>2, <2>4, <2>5, Typed, Zenon DEF PutTimer, CraTypeOK, Chg, Pcs, Known
<1>3. CASE FindTimers(c)
  <2>. DEFINE k == [chg[c] EXCEPT !.pc = "removing", !.found = FoundItems]
  <2>1. k \in Chg /\ Known(k)  BY <1>1 DEF Chg, Known, Pcs, FoundItems
  <2>2. chg' = [chg EXCEPT ![c] = k]  BY <1>3 DEF FindTimers
  <2>3. chg' \in [Changer -> Chg] /\ \A d \in Changer : Known(chg'[d])
    BY <2>1, <2>2, ChgType, Typed, Zenon
  <2>. QED  BY <1>3, <2>3, Typed, Zenon DEF FindTimers, CraTypeOK, Chg, Pcs, Known
<1>4. ASSUME NEW t \in Time, RemoveTimer(c, t)  PROVE CraTypeOK'
  <2>. DEFINE k == [chg[c] EXCEPT !.found = @ \ {t}]
  <2>1. k \in Chg /\ Known(k)  BY <1>1 DEF Chg, Known
  <2>2. chg' = [chg EXCEPT ![c] = k]  BY <1>4 DEF RemoveTimer
  <2>3. chg' \in [Changer -> Chg] /\ \A d \in Changer : Known(chg'[d])
    BY <2>1, <2>2, ChgType, Typed, Zenon
  <2>4. timers' \in SUBSET Time  BY <1>1, <1>4 DEF RemoveTimer
  <2>. QED  BY <1>4, <2>3, <2>4, Typed, Zenon DEF RemoveTimer, CraTypeOK, Chg, Pcs, Known
<1>5. CASE Unlock(c)
  <2>. DEFINE k == [chg[c] EXCEPT !.pc = "applied"]
  <2>1. k \in Chg /\ Known(k)  BY <1>1, PcType DEF Pcs
  <2>2. chg' = [chg EXCEPT ![c] = k]  BY <1>5 DEF Unlock
  <2>3. chg' \in [Changer -> Chg] /\ \A d \in Changer : Known(chg'[d])
    BY <2>1, <2>2, ChgType, Typed, Zenon
  <2>4. cra' \in Assignment /\ cra'.expires = 0  BY <1>5, UnlockedType DEF Unlock
  <2>5. orderly' \in BOOLEAN  BY <1>5, Zenon DEF Unlock
  <2>. QED  BY <1>5, <2>3, <2>4, <2>5, Typed, Zenon DEF Unlock, CraTypeOK, Chg, Pcs, Known
<1>6. CASE Answer(c) \/ Abandon(c)
  <2>1. chg' = [chg EXCEPT ![c] = Idle]  BY <1>6 DEF Answer, Abandon
  <2>2. chg' \in [Changer -> Chg] /\ \A d \in Changer : Known(chg'[d])
    BY <2>1, IdleType, ChgType, Typed, Zenon
  <2>3. orderly' \in BOOLEAN /\ early' \in SUBSET (Changer \cup Scorer)
    BY <1>6, Zenon DEF Answer, Abandon, CraTypeOK
  <2>. QED  BY <1>6, <2>2, <2>3, Typed, Zenon DEF Answer, Abandon, CraTypeOK, Chg, Pcs, Known
<1>. QED  BY <1>2, <1>3, <1>4, <1>5, <1>6

LEMMA ScoreTypes ==
  ASSUME CraTypeOK, NEW s \in Scorer, Score(s)
  PROVE  CraTypeOK'
<1>1. ASSUME NEW manual \in BOOLEAN, NEW unaware \in BOOLEAN, BeginScore(s, manual, unaware)
      PROVE  CraTypeOK'
  <2>1. scoring' \in [Scorer -> [pc : {"idle", "scoring", "manual"}, unaware : BOOLEAN]]
    BY <1>1 DEF BeginScore, CraTypeOK
  <2>2. alone' \in BOOLEAN /\ orderly' \in BOOLEAN
    BY <1>1, Zenon DEF BeginScore, Joins, Undisturbed, CraTypeOK
  <2>. QED  BY <1>1, <2>1, <2>2, Zenon DEF BeginScore, CraTypeOK
<1>2. ASSUME NEW level \in Level, NEW updatable \in BOOLEAN, WriteScore(s, level, updatable)
      PROVE  CraTypeOK'
  <2>. DEFINE new == IF scoring[s].pc = "scoring"
               THEN [cra EXCEPT !.level = level, !.updatable = updatable]
               ELSE [level |-> level, updatable |-> updatable, lockedAt |-> ~updatable,
                     expires |-> 0]
  <2>1. new \in Assignment /\ (~new.lockedAt => new.expires = 0)
    <3>1. CASE scoring[s].pc = "scoring"
      BY <3>1, Zenon DEF CraTypeOK, Assignment
    <3>2. CASE scoring[s].pc # "scoring"
      BY <3>2, NoneType, Zenon DEF Assignment
    <3>. QED  BY <3>1, <3>2
  <2>2. /\ cra' = new /\ early' \in SUBSET (Changer \cup Scorer) /\ orderly' \in BOOLEAN
    BY <1>2, <2>1, WritesTypes DEF WriteScore
  <2>3. scoring' \in [Scorer -> [pc : {"idle", "scoring", "manual"}, unaware : BOOLEAN]]
    BY <1>2 DEF WriteScore, CraTypeOK
  <2>. QED  BY <1>2, <2>1, <2>2, <2>3, Zenon DEF WriteScore, CraTypeOK
<1>. QED  BY <1>1, <1>2 DEF Score

LEMMA UntimerTypes ==
  ASSUME CraTypeOK, Untimer \/ Tick
  PROVE  CraTypeOK'
<1>. DEFINE Sweep == [running : BOOLEAN, found : SUBSET Time, released : SUBSET Time]
<1>1. timers \in SUBSET Time /\ sweep \in Sweep /\ NoSweep \in Sweep
  BY DEF CraTypeOK, NoSweep
<1>2. CASE FindExpired
  <2>1. sweep' \in Sweep  BY <1>1, <1>2 DEF FindExpired, Due
  <2>2. alone' \in BOOLEAN /\ orderly' \in BOOLEAN
    BY <1>2, Zenon DEF FindExpired, Joins, Undisturbed
  <2>. QED  BY <1>2, <2>1, <2>2, Zenon DEF FindExpired, CraTypeOK
<1>3. ASSUME NEW t \in Time, NEW fails \in BOOLEAN, ReleaseLock(t, fails)
      PROVE  CraTypeOK'
  <2>1. cra' \in Assignment /\ (~cra'.lockedAt => cra'.expires = 0)
    BY <1>3, UnlockedType, Zenon DEF ReleaseLock, CraTypeOK
  <2>2. sweep' \in Sweep  BY <1>1, <1>3 DEF ReleaseLock
  <2>. QED  BY <1>3, <2>1, <2>2, Zenon DEF ReleaseLock, CraTypeOK
<1>4. CASE Clean
  <2>1. timers' \in SUBSET Time /\ sweep' \in Sweep  BY <1>1, <1>4 DEF Clean
  <2>. QED  BY <1>4, <2>1, Zenon DEF Clean, CraTypeOK
<1>5. CASE SweepFails
  <2>1. orderly' \in BOOLEAN /\ sweep' \in Sweep  BY <1>1, <1>5, Zenon DEF SweepFails
  <2>. QED  BY <1>5, <2>1, Zenon DEF SweepFails, CraTypeOK
<1>6. CASE Tick
  <2>1. now' \in 1..MaxTime + 1  BY <1>6, TimeAssumption, SMT DEF Tick, CraTypeOK
  <2>. QED  BY <1>6, <2>1, Zenon DEF Tick, CraTypeOK
<1>. QED  BY <1>2, <1>3, <1>4, <1>5, <1>6 DEF Untimer

LEMMA CraNextTypes == ASSUME CraTypeOK, [CraNext]_craVars PROVE CraTypeOK'
<1>1. CASE UNCHANGED craVars  BY <1>1, Zenon DEF craVars, CraTypeOK
<1>2. ASSUME NEW c \in Changer, ContinueChange(c)  PROVE CraTypeOK'
  BY <1>2, SetLevelTypes, SetLockTypes, ItemTypes DEF ContinueChange
<1>. QED
  BY <1>1, <1>2, ChangeTypes, ItemTypes, ScoreTypes, UntimerTypes DEF CraNext

(* The variables keep their types; a lock runs out only if it was set as a *)
(* lock, and an item is written only for a time (risk-repository.ts).      *)
THEOREM CraTypeCorrect == CraSpec => []CraTypeOK
BY CraInitTypes, CraNextTypes, PTL DEF CraSpec

-----------------------------------------------------------------------------
(* The level under a lock                                                  *)

(* Who is about to write the level while the assignment is locked had read *)
(* it before, or did not look.                                             *)
Excused(a) == a \in early \/ (a \in Changer /\ chg[a].unaware)
                          \/ (a \in Scorer /\ scoring[a].unaware)
LevelInv == ~cra.updatable => \A a \in LevelWriters : Excused(a)

LEMMA WritersAre ==
  /\ \A c \in Changer : c \in LevelWriters <=> chg[c].pc = "setting"
  /\ \A s \in Scorer : s \in LevelWriters <=> scoring[s].pc # "idle"
BY ActorAssumption, Zenon DEF LevelWriters

(* A request that writes the assignment excuses all others.                *)
LEMMA WritesExcuse ==
  ASSUME LevelInv, NEW a, NEW new, Writes(a, new), ~new.updatable,
         NEW b \in LevelWriters, b # a
  PROVE  b \in early' \/ (b \in Changer /\ chg[b].unaware)
                      \/ (b \in Scorer /\ scoring[b].unaware)
BY Zenon DEF Writes, LevelInv, Excused

LEMMA SetStepLevel ==
  ASSUME CraTypeOK, LevelInv, NEW c \in Changer, SetLevel(c) \/ SetLock(c)
  PROVE  LevelInv'
<1>. SUFFICES ASSUME ~cra'.updatable, NEW b \in LevelWriters'  PROVE Excused(b)'
  BY DEF LevelInv
<1>1. PICK new : Writes(c, new)  BY Zenon DEF SetLevel, SetLock
<1>2. ~new.updatable  BY <1>1 DEF Writes
<1>3. scoring' = scoring /\ \A d \in Changer \ {c} : chg'[d] = chg[d]
  BY SMT DEF SetLevel, SetLock, CraTypeOK
<1>4. chg'[c].pc # "setting" /\ c \notin Scorer
  BY ActorAssumption, SMT DEF SetLevel, SetLock, CraTypeOK
<1>5. b \in LevelWriters /\ b # c
  BY <1>3, <1>4, Zenon DEF LevelWriters
<1>6. b \in early' \/ (b \in Changer /\ chg[b].unaware) \/ (b \in Scorer /\ scoring[b].unaware)
  BY <1>1, <1>2, <1>5, WritesExcuse
<1>. QED  BY <1>3, <1>5, <1>6, Zenon DEF Excused

LEMMA ScoreLevel ==
  ASSUME CraTypeOK, LevelInv, NEW s \in Scorer, Score(s)
  PROVE  LevelInv'
<1>1. ASSUME NEW manual \in BOOLEAN, NEW unaware \in BOOLEAN, BeginScore(s, manual, unaware)
      PROVE  LevelInv'
  <2>. SUFFICES ASSUME ~cra'.updatable, NEW b \in LevelWriters'  PROVE Excused(b)'
    BY DEF LevelInv
  <2>1. chg' = chg /\ early' = early /\ cra' = cra  BY <1>1 DEF BeginScore
  <2>2. CASE b = s
    BY <1>1, <2>1, <2>2, SMT DEF BeginScore, Excused, CraTypeOK
  <2>3. CASE b # s
    <3>1. b \in Scorer => scoring'[b] = scoring[b]  BY <1>1, <2>3 DEF BeginScore, CraTypeOK
    <3>2. b \in LevelWriters  BY <2>1, <3>1, Zenon DEF LevelWriters
    <3>. QED  BY <2>1, <3>1, <3>2, Zenon DEF LevelInv, Excused
  <2>. QED  BY <2>2, <2>3
<1>2. ASSUME NEW level \in Level, NEW updatable \in BOOLEAN, WriteScore(s, level, updatable)
      PROVE  LevelInv'
  <2>. SUFFICES ASSUME ~cra'.updatable, NEW b \in LevelWriters'  PROVE Excused(b)'
    BY DEF LevelInv
  <2>1. PICK new : Writes(s, new)  BY <1>2, Zenon DEF WriteScore
  <2>2. ~new.updatable  BY <2>1 DEF Writes
  <2>3. chg' = chg /\ \A q \in Scorer \ {s} : scoring'[q] = scoring[q]
    BY <1>2, SMT DEF WriteScore, CraTypeOK
  <2>4. scoring'[s].pc = "idle" /\ s \notin Changer
    BY <1>2, ActorAssumption, SMT DEF WriteScore, CraTypeOK
  <2>5. b \in LevelWriters /\ b # s
    BY <2>3, <2>4, Zenon DEF LevelWriters
  <2>6. b \in early' \/ (b \in Changer /\ chg[b].unaware) \/ (b \in Scorer /\ scoring[b].unaware)
    BY <2>1, <2>2, <2>5, WritesExcuse
  <2>. QED  BY <2>3, <2>5, <2>6, Zenon DEF Excused
<1>. QED  BY <1>1, <1>2 DEF Score

(* The steps of a change that write no level, set no lock and, if they set *)
(* cra at all, unlock it.                                                  *)
LEMMA ItemLevel ==
  ASSUME CraTypeOK, LevelInv, NEW c \in Changer,
         \/ PutTimer(c) \/ FindTimers(c) \/ (\E t \in Time : RemoveTimer(c, t))
         \/ Unlock(c) \/ Answer(c) \/ Abandon(c)
  PROVE  LevelInv'
<1>1. CASE Unlock(c)
  <2>1. cra'.updatable  BY <1>1, Zenon DEF Unlock, Unlocked, CraTypeOK, Assignment
  <2>. QED  BY <2>1, Zenon DEF LevelInv
<1>2. CASE ~Unlock(c)
  <2>. SUFFICES ASSUME ~cra'.updatable, NEW b \in LevelWriters'  PROVE Excused(b)'
    BY DEF LevelInv
  <2>1. cra' = cra /\ scoring' = scoring /\ early \ {c} \subseteq early'
    BY <1>2, Zenon DEF PutTimer, FindTimers, RemoveTimer, Answer, Abandon
  <2>2. \A d \in Changer \ {c} : chg'[d] = chg[d]
    BY <1>2, SMT DEF PutTimer, FindTimers, RemoveTimer, Answer, Abandon, CraTypeOK
  <2>3. chg'[c].pc # "setting" /\ c \notin Scorer
    BY <1>2, ActorAssumption, SMT
    DEF PutTimer, FindTimers, RemoveTimer, Answer, Abandon, Idle, CraTypeOK
  <2>4. b \in LevelWriters /\ b # c  BY <2>1, <2>2, <2>3, Zenon DEF LevelWriters
  <2>. QED  BY <2>1, <2>2, <2>4, Zenon DEF LevelInv, Excused
<1>. QED  BY <1>1, <1>2

LEMMA BeginLevel ==
  ASSUME CraTypeOK, LevelInv, NEW c \in Changer, NEW change \in Change, NEW unaware \in BOOLEAN,
         BeginChange(c, change, unaware)
  PROVE  LevelInv'
<1>. SUFFICES ASSUME ~cra'.updatable, NEW b \in LevelWriters'  PROVE Excused(b)'
  BY DEF LevelInv
<1>1. cra' = cra /\ scoring' = scoring /\ early' = early  BY DEF BeginChange
<1>2. CASE b = c
  <2>1. c \notin Scorer  BY ActorAssumption
  <2>2. chg'[c].pc = FirstStep(change, unaware) /\ chg'[c].unaware = unaware
    BY DEF BeginChange, CraTypeOK
  <2>3. chg'[c].pc = "setting"  BY <1>2, <2>1, Zenon DEF LevelWriters
  <2>4. Changing(change, unaware)  BY <2>2, <2>3, SMT DEF FirstStep
  <2>5. unaware  BY <1>1, <2>4, Zenon DEF BeginChange, Permitted
  <2>. QED  BY <1>2, <2>2, <2>5, Zenon DEF Excused
<1>3. CASE b # c
  <2>1. b \in Changer => chg'[b] = chg[b]  BY <1>3 DEF BeginChange, CraTypeOK
  <2>2. b \in LevelWriters  BY <1>1, <2>1, Zenon DEF LevelWriters
  <2>. QED  BY <1>1, <2>1, <2>2, Zenon DEF LevelInv, Excused
<1>. QED  BY <1>2, <1>3

LEMMA UntimerLevel ==
  ASSUME CraTypeOK, LevelInv, Untimer \/ Tick
  PROVE  LevelInv'
<1>1. chg' = chg /\ scoring' = scoring /\ early' = early
  BY Zenon DEF Untimer, FindExpired, ReleaseLock, Clean, SweepFails, Tick
<1>2. cra' = cra \/ cra' = Unlocked
  BY Zenon DEF Untimer, FindExpired, ReleaseLock, Clean, SweepFails, Tick
<1>3. Unlocked.updatable  BY Zenon DEF Unlocked, CraTypeOK, Assignment
<1>4. LevelWriters' = LevelWriters  BY <1>1, Zenon DEF LevelWriters
<1>. QED  BY <1>1, <1>2, <1>3, <1>4, Zenon DEF LevelInv, Excused

LEMMA LevelNext == ASSUME CraTypeOK, LevelInv, [CraNext]_craVars PROVE LevelInv'
<1>1. CASE UNCHANGED craVars
  BY <1>1, Zenon DEF craVars, LevelInv, LevelWriters, Excused
<1>2. ASSUME NEW c \in Changer, ContinueChange(c)  PROVE LevelInv'
  BY <1>2, SetStepLevel, ItemLevel DEF ContinueChange
<1>. QED
  BY <1>1, <1>2, BeginLevel, ItemLevel, ScoreLevel, UntimerLevel DEF CraNext

LEMMA LevelStep ==
  ASSUME CraTypeOK, LevelInv, [CraNext]_craVars, ~cra.updatable, cra'.level # cra.level
  PROVE  LevelWritten
<1>1. CASE \E c \in Changer : SetLevel(c)
  <2>1. PICK c \in Changer : SetLevel(c)  BY <1>1
  <2>2. chg[c].pc = "setting" /\ chg'[c].pc # "setting"
    BY <2>1, SMT DEF SetLevel, CraTypeOK
  <2>3. c \in LevelWriters /\ c \notin Scorer  BY <2>2, WritersAre, ActorAssumption
  <2>4. c \in early \/ chg[c].unaware  BY <2>3, Zenon DEF LevelInv, Excused
  <2>. QED  BY <2>2, <2>4, Zenon DEF LevelWritten
<1>2. CASE \E s \in Scorer, level \in Level, updatable \in BOOLEAN : WriteScore(s, level, updatable)
  <2>1. PICK s \in Scorer, level \in Level, updatable \in BOOLEAN : WriteScore(s, level, updatable)
    BY <1>2
  <2>2. scoring[s].pc # "idle" /\ scoring'[s].pc = "idle"
    BY <2>1, SMT DEF WriteScore, CraTypeOK
  <2>3. s \in LevelWriters /\ s \notin Changer  BY <2>2, WritersAre, ActorAssumption
  <2>4. s \in early \/ scoring[s].unaware  BY <2>3, Zenon DEF LevelInv, Excused
  <2>. QED  BY <2>2, <2>4, Zenon DEF LevelWritten
<1>3. CASE \E c \in Changer : SetLock(c)
  <2>1. PICK c \in Changer : SetLock(c)  BY <1>3
  <2>2. cra'.level = cra.level
    BY <2>1, Zenon DEF SetLock, Writes, CraTypeOK, Assignment
  <2>. QED  BY <2>2
<1>4. CASE /\ ~\E c \in Changer : SetLevel(c) \/ SetLock(c)
           /\ ~\E s \in Scorer, level \in Level, updatable \in BOOLEAN : WriteScore(s, level, updatable)
  <2>1. cra' = cra \/ cra' = Unlocked
    BY <1>4, Zenon
    DEF CraNext, craVars, BeginChange, ContinueChange, PutTimer, FindTimers, RemoveTimer,
        Unlock, Answer, Abandon, Score, BeginScore, Untimer, FindExpired, ReleaseLock,
        Clean, SweepFails, Tick
  <2>2. Unlocked.level = cra.level  BY Zenon DEF Unlocked, CraTypeOK, Assignment
  <2>. QED  BY <2>1, <2>2
<1>. QED  BY <1>1, <1>2, <1>3, <1>4, Zenon

(* The level of a locked assignment is changed only by a request that had  *)
(* read it before it was locked, or did not look (applyUserApproval-       *)
(* Changes, updateDrsForTransaction, updateDrsForUserChange and            *)
(* handleManualRiskLevelUpdate).                                           *)
THEOREM LockedLevelStaysHolds == CraSpec => LockedLevelStays
<1>1. CraSpec => []CraTypeOK  BY CraTypeCorrect
<1>2. CraInit => LevelInv
  BY Zenon DEF CraInit, LevelInv, LevelWriters, Idle
<1>3. CraTypeOK /\ LevelInv /\ [CraNext]_craVars => LevelInv'  BY LevelNext
<1>4. CraTypeOK /\ LevelInv /\ [CraNext]_craVars
        => [~cra.updatable /\ cra'.level # cra.level => LevelWritten]_craVars
  BY LevelStep
<1>. QED  BY <1>1, <1>2, <1>3, <1>4, PTL DEF CraSpec, LockedLevelStays

-----------------------------------------------------------------------------
(* The lock and its item                                                   *)

(* In these states a change has done one of its two writes, or begun the   *)
(* deletes.                                                                *)
InPath(c) == chg[c].pc \in {"recording", "locking", "removing"}

ItemIs == timers = {cra.expires} \ {0}

OneAtATime ==
  orderly \/ alone => /\ \A a, b \in LockWriters : a = b
                      /\ sweep.running => LockWriters = {}
(* What the items are while a change is under way ...                      *)
PathInv(c) ==
  /\ orderly /\ chg[c].pc = "recording" =>
       cra.expires = chg[c].change.release /\ timers \subseteq {cra.expires}
  /\ orderly /\ chg[c].pc = "locking" => timers = {cra.expires, chg[c].change.release} \ {0}
  /\ (orderly \/ alone) /\ chg[c].pc = "removing" => timers \subseteq chg[c].found
(* ... or the job.                                                         *)
SweepInv ==
  /\ ~sweep.running => sweep = NoSweep
  /\ orderly => sweep.found \subseteq timers
  /\ orderly /\ sweep.released # {} =>
       sweep.found = {} /\ sweep.released = timers /\ cra.expires = 0
LockInv ==
  /\ OneAtATime /\ SweepInv
  /\ \A c \in Changer : PathInv(c)
  /\ orderly /\ (\A c \in Changer : ~InPath(c)) /\ sweep.released = {} => ItemIs

LEMMA LockInit == CraInit => LockInv
<1>. SUFFICES ASSUME CraInit  PROVE LockInv  OBVIOUS
<1>1. cra.expires = 0 /\ timers = {} /\ sweep = NoSweep  BY DEF CraInit
<1>2. LockWriters = {} /\ \A c \in Changer : ~InPath(c) /\ chg[c].pc = "idle"
  <2>1. \A c \in Changer : chg[c].pc = "idle"  BY DEF CraInit, Idle
  <2>2. \A s \in Scorer : scoring[s].pc = "idle"  BY DEF CraInit
  <2>3. \A c \in Changer : ~InPath(c)
    <3>. SUFFICES ASSUME NEW c \in Changer  PROVE ~InPath(c)  OBVIOUS
    <3>1. chg[c].pc = "idle"  BY <2>1
    <3>. QED  BY <3>1, SMT DEF InPath
  <2>4. LockWriters = {}
    <3>1. "idle" # "manual"  OBVIOUS
    <3>. QED  BY <2>1, <2>2, <3>1, Zenon DEF LockWriters
  <2>. QED  BY <2>1, <2>3, <2>4, Zenon
<1>. QED
  BY <1>1, <1>2 DEF LockInv, OneAtATime, SweepInv, PathInv, ItemIs, NoSweep

LEMMA LockWritersAre ==
  /\ \A c \in Changer : c \in LockWriters <=> chg[c].pc \notin {"idle", "applied"}
  /\ \A s \in Scorer : s \in LockWriters <=> scoring[s].pc = "manual"
  /\ LockWriters \subseteq Changer \cup Scorer
BY ActorAssumption, Zenon DEF LockWriters

(* Who changes the lock in order is the only one, and no job runs.         *)
LEMMA Sole ==
  ASSUME LockInv, orderly \/ alone, NEW a \in LockWriters
  PROVE  /\ LockWriters = {a} /\ ~sweep.running /\ sweep = NoSweep
         /\ \A c \in Changer : c # a => chg[c].pc \in {"idle", "applied"} /\ ~InPath(c)
<1>1. LockWriters = {a}  BY DEF LockInv, OneAtATime
<1>2. ~sweep.running /\ sweep = NoSweep  BY <1>1 DEF LockInv, OneAtATime, SweepInv
<1>3. \A c \in Changer : c # a => chg[c].pc \in {"idle", "applied"}
  BY <1>1, LockWritersAre
<1>. QED  BY <1>1, <1>2, <1>3, SMT DEF InPath

(* When nobody is in between, the item is the lock's.                      *)
LEMMA QuietMatches ==
  ASSUME LockInv, orderly, Undisturbed
  PROVE  ItemIs /\ sweep = NoSweep /\ \A c \in Changer : ~InPath(c)
<1>1. sweep = NoSweep  BY DEF LockInv, SweepInv, Undisturbed
<1>2. \A c \in Changer : ~InPath(c)
  <2>. SUFFICES ASSUME NEW c \in Changer  PROVE ~InPath(c)  OBVIOUS
  <2>1. chg[c].pc \in {"idle", "applied"}  BY LockWritersAre DEF Undisturbed
  <2>. QED  BY <2>1, SMT DEF InPath
<1>. QED  BY <1>1, <1>2 DEF LockInv, NoSweep

(* What holds of the items before the only change takes a step, and has to *)
(* hold after it.                                                          *)
MatchesAt(c) ==
  /\ ~InPath(c) => ItemIs
  /\ PathInv(c)

LEMMA Before ==
  ASSUME LockInv, orderly, NEW c \in Changer, c \in LockWriters
  PROVE  MatchesAt(c)
<1>1. sweep.released = {} /\ \A d \in Changer : d # c => ~InPath(d)
  BY Sole DEF NoSweep
<1>. QED  BY <1>1, Zenon DEF LockInv, MatchesAt

LEMMA SoleStep ==
  ASSUME LockInv, NEW c \in Changer, c \in LockWriters,
         scoring' = scoring, sweep' = sweep,
         \A d \in Changer \ {c} : chg'[d] = chg[d],
         orderly' \/ alone' => orderly \/ alone,
         orderly' => (~InPath(c) => ItemIs)',
         PathInv(c)'
  PROVE  LockInv'
<1>1. CASE ~(orderly' \/ alone')
  <2>1. SweepInv'  BY <1>1, Zenon DEF LockInv, SweepInv, NoSweep
  <2>. QED  BY <1>1, <2>1, Zenon DEF LockInv, OneAtATime, PathInv
<1>2. CASE orderly' \/ alone'
  <2>1. /\ LockWriters = {c} /\ ~sweep.running /\ sweep = NoSweep
        /\ \A d \in Changer : d # c => chg[d].pc \in {"idle", "applied"}
    BY <1>2, Sole
  <2>2. \A d \in Changer : d # c => chg'[d].pc \in {"idle", "applied"}
    BY <2>1
  <2>3. LockWriters' \subseteq {c}
    <3>. SUFFICES ASSUME NEW a \in LockWriters'  PROVE a = c  OBVIOUS
    <3>1. CASE a \in Changer /\ chg'[a].pc \notin {"idle", "applied"}
      BY <2>2, <3>1
    <3>2. CASE a \in Scorer /\ scoring'[a].pc = "manual"
      BY <2>1, <3>2, LockWritersAre
    <3>. QED  BY <3>1, <3>2, Zenon DEF LockWriters
  <2>4. sweep' = NoSweep  BY <2>1
  <2>5. OneAtATime' /\ SweepInv'
    BY <2>3, <2>4 DEF OneAtATime, SweepInv, NoSweep
  <2>6. \A d \in Changer : PathInv(d)'
    <3>. SUFFICES ASSUME NEW d \in Changer, d # c  PROVE PathInv(d)'  OBVIOUS
    <3>1. chg'[d].pc \notin {"recording", "locking", "removing"}  BY <2>2, SMT
    <3>. QED  BY <3>1 DEF PathInv
  <2>. QED  BY <2>5, <2>6 DEF LockInv
<1>. QED  BY <1>1, <1>2

LEMMA SetLevelLock ==
  ASSUME CraTypeOK, LockInv, NEW c \in Changer, SetLevel(c)
  PROVE  LockInv'
<1>. DEFINE release == chg[c].change.release
<1>1. /\ chg[c].pc = "setting" /\ c \in LockWriters /\ scoring' = scoring /\ sweep' = sweep
      /\ timers' = timers /\ alone' = alone
  BY LockWritersAre DEF SetLevel
<1>2. /\ \A d \in Changer \ {c} : chg'[d] = chg[d]
      /\ chg'[c].pc = IF release = 0 THEN "applied" ELSE "recording"
      /\ chg'[c].change.release = release
  BY SMT DEF SetLevel, CraTypeOK
<1>3. cra'.expires = release
  BY Zenon DEF SetLevel, Writes
<1>4. orderly' => orderly /\ (cra.expires = 0 \/ cra.expires = release)
  BY Zenon DEF SetLevel, Writes
<1>5. ASSUME orderly'
      PROVE  /\ (~InPath(c) => ItemIs)'
             /\ chg'[c].pc = "recording" =>
                  cra'.expires = chg'[c].change.release /\ timers' \subseteq {cra'.expires}
  <2>1. ItemIs  BY <1>1, <1>4, <1>5, Before, SMT DEF MatchesAt, InPath
  <2>2. timers \subseteq {release} \ {0}  BY <1>4, <1>5, <2>1 DEF ItemIs
  <2>3. CASE release = 0
    <3>1. timers' = {cra'.expires} \ {0} /\ chg'[c].pc = "applied"
      BY <1>1, <1>2, <1>3, <2>2, <2>3
    <3>. QED  BY <3>1 DEF ItemIs
  <2>4. CASE release # 0
    <3>1. chg'[c].pc = "recording"  BY <1>2, <2>4
    <3>. QED  BY <1>1, <1>2, <1>3, <2>2, <3>1 DEF InPath
  <2>. QED  BY <2>3, <2>4
<1>6. PathInv(c)'
  <2>1. chg'[c].pc # "locking" /\ chg'[c].pc # "removing"  BY <1>2, SMT
  <2>. QED  BY <1>5, <2>1, Zenon DEF PathInv
<1>. QED  BY <1>1, <1>2, <1>4, <1>5, <1>6, SoleStep, Zenon

LEMMA SetLockLock ==
  ASSUME CraTypeOK, LockInv, NEW c \in Changer, SetLock(c)
  PROVE  LockInv'
<1>. DEFINE release == chg[c].change.release
<1>1. /\ chg[c].pc = "locking" /\ c \in LockWriters /\ scoring' = scoring /\ sweep' = sweep
      /\ timers' = timers /\ alone' = alone
  BY LockWritersAre DEF SetLock
<1>2. (\A d \in Changer \ {c} : chg'[d] = chg[d]) /\ chg'[c].pc = "applied"
  BY SMT DEF SetLock, CraTypeOK
<1>3. cra'.expires = release
  BY Zenon DEF SetLock, Writes, CraTypeOK, Assignment
<1>4. orderly' => orderly /\ (cra.expires = 0 \/ cra.expires = release)
  <2>. DEFINE new == [cra EXCEPT !.updatable = FALSE, !.lockedAt = TRUE, !.expires = release]
  <2>1. new.expires = release  BY Zenon DEF CraTypeOK, Assignment
  <2>. QED  BY <2>1, Zenon DEF SetLock, Writes
<1>5. orderly' => (~InPath(c) => ItemIs)'
  <2>. SUFFICES ASSUME orderly'  PROVE timers' = {cra'.expires} \ {0}
    BY DEF ItemIs
  <2>1. timers = {cra.expires, release} \ {0}
    BY <1>1, <1>4, Before DEF MatchesAt, PathInv
  <2>. QED  BY <1>1, <1>3, <1>4, <2>1
<1>6. PathInv(c)'  BY <1>2, SMT DEF PathInv
<1>. QED  BY <1>1, <1>2, <1>4, <1>5, <1>6, SoleStep, Zenon

LEMMA PutTimerLock ==
  ASSUME CraTypeOK, LockInv, NEW c \in Changer, PutTimer(c)
  PROVE  LockInv'
<1>. DEFINE release == chg[c].change.release
<1>1. /\ chg[c].pc \in {"recording", "listing"} /\ c \in LockWriters
      /\ scoring' = scoring /\ sweep' = sweep /\ cra' = cra
      /\ alone' = alone /\ orderly' = orderly
      /\ timers' = timers \cup {release}
      /\ release # 0
  BY LockWritersAre, SMT DEF PutTimer, CraTypeOK
<1>2. /\ \A d \in Changer \ {c} : chg'[d] = chg[d]
      /\ chg'[c].pc = IF chg[c].pc = "recording" THEN "applied" ELSE "locking"
      /\ chg'[c].change.release = release
  BY SMT DEF PutTimer, CraTypeOK
<1>3. CASE chg[c].pc = "recording"
  <2>1. orderly => cra.expires = release /\ timers \subseteq {release}
    BY <1>3, <1>1, Before DEF MatchesAt, PathInv
  <2>2. orderly' => (~InPath(c) => ItemIs)'
    BY <1>1, <2>1 DEF ItemIs
  <2>3. PathInv(c)'  BY <1>2, <1>3, SMT DEF PathInv
  <2>. QED  BY <1>1, <1>2, <2>2, <2>3, SoleStep, Zenon
<1>4. CASE chg[c].pc = "listing"
  <2>1. orderly => timers = {cra.expires} \ {0}
    BY <1>4, <1>1, Before, SMT DEF MatchesAt, InPath, ItemIs
  <2>2. chg'[c].pc = "locking"  BY <1>2, <1>4
  <2>3. orderly => timers' = {cra.expires, release} \ {0}  BY <1>1, <2>1
  <2>4. PathInv(c)'  BY <1>1, <1>2, <2>2, <2>3 DEF PathInv
  <2>5. orderly' => (~InPath(c) => ItemIs)'  BY <2>2 DEF InPath
  <2>. QED  BY <1>1, <1>2, <2>4, <2>5, SoleStep, Zenon
<1>. QED  BY <1>1, <1>3, <1>4

LEMMA FindTimersLock ==
  ASSUME CraTypeOK, LockInv, NEW c \in Changer, FindTimers(c)
  PROVE  LockInv'
<1>1. /\ chg[c].pc = "finding" /\ c \in LockWriters
      /\ scoring' = scoring /\ sweep' = sweep /\ timers' = timers
      /\ alone' = alone /\ orderly' = orderly
  BY LockWritersAre DEF FindTimers
<1>2. /\ \A d \in Changer \ {c} : chg'[d] = chg[d]
      /\ chg'[c].pc = "removing" /\ chg'[c].found = timers
  BY SMT DEF FindTimers, FoundItems, CraTypeOK
<1>3. PathInv(c)'  BY <1>1, <1>2 DEF PathInv
<1>4. orderly' => (~InPath(c) => ItemIs)'  BY <1>2 DEF InPath
<1>. QED  BY <1>1, <1>2, <1>3, <1>4, SoleStep, Zenon

LEMMA RemoveTimerLock ==
  ASSUME CraTypeOK, LockInv, NEW c \in Changer, NEW t \in Time, RemoveTimer(c, t)
  PROVE  LockInv'
<1>1. /\ chg[c].pc = "removing" /\ c \in LockWriters
      /\ scoring' = scoring /\ sweep' = sweep /\ timers' = timers \ {t}
      /\ alone' = alone /\ orderly' = orderly
  BY LockWritersAre DEF RemoveTimer
<1>2. /\ \A d \in Changer \ {c} : chg'[d] = chg[d]
      /\ chg'[c].pc = "removing" /\ chg'[c].found = chg[c].found \ {t}
  BY SMT DEF RemoveTimer, CraTypeOK
<1>3. orderly \/ alone => timers \subseteq chg[c].found
  BY <1>1 DEF LockInv, PathInv
<1>4. PathInv(c)'  BY <1>1, <1>2, <1>3 DEF PathInv
<1>5. orderly' => (~InPath(c) => ItemIs)'  BY <1>2 DEF InPath
<1>. QED  BY <1>1, <1>2, <1>4, <1>5, SoleStep, Zenon

LEMMA UnlockLock ==
  ASSUME CraTypeOK, LockInv, NEW c \in Changer, Unlock(c)
  PROVE  LockInv'
<1>1. /\ chg[c].pc = "removing" /\ chg[c].found = {} /\ c \in LockWriters
      /\ scoring' = scoring /\ sweep' = sweep /\ timers' = timers
      /\ alone' = alone /\ (orderly' <=> orderly \/ alone)
  BY LockWritersAre, Zenon DEF Unlock
<1>2. (\A d \in Changer \ {c} : chg'[d] = chg[d]) /\ chg'[c].pc = "applied"
  BY SMT DEF Unlock, CraTypeOK
<1>3. cra'.expires = 0  BY UnlockedType DEF Unlock
<1>4. orderly \/ alone => timers = {}  BY <1>1 DEF LockInv, PathInv
<1>5. PathInv(c)'  BY <1>2, SMT DEF PathInv
<1>6. orderly' => (~InPath(c) => ItemIs)'  BY <1>1, <1>3, <1>4 DEF ItemIs
<1>. QED  BY <1>1, <1>2, <1>5, <1>6, SoleStep, Zenon

LEMMA EndLock ==
  ASSUME CraTypeOK, LockInv, NEW c \in Changer, Answer(c) \/ Abandon(c)
  PROVE  LockInv'
<1>1. /\ scoring' = scoring /\ sweep' = sweep /\ timers' = timers /\ cra' = cra
      /\ alone' = alone /\ (orderly' => orderly)
      /\ chg[c].pc = "applied" \/ (orderly' => ~InPath(c))
  <2>1. CASE Answer(c)  BY <2>1, Zenon DEF Answer
  <2>2. CASE Abandon(c)  BY <2>2, Zenon DEF Abandon, InPath
  <2>. QED  BY <2>1, <2>2
<1>2. (\A d \in Changer \ {c} : chg'[d] = chg[d]) /\ chg'[c].pc = "idle"
  BY SMT DEF Answer, Abandon, Idle, CraTypeOK
<1>3. PathInv(c)'  BY <1>2, SMT DEF PathInv
<1>4. CASE c \in LockWriters
  <2>1. orderly' => ~InPath(c)
    BY <1>1, <1>4, LockWritersAre
  <2>2. orderly' => (~InPath(c) => ItemIs)'
    BY <1>1, <1>4, <2>1, Before DEF MatchesAt, ItemIs
  <2>. QED  BY <1>1, <1>2, <1>3, <1>4, <2>2, SoleStep, Zenon
<1>5. CASE c \notin LockWriters
  <2>1. chg[c].pc \in {"idle", "applied"}  BY <1>5, LockWritersAre
  <2>2. \A d \in Changer : chg'[d].pc \in {"idle", "applied"} <=> chg[d].pc \in {"idle", "applied"}
    BY <1>2, <2>1
  <2>3. LockWriters' = LockWriters  BY <1>1, <2>2, Zenon DEF LockWriters
  <2>4. \A d \in Changer : InPath(d)' <=> InPath(d)
    BY <1>2, <2>1, SMT DEF InPath
  <2>5. \A d \in Changer \ {c} : PathInv(d)'
    BY <1>1, <1>2 DEF LockInv, PathInv
  <2>6. OneAtATime' /\ SweepInv'
    BY <1>1, <2>3, Zenon DEF LockInv, OneAtATime, SweepInv, NoSweep
  <2>. QED  BY <1>1, <1>3, <2>4, <2>5, <2>6, Zenon DEF LockInv, ItemIs
<1>. QED  BY <1>4, <1>5

LEMMA BeginLock ==
  ASSUME CraTypeOK, LockInv, NEW c \in Changer, NEW change \in Change, NEW unaware \in BOOLEAN,
         BeginChange(c, change, unaware)
  PROVE  LockInv'
<1>. DEFINE first == FirstStep(change, unaware)
<1>1. /\ scoring' = scoring /\ sweep' = sweep /\ timers' = timers /\ cra' = cra
      /\ (alone' <=> Undisturbed) /\ (orderly' <=> orderly /\ Undisturbed)
  BY Zenon DEF BeginChange, Joins
<1>2. /\ \A d \in Changer \ {c} : chg'[d] = chg[d]
      /\ chg'[c].pc = first /\ chg'[c].change = change
  BY SMT DEF BeginChange, CraTypeOK
<1>3. /\ first # "recording" /\ first # "removing"
      /\ first = "locking" => change.release = 0
  BY SMT DEF FirstStep
<1>4. PathInv(c)'
  <2>1. orderly' => timers' = {cra'.expires} \ {0}
    BY <1>1, QuietMatches, Zenon DEF ItemIs
  <2>. QED  BY <1>2, <1>3, <2>1 DEF PathInv
<1>5. CASE Undisturbed
  <2>1. /\ LockWriters = {} /\ sweep = NoSweep /\ ~sweep.running
    BY <1>5 DEF Undisturbed, LockInv, SweepInv
  <2>2. \A d \in Changer \ {c} : chg'[d].pc \in {"idle", "applied"}
    BY <1>2, <2>1, LockWritersAre
  <2>3. LockWriters' \subseteq {c}
    <3>. SUFFICES ASSUME NEW a \in LockWriters'  PROVE a = c  OBVIOUS
    <3>1. CASE a \in Changer /\ chg'[a].pc \notin {"idle", "applied"}
      BY <2>2, <3>1
    <3>2. CASE a \in Scorer /\ scoring'[a].pc = "manual"
      BY <1>1, <2>1, <3>2, LockWritersAre
    <3>. QED  BY <3>1, <3>2, Zenon DEF LockWriters
  <2>4. OneAtATime' /\ SweepInv'
    BY <1>1, <2>1, <2>3 DEF OneAtATime, SweepInv, NoSweep
  <2>5. \A d \in Changer : PathInv(d)'
    <3>. SUFFICES ASSUME NEW d \in Changer, d # c  PROVE PathInv(d)'  BY <1>4
    <3>1. chg'[d].pc \notin {"recording", "locking", "removing"}  BY <2>2, SMT
    <3>. QED  BY <3>1 DEF PathInv
  <2>6. orderly' => ItemIs'
    BY <1>1, QuietMatches, Zenon DEF ItemIs
  <2>. QED  BY <2>4, <2>5, <2>6 DEF LockInv
<1>6. CASE ~Undisturbed
  <2>1. ~orderly' /\ ~alone'  BY <1>1, <1>6, Zenon
  <2>2. SweepInv'  BY <1>1, <2>1, Zenon DEF LockInv, SweepInv, NoSweep
  <2>. QED  BY <2>1, <2>2, Zenon DEF LockInv, OneAtATime, PathInv
<1>. QED  BY <1>5, <1>6

(* Steps that leave changes, items and job alone and disturb nothing.      *)
LEMMA SameLock ==
  ASSUME LockInv, chg' = chg, sweep' = sweep, timers' = timers, cra'.expires = cra.expires,
         alone' <=> alone, orderly' <=> orderly, LockWriters' = LockWriters
  PROVE  LockInv'
<1>1. OneAtATime' /\ SweepInv'  BY Zenon DEF LockInv, OneAtATime, SweepInv, NoSweep
<1>2. \A c \in Changer : PathInv(c)'  BY DEF LockInv, PathInv
<1>. QED  BY <1>1, <1>2, Zenon DEF LockInv, InPath, ItemIs

LEMMA BeginScoreLock ==
  ASSUME CraTypeOK, LockInv, NEW s \in Scorer, NEW manual \in BOOLEAN, NEW unaware \in BOOLEAN,
         BeginScore(s, manual, unaware)
  PROVE  LockInv'
<1>1. /\ chg' = chg /\ sweep' = sweep /\ timers' = timers /\ cra' = cra
      /\ \A q \in Scorer \ {s} : scoring'[q] = scoring[q]
      /\ scoring[s].pc = "idle" /\ scoring'[s].pc = IF manual THEN "manual" ELSE "scoring"
  BY SMT DEF BeginScore, CraTypeOK
<1>2. CASE ~manual
  <2>1. \A q \in Scorer : scoring'[q].pc = "manual" <=> scoring[q].pc = "manual"
    BY <1>1, <1>2
  <2>2. LockWriters' = LockWriters  BY <1>1, <2>1, Zenon DEF LockWriters
  <2>3. (alone' <=> alone) /\ (orderly' <=> orderly)  BY <1>2, Zenon DEF BeginScore
  <2>. QED  BY <1>1, <2>2, <2>3, SameLock
<1>3. CASE manual
  <2>1. (alone' <=> Undisturbed) /\ (orderly' <=> orderly /\ Undisturbed)
    BY <1>3, Zenon DEF BeginScore, Joins
  <2>2. CASE Undisturbed
    <3>1. LockWriters = {} /\ sweep = NoSweep /\ ~sweep.running
      BY <2>2 DEF Undisturbed, LockInv, SweepInv
    <3>2. LockWriters' \subseteq {s}
      <4>. SUFFICES ASSUME NEW a \in LockWriters', a # s  PROVE FALSE  OBVIOUS
      <4>1. a \notin Changer \/ chg'[a].pc \in {"idle", "applied"}
        BY <1>1, <3>1, LockWritersAre
      <4>2. a \notin Scorer \/ scoring'[a].pc # "manual"
        BY <1>1, <3>1, LockWritersAre
      <4>. QED  BY <4>1, <4>2, Zenon DEF LockWriters
    <3>3. OneAtATime' /\ SweepInv'
      BY <1>1, <3>1, <3>2 DEF OneAtATime, SweepInv, NoSweep
    <3>4. orderly' => ItemIs'
      BY <1>1, <2>1, QuietMatches, Zenon DEF ItemIs
    <3>5. \A c \in Changer : PathInv(c)'
      <4>. SUFFICES ASSUME NEW c \in Changer  PROVE PathInv(c)'  OBVIOUS
      <4>1. chg'[c].pc \in {"idle", "applied"}  BY <1>1, <3>1, LockWritersAre
      <4>2. chg'[c].pc \notin {"recording", "locking", "removing"}  BY <4>1, SMT
      <4>. QED  BY <4>2 DEF PathInv
    <3>. QED  BY <3>3, <3>4, <3>5 DEF LockInv
  <2>3. CASE ~Undisturbed
    <3>1. ~orderly' /\ ~alone'  BY <2>1, <2>3, Zenon
    <3>2. SweepInv'  BY <1>1, <3>1, Zenon DEF LockInv, SweepInv, NoSweep
    <3>. QED  BY <3>1, <3>2, Zenon DEF LockInv, OneAtATime, PathInv
  <2>. QED  BY <2>2, <2>3
<1>. QED  BY <1>2, <1>3

LEMMA WriteScoreLock ==
  ASSUME CraTypeOK, LockInv, NEW s \in Scorer, NEW level \in Level, NEW updatable \in BOOLEAN,
         WriteScore(s, level, updatable)
  PROVE  LockInv'
<1>1. /\ chg' = chg /\ sweep' = sweep /\ timers' = timers /\ (alone' <=> alone)
      /\ \A q \in Scorer \ {s} : scoring'[q] = scoring[q]
      /\ scoring[s].pc \in {"scoring", "manual"} /\ scoring'[s].pc = "idle"
  BY SMT DEF WriteScore, CraTypeOK
<1>2. CASE scoring[s].pc = "scoring"
  <2>1. cra'.expires = cra.expires
    BY <1>2, Zenon DEF WriteScore, Writes, CraTypeOK, Assignment
  <2>2. orderly' <=> orderly
    <3>. DEFINE new == [cra EXCEPT !.level = level, !.updatable = updatable]
    <3>1. new.expires = cra.expires  BY Zenon DEF CraTypeOK, Assignment
    <3>2. Writes(s, new)  BY <1>2, Zenon DEF WriteScore
    <3>. QED  BY <3>1, <3>2, Zenon DEF Writes
  <2>3. \A q \in Scorer : scoring'[q].pc = "manual" <=> scoring[q].pc = "manual"
    BY <1>1, <1>2
  <2>4. LockWriters' = LockWriters  BY <1>1, <2>3, Zenon DEF LockWriters
  <2>. QED  BY <1>1, <2>1, <2>2, <2>4, SameLock
<1>3. CASE scoring[s].pc = "manual"
  <2>1. s \in LockWriters  BY <1>3, LockWritersAre
  <2>2. /\ cra'.expires = 0 /\ (orderly' => orderly /\ cra.expires = 0)
    <3>. DEFINE new == [level |-> level, updatable |-> updatable, lockedAt |-> ~updatable,
                        expires |-> 0]
    <3>1. Writes(s, new)
      <4>1. ~(scoring[s].pc = "scoring")  BY <1>3
      <4>. QED  BY <4>1, Zenon DEF WriteScore
    <3>2. new.expires = 0  OBVIOUS
    <3>. QED  BY <3>1, <3>2, Zenon DEF Writes
  <2>3. LockWriters' \subseteq LockWriters \ {s}
    <3>. SUFFICES ASSUME NEW a \in LockWriters'  PROVE a \in LockWriters \ {s}  OBVIOUS
    <3>1. CASE a \in Changer /\ chg'[a].pc \notin {"idle", "applied"}
      BY <1>1, <3>1, LockWritersAre, ActorAssumption
    <3>2. CASE a \in Scorer /\ scoring'[a].pc = "manual"
      <4>1. a # s  BY <1>1, <3>2
      <4>. QED  BY <1>1, <3>2, <4>1, LockWritersAre
    <3>. QED  BY <3>1, <3>2, Zenon DEF LockWriters
  <2>4. CASE ~(orderly' \/ alone')
    <3>1. SweepInv'  BY <1>1, <2>4, Zenon DEF LockInv, SweepInv, NoSweep
    <3>. QED  BY <2>4, <3>1, Zenon DEF LockInv, OneAtATime, PathInv
  <2>5. CASE orderly' \/ alone'
    <3>1. orderly \/ alone  BY <1>1, <2>2, <2>5, Zenon
    <3>2. /\ LockWriters = {s} /\ ~sweep.running /\ sweep = NoSweep
          /\ \A c \in Changer : c # s => chg[c].pc \in {"idle", "applied"} /\ ~InPath(c)
      BY <2>1, <3>1, Sole
    <3>3. OneAtATime' /\ SweepInv'
      BY <1>1, <2>3, <3>2 DEF OneAtATime, SweepInv, NoSweep
    <3>4. \A c \in Changer : ~InPath(c)  BY <3>2, ActorAssumption
    <3>5. orderly' => ItemIs'
      BY <1>1, <2>2, <3>2, <3>4 DEF LockInv, ItemIs, NoSweep
    <3>6. \A c \in Changer : PathInv(c)'  BY <1>1, <3>4 DEF InPath, PathInv
    <3>. QED  BY <3>3, <3>5, <3>6 DEF LockInv
  <2>. QED  BY <2>4, <2>5
<1>. QED  BY <1>1, <1>2, <1>3

LEMMA FindExpiredLock ==
  ASSUME CraTypeOK, LockInv, FindExpired
  PROVE  LockInv'
<1>1. /\ cra' = cra /\ timers' = timers /\ chg' = chg /\ scoring' = scoring
      /\ (alone' <=> Undisturbed) /\ (orderly' <=> orderly /\ Undisturbed)
  BY Zenon DEF FindExpired, Joins
<1>2. sweep' = [running |-> TRUE, found |-> Due, released |-> {}]
  BY DEF FindExpired
<1>3. LockWriters' = LockWriters  BY <1>1, Zenon DEF LockWriters
<1>4. sweep'.running /\ sweep'.found = Due /\ sweep'.released = {}  BY <1>2
<1>5. CASE Undisturbed
  <2>1. LockWriters = {}  BY <1>5 DEF Undisturbed
  <2>2. OneAtATime'  BY <1>3, <2>1 DEF OneAtATime
  <2>3. SweepInv'  BY <1>1, <1>4 DEF SweepInv, Due
  <2>4. \A c \in Changer : PathInv(c)'
    <3>. SUFFICES ASSUME NEW c \in Changer  PROVE PathInv(c)'  OBVIOUS
    <3>1. chg'[c].pc \in {"idle", "applied"}  BY <1>1, <2>1, LockWritersAre
    <3>2. chg'[c].pc \notin {"recording", "locking", "removing"}  BY <3>1, SMT
    <3>. QED  BY <3>2 DEF PathInv
  <2>5. orderly' => ItemIs'  BY <1>1, QuietMatches, Zenon DEF ItemIs
  <2>. QED  BY <2>2, <2>3, <2>4, <2>5 DEF LockInv
<1>6. CASE ~Undisturbed
  <2>1. ~orderly' /\ ~alone'  BY <1>1, <1>6, Zenon
  <2>2. SweepInv'  BY <1>4, <2>1, Zenon DEF SweepInv
  <2>. QED  BY <2>1, <2>2, Zenon DEF LockInv, OneAtATime, PathInv
<1>. QED  BY <1>5, <1>6

(* While the job runs in order, no change is under way.                    *)
LEMMA NobodyElse ==
  ASSUME LockInv, orderly \/ alone, sweep.running
  PROVE  \A c \in Changer : chg[c].pc \in {"idle", "applied"} /\ ~InPath(c)
<1>1. LockWriters = {}  BY DEF LockInv, OneAtATime
<1>. SUFFICES ASSUME NEW c \in Changer
              PROVE  chg[c].pc \in {"idle", "applied"} /\ ~InPath(c)
  OBVIOUS
<1>2. chg[c].pc \in {"idle", "applied"}  BY <1>1, LockWritersAre
<1>. QED  BY <1>2, SMT DEF InPath

(* The first item that is released in order is the only one, and the       *)
(* lock's own.                                                             *)
LEMMA ReleaseLockLock ==
  ASSUME CraTypeOK, LockInv, NEW t \in Time, NEW fails \in BOOLEAN, ReleaseLock(t, fails)
  PROVE  LockInv'
<1>. DEFINE unlocks == cra.lockedAt /\ ~fails
<1>1. /\ t \in sweep.found
      /\ timers' = timers /\ chg' = chg /\ scoring' = scoring
      /\ (alone' <=> alone) /\ (orderly' <=> orderly)
      /\ cra' = IF unlocks THEN Unlocked ELSE cra
  BY Zenon DEF ReleaseLock
<1>2. /\ sweep'.running = sweep.running
      /\ sweep'.found = sweep.found \ {t}
      /\ sweep'.released = IF unlocks THEN sweep.released \cup {t} ELSE sweep.released
  BY SMT DEF ReleaseLock, CraTypeOK
<1>3. sweep.running /\ (sweep'.running <=> sweep.running)
  BY <1>1, <1>2 DEF LockInv, SweepInv, NoSweep
<1>4. LockWriters' = LockWriters  BY <1>1, Zenon DEF LockWriters
<1>5. OneAtATime'  BY <1>1, <1>3, <1>4, Zenon DEF LockInv, OneAtATime
<1>6. \A c \in Changer : PathInv(c)'
  <2>1. CASE ~(orderly' \/ alone')  BY <2>1, Zenon DEF PathInv
  <2>2. CASE orderly' \/ alone'
    <3>. SUFFICES ASSUME NEW c \in Changer  PROVE PathInv(c)'  OBVIOUS
    <3>1. chg'[c].pc \notin {"recording", "locking", "removing"}
      BY <1>1, <1>3, <2>2, NobodyElse, Zenon DEF InPath
    <3>. QED  BY <3>1 DEF PathInv
  <2>. QED  BY <2>1, <2>2
<1>7. CASE ~orderly
  <2>1. SweepInv'  BY <1>1, <1>3, <1>7, Zenon DEF SweepInv
  <2>. QED  BY <1>1, <1>5, <1>6, <1>7, <2>1, Zenon DEF LockInv
<1>8. CASE orderly
  <2>1. sweep.released = {}  BY <1>1, <1>8 DEF LockInv, SweepInv
  <2>2. ItemIs  BY <1>3, <1>8, <2>1, NobodyElse DEF LockInv
  <2>3. t \in timers  BY <1>1, <1>8 DEF LockInv, SweepInv
  <2>4. timers = {t} /\ cra.expires = t /\ t # 0  BY <2>2, <2>3 DEF ItemIs
  <2>5. sweep.found = {t}  BY <1>1, <1>8, <2>4 DEF LockInv, SweepInv
  <2>6. CASE unlocks
    <3>1. cra'.expires = 0  BY <1>1, <2>6, UnlockedType
    <3>2. sweep'.released = timers' /\ sweep'.found = {} /\ sweep'.released # {}
      BY <1>1, <1>2, <2>1, <2>4, <2>5, <2>6
    <3>3. SweepInv'  BY <1>3, <3>1, <3>2 DEF SweepInv
    <3>. QED  BY <1>5, <1>6, <3>2, <3>3 DEF LockInv
  <2>7. CASE ~unlocks
    <3>1. cra' = cra /\ sweep'.released = {} /\ sweep'.found \subseteq timers'
      BY <1>1, <1>2, <2>1, <2>5, <2>7
    <3>2. SweepInv'  BY <1>3, <3>1 DEF SweepInv
    <3>3. ItemIs'  BY <1>1, <2>2, <3>1 DEF ItemIs
    <3>. QED  BY <1>5, <1>6, <3>2, <3>3 DEF LockInv
  <2>. QED  BY <2>6, <2>7
<1>. QED  BY <1>7, <1>8

LEMMA SweepEndLock ==
  ASSUME CraTypeOK, LockInv, Clean \/ SweepFails
  PROVE  LockInv'
<1>1. /\ sweep.running /\ sweep' = NoSweep
      /\ chg' = chg /\ scoring' = scoring /\ cra' = cra /\ (alone' <=> alone)
      /\ orderly' => orderly
  <2>1. CASE Clean  BY <2>1, Zenon DEF Clean
  <2>2. CASE SweepFails  BY <2>2, Zenon DEF SweepFails
  <2>. QED  BY <2>1, <2>2
<1>2. LockWriters' = LockWriters  BY <1>1, Zenon DEF LockWriters
<1>3. OneAtATime' /\ SweepInv'
  <2>1. sweep'.running = FALSE /\ sweep'.released = {} /\ sweep'.found = {}
    BY <1>1 DEF NoSweep
  <2>2. SweepInv'  BY <1>1, <2>1 DEF SweepInv, NoSweep
  <2>3. orderly' \/ alone' => orderly \/ alone  BY <1>1, Zenon
  <2>4. OneAtATime'  BY <1>2, <2>1, <2>3, Zenon DEF LockInv, OneAtATime
  <2>. QED  BY <2>2, <2>4
<1>4. \A c \in Changer : PathInv(c)'
  <2>1. CASE ~(orderly' \/ alone')  BY <2>1, Zenon DEF PathInv
  <2>2. CASE orderly' \/ alone'
    <3>. SUFFICES ASSUME NEW c \in Changer  PROVE PathInv(c)'  OBVIOUS
    <3>1. orderly \/ alone  BY <1>1, <2>2, Zenon
    <3>2. chg'[c].pc \notin {"recording", "locking", "removing"}
      BY <1>1, <3>1, NobodyElse, Zenon DEF InPath
    <3>. QED  BY <3>2 DEF PathInv
  <2>. QED  BY <2>1, <2>2
<1>5. orderly' => ItemIs'
  <2>. SUFFICES ASSUME orderly'  PROVE timers' = {cra.expires} \ {0}
    BY <1>1 DEF ItemIs
  <2>1. orderly  BY <1>1
  <2>2. CASE sweep.released = {}
    <3>1. ItemIs  BY <1>1, <2>1, <2>2, NobodyElse DEF LockInv
    <3>2. timers' = timers  BY <2>2 DEF Clean, SweepFails
    <3>. QED  BY <3>1, <3>2 DEF ItemIs
  <2>3. CASE sweep.released # {}
    <3>1. sweep.released = timers /\ cra.expires = 0
      BY <2>1, <2>3 DEF LockInv, SweepInv
    <3>2. Clean  BY <2>3, Zenon DEF SweepFails
    <3>3. timers' = {}  BY <3>1, <3>2 DEF Clean
    <3>. QED  BY <3>1, <3>3
  <2>. QED  BY <2>2, <2>3
<1>. QED  BY <1>3, <1>4, <1>5 DEF LockInv

LEMMA LockNext == ASSUME CraTypeOK, LockInv, [CraNext]_craVars PROVE LockInv'
<1>1. CASE UNCHANGED craVars \/ Tick
  <2>1. /\ cra' = cra /\ timers' = timers /\ chg' = chg /\ scoring' = scoring /\ sweep' = sweep
        /\ alone' = alone /\ orderly' = orderly
    BY <1>1, Zenon DEF craVars, Tick
  <2>2. LockWriters' = LockWriters  BY <2>1, Zenon DEF LockWriters
  <2>. QED  BY <2>1, <2>2, SameLock
<1>2. ASSUME NEW c \in Changer, ContinueChange(c)  PROVE LockInv'
  BY <1>2, SetLevelLock, SetLockLock, PutTimerLock, FindTimersLock, RemoveTimerLock, UnlockLock
  DEF ContinueChange
<1>3. ASSUME NEW s \in Scorer, Score(s)  PROVE LockInv'
  BY <1>3, BeginScoreLock, WriteScoreLock DEF Score
<1>4. CASE Untimer
  BY <1>4, FindExpiredLock, ReleaseLockLock, SweepEndLock DEF Untimer
<1>. QED  BY <1>1, <1>2, <1>3, <1>4, BeginLock, EndLock DEF CraNext

(* A timed lock that nothing disturbed has the item of its time and no     *)
(* other, so that unlockExpiredCraLocks ends it then and no sooner; after  *)
(* an unlock nothing is left that would end the next one                   *)
(* (updateRiskAssignmentLock, createOrUpdateManualDRSRiskItem).            *)
THEOREM ItemsMatchLockHolds == CraSpec => []ItemsMatchLock
<1>1. CraSpec => []CraTypeOK  BY CraTypeCorrect
<1>2. CraInit => LockInv  BY LockInit
<1>3. CraTypeOK /\ LockInv /\ [CraNext]_craVars => LockInv'  BY LockNext
<1>4. LockInv => ItemsMatchLock  BY QuietMatches DEF ItemsMatchLock, ItemIs
<1>. QED  BY <1>1, <1>2, <1>3, <1>4, PTL DEF CraSpec

-----------------------------------------------------------------------------
(***************************************************************************)
(* Composed, the approvals and the lock keep what each of them promises:   *)
(* every step of RiskApproval is a step or a stutter of UserApproval, and  *)
(* one of CraLock, so that it implements both.                             *)
(***************************************************************************)
LEMMA ApprovalStep ==
  ASSUME Approval
  PROVE  Next /\ UNCHANGED craVars
<1>1. UNCHANGED craVars  BY DEF Approval
<1>2. ASSUME NEW r \in Reviewer, Deliberate(r)  PROVE Process(r)
  BY <1>2, Zenon DEF Deliberate, Process
<1>3. Next  BY <1>2, Zenon DEF Approval, Next, Edit
<1>. QED  BY <1>1, <1>3

LEMMA ApplyStep ==
  ASSUME RiskTypeOK, ApplyChange
  PROVE  Next /\ CraNext
<1>1. PICK unaware \in BOOLEAN :
        \/ AutoApprove /\ BeginChange(Proposer, proposal, unaware)
        \/ \E r \in Reviewer : Apply(r) /\ BeginChange(r, proposal, unaware)
  BY Zenon DEF ApplyChange
<1>2. proposal \in Change  BY ChangesAssumption DEF RiskTypeOK
<1>3. Proposer \in Changer /\ Reviewer \subseteq Changer  BY ChangerAssumption
<1>4. Next  BY <1>1, Zenon DEF Next, Process
<1>5. CraNext  BY <1>1, <1>2, <1>3 DEF CraNext
<1>. QED  BY <1>4, <1>5

LEMMA FinishStep ==
  ASSUME NEW r \in Reviewer, FinishChange(r)
  PROVE  Next /\ CraNext
<1>1. r \in Changer  BY ChangerAssumption
<1>2. Decide(r) \/ Fail(r)  BY Zenon DEF FinishChange
<1>3. Answer(r) \/ Abandon(r)  BY Zenon DEF FinishChange
<1>4. Next  BY <1>2, Zenon DEF Next, Process
<1>5. CraNext  BY <1>1, <1>3, Zenon DEF CraNext
<1>. QED  BY <1>4, <1>5

LEMMA AskStep ==
  ASSUME Ask
  PROVE  UNCHANGED vars /\ CraNext
<1>1. UNCHANGED vars  BY DEF Ask
<1>2. CASE \E change \in Changes, unaware \in BOOLEAN : BeginChange(Console, change, unaware)
  BY <1>1, <1>2, ChangerAssumption, ChangesAssumption DEF CraNext
<1>3. CASE \E s \in Scorer, manual, unaware \in BOOLEAN : BeginScore(s, manual, unaware)
  BY <1>1, <1>3, Zenon DEF CraNext, Score
<1>. QED  BY <1>1, <1>2, <1>3, Zenon DEF Ask

LEMMA ProceedStep ==
  ASSUME Proceed
  PROVE  UNCHANGED vars /\ CraNext
<1>1. UNCHANGED vars  BY DEF Proceed
<1>2. Console \in Changer /\ Proposer \in Changer  BY ChangerAssumption
<1>3. CASE (\E c \in Changer : ContinueChange(c)) \/ Untimer \/ Tick
  BY <1>1, <1>3, Zenon DEF CraNext
<1>4. CASE \E c \in {Proposer, Console} : Answer(c)
  BY <1>1, <1>2, <1>4 DEF CraNext
<1>5. CASE \E s \in Scorer, level \in Level, updatable \in BOOLEAN : WriteScore(s, level, updatable)
  BY <1>1, <1>5, Zenon DEF CraNext, Score
<1>. QED  BY <1>1, <1>3, <1>4, <1>5, Zenon DEF Proceed

(* A step of the whole is one of each part.                                *)
LEMMA PartSteps ==
  ASSUME RiskTypeOK, [RiskNext]_RiskVars
  PROVE  [Next]_vars /\ [CraNext]_craVars
<1>1. CASE UNCHANGED RiskVars  BY <1>1 DEF RiskVars
<1>2. CASE RiskNext
  BY <1>2, ApprovalStep, ApplyStep, FinishStep, AskStep, ProceedStep DEF RiskNext
<1>. QED  BY <1>1, <1>2

LEMMA RiskInitTypes == ASSUME RiskInit PROVE RiskTypeOK
<1>1. TypeOK /\ CraTypeOK  BY InitTypes, CraInitTypes DEF RiskInit
<1>2. proposal \in Changes /\ asked \in 0..MaxTrouble
  BY ChangesAssumption, SMT DEF RiskInit
<1>. QED  BY <1>1, <1>2 DEF RiskTypeOK

LEMMA RiskNextTypes == ASSUME RiskTypeOK, [RiskNext]_RiskVars PROVE RiskTypeOK'
<1>1. TypeOK' /\ CraTypeOK'
  BY PartSteps, NextTypes, CraNextTypes DEF RiskTypeOK
<1>2. proposal' = proposal
  BY Zenon DEF RiskNext, RiskVars, Approval, ApplyChange, FinishChange, Ask, Proceed
<1>3. asked' \in 0..MaxTrouble
  <2>1. CASE Ask
    <3>1. asked' = asked + 1 /\ asked + latest + faults < MaxTrouble
      BY <2>1 DEF Ask, Calm
    <3>2. /\ asked \in 0..MaxTrouble /\ latest \in Nat /\ faults \in Nat
      BY BoundAssumption, SMT DEF RiskTypeOK, TypeOK, Version
    <3>. QED  BY <3>1, <3>2, ChangesAssumption, SMT
  <2>2. CASE ~Ask
    <3>1. asked' = asked
      BY <2>2, Zenon DEF RiskNext, RiskVars, Approval, ApplyChange, FinishChange, Proceed
    <3>. QED  BY <3>1 DEF RiskTypeOK
  <2>. QED  BY <2>1, <2>2
<1>. QED  BY <1>1, <1>2, <1>3, Zenon DEF RiskTypeOK

(* The variables keep their types; a request that applies a change is not  *)
(* past the end of the chain it read, and a change that writes a level has *)
(* one.                                                                    *)
THEOREM RiskTypeCorrect == RiskSpec => []RiskTypeOK
BY RiskInitTypes, RiskNextTypes, PTL DEF RiskSpec

(* The composition implements the approvals of a proposal ...              *)
THEOREM ImplementsApproval == RiskSpec => Spec
<1>1. RiskInit => Init  BY DEF RiskInit
<1>2. RiskTypeOK /\ [RiskNext]_RiskVars => [Next]_vars  BY PartSteps
<1>. QED  BY <1>1, <1>2, RiskTypeCorrect, PTL DEF RiskSpec, Spec

(* ... and the changes of an assignment and its lock: of all the changes,  *)
(* deaths and interleavings CraLock allows, these are some.                *)
THEOREM ImplementsLock == RiskSpec => CraSpec
<1>1. RiskInit => CraInit  BY DEF RiskInit
<1>2. RiskTypeOK /\ [RiskNext]_RiskVars => [CraNext]_craVars  BY PartSteps
<1>. QED  BY <1>1, <1>2, RiskTypeCorrect, PTL DEF RiskSpec, CraSpec

(* So what is proved of the parts holds of the whole: changes to a CRA are *)
(* applied only once every step of a version's chain was accepted, and a   *)
(* decision stands (processUserApproval) ...                               *)
THEOREM RiskApprovalsHold == RiskSpec => []StepsAccepted /\ []UndisturbedIsFinal
BY ImplementsApproval, StepsAcceptedHolds, UndisturbedIsFinalHolds, PTL

(* ... and a locked level stays, and a lock has its item, whatever         *)
(* approvals and failures do meanwhile (applyUserApprovalChanges,          *)
(* updateRiskAssignmentLock, unlockExpiredCraLocks).                       *)
THEOREM RiskLocksHold == RiskSpec => LockedLevelStays /\ []ItemsMatchLock
BY ImplementsLock, LockedLevelStaysHolds, ItemsMatchLockHolds, PTL
=============================================================================
