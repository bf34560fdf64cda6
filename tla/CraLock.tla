------------------------------ MODULE CraLock ------------------------------
(***************************************************************************)
(* The CRA (customer risk assessment) of one user and its lock.  The       *)
(* assignment has a level and may be locked, for ever or until a time; a   *)
(* timed lock has an item besides, by which a job finds the locks that     *)
(* have run out (services/risk-scoring/repositories/risk-repository.ts).   *)
(*                                                                         *)
(* Requests that change the level or the lock (services/users/index.ts)    *)
(* read the assignment, decide, and write assignment and item one after    *)
(* the other without a condition; scores (risk-scoring-v8-service.ts) read *)
(* it before they compute and write it after.  All of them overlap.        *)
(*                                                                         *)
(* The assignment exists, and the tenant has the feature CRA_LOCK_TIMER.   *)
(* Reads are eventually consistent: a stale one is one that began earlier. *)
(***************************************************************************)
EXTENDS Naturals

CONSTANTS
  Changer,   \* requests that change the level or the lock
  Scorer,    \* computations of the score
  Level,
  Same,      \* no level: the change leaves it alone
  MaxTime    \* bound on the times at which locks run out

ASSUME TimeAssumption == MaxTime \in Nat
ASSUME ActorAssumption == Changer \cap Scorer = {}
ASSUME LevelAssumption == Same \notin Level

VARIABLES
  cra,      \* the assignment; expires is 0 when lockExpiresAt is not there
  timers,   \* the times of the user's drs-lock items
  now,
  chg,      \* per changer, where it is, its change and the items it found
  scoring,  \* per scorer, where it is
  sweep,    \* the untimer job: the items it found, and those it released
  early,    \* ghost: requests about to write that had read before the lock
  alone,    \* ghost: nobody else was in between when the last one began
  orderly   \* ghost: nothing happened that may leave items behind

craVars == <<cra, timers, now, chg, scoring, sweep, early, alone, orderly>>

Time == 1..MaxTime
Release == 0..MaxTime   \* 0: the lock is perpetual

Assignment == [level : Level, updatable : BOOLEAN, lockedAt : BOOLEAN, expires : Release]

(* The value of a proposed change: a level or none, and isUpdatable, with  *)
(* "keep" if it is undefined; a lock with the time of its release.         *)
Change == {c \in [level : Level \cup {Same}, lock : {"keep", "free", "lock"},
                  release : Release] : c.lock # "lock" => c.release = 0}

Idle == [pc |-> "idle", change |-> [level |-> Same, lock |-> "keep", release |-> 0],
         unaware |-> FALSE, found |-> {}]

CraTypeOK ==
  /\ cra \in Assignment
  /\ timers \in SUBSET Time
  /\ now \in 1..MaxTime + 1
  /\ chg \in [Changer ->
       [pc : {"idle", "setting", "recording", "listing", "locking", "finding",
              "removing", "applied"},
        change : Change, unaware : BOOLEAN, found : SUBSET Time]]
  /\ scoring \in [Scorer -> [pc : {"idle", "scoring", "manual"}, unaware : BOOLEAN]]
  /\ sweep \in [running : BOOLEAN, found : SUBSET Time, released : SUBSET Time]
  /\ early \in SUBSET (Changer \cup Scorer)
  /\ alone \in BOOLEAN
  /\ orderly \in BOOLEAN
  /\ ~cra.lockedAt => cra.expires = 0
  /\ \A c \in Changer :
       /\ chg[c].pc = "setting" => chg[c].change.level # Same
       /\ chg[c].pc \in {"recording", "listing"} => chg[c].change.release # 0

NoSweep == [running |-> FALSE, found |-> {}, released |-> {}]

CraInit ==
  /\ cra \in [level : Level, updatable : {TRUE}, lockedAt : {FALSE}, expires : {0}]
  /\ timers = {}
  /\ now = 1
  /\ chg = [c \in Changer |-> Idle]
  /\ scoring = [s \in Scorer |-> [pc |-> "idle", unaware |-> FALSE]]
  /\ sweep = NoSweep
  /\ early = {}
  /\ alone = TRUE
  /\ orderly = TRUE

-----------------------------------------------------------------------------
(* Who else is about to touch the lock or its items.                       *)
LockWriters ==
  {c \in Changer : chg[c].pc \notin {"idle", "applied"}}
    \cup {s \in Scorer : scoring[s].pc = "manual"}
Undisturbed == LockWriters = {} /\ ~sweep.running

Joins ==
  /\ alone' = Undisturbed
  /\ orderly' = (orderly /\ Undisturbed)

(* Who is about to write the level on what it read.                        *)
LevelWriters ==
  {c \in Changer : chg[c].pc = "setting"} \cup {s \in Scorer : scoring[s].pc # "idle"}

(* Request a writes the assignment.  A timed lock that is written over     *)
(* leaves its item behind.                                                 *)
Writes(a, new) ==
  /\ cra' = new
  /\ early' = (IF cra.updatable /\ ~new.updatable THEN LevelWriters ELSE early) \ {a}
  /\ orderly' = (orderly /\ cra.expires \in {0, new.expires})

-----------------------------------------------------------------------------
(* applyUserApprovalChanges, and the console's manual assignment           *)

Changing(change, unaware) ==
  /\ change.level # Same
  /\ unaware \/ change.level # cra.level

(* Mutant: the lock is not looked at.                                      *)
LetThrough(change, unaware) == TRUE

(* A locked level cannot be changed.  The console's request does not look, *)
(* and a read that fails is taken for no assignment: both are `unaware`.   *)
Permitted(change, unaware) ==
  Changing(change, unaware) => cra.updatable \/ unaware

FirstStep(change, unaware) ==
  CASE Changing(change, unaware) -> "setting"
    [] ~Changing(change, unaware) /\ change.lock = "lock" ->
         IF change.release = 0 THEN "locking" ELSE "listing"
    [] ~Changing(change, unaware) /\ change.lock = "free" -> "finding"
    [] OTHER -> "applied"

BeginChange(c, change, unaware) ==
  /\ chg[c].pc = "idle"
  /\ unaware => change.level # Same
  /\ Permitted(change, unaware)
  /\ chg' = [chg EXCEPT ![c] = [pc |-> FirstStep(change, unaware), change |-> change,
                                unaware |-> unaware, found |-> {}]]
  /\ Joins
  /\ UNCHANGED <<cra, timers, now, scoring, sweep, early>>

(* createOrUpdateManualDRSRiskItem writes the assignment, then the item.   *)
(* What is to "keep" was not locked when it was read: it is unlocked.      *)
SetLevel(c) ==
  LET change == chg[c].change
      locks == change.lock = "lock"
  IN
  /\ chg[c].pc = "setting"
  /\ Writes(c, [level |-> change.level, updatable |-> ~locks, lockedAt |-> locks,
                expires |-> change.release])
  /\ chg' = [chg EXCEPT ![c].pc = IF change.release = 0 THEN "applied" ELSE "recording"]
  /\ UNCHANGED <<timers, now, scoring, sweep, alone>>

PutTimer(c) ==
  /\ chg[c].pc \in {"recording", "listing"}
  /\ timers' = timers \cup {chg[c].change.release}
  /\ chg' = [chg EXCEPT ![c].pc = IF chg[c].pc = "recording" THEN "applied" ELSE "locking"]
  /\ UNCHANGED <<cra, now, scoring, sweep, early, alone, orderly>>

(* updateRiskAssignmentLock writes the item first, then the assignment ... *)
SetLock(c) ==
  /\ chg[c].pc = "locking"
  /\ Writes(c, [cra EXCEPT !.updatable = FALSE, !.lockedAt = TRUE,
                           !.expires = chg[c].change.release])
  /\ chg' = [chg EXCEPT ![c].pc = "applied"]
  /\ UNCHANGED <<timers, now, scoring, sweep, alone>>

(* Mutant: unlocking leaves the items alone.                               *)
NoItem == {}

FoundItems == timers

(* ... and unlocks after it deleted the items it found, one by one.        *)
FindTimers(c) ==
  /\ chg[c].pc = "finding"
  /\ chg' = [chg EXCEPT ![c].pc = "removing", ![c].found = FoundItems]
  /\ UNCHANGED <<cra, timers, now, scoring, sweep, early, alone, orderly>>

RemoveTimer(c, t) ==
  /\ chg[c].pc = "removing" /\ t \in chg[c].found
  /\ timers' = timers \ {t}
  /\ chg' = [chg EXCEPT ![c].found = @ \ {t}]
  /\ UNCHANGED <<cra, now, scoring, sweep, early, alone, orderly>>

Unlocked == [cra EXCEPT !.updatable = TRUE, !.lockedAt = FALSE, !.expires = 0]

Unlock(c) ==
  /\ chg[c].pc = "removing" /\ chg[c].found = {}
  /\ cra' = Unlocked
  /\ chg' = [chg EXCEPT ![c].pc = "applied"]
  /\ orderly' = (orderly \/ alone)
  /\ UNCHANGED <<timers, now, scoring, sweep, early, alone>>

Answer(c) ==
  /\ chg[c].pc = "applied"
  /\ chg' = [chg EXCEPT ![c] = Idle]
  /\ UNCHANGED <<cra, timers, now, scoring, sweep, early, alone, orderly>>

(* The request dies between two of its writes.                             *)
Abandon(c) ==
  /\ chg[c].pc # "idle"
  /\ chg' = [chg EXCEPT ![c] = Idle]
  /\ early' = early \ {c}
  /\ orderly' = (orderly /\ chg[c].pc \notin {"recording", "locking", "removing"})
  /\ UNCHANGED <<cra, timers, now, scoring, sweep, alone>>

-----------------------------------------------------------------------------
(* Scores                                                                  *)

(* A transaction, a change of the user, or a manual level sent with it:    *)
(* nothing is written under a lock.  A request of the API that unlocks     *)
(* does not look, and a read that fails is taken for no score.             *)
BeginScore(s, manual, unaware) ==
  /\ scoring[s].pc = "idle"
  /\ cra.updatable \/ unaware
  /\ scoring' = [scoring EXCEPT ![s] = [pc |-> IF manual THEN "manual" ELSE "scoring",
                                        unaware |-> unaware]]
  /\ IF manual THEN Joins ELSE UNCHANGED <<alone, orderly>>
  /\ UNCHANGED <<cra, timers, now, chg, sweep, early>>

(* createOrUpdateDrsScore leaves the fields of the lock alone, except for  *)
(* isUpdatable, which an overridden score clears; a manual level writes    *)
(* them all, and the locks it sets are perpetual.                          *)
WriteScore(s, level, updatable) ==
  /\ scoring[s].pc # "idle"
  /\ Writes(s, IF scoring[s].pc = "scoring"
               THEN [cra EXCEPT !.level = level, !.updatable = updatable]
               ELSE [level |-> level, updatable |-> updatable, lockedAt |-> ~updatable,
                     expires |-> 0])
  /\ scoring' = [scoring EXCEPT ![s] = [pc |-> "idle", unaware |-> FALSE]]
  /\ UNCHANGED <<timers, now, chg, sweep, alone>>

-----------------------------------------------------------------------------
(* unlockExpiredCraLocks                                                   *)

Due == {t \in timers : t < now}

FindExpired ==
  /\ ~sweep.running
  /\ Due # {}
  /\ sweep' = [running |-> TRUE, found |-> Due, released |-> {}]
  /\ Joins
  /\ UNCHANGED <<cra, timers, now, chg, scoring, early>>

(* For each item, an update on condition that there is a lock, any lock;   *)
(* the condition fails, or the update does.                                *)
ReleaseLock(t, fails) ==
  LET unlocks == cra.lockedAt /\ ~fails IN
  /\ t \in sweep.found
  /\ cra' = IF unlocks THEN Unlocked ELSE cra
  /\ sweep' = [sweep EXCEPT !.found = @ \ {t},
                            !.released = IF unlocks THEN @ \cup {t} ELSE @]
  /\ UNCHANGED <<timers, now, chg, scoring, early, alone, orderly>>

(* The items whose update was made are deleted, or else kept by an error.  *)
Clean ==
  /\ sweep.running /\ sweep.found = {}
  /\ timers' = timers \ sweep.released
  /\ sweep' = NoSweep
  /\ UNCHANGED <<cra, now, chg, scoring, early, alone, orderly>>

SweepFails ==
  /\ sweep.running
  /\ sweep' = NoSweep
  /\ orderly' = (orderly /\ sweep.released = {})
  /\ UNCHANGED <<cra, timers, now, chg, scoring, early, alone>>

Tick ==
  /\ now <= MaxTime
  /\ now' = now + 1
  /\ UNCHANGED <<cra, timers, chg, scoring, sweep, early, alone, orderly>>

-----------------------------------------------------------------------------
(* A step of a change that has begun.                                      *)
ContinueChange(c) ==
  \/ SetLevel(c) \/ PutTimer(c) \/ SetLock(c)
  \/ FindTimers(c) \/ (\E t \in Time : RemoveTimer(c, t)) \/ Unlock(c)

Score(s) ==
  \/ \E manual, unaware \in BOOLEAN : BeginScore(s, manual, unaware)
  \/ \E level \in Level, updatable \in BOOLEAN : WriteScore(s, level, updatable)

Untimer ==
  \/ FindExpired
  \/ \E t \in Time, fails \in BOOLEAN : ReleaseLock(t, fails)
  \/ Clean \/ SweepFails

(* Whatever its requests do.                                               *)
CraNext ==
  \/ \E c \in Changer :
       \/ \E change \in Change, unaware \in BOOLEAN : BeginChange(c, change, unaware)
       \/ ContinueChange(c) \/ Answer(c) \/ Abandon(c)
  \/ \E s \in Scorer : Score(s)
  \/ Untimer
  \/ Tick

CraSpec == CraInit /\ [][CraNext]_craVars

-----------------------------------------------------------------------------
(* The level of a locked assignment is changed only by a request that had  *)
(* read the assignment before it was locked, or did not look: who begins   *)
(* under the lock is refused, and nobody writes on a read that is older    *)
(* than an earlier request of its own.                                     *)
LevelWritten ==
  \/ \E c \in Changer : /\ chg[c].pc = "setting" /\ chg'[c].pc # "setting"
                        /\ c \in early \/ chg[c].unaware
  \/ \E s \in Scorer : /\ scoring[s].pc # "idle" /\ scoring'[s].pc = "idle"
                       /\ s \in early \/ scoring[s].unaware

LockedLevelStays ==
  [][~cra.updatable /\ cra'.level # cra.level => LevelWritten]_craVars

(* While nobody is about to change the lock, its item is there: a timed    *)
(* lock has the item of its time, so that it ends then and not before, and *)
(* without one there is no item that would end the next lock.  Exempt from *)
(* the moment two requests or the job overlap, one dies between its writes *)
(* or a timed lock is written over, until an unlock with nobody in between *)
(* has cleaned up.                                                         *)
ItemsMatchLock == orderly /\ Undisturbed => timers = {cra.expires} \ {0}
=============================================================================
