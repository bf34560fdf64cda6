---------------------------- MODULE CaseCreation ----------------------------
(***************************************************************************)
(* How a hit becomes an alert of a case: the stream consumer's             *)
(* handleTransaction (lambdas/tarpon-change-mongodb-consumer/app.ts) saves *)
(* the transaction and calls the case creation service                     *)
(* (services/cases/case-creation-service.ts), while a person closes alerts *)
(* and cases in the console (services/cases/index.ts, services/alerts).    *)
(*                                                                         *)
(* A case document is read as a whole and replaced as a whole.  The lock   *)
(* around that is on the checksum of the user's document, so two versions  *)
(* of a user have two locks.  The cases of a transaction that hit several  *)
(* subjects are written once more, from the saved copies, without a lock.  *)
(* A transaction is saved before its cases, and a delivery that finds it   *)
(* saved does nothing.                                                     *)
(*                                                                         *)
(* Rules have no alert delay, no frozen status and no default status, and  *)
(* make one alert for each rule: the alerts of a case are told apart by    *)
(* their rule.                                                             *)
(***************************************************************************)
EXTENDS Naturals, Sequences, FiniteSets, SequencesExt, Filtering, SharedLock

CONSTANTS
  Txn,        \* the transactions
  Rule,       \* the rule instances
  User,       \* the users cases are about
  UserOf,     \* the user whose document has the checksum Key
  Groups,     \* per transaction and version: the case groups that
              \* getTransactionSubjects and createCaseGroups make of its hits
  MaxTxns,    \* MAX_TRANSACTION_IN_A_CASE
  MaxAlerts,  \* MAX_ALERTS_IN_A_CASE
  MaxActs,    \* bound on what the person does
  MaxFaults   \* bound on deliveries that throw or die, or outlast their lease

CaseGroup == [key : Key, rules : SUBSET Rule \ {{}}]

ASSUME SubjectAssumption ==
  /\ UserOf \in [Key -> User]
  /\ Groups \in [Txn -> Seq(Seq(CaseGroup))]
ASSUME FiniteAssumption == IsFiniteSet(Txn) /\ IsFiniteSet(Rule)
(* The limit is 1000 alerts, and no transaction hits as many rules: the    *)
(* alerts that a split moves to a new case fit into it.                    *)
ASSUME FewRulesAssumption ==
  \A t \in Txn : \A v \in DOMAIN Groups[t] : \A n \in DOMAIN Groups[t][v] :
    Cardinality(Groups[t][v][n].rules) <= MaxAlerts
ASSUME LimitAssumption ==
  /\ MaxTxns \in Nat \ {0}
  /\ MaxAlerts \in Nat \ {0}
  /\ MaxActs \in Nat
  /\ MaxFaults \in Nat

VARIABLES
  cases,      \* the case documents by their ids
  caseCount,  \* the counter that numbers cases
  alertCount, \* the counter that numbers alerts
  stored,     \* per transaction: its version in the database, 0 for none
  handled,    \* ghost: per transaction, the versions a delivery of which
              \* made the cases and returned
  masked,     \* ghost: the hits that were dropped as duplicates, and were none
  pc,         \* per consumer: what it does
  job,        \* per consumer: its transaction
  at,         \* per consumer: the index of its case group
  todo,       \* per consumer: the documents it is about to write
  saved,      \* per consumer: the documents it has written
  person,     \* what the person in the console is doing
  acts, faults,
  lapsed,     \* ghost: a lease ran out under its holder
  writer,     \* ghost: who wrote each case last, and under which lock
  overwritten,\* ghost: the replacements of a newer document
  late        \* ghost: cases closed over an alert that came since the look

counters == <<caseCount, alertCount>>
messages == <<stored, handled, masked>>
consumers == <<pc, job, at, todo, saved>>
bounds == <<acts, faults>>
ghosts == <<lapsed, writer, overwritten, late>>
vars == <<lockVars, cases, counters, messages, consumers, person, bounds,
          ghosts>>

Alert == [id : Nat, rule : Rule, txns : SUBSET Txn, closed : BOOLEAN]
(* key stands for caseUsers, the copy of the user's document that a case   *)
(* keeps; half says that the case took the rest of one with too many       *)
(* alerts.                                                                 *)
Case == [key : Key, closed : BOOLEAN, half : BOOLEAN, alerts : Seq(Alert)]
UserOfCase(i) == UserOf[cases[i].key]
Write == [id : Nat, doc : Case, base : {<<>>} \cup Seq(Case)]
Writer == [by : {"locked", "relating", "person"}, key : SUBSET Key]

NoJob == CHOOSE t \in Txn : TRUE
Busy(p) == pc[p] # "idle"
CurGroups(p) == Groups[job[p]][stored[job[p]]]
Group(p) == CurGroups(p)[at[p]]
HasLock(p) == pc[p] \in {"reading", "writing", "unlocking"}
Alerts(doc) == {doc.alerts[i] : i \in DOMAIN doc.alerts}
TxnsOf(doc) == UNION {a.txns : a \in Alerts(doc)}
Covers(doc, r, t) == \E a \in Alerts(doc) : a.rule = r /\ t \in a.txns
Versions(t) == DOMAIN Groups[t]

TypeOK ==
  /\ LockTypeOK
  /\ caseCount \in Nat /\ alertCount \in Nat
  /\ cases \in [1..caseCount -> Case]
  /\ \A t \in Txn : /\ stored[t] \in Versions(t) \cup {0}
                    /\ handled[t] \subseteq 1..stored[t]
  /\ masked \subseteq User \X Txn \X Rule
  /\ \A p \in Proc :
       /\ pc[p] \in {"idle", "locking", "reading", "writing", "unlocking",
                     "relating"}
       /\ Busy(p) => at[p] \in DOMAIN CurGroups(p)
       /\ todo[p] \in Seq(Write) /\ saved[p] \in Seq(Write)
       /\ \A i \in DOMAIN saved[p] : saved[p][i].id \in DOMAIN cases
  /\ \A i \in DOMAIN cases : \A a \in Alerts(cases[i]) : a.id <= alertCount
  /\ writer \in [1..caseCount -> Writer]
  /\ late \subseteq DOMAIN cases

Init ==
  /\ LockInit
  /\ caseCount = 0 /\ alertCount = 0
  /\ cases = [i \in 1..0 |-> <<>>]
  /\ stored = [t \in Txn |-> 0]
  /\ handled = [t \in Txn |-> {}]
  /\ masked = {}
  /\ pc = [p \in Proc |-> "idle"]
  /\ job = [p \in Proc |-> NoJob]
  /\ at = [p \in Proc |-> 0]
  /\ todo = [p \in Proc |-> <<>>]
  /\ saved = [p \in Proc |-> <<>>]
  /\ person = [does |-> "idle", case |-> 0, alerts |-> {}]
  /\ acts = 0 /\ faults = 0
  /\ lapsed = FALSE
  /\ writer = [i \in 1..0 |-> <<>>] /\ overwritten = {} /\ late = {}

-----------------------------------------------------------------------------
(* What a hit makes of the documents it read.                              *)

(* Mutant: the query for open cases has no status.                         *)
CasesOfAnyStatus(u) ==
  {i \in DOMAIN cases : /\ UserOfCase(i) = u
                        /\ Cardinality(TxnsOf(cases[i])) < MaxTxns}

(* createdTimestamp is from before the lock, so the order of the           *)
(* timestamps says nothing about the order of the inserts: any open case   *)
(* that is not full may be the newest.                                     *)
OpenCases(u) ==
  {i \in DOMAIN cases : /\ UserOfCase(i) = u
                        /\ ~cases[i].closed
                        /\ Cardinality(TxnsOf(cases[i])) < MaxTxns}

(* Mutant: the query for duplicates has no transaction.                    *)
RulesOfAnyCase(u, t) ==
  {a.rule : a \in UNION {Alerts(cases[i]) :
     i \in {j \in DOMAIN cases : UserOfCase(j) = u}}}

(* filterDuplicateHitRules: the rules that have an alert in a case of the  *)
(* user with this transaction, whatever became of the case, and whether    *)
(* that alert or another one has the transaction.                          *)
AlertedRules(u, t) ==
  {a.rule : a \in UNION {Alerts(cases[i]) :
     i \in {j \in DOMAIN cases : UserOfCase(j) = u /\ t \in TxnsOf(cases[j])}}}

(* The hit is in an alert of the user.                                     *)
InAlert(u, t, r) ==
  \E i \in DOMAIN cases : UserOfCase(i) = u /\ Covers(cases[i], r, t)

(* It is not, but the rule has an alert in a case that has the transaction *)
(* by the alert of another rule.                                           *)
Shadowed(u, t, r) ==
  /\ ~InAlert(u, t, r)
  /\ \E i \in DOMAIN cases :
       /\ UserOfCase(i) = u
       /\ t \in TxnsOf(cases[i])
       /\ \E a \in Alerts(cases[i]) : a.rule = r

NewAlerts(t, rules) ==
  LET order == SetToSeq(rules) IN
  [i \in DOMAIN order |->
     [id |-> alertCount + i, rule |-> order[i], txns |-> {t},
      closed |-> FALSE]]

(* Rules without an open alert in the document.                            *)
FreshRules(doc, rules) ==
  {r \in rules : \A a \in Alerts(doc) : a.closed \/ a.rule # r}

(* The open alerts, those of the rules hit with the transaction added, the *)
(* closed ones, and the new ones.  The transaction is added for every rule *)
(* of the group, those alerted before included.                            *)
WithHits(doc, t, all, left) ==
  LET open == Keep(doc.alerts, {a \in Alerts(doc) : ~a.closed})
      done == Keep(doc.alerts, {a \in Alerts(doc) : a.closed})
      hit == [i \in DOMAIN open |->
                IF open[i].rule \in all
                THEN [open[i] EXCEPT !.txns = @ \cup {t}] ELSE open[i]]
  IN [doc EXCEPT !.alerts = hit \o done \o NewAlerts(t, FreshRules(doc, left))]

NewCase(k, alerts) ==
  [key |-> k, closed |-> FALSE, half |-> FALSE, alerts |-> alerts]

(* Mutant: the document that is split keeps all its alerts.                *)
WritesWhole(k, id, doc, base) ==
  LET whole == [id |-> id, doc |-> doc, base |-> base]
      n == Len(doc.alerts)
  IN IF n <= MaxAlerts THEN <<whole>>
     ELSE << whole,
             [id |-> 0, base |-> <<>>,
              doc |-> [NewCase(k, SubSeq(doc.alerts, MaxAlerts + 1, n))
                         EXCEPT !.half = TRUE]] >>

(* A document with too many alerts keeps the first of them, and a new case *)
(* takes the rest.  base is the document as it was read, <<>> for none.    *)
Writes(k, id, doc, base) ==
  LET whole == [id |-> id, doc |-> doc, base |-> base]
      n == Len(doc.alerts)
  IN IF n <= MaxAlerts THEN <<whole>>
     ELSE << [whole EXCEPT !.doc.alerts = SubSeq(@, 1, MaxAlerts)],
             [id |-> 0, base |-> <<>>,
              doc |-> [NewCase(k, SubSeq(doc.alerts, MaxAlerts + 1, n))
                         EXCEPT !.half = TRUE]] >>
-----------------------------------------------------------------------------
(* The stream consumer.                                                    *)

(* handleTransaction.  The queue keeps no order and delivers what it likes  *)
(* again, but the lock on the id makes it one version at a time.  A version *)
(* that is not newer than the stored one is dropped; any other is stored    *)
(* (addTransactionToMongo), and its case groups are gone through.           *)
Deliver(p, t, v) ==
  /\ ~Busy(p)
  /\ \A q \in Proc : Busy(q) => job[q] # t
  /\ v > stored[t]
  /\ Groups[t][v] # <<>>
  /\ stored' = [stored EXCEPT ![t] = v]
  /\ job' = [job EXCEPT ![p] = t]
  /\ at' = [at EXCEPT ![p] = 1]
  /\ pc' = [pc EXCEPT ![p] = "locking"]
  /\ UNCHANGED <<lockVars, cases, counters, handled, masked, todo, saved,
                 person, bounds, ghosts>>

(* Mutant: no lock.                                                        *)
LockNothing(p) ==
  /\ pc[p] = "locking"
  /\ pc' = [pc EXCEPT ![p] = "reading"]
  /\ UNCHANGED <<lockVars, cases, counters, messages, job, at, todo, saved,
                 person, bounds, ghosts>>

Lock(p) ==
  /\ pc[p] = "locking"
  /\ AcquireLock(p, Group(p).key)
  /\ pc' = [pc EXCEPT ![p] = "reading"]
  /\ UNCHANGED <<cases, counters, messages, job, at, todo, saved, person,
                 bounds, ghosts>>

(* processCasesForDirection: the hits that have no alert yet go to the     *)
(* newest open case, or to a new one.                                      *)
ReadCases(p) ==
  LET t == job[p]
      k == Group(p).key
      u == UserOf[k]
      all == Group(p).rules
      left == all \ AlertedRules(u, t)
      open == OpenCases(u)
      Lost(docs) ==
        {r \in all : Shadowed(u, t, r) /\ \A w \in docs : ~Covers(w.doc, r, t)}
  IN
  /\ pc[p] = "reading"
  /\ \/ /\ left = {}
        /\ pc' = [pc EXCEPT ![p] = "unlocking"]
        /\ masked' = masked \cup {<<u, t, r>> : r \in Lost({})}
        /\ UNCHANGED <<alertCount, todo>>
     \/ /\ left # {}
        /\ pc' = [pc EXCEPT ![p] = "writing"]
        /\ \/ /\ open = {}
              /\ todo' = [todo EXCEPT ![p] =
                            Writes(k, 0, NewCase(k, NewAlerts(t, left)), <<>>)]
              /\ alertCount' = alertCount + Cardinality(left)
           \/ \E i \in open :
                /\ todo' = [todo EXCEPT ![p] =
                              Writes(k, i, WithHits(cases[i], t, all, left),
                                     <<cases[i]>>)]
                /\ alertCount' =
                     alertCount + Cardinality(FreshRules(cases[i], left))
        /\ masked' = masked \cup {<<u, t, r>> : r \in Lost(ToSet(todo'[p]))}
  /\ UNCHANGED <<lockVars, cases, caseCount, stored, handled, job, at, saved,
                 person, bounds, ghosts>>

Extend(f, n, value) == [i \in 1..n |-> IF i = n THEN value ELSE f[i]]

(* addCaseMongo: a document without an id gets the next one, any other     *)
(* replaces the document with its id, whatever that has become.            *)
Save(w, who) ==
  IF w.id = 0
  THEN /\ caseCount' = caseCount + 1
       /\ cases' = Extend(cases, caseCount + 1, w.doc)
       /\ writer' = Extend(writer, caseCount + 1, who)
       /\ UNCHANGED overwritten
  ELSE /\ cases' = [cases EXCEPT ![w.id] = w.doc]
       /\ writer' = [writer EXCEPT ![w.id] = who]
       /\ overwritten' =
            IF w.base = <<cases[w.id]>> THEN overwritten
            ELSE overwritten \cup {[case |-> w.id, by |-> who,
                                    over |-> writer[w.id]]}
       /\ UNCHANGED caseCount

(* Mutant: the copy does not get the id.                                   *)
WrittenWithoutId(w) == [id |-> w.id, doc |-> w.doc, base |-> <<w.doc>>]

(* The saved document is kept with its id: it is rewritten from that copy. *)
Written(w) ==
  [id |-> IF w.id = 0 THEN caseCount + 1 ELSE w.id, doc |-> w.doc,
   base |-> <<w.doc>>]

WriteCase(p) ==
  LET w == Head(todo[p]) IN
  /\ pc[p] = "writing"
  /\ Save(w, [by |-> "locked", key |-> {Group(p).key}])
  /\ saved' = [saved EXCEPT ![p] = Append(@, Written(w))]
  /\ todo' = [todo EXCEPT ![p] = Tail(@)]
  /\ pc' = [pc EXCEPT ![p] = IF Tail(todo[p]) = <<>> THEN "unlocking" ELSE @]
  /\ UNCHANGED <<lockVars, alertCount, messages, job, at, person, bounds,
                 lapsed, late>>

(* Everything of consumer p is done.                                       *)
Idle(p) ==
  /\ pc' = [pc EXCEPT ![p] = "idle"]
  /\ at' = [at EXCEPT ![p] = 0]
  /\ todo' = [todo EXCEPT ![p] = <<>>]
  /\ saved' = [saved EXCEPT ![p] = <<>>]
  /\ job' = [job EXCEPT ![p] = NoJob]

Return(p) ==
  /\ handled' = [handled EXCEPT ![job[p]] = @ \cup {stored[job[p]]}]
  /\ Idle(p)

(* The finally of getOrCreateCases, and on to the next group; then the     *)
(* cases, if there are several, are to be related to each other.           *)
Unlock(p) ==
  /\ pc[p] = "unlocking"
  /\ ReleaseLock(Group(p).key)
  /\ \/ /\ at[p] < Len(CurGroups(p))
        /\ at' = [at EXCEPT ![p] = @ + 1]
        /\ pc' = [pc EXCEPT ![p] = "locking"]
        /\ UNCHANGED <<handled, job, todo, saved>>
     \/ /\ at[p] = Len(CurGroups(p))
        /\ Len(saved[p]) > 1
        /\ pc' = [pc EXCEPT ![p] = "relating"]
        /\ UNCHANGED <<handled, job, at, todo, saved>>
     \/ /\ at[p] = Len(CurGroups(p))
        /\ Len(saved[p]) <= 1
        /\ Return(p)
  /\ UNCHANGED <<cases, counters, stored, masked, person, bounds, ghosts>>

(* updateRelatedCases: the saved copies are written again, with the ids of *)
(* the others.  No lock is held.                                           *)
Relate(p) ==
  LET w == Head(saved[p]) IN
  /\ pc[p] = "relating"
  /\ Save(w, [by |-> "relating", key |-> {}])
  /\ IF Tail(saved[p]) = <<>>
     THEN Return(p)
     ELSE /\ saved' = [saved EXCEPT ![p] = Tail(@)]
          /\ UNCHANGED <<handled, pc, job, at, todo>>
  /\ UNCHANGED <<lockVars, alertCount, stored, masked, person, bounds, lapsed,
                 late>>
-----------------------------------------------------------------------------
(* Failures of a delivery.  Its message comes again, and is dropped: the   *)
(* version is stored.                                                      *)

Fault(p) ==
  /\ Busy(p)
  /\ faults < MaxFaults
  /\ faults' = faults + 1
  /\ Idle(p)
  /\ UNCHANGED <<cases, counters, messages, person, acts, lapsed,
                 writer, overwritten, late>>

(* A step throws: the finally releases the lock.  acquireLock, which gives *)
(* up after 120 attempts, and updateRelatedCases are outside the try.      *)
Throw(p) ==
  /\ Fault(p)
  /\ IF HasLock(p) THEN ReleaseLock(Group(p).key) ELSE UNCHANGED lockVars

(* The invocation dies, and its lock stays.                                *)
Die(p) ==
  /\ Fault(p)
  /\ UNCHANGED lockVars

Holding(k) == {p \in Proc : HasLock(p) /\ Group(p).key = k /\ p \in owner[k]}

ExpireAbandoned(k) ==
  /\ Holding(k) = {}
  /\ ExpireLock(k)
  /\ UNCHANGED <<cases, counters, messages, consumers, person, bounds, ghosts>>

(* The ttl of ten minutes passes while the holder is at work.              *)
ExpireHeld(k) ==
  /\ Holding(k) # {}
  /\ faults < MaxFaults
  /\ ExpireLock(k)
  /\ faults' = faults + 1
  /\ lapsed' = TRUE
  /\ UNCHANGED <<cases, counters, messages, consumers, person, acts,
                 writer, overwritten, late>>
-----------------------------------------------------------------------------
(* The console: a person closes an alert, or a case with its alerts.       *)
systemVars == <<lockVars, counters, messages, consumers, faults,
                lapsed, overwritten>>

OpenAlerts(i) == {a.id : a \in {b \in Alerts(cases[i]) : ~b.closed}}

(* CaseService.updateStatus: the cases are read.                           *)
ChooseCase(i) ==
  /\ person.does = "idle"
  /\ acts < MaxActs
  /\ ~cases[i].closed
  /\ acts' = acts + 1
  /\ person' = [does |-> "set case", case |-> i, alerts |-> OpenAlerts(i)]
  /\ UNCHANGED <<systemVars, cases, writer, late>>

(* AlertsService.updateStatus for an alert.                                *)
ChooseAlert(i, a) ==
  /\ person.does = "idle"
  /\ acts < MaxActs
  /\ a \in OpenAlerts(i)
  /\ acts' = acts + 1
  /\ person' = [does |-> "set alerts", case |-> 0, alerts |-> {a}]
  /\ UNCHANGED <<systemVars, cases, writer, late>>

ByPerson == [by |-> "person", key |-> {}]

(* updateStatusOfCases: a $set of the status.  The alerts follow if there  *)
(* were open ones when the case was read.                                  *)
SetCase ==
  LET i == person.case IN
  /\ person.does = "set case"
  /\ cases' = [cases EXCEPT ![i].closed = TRUE]
  /\ writer' = [writer EXCEPT ![i] = ByPerson]
  /\ late' = IF OpenAlerts(i) \subseteq person.alerts THEN late
             ELSE late \cup {i}
  /\ person' = [person EXCEPT !.does =
                  IF person.alerts # {} THEN "set alerts" ELSE "idle"]
  /\ UNCHANGED <<systemVars, acts>>

(* alertsRepository.updateStatus: a pipeline update of the alerts with the *)
(* ids, in the cases that have them.  The status of the case is looked at  *)
(* next if the person chose an alert.                                      *)
SetAlerts ==
  LET has(i) == \E a \in Alerts(cases[i]) : a.id \in person.alerts
      Set(doc) == [doc EXCEPT !.alerts =
                     [j \in DOMAIN @ |->
                        IF @[j].id \in person.alerts
                        THEN [@[j] EXCEPT !.closed = TRUE] ELSE @[j]]]
  IN
  /\ person.does = "set alerts"
  /\ cases' =
       [i \in DOMAIN cases |-> IF has(i) THEN Set(cases[i]) ELSE cases[i]]
  /\ writer' = [i \in DOMAIN cases |-> IF has(i) THEN ByPerson ELSE writer[i]]
  /\ person' =
       [person EXCEPT !.does = IF person.case = 0 THEN "check" ELSE "idle"]
  /\ UNCHANGED <<systemVars, acts, late>>

(* A case all of whose alerts are closed is closed too.                    *)
Check ==
  LET all == {i \in DOMAIN cases :
                /\ OpenAlerts(i) = {}
                /\ \E a \in Alerts(cases[i]) : a.id \in person.alerts}
  IN
  /\ person.does = "check"
  /\ \/ /\ all = {}
        /\ person' = [person EXCEPT !.does = "idle"]
     \/ \E i \in all : person' = [person EXCEPT !.does = "reread", !.case = i]
  /\ UNCHANGED <<systemVars, acts, cases, writer, late>>

(* ... by CaseService.updateStatus, which reads it again and closes, in    *)
(* spite of cascadeAlertsUpdate: false, the alerts it finds open.          *)
Reread ==
  /\ person.does = "reread"
  /\ person' = [person EXCEPT !.does = "set case",
                              !.alerts = OpenAlerts(person.case)]
  /\ UNCHANGED <<systemVars, acts, cases, writer, late>>
-----------------------------------------------------------------------------
Consume(p) == Lock(p) \/ ReadCases(p) \/ WriteCase(p) \/ Unlock(p) \/ Relate(p)
Operate == SetCase \/ SetAlerts \/ Check \/ Reread

Next ==
  \/ \E p \in Proc, t \in Txn : \E v \in Versions(t) : Deliver(p, t, v)
  \/ \E p \in Proc : Consume(p) \/ Throw(p) \/ Die(p)
  \/ \E k \in Key : ExpireAbandoned(k) \/ ExpireHeld(k)
  \/ \E i \in DOMAIN cases :
       ChooseCase(i) \/ \E a \in OpenAlerts(i) : ChooseAlert(i, a)
  \/ Operate

Spec == Init /\ [][Next]_vars
-----------------------------------------------------------------------------
Disturbed(i) == \E o \in overwritten : o.case = i
DisturbedUser(u) == \E i \in DOMAIN cases : UserOfCase(i) = u /\ Disturbed(i)

(* The lock is there "to avoid duplicate cases": a user has two open cases *)
(* with room left only where one is the rest of a split case, they are of  *)
(* different versions of the user, a lease ran out, or one of them was     *)
(* written back from an older copy.                                        *)
NoTwinCases ==
  \A u \in User : \A i, j \in OpenCases(u) :
    \/ i = j \/ cases[i].half \/ cases[j].half
    \/ cases[i].key # cases[j].key
    \/ lapsed \/ Disturbed(i) \/ Disturbed(j)

(* Every hit of a version a delivery of which returned is in an alert of   *)
(* its rule with the transaction, for good: no split, failed or not, and   *)
(* no failure of a delivery loses one.  Two things do: that a case of the  *)
(* user was replaced from an older copy, and that the filter for duplicate *)
(* hits dropped the hit, though the alert of the rule that it saw in a     *)
(* case of the transaction is one without the transaction.                 *)
HitsKept ==
  \A t \in Txn : \A v \in handled[t] : \A n \in DOMAIN Groups[t][v] :
    LET g == Groups[t][v][n]
        u == UserOf[g.key]
    IN \/ DisturbedUser(u)
       \/ \A r \in g.rules : InAlert(u, t, r) \/ <<u, t, r>> \in masked

(* As long as no lease runs out, an update under the lock of a user's      *)
(* version is lost only to the writes that do not take that lock: those    *)
(* under the lock of another version, the rewriting of related cases and   *)
(* the person's.                                                           *)
LostUpdateHasCause ==
  \A o \in overwritten :
    \/ lapsed
    \/ o.by.by = "relating" \/ o.over.by \in {"relating", "person"}
    \/ o.over.key # o.by.key

(* An alert is in one case, also after a split, and though documents are   *)
(* written back from older copies: what a split moves is always new.       *)
OneCasePerAlert ==
  \A i, j \in DOMAIN cases :
    \/ i = j
    \/ \A a \in Alerts(cases[i]), b \in Alerts(cases[j]) : a.id # b.id

(* A hit never goes to a case a person has closed: the alerts of a closed  *)
(* case are closed, but for one that came between the look and the write   *)
(* of whoever closed the case.                                             *)
ClosedCasesAreDone ==
  \A i \in DOMAIN cases :
    \/ ~cases[i].closed
    \/ OpenAlerts(i) = {}
    \/ i \in late
    \/ person.case = i /\ person.does = "set alerts"
=============================================================================
