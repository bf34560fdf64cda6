CONSTANTS
  ann = ann
  bob = bob
  ann1 = ann1
  ann2 = ann2
  bob1 = bob1
  t1 = t1
  t2 = t2
  r1 = r1
  r2 = r2
  r3 = r3
  p1 = p1
  p2 = p2
  Proc = {p1, p2}
  Key = {ann1, ann2, bob1}
  Txn = {t1, t2}
  Rule = {r1, r2, r3}
  User = {ann, bob}
  UserOf <- Users
  Groups <- Hits
  MaxTxns = 2
  MaxAlerts = 2
  MaxActs = 1
  MaxFaults = 1
SPECIFICATION Spec
INVARIANTS TypeOK NoTwinCases HitsKept LostUpdateHasCause OneCasePerAlert ClosedCasesAreDone
SYMMETRY Consumers
CHECK_DEADLOCK FALSE
