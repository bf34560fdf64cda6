CONSTANTS
  p1 = p1
  p2 = p2
  p3 = p3
  t0 = t0
  t1 = t1
  t2 = t2
  b1 = b1
  Proc = {p1, p2, p3}
  Key = {t0, t1, t2}
  TxOf <- TwoAndOne
  Builder = {b1}
  History = {t0}
  InRange = {t0, t1}
  Recent = {t1, t2}
  IncludeCurrentEntity = FALSE
  MaxFaults = 1
SPECIFICATION FairSpec
INVARIANTS TypeOK CountedOnce AppliedIsCounted ReadyHasHistory
PROPERTIES LockIsRecovered
CHECK_DEADLOCK FALSE
