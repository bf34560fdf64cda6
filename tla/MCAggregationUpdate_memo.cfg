CONSTANTS
  p1 = p1
  p2 = p2
  p3 = p3
  b1 = b1
  t0 = t0
  t1 = t1
  t2 = t2
  Proc = {p1, p2, p3}
  Key = {t1, t2}
  TxOf <- TwoAndOne
  Builder = {}
  History = {t1, t2}
  InRange = {}
  Recent = {}
  IncludeCurrentEntity = TRUE
  MaxFaults = 0
SPECIFICATION Spec
INVARIANTS NoDoubleCount

CHECK_DEADLOCK FALSE
