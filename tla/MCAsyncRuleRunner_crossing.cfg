CONSTANTS
  w1 = w1
  w2 = w2
  alice = alice
  bob = bob
  g1 = g1
  g2 = g2
  r1 = r1
  r2 = r2
  r3 = r3
  Proc = {w1, w2}
  Key = {alice, bob}
  Record = {r1, r2, r3}
  Group = {g1, g2}
  Backlog <- TwoGroups
  LockKeys <- Crossing
  BatchSize = 2
  MaxFailures = 2
  MaxLapses = 1
SPECIFICATION FairSpec
INVARIANTS TypeOK ExclusiveUnlessLapsed
PROPERTIES EveryRecordRuns ProcessesExclusively
CHECK_DEADLOCK FALSE
