CONSTANTS
  a = a
  b = b
  c = c
  x = x
  y = y
  n = n
  z = z
  g1 = g1
  g2 = g2
  g3 = g3
  NoGroup = NoGroup
  Record = {a, b, c}
  Identifier = {x, n, z}
  Group = {g1, g2, g3}
  Ids <- Pair
  RunIds <- PairRun
  Arrivals <- ThreeRecords
  BatchSize = 3
  MaxFaults = 0
  MaxStale = 0
SPECIFICATION FairSpec
PROPERTIES IsolatedRecordRuns
CHECK_DEADLOCK FALSE
