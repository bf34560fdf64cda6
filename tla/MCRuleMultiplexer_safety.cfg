CONSTANTS
  a = a
  b = b
  c = c
  x = x
  y = y
  n = n
  z = z
  g1 = g1
  g2 = g2
  g3 = g3
  NoGroup = NoGroup
  Record = {a, b, c}
  Identifier = {x, y, n, z}
  Group = {g1, g2, g3}
  Ids <- Bridge
  RunIds <- BridgeRun
  Arrivals <- ThreeRecords
  BatchSize = 2
  MaxFaults = 1
  MaxStale = 1
SPECIFICATION Spec
INVARIANTS TypeOK FirstRunsDontOverlap QueuedIsMarked NoOrphanMarks
SYMMETRY Groups
CHECK_DEADLOCK FALSE
