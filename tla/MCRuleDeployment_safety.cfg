CONSTANTS
  amy = amy
  bob = bob
  w1 = w1
  w2 = w2
  c1 = c1
  c2 = c2
  Trigger = {c1}
  Job = {1, 2}
  MaxAttempts = 2
  Store = "both"
  Kind = "RULE"
  Target = {amy, bob}
  TargetsOf <- AllButSecond
  Worker = {w1, w2}
  MaxSaves = 2
  Faulty = {"save", "trigger", "task"}
  MaxFaults = 1
SPECIFICATION Spec
INVARIANTS TypeOK ActivationIsEarned CountedIsBuilt DeployingHasJob
SYMMETRY Interchangeable
CHECK_DEADLOCK FALSE
