CONSTANTS
  amy = amy
  bob = bob
  w1 = w1
  w2 = w2
  c1 = c1
  c2 = c2
  Trigger = {c1, c2}
  Job = {1}
  MaxAttempts = 2
  Store = "MongoDB"
  Kind = "RULE"
  Target = {amy, bob}
  TargetsOf <- Everybody
  Worker = {w1, w2}
  MaxSaves = 1
  Faulty = {}
  MaxFaults = 0
SPECIFICATION FairSpec
PROPERTIES LiveOnceDeployed
CHECK_DEADLOCK FALSE
