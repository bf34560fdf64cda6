CONSTANTS
  amy = amy
  bob = bob
  w1 = w1
  w2 = w2
  c1 = c1
  c2 = c2
  Trigger = {c1, c2}
  Job = {1}
  MaxAttempts = 2
  Store = "migrated"
  Kind = "RISK_FACTOR"
  Target = {amy, bob}
  TargetsOf <- Everybody
  Worker = {w1, w2}
  MaxSaves = 1
  Faulty = {"trigger", "job", "task"}
  MaxFaults = 1
SPECIFICATION FairSpec
INVARIANTS ActivationIsEarned EndedIsNotRunning
PROPERTIES LateTaskGoesLive
CHECK_DEADLOCK FALSE
