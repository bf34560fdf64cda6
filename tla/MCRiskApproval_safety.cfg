CONSTANTS
  ann = ann
  ben = ben
  low = low
  high = high
  Reviewer = {ann, ben}
  Proposer = proposer
  Console = console
  Changer = {ann, ben, proposer, console}
  Scorer = {scorer}
  Level = {low, high}
  Same = same
  MaxTime = 1
  Changes <- Asked
  MaxEdits = 2
  ChainLength <- Shrinking
  MaxFaults = 1
  MaxTrouble = 2
SPECIFICATION RiskSpec
INVARIANTS RiskTypeOK StepsAccepted UndisturbedIsFinal ItemsMatchLock
PROPERTIES LockedLevelStays
SYMMETRY Interchangeable
CHECK_DEADLOCK FALSE
