CONSTANTS
  s1 = s1  s2 = s2  s3 = s3  w1 = w1
  NoWorker = NoWorker
  Slots <- TwoSlots
  Workers <- OneWorker
  WorkerOf <- SharedOwner
  MaxFaults = 1
  MaxPauses = 1
  Team = TRUE
  MaxGrants = 1
  MaxTurns = 0
  MaxClaims = 3
SPECIFICATION ComputerSpec
CHECK_DEADLOCK FALSE
INVARIANTS
  SkippedIsNotDone
