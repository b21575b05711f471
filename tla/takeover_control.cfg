CONSTANTS
  s1 = s1  s2 = s2  s3 = s3  w1 = w1
  NoWorker = NoWorker
  Slots <- OneSlot
  Workers <- OneWorker
  WorkerOf <- SharedOwner
  MaxFaults = 1
  MaxPauses = 1
  Team = TRUE
  MaxGrants = 2
  MaxTurns = 1
  MaxClaims = 1
SPECIFICATION FairComputerSpec
CHECK_DEADLOCK FALSE
INVARIANTS
  ComputerTypeOK
PROPERTIES
  ControlResumes
