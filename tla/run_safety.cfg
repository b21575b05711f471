CONSTANTS
  s1 = s1  s2 = s2  s3 = s3  w1 = w1  w2 = w2
  NoWorker = NoWorker
  Slots <- TwoSlots
  Workers <- OneWorker
  WorkerOf <- SharedOwner
  MaxFaults = 2
  MaxPauses = 2
SPECIFICATION Spec
SYMMETRY SlotSymmetry
CHECK_DEADLOCK FALSE
INVARIANTS
  TypeOK
  OneOutcome
  AttemptAvailable
  SoleHolder
PROPERTIES
  ReclaimRaisesFence
