CONSTANTS
  s1 = s1  s2 = s2  s3 = s3  w1 = w1  w2 = w2
  NoWorker = NoWorker
  Slots <- TwoSlots
  Workers <- OneWorker
  WorkerOf <- SharedOwner
  MaxFaults = 1
  MaxPauses = 1
SPECIFICATION Spec

CHECK_DEADLOCK FALSE
PROPERTIES
  LegalTransitions
