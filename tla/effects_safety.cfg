CONSTANTS
  r1 = r1  r2 = r2  s1 = s1  s2 = s2  c1 = c1  c2 = c2
  None = None
  Requests <- Both
  Tools <- ToolNames
  ToolOf <- SendAndPost
  Gate <- Gates
  Consequential <- Needing
  Slots <- TwoSlots
  Callers <- TwoCallers
  SlotOf <- OneEach
  MaxPlain = 0
  MaxFaults = 1
SPECIFICATION Spec
CHECK_DEADLOCK FALSE
INVARIANTS
  EffectTypeOK
  AtMostOnce
  EveryApprovalReplayed
  AskAnswerable
PROPERTIES
  KeepsPromise
