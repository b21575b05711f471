SPECIFICATION MCSafety
CHECK_DEADLOCK FALSE
CONSTANTS
  Messages = {m1, m2}
  RunIds = {1, 2, 3, 4, 5, 6}
  Slots = {a1, a2}
  MaxExtra = 2
  MaxFaults = 1
  Writers = {w1, w2}
  Followers = {a1}
  Nobody = nobody
  Positions = {1, 2, 3}
  BatchSize = 1
  MaxDrops = 1
  Handlers = {a1, a2}
  Reconcilers = {p1}
  MaxTime = 2
  MaxEdits = 1
  MaxRoutineFaults = 1
  Bots = {a1, a2}
  Solo = a1
  Owner = owner
  Sleeper = sleeper
  Free = free
  MaxTurns = 2
  MaxRequests = 1
  MaxPowerFaults = 1
  j1 = j1
  j2 = j2
  j3 = j3
  j4 = j4
  k1 = k1
  Jobs = {j1, j2, j3, j4}
  Keys = {k1}
  NoKey = noKey
  KeyOf <- KeyOfJob
  Delayed = {j4}
  Replicas = {a1, a2}
  MaxBreaks = 3
  Drains = {a1, a2}
  NoDrain = noDrain
  MaxAttempts = 2
  OutboundCap = 1
  MaxCycles = 2
  MaxOutboxFaults = 1
  Teammates = {b1, b2}
  Leads = {b1}
  Said = {"request", "result"}
  Person = person
  Reporters = {a1}
  Sweepers = {a2}
  WorkIds = {1, 2, 3, 4}
  MaxHops = 1
  MaxAsks = 1
  MaxChatter = 2
  MaxMeddling = 1
  Crew = {g1, g2, g3}
  Founders = {g1, g2}
  Outsider = outsider
  StageIds = {1, 2, 3}
  GroupMin = 2
  MaxChain = 1
  MaxSends = 2
  MaxChanges = 1
VIEW ServiceView
INVARIANTS
  ServicesTypeOK
  NoStranded
  NothingFromBefore
  AnsweredOnce
  NeverOffline
  FiresOnce
  PauseHolds
  TransitionOwned
  AcceptedJobsRun
  SentOnce
  ReportedOnce
  OnlyMembersWork
  StopEndsRelay
PROPERTIES
  GoneOnlyIfGiven
  InOrderDelivery
  FiringKept
  WorkUndisturbed
  RequestIsCurrent
