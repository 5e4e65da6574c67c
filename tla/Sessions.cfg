SPECIFICATION MCSpec
CONSTANTS
  a = a
  b = b
  Sources = {a, b}
  Nonces = {1, 2}
  Commands <- Script
  MaxPeers = 2
  MaxIdleTicks = 1
  DatagramsPerTick = 2
  MaxQueuedCommands = 2
  MaxQueuedRepairs = 1
  CommandsPerTick = 1
  RepairsPerTick = 1
  Units = 2
  Cost <- Prices
  MaxSessions = 3
  MaxInput = 1
  MaxTick = 3
  Magazine = 2
  Reserve = 1
  Cadence = 2
  ReloadTicks = 2
  t1 = t1
  t2 = t2
  v1 = v1
  v2 = v2
  Tokens = {t1,t2}
  Attempts = {v1,v2}
  Interval = 1
  RequestTime = 1
  StaticValidity = 2
  Skew = 1
  MinRemaining = 1
  Lifetime = 1
  MaxDelay = 0
  MaxReplay = 1
  MaxTime = 3
  GraceIntervals = 1
  MaxGeneration = 2
CHECK_DEADLOCK FALSE
SYMMETRY Interchangeable
INVARIANTS
  OneOwnerEach
  QueuedWorkHasOwner
  CommandsInOrder
  CadenceKept
  TokenUsedOnce
  WithdrawnKeysEnd
PROPERTIES
  AcknowledgementsStay
