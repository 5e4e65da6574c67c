SPECIFICATION WorkersSpec
CONSTANTS
  a = a
  b = b
  Connections = {a, b}
  MaxHandshakes = 1
  MaxPeers = 2
  MaxControl = 1
  MaxGameplay = 1
  MaxBuffered = 1
  MaxDrops = 2
  RateLimit = 1
  DatagramsPerTick = 1
  MaxIdleTicks = 1
  Chunks = {1, 2, 3}
  Contents = {0, 1}
  Empty = 0
  Around <- Near
  Bodies = {1, 2}
  MaxJobChunks = 1
  MaxJobBodies = 1
  MaxPendingChunks = 2
  MaxEpoch = 2
  MaxJobs = 4
CHECK_DEADLOCK FALSE
INVARIANTS
  SessionsMatchCore
  CancellationIsExact
  StaleMeshesAreQueued
PROPERTIES
  EndedConnectionsLeave
  MeshesSettle
  WorkerNeverHangs
