SPECIFICATION HelloSpec
CONSTANTS
  a = a
  b = b
  Connections = {a, b}
  MaxHandshakes = 1
  MaxPeers = 2
  MaxControl = 1
  MaxGameplay = 1
  MaxBuffered = 1
  MaxDrops = 2
  RateLimit = 1
  DatagramsPerTick = 1
  MaxIdleTicks = 1
CHECK_DEADLOCK FALSE
INVARIANTS PeersAreAuthenticated
