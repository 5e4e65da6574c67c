SPECIFICATION ReplicationSpec
CONSTANTS
  p1 = p1
  Peers <- OnePeer
  SnapshotFrames = 2
  SnapshotFramesPerTick = 1
  MaxPacketFrames = 1
  MaxRetainedPackets = 1
  MaxRetainedFrames = 2
  MaxCatchupPackets = 1
  MaxCatchupFrames = 2
  MaxQueuedRepairs = 1
  MaxRepairsPerTick = 1
  SnapshotCooldown = 1
  MaxPendingPackets = 2
  MaxPendingFrames = 4
  MaxCompletePackets = 1
  MaxCompleteFrames = 2
  MaxDeltas = 2
  MaxSnapshots = 2
  Redelivery = TRUE
  Losable = {"ack"}
  MaxLosses = 1
  Refusals = TRUE
  Patience = FALSE
  Columns = 3
  Levels = 2
  Matter <- Stones
  Resistance <- Resists
  BuildCost <- Resists
  FullIntegrity = 2
  Blasts <- SmallBlasts
  Scenes <- FewScenes
  Poses <- FewPoses
  UnitsAtStart = 2
  MaxCommands = 2
  Voxels = {1, 2, 3, 4, 5}
  Neighbors <- SpanNeighbors
  Anchors <- SpanPiers
  ChunkOf <- SpanChunks
  InitialWorld = {1, 2, 3, 4}
  InitialSeeds <- SpanSeed
  MaxPendingSeeds = 2
  MaxSeedChecks = 2
  MaxElasticNodes = 5
  MaxSnapshotChunks = 1
  MaxActiveBodies = 1
  MaxHits = 1
  FewEntries = {0, 2}
  CredentialSizes = {15, 16}
  MostLost = 2
  Datagrams = {1100, 1200}
CHECK_DEADLOCK FALSE
INVARIANTS
  NoReplicaRejection
  CatchupExact
  TransferLosesNothing
  AllOrNothing
  ReplicaMirrorsAuthority
  StaticIsSupported
  DirtyDomainsHaveSeeds
  NothingFloats
  DatagramsReadBack
  CommitsCanBeSent
PROPERTIES
  ImplementsReplicatedWorld
