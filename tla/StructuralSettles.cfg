SPECIFICATION RuntimeSpec
CONSTANTS
  Voxels = {1, 2, 3, 4, 5}
  Neighbors <- PostNeighbors
  Anchors <- PostPiers
  ChunkOf <- PostChunks
  InitialWorld <- Posts
  InitialSeeds <- BothSeeds
  MaxPendingSeeds = 2
  MaxSeedChecks = 1
  MaxElasticNodes = 2
  MaxSnapshotChunks = 2
  MaxActiveBodies = 1
  MaxHits = 1
CHECK_DEADLOCK FALSE
PROPERTIES
  DirtyWorkSettles
  SeedsTakeTurns
