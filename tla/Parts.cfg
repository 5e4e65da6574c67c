SPECIFICATION PartsSpec
CONSTANTS
  Fragments <- MixedPackets
  MaxPendingPackets = 2
  MaxPendingFrames = 3
  MaxCompletePackets = 2
  MaxCompleteFrames = 3
  Chains <- ThreeChains
  Anchor = 1
  ReloadEvery = 2
  Margin = 1
  ReloadTime = 1
  MaxAhead = 1
  MaxCertTime = 10
  Cells = {0, 1, 2}
  Spawns = {0}
  Hold = 1
  Broadcast = 1
  MaxPending = 2
  MaxViews = 2
  Subticks = 2
  MaxPlayerTick = 3
  MaxInput = 2
  MaxWorlds = 2
  MaxVisits = 1
  MinRto = 1
  InitialRto = 2
  MaxRto = 4
  MinGrace = 1
  InitialGrace = 1
  MaxGrace = 2
  Granularity = 1
  MaxTimerTime = 12
  LastDelta = 3
  Falling = {1, 2, 3}
  Top = 4
  Scale = 6
  Hz = 1
  Gravity <- Down
  Restitution = 500
  MinBounce = 2
  SleepTicks = 2
  MaxPairs = 2
  MaxEdits = 5
  page1 = page1
  Edge <- PageEdges
  Solids = {stone}
  Air = air
  WornAir = worn
  MaxLeaves = 8
  MaxPageEdits = 2
  Positions <- AroundZero
  ChunkEdge = 2
  Void = void
  Uniforms = {block}
  Refined = {page1}
  PageLeaves <- ThreeLeaves
  MaxChunks = 2
  MaxCells = 3
  MaxPages = 1
  MaxRefinedLeaves = 3
  MaxCheckpointBytes = 110
  MaxChanges = 2
  MaxTransactionLeaves = 4
  MaxSnapshotChunks = 1
  MaxSequence = 3
CHECK_DEADLOCK FALSE
INVARIANTS
  ReleasesWhatIsDue
  RenewalIsInTime
  OnlyTheLimitEnds
  SampleIsUnambiguous
  BodiesKeepApart
  PageIsContent
  OnlyCanonicalDecodes
  SurfaceIsBoundary
  ReadersKeepWhatTheyTook
  StorageIsExact
  EveryStateRestores
