SPECIFICATION FairSpec
CONSTANTS
  p1 = p1
  Peers <- OnePeer
  SnapshotFrames = 1
  SnapshotFramesPerTick = 1
  MaxPacketFrames = 1
  MaxRetainedPackets = 3
  MaxRetainedFrames = 3
  MaxCatchupPackets = 1
  MaxCatchupFrames = 2
  MaxQueuedRepairs = 2
  MaxRepairsPerTick = 1
  SnapshotCooldown = 1
  MaxPendingPackets = 2
  MaxPendingFrames = 4
  MaxCompletePackets = 1
  MaxCompleteFrames = 2
  MaxDeltas = 3
  MaxSnapshots = 1
  Redelivery = FALSE
  Losable = {"delta"}
  MaxLosses = 1
  Refusals = FALSE
  Patience = TRUE
PROPERTY HeldDeltasRelease
