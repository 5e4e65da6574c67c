SPECIFICATION FairSpec
CONSTANTS
  p1 = p1
  Peers <- OnePeer
  SnapshotFrames = 1
  SnapshotFramesPerTick = 1
  MaxPacketFrames = 1
  MaxRetainedPackets = 1
  MaxRetainedFrames = 2
  MaxCatchupPackets = 2
  MaxCatchupFrames = 2
  MaxQueuedRepairs = 2
  MaxRepairsPerTick = 1
  SnapshotCooldown = 1
  MaxPendingPackets = 2
  MaxPendingFrames = 4
  MaxCompletePackets = 1
  MaxCompleteFrames = 2
  MaxDeltas = 1
  MaxSnapshots = 1
  Redelivery = FALSE
  Losable = {"ack"}
  MaxLosses = 1
  Refusals = FALSE
  Patience = TRUE
PROPERTY Converges
