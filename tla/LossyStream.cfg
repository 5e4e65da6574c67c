SPECIFICATION LossySpec
CONSTANTS
  p1 = p1
  Peers <- OnePeer
  SnapshotFrames = 2
  SnapshotFramesPerTick = 1
  MaxPacketFrames = 1
  MaxRetainedPackets = 1
  MaxRetainedFrames = 2
  MaxCatchupPackets = 2
  MaxCatchupFrames = 2
  MaxQueuedRepairs = 3
  MaxRepairsPerTick = 1
  SnapshotCooldown = 1
  MaxPendingPackets = 2
  MaxPendingFrames = 4
  MaxCompletePackets = 1
  MaxCompleteFrames = 2
  MaxDeltas = 2
  MaxSnapshots = 3
  Redelivery = FALSE
  Losable = {"delta", "request", "snapshot"}
  MaxLosses = 2
  Refusals = FALSE
  Patience = TRUE
PROPERTIES
  JoinCompletes
  GapCloses
  ConvergesUndisturbed
