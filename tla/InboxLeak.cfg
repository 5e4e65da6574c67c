SPECIFICATION Spec
CONSTANTS
  Fragments <- SplitPackets
  MaxPendingPackets = 2
  MaxPendingFrames = 8
  MaxCompletePackets = 2
  MaxCompleteFrames = 8
INVARIANT MissingPacketAdmitted
CHECK_DEADLOCK FALSE
