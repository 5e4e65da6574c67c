SPECIFICATION FallingSpec
CONSTANTS
  Falling = {1, 2, 3}
  Top = 4
  Scale = 6
  Hz = 1
  Gravity <- Down
  Restitution = 500
  MinBounce = 2
  SleepTicks = 2
  MaxPairs = 2
  MaxEdits = 5
CHECK_DEADLOCK FALSE
INVARIANTS SnapshotInstalls
