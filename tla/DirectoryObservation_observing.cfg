SPECIFICATION FairSpec
CONSTANTS
  QueueLimit = 2
  MaxAttempts = 2
  MaxRenames = 4
  MaxDrops = 2
  MaxFaults = 4
  Disposing = TRUE
INVARIANTS
  Sound
PROPERTIES
  RefinesMirror
  Converges
CHECK_DEADLOCK FALSE
