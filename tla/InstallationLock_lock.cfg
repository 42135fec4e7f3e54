CONSTANTS
  Processes = {p1, p2}
  Nobody = Nobody
  MayExit = {p1, p2}
SPECIFICATION LockFairSpec
INVARIANT MutualExclusion
PROPERTIES RefinesExclusiveLock Reclaimed
CHECK_DEADLOCK FALSE
