CONSTANTS
  MaxInstance = 2
  MaxHead = 3
  MaxDrops = 2
  MaxGaps = 1
  MaxTroubles = 1
  MaxAsked = 1
  MaxTimers = 2
SPECIFICATION FairSpec
INVARIANTS Sound CutoverComplete
PROPERTIES RefinesReplica Converges
CHECK_DEADLOCK FALSE
