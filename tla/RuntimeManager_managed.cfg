CONSTANTS
  Instances = {r1, r2}
  None = None
  CrashLoopAt = 2
  MaxFaults = 1
  Closings = {"stop", "commit", "detach"}
SPECIFICATION FairSpec
CONSTRAINT Untroubled
INVARIANTS Sound StopMeansStopped
PROPERTY Answered
CHECK_DEADLOCK FALSE
