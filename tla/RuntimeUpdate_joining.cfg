CONSTANTS
  Views = {v1, v2}
  Boot = boot
  MaxFaults = 2
  MaxRestarts = 1
SPECIFICATION FairSpec
INVARIANT Sound
PROPERTIES Answered DeferredTakenUp
CHECK_DEADLOCK FALSE
