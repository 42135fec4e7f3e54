CONSTANTS
  Channels = {c1}
  Utility = utility
  MaxAttempts = 2
  MaxRuntimes = 2
  MaxBinds = 2
  MaxFaults = 3
  Mishaps = {"terminal"}
SPECIFICATION FairSpec
INVARIANT Sound
PROPERTIES Answered Recovers
CHECK_DEADLOCK FALSE
