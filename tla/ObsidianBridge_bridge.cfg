CONSTANTS
  Owners = {o1, o2}
  Requests = {q1}
  MaxConfigs = 3
  MaxCloses = 2
SPECIFICATION BridgeFairSpec
INVARIANTS BridgeSound HeldFresh
PROPERTIES Comes Informed
CHECK_DEADLOCK FALSE
