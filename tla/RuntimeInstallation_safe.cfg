CONSTANTS
  Vaults = {v1}
  Versions = {n1, n2}
  Operations = {o1, o2, o3}
  None = None
  CrashPoints <- SafeCrashPoints
  IOFailures <- SafeFailures
  InitiallyDamaged = {}
  MaxCrashes = 2
SPECIFICATION Spec
INVARIANTS ActiveIntact RecoveryAdmitted PriorRetained
PROPERTIES RollbackExact AcceptedIsActive
SYMMETRY OperationSymmetry
CHECK_DEADLOCK FALSE
