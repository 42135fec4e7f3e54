CONSTANTS
  Vaults = {v1}
  Versions = {n1, n2}
  Operations = {o1, o2}
  None = None
  CrashPoints <- AllCrashPoints
  IOFailures <- AllFailures
  InitiallyDamaged = {n1}
  MaxCrashes = 2
SPECIFICATION Spec
INVARIANT TypeOK
PROPERTIES BackupKeptUntilAccepted JournalNotOverwritten
SYMMETRY OperationSymmetry
CHECK_DEADLOCK FALSE
