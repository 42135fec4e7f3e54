CONSTANTS
  Files = {f1}
  MaxTexts = 3
  MaxSends = 2
SPECIFICATION Spec
INVARIANTS Consistent Once Freed
CONSTRAINT Untangled
CHECK_DEADLOCK FALSE
