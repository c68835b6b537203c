SPECIFICATION Spec
CONSTANTS
  MaxUnits = 2
INVARIANTS LocalDrains
CHECK_DEADLOCK FALSE
