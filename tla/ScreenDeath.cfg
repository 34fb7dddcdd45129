\* The process may be killed in the middle of an operation.
CONSTANTS
  HasHandler = FALSE
  Death = "any"
  MaxTasks = 3
  MaxStops = 2
SPECIFICATION Spec
INVARIANT LockedForAReason
CHECK_DEADLOCK FALSE
