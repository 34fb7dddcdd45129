\* A form and its verifications; the process is only killed while the form has
\* nothing going on.
CONSTANTS
  HasHandler = TRUE
  Death = "quiet"
  MaxTasks = 5
  MaxStops = 2
SPECIFICATION SessionSpec
INVARIANTS
  TypeOK
  OneOperation
  LockedForAReason
  ViewIsTrue
  ServedOnce
  FlowTypeOK
PROPERTIES
  LoadingShown
  FormWaitsForFlow
  FormUnlocks
  SessionUnlocks
  ImplementsVerification
\* A screen ends.
CHECK_DEADLOCK FALSE
