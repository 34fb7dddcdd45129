\* A screen follows another when the executors have nothing left to do.
CONSTANTS
  Post = {p1, p2, p3}
  Screen = {s1, s2}
  None = None
  Reopen = "drained"
SPECIFICATION Spec
INVARIANTS
  TypeOK
  OwnStatus
PROPERTIES
  NoCallbackAfterCancel
  NoHandlerAfterCancel
  OutcomeReported
\* An exception of the application's handler ends the process.
CHECK_DEADLOCK FALSE
