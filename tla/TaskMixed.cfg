\* Two tasks are used as the card form uses them, the third in every way.
CONSTANTS
  Call = {c1, c2, c3}
  Careful = {c1, c2}
  Answer = {"token", "envelope", "noEnvelope", "failure"}
  MaxStarts = 2
SPECIFICATION Spec
INVARIANTS
  TypeOK
  ToldOnce
  Notified
  Paired
PROPERTIES
  Ended
  NoSuccessAfterCancel
\* All tasks may be over, and a crash ends the process.
CHECK_DEADLOCK FALSE
