\* A proxy between the application and the API answers with a page of its own.
CONSTANTS
  Call = {c1}
  Careful = {c1}
  Answer = {"token", "malformed", "failure"}
  MaxStarts = 1
SPECIFICATION Spec
INVARIANT Notified
CHECK_DEADLOCK FALSE
