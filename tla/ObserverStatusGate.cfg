\* Clients that start a request only while the status is ACCEPTABLE.
CONSTANTS
  Request = {r1, r2}
  Listener = {l1}
  ThrottleDuration = 1
  Client = "status"
SPECIFICATION Spec
INVARIANT AcceptableMeansIdle
