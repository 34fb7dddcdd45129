\* Clients that wait for the callback of their previous request.
CONSTANTS
  Request = {r1, r2, r3}
  Listener = {l1}
  ThrottleDuration = 1
  Client = "callback"
SPECIFICATION Spec
INVARIANTS
  TypeOK
  RunningWhileInFlight
PROPERTIES
  ThrottleKept
  KeepsContract
