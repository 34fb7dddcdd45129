\* Clients that start requests whenever they like.
CONSTANTS
  Request = {r1, r2}
  Listener = {l1}
  ThrottleDuration = 1
  Client = "any"
SPECIFICATION Spec
INVARIANTS
  QuietIsAcceptable
  ListenersAgree
PROPERTIES
  AcceptableAgain
