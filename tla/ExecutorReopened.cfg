\* A screen follows another as soon as that is cleared.
CONSTANTS
  Post = {p1, p2}
  Screen = {s1, s2}
  None = None
  Reopen = "cleared"
SPECIFICATION Spec
INVARIANT OwnStatus
CHECK_DEADLOCK FALSE
