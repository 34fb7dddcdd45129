\* A field that is edited and restored.
CONSTANTS
  Kinds = {"number", "expiration"}
  Pieces <- MCPieces
  Keys <- MCKeys
  Dates <- MCDates
  MaxEdits = 3
SPECIFICATION Spec
INVARIANTS
  TypeOK
  Formatted
  DigitsKept
  MistypedIsRejected
  ExpirationJudged
PROPERTIES
  CursorKept
\* Editing ends at the bound.
CHECK_DEADLOCK FALSE
