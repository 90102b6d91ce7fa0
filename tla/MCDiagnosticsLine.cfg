SPECIFICATION Spec
CONSTANTS
  Texts <- MCDirectives
  MaxEdits = 0
  None = None
INVARIANTS
  ExactCoordinates
CHECK_DEADLOCK FALSE
