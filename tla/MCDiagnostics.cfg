SPECIFICATION Spec
CONSTANTS
  Texts <- MCTexts
  MaxEdits = 1
  None = None
INVARIANTS
  InsideLine
  ReportedAtToken
  SilencedByItsComment
CHECK_DEADLOCK FALSE
