SPECIFICATION Spec
CONSTANTS
  Shapes <- MCShapes
INVARIANTS
  RecordsByScope
  ScopesBalance
  OwnerIsTopLevel
CHECK_DEADLOCK FALSE
