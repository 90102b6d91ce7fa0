SPECIFICATION Spec
CONSTANTS
  Shapes <- MCDeclarations
INVARIANTS
  ReportsEverySlot
CHECK_DEADLOCK FALSE
