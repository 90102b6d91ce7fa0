SPECIFICATION Spec
CONSTANTS
  Keys <- MCKeys
  RawKeys <- MCRawKeys
  KeyOf <- MCKeyOf
  Positions <- MCPositions
  Allowlists <- MCAllowlists
  Collections <- MCCollections
  Suppressed <- MCSuppressed
  None = None
INVARIANTS
  TypeOK
  OneFindingPerEntry
  ReportsTheRest
  VerdictByTheRules
CHECK_DEADLOCK FALSE
