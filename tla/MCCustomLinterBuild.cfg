SPECIFICATION FairSpec
CONSTANTS
  Smokes = {s}
  Builders = {b}
  None = None
  Torn = Torn
  Empty = Empty
  MaxEdits = 2
  MaxKills = 1
INVARIANTS
  LabelNeverAhead
  LabelIsBinary
  RunsCurrent
PROPERTIES
  EventuallyFresh
CHECK_DEADLOCK FALSE
