SPECIFICATION FairSpec
CONSTANTS
  p1 = p1
  p2 = p2
  p3 = p3
  v0 = v0
  v1 = v1
  v2 = v2
  Proposals = {p1, p2, p3}
  Changes <- MCChanges
  Tags <- MCTags
  Headings <- MCHeadings
  TagOf <- MCTagOf
  Released = "0"
  NoHeading = NoHeading
  Same = Same
  Plain = Plain
  Malformed = Malformed
  None = None
  Skipped = Skipped
  Refused = Refused
  MaxMishaps <- MCMaxMishaps
INVARIANTS
  TagsAnnounce
  GreenIsPublished
  RefusedForCause
PROPERTIES
  ImplementsRegister
  AcceptedIsPublished
CHECK_DEADLOCK FALSE
