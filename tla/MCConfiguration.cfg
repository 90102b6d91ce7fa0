SPECIFICATION Spec
CONSTANTS
  Blank = Blank
  Malformed = Malformed
  Absent = Absent
  None = None
  Disk <- MCDisk
  Links <- MCLinks
  ModuleDirs <- MCModuleDirs
  Generated <- MCGenerated
  TagOf <- MCTagOf
  DefaultAllowlist <- MCAllowlist
  Inputs <- MCInputs
INVARIANTS
  RootsReachPasses
  KeepsWhatIsWalked
  OneRepositoryPerModule
  TagsAsMeant
  ExcludesByTheRule
CHECK_DEADLOCK FALSE
