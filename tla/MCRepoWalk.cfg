SPECIFICATION Spec
CONSTANTS
  RawRoots <- MCRawRoots
  RootOf <- MCRootOf
  Blank = Blank
  Walk <- MCWalk
  Sorted <- MCSorted
  DirOf <- MCDirOf
  Dirs <- MCDirs
  Below <- MCBelow
  UsesOf <- MCUsesOf
  RootLists <- MCRootLists
  Excludes <- MCExcludes
  Worlds <- MCWorlds
INVARIANTS
  CollectsByTheRule
  SlicesAreFiles
  WalkFailsClosed
  PassesReportAll
CHECK_DEADLOCK FALSE
