SPECIFICATION Spec
CONSTANTS
  RawRoots = {"./...", "p-x"}
  RootOf <- OverlappingRootOf
  Blank = Blank
  Walk <- MCWalk
  Sorted <- MCSorted
  DirOf <- MCDirOf
  Dirs <- MCDirs
  Below <- MCBelow
  UsesOf <- MCUsesOf
  RootLists <- Overlapping
  Excludes = {{"p/b"}}
  Worlds <- Generated
INVARIANTS
  FindingsAsDocumented
CHECK_DEADLOCK FALSE
