SPECIFICATION FairSpec
CONSTANTS
  Passes <- MCPasses
  Configs <- MCConfigs
  Roots <- MCRoots
  RootsOf <- MCRootsOf
  Covers <- MCCovers
  ListOf <- MCListOf
  Lists <- MCLists
  Files <- MCFiles
  Contents <- MCContents
  Malformed = Malformed
  Setups <- MCSetups
  MaxPanics = 1
  Panic = Panic
  None = None
INVARIANTS
  OneVerdict
  OneAllowlist
  OwnResult
  PassesAgreeWithAudit
PROPERTIES
  PassesEnd
