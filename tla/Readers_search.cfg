SPECIFICATION Spec
CONSTANTS
  Paths <- MCPaths
  MaxFiles = 4
  Forms = {"current", "more sections", "old"}
  SearchPaths <- MCSearchPaths
  MaxSearchFiles = 3
  Patches <- MCPatches
  Names = {"f", "g", "h"}
  Gap = 2
  MaxOps = 5
  Profiles <- MCProfiles
  MaxBlocks = 3
  ProfFiles = {"f", "g"}
  IntLimit = 4
CHECK_DEADLOCK FALSE
INVARIANT SearchReturnsAncestors
