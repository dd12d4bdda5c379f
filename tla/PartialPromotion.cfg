SPECIFICATION Spec
CONSTANTS
  Paths <- MCPaths
  Given <- MCGiven
  Foreign <- MCForeign
  Written <- MCWritten
  Ignored <- MCIgnored
  Normalized <- MCNormalized
  Outside <- MCOutside
  MayStop = FALSE
  MaxEdits = 0
INVARIANTS
  BlockedLeavesTheTarget
