SPECIFICATION Spec
CONSTANTS
  Paths <- MCPaths
  Given <- MCGiven
  Foreign <- MCForeign
  Written <- MCWritten
  Ignored <- MCIgnored
  Normalized <- MCNormalized
  Outside <- MCOutside
  MayStop = TRUE
  MaxEdits = 2
INVARIANTS
  PromotionTypeOK
  PatchIsTheDelta
  OnlyTheDeltaIsTouched
  PromotedIsWhole
  PromotedTreeIsTheClone
