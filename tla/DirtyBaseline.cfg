SPECIFICATION Spec
CONSTANTS
  Runs = {r1, r2}
  Nobody = Nobody
INVARIANTS
  BaselineIsClean
