SPECIFICATION FairSpec
CONSTANTS
  MaxReviewCycles = 1
  MaxAttempts = 2
  Refs = {r0}
  Trees = {t0, t1}
  BaseRef = r0
  BaseTree = t0
  NoGit = NoGit
  MayOrphan = {"agent"}
  MaxEdits = 0
  MaxSignals = 1
PROPERTIES
  Termination
