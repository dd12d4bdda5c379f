SPECIFICATION Spec
CONSTANTS
  MaxReviewCycles = 1
  MaxAttempts = 1
  Refs = {r0, r1}
  Trees = {t0, t1}
  BaseRef = r0
  BaseTree = t0
  NoGit = NoGit
  MayOrphan = {}
  MaxEdits = 0
  MaxSignals = 1
INVARIANTS
  HandledSignalFailsTheRun
