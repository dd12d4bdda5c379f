SPECIFICATION Spec
CONSTANTS
  MaxReviewCycles = 2
  MaxAttempts = 2
  Refs = {r0, r1}
  Trees = {t0, t1}
  BaseRef = r0
  BaseTree = t0
  NoGit = NoGit
  MayOrphan = {"agent", "utility"}
  MaxEdits = 1
  MaxSignals = 1
INVARIANTS
  TypeOK
  AgentRunsBounded
  OnlyLastAttemptFails
  RetryStartsFromSameTree
  CancellationStopsTheLoop
  CancellationDecides
  PublishedIsAnnounced
  ApprovedTreeWasReviewed
  AgentOrphanQuarantined
PROPERTIES
  AgentStartsClean
VIEW View
