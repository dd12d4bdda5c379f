SPECIFICATION Spec
CONSTANTS
  MaxFaults = 3
  MaxAttemptRecords = 2
INVARIANTS
  AnsweredAsRecorded
  NoTemporaryLeft
  LoopIsRecorded
  BootstrapErrorIsNamed
PROPERTIES
  KeepsContract
CHECK_DEADLOCK FALSE
