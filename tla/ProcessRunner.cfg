SPECIFICATION FairSpec
CONSTANTS
  MaxChunks = 1
  MayOutlive = TRUE
INVARIANTS
  SignalBeforeExitWins
  SuccessIsComplete
  CountsMatchLog
  SinkHasOneUser
PROPERTIES
  LogStaysClosed
  Returns
  ImplementsContract
