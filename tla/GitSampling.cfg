SPECIFICATION Spec
CONSTANTS
  Paths = {p, q}
  MaxEdits = 2
  MaxFailures = 1
INVARIANTS
  AgreementFramesTheGap
  UnsafeMeansEdited
PROPERTIES
  AcceptedStateWasReal
  IndeterminateHasACause
