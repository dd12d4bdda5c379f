SPECIFICATION Spec
CONSTANTS
  Paths = {p}
  MaxEdits = 1
  MaxFailures = 0
PROPERTIES
  RestingTargetIsDeterminate
