SPECIFICATION Spec
CONSTANTS
  Runs = {r1, r2, r3}
  Nobody = Nobody
INVARIANTS
  LeaseTypeOK
  OneHolder
  LaterRunsSeeTheMarker
PROPERTIES
  RefusalMeansHolder
