SPECIFICATION Spec
CONSTANTS
  Users = {"u1", "u2"}
  Requests = {r1, r2}
  MaxEntries = 3
  MaxFailures = 1
SYMMETRY MCSymmetry
INVARIANTS TypeOK OneDefault
PROPERTIES OthersUntouched
CHECK_DEADLOCK FALSE
