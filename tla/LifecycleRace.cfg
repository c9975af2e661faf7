SPECIFICATION Spec
CONSTANTS
  Meters = {m1, m2}
  MaxConnections = 2
SYMMETRY MCSymmetry
CHECK_DEADLOCK FALSE
INVARIANT OrderlyStopIsClean
