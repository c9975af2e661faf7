SPECIFICATION Spec
CONSTANTS
  Callers = {c1, c2}
  Requests <- MCMismatches
  MaxExchanges = 3
  Late = TRUE
  Noise = TRUE
SYMMETRY MCSymmetry
CHECK_DEADLOCK FALSE
INVARIANTS OneAtATime AnswerIsUsedUp
