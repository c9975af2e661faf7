SPECIFICATION Spec
CONSTANTS
  Meters = {1}
  Readings <- MCReadings
  Outputs <- MCOutputs
  Commands <- MCCommands
  ConfirmAttempts = 2
  MaxExchanges = 4
  Late = TRUE
  Noise = FALSE
CHECK_DEADLOCK FALSE
INVARIANT SuccessIsReal
