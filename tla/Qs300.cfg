SPECIFICATION Spec
CONSTANTS
  Meters = {1}
  Readings <- MCReadings
  Outputs <- MCOutputs
  Commands <- MCCommands
  ConfirmAttempts = 2
  MaxExchanges = 6
  Late = FALSE
  Noise = FALSE
CHECK_DEADLOCK FALSE
INVARIANTS TypeOK MeasurementsAreTheMeters SuccessIsReal AckAgreesWithItself StatusFollowsSuccess
PROPERTIES OnlyCommandedCoilsChange ImplementsDigitalOutput
