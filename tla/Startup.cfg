SPECIFICATION Spec
CONSTANTS
  Texts <- MCTexts
  Files <- MCFiles
  Environments <- MCEnvironments
  Sizes = {1, 2, 3, 4, 5, 6, 7, 9, 10}
  Losses <- MCLosses
  TrimSpace <- MCTrimSpace
  ToLower <- MCToLower
  ToUpper <- MCToUpper
  Limit = 3
CHECK_DEADLOCK FALSE
INVARIANTS TypeOK PortNeverLeaks RoutesReachTheirMeters ReportsRejoin ResendIsTheLoss
