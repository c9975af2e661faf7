SPECIFICATION Spec
CONSTANTS
  Publishers = {p1, p2}
  SessionCount = 2
  FrameCount = 2
  MaxRetransmits = 1
  Clock <- MCClock
  MaxBusiness = 4
  Commands = {0, 2}
  LossLists <- MCLost
  LateReplies = FALSE
SYMMETRY MCSymmetry
CHECK_DEADLOCK FALSE
INVARIANTS PendingTablesAgree OkMeansAccepted
PROPERTIES BusinessIdsGrow ImplementsReporting
