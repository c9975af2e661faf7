SPECIFICATION Spec
CONSTANTS
  Publishers = {p1, p2}
  SessionCount = 1
  FrameCount = 2
  MaxRetransmits = 2
  Clock <- MCClock
  MaxBusiness = 5
  Commands = {0, 1, 2, 3, 5}
  LossLists <- MCAnyLoss
  LateReplies = TRUE
CHECK_DEADLOCK FALSE
INVARIANTS TypeOK PendingTablesAgree RetransmissionBounded
