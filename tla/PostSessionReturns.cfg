SPECIFICATION FairSpec
CONSTANTS
  Publishers = {p1, p2}
  SessionCount = 2
  FrameCount = 2
  MaxRetransmits = 1
  Clock <- MCStillClock
  MaxBusiness = 3
  Commands = {0, 3}
  LossLists <- MCLost
  LateReplies = TRUE
CHECK_DEADLOCK FALSE
PROPERTIES EveryPublishReturns StopReleasesPublishers
