SPECIFICATION FairSpec
CONSTANTS
  Meters = {1, 2}
  Channels = {1}
  Ids = {"a", "b"}
  Requests <- MCRequests
  QueueCapacity = 1
  CacheSize = 2
  ConfirmAttempts = 2
INVARIANTS TypeOK NoRepeatInWindow AckIsForThisCommand SuccessMeansMoved
PROPERTIES EveryCommandAnswered ImplementsAckLog ImplementsDigitalOutput
