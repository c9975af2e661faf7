SPECIFICATION FairSpec
CONSTANTS
  Meters = {m1, m2}
  MaxConnections = 2
CHECK_DEADLOCK FALSE
INVARIANTS TypeOK PortOutlivesItsUsers OnlyAskedStopsAreClean WorkAwaitsSubscription
PROPERTIES EveryStopFinishes StopNeedsNoTimer
