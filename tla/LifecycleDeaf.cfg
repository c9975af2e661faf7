SPECIFICATION FairSpec
CONSTANTS
  Meters = {m1}
  MaxConnections = 2
CHECK_DEADLOCK FALSE
PROPERTY ReconnectionsListen
