\* Nothing is left to do once the service is stopped and the appends are done.
SPECIFICATION FairSpec
CHECK_DEADLOCK FALSE
CONSTANTS
  Clients = {c1}
  OldLog <- NewLog
  Start = 2
  CacheSize = 20
  MaxOthers = 1
  MaxFills = 0
PROPERTIES EveryIntentionDelivered StopEnds
