\* Nothing is left to do once the service is stopped and the appends are done.
SPECIFICATION Spec
CHECK_DEADLOCK FALSE
CONSTANTS
  Clients = {c1, c2}
  OldLog <- ClosedLog
  Start = 5
  CacheSize = 4
  MaxOthers = 0
  MaxFills = 1
SYMMETRY ClientSymmetry
INVARIANTS IntentionsInOrder MissedOnlyIfReadAhead
