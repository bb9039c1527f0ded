\* The instance is closed in the end, after which nothing happens.
SPECIFICATION FairSpec
CONSTANTS
    Intentions = {2, 3, 5}
    Unwatched = {1}
    MaxPos = 7
INVARIANTS AssertsHold NothingLost
PROPERTIES MapsToPrimary MatchDelivered
CHECK_DEADLOCK FALSE
