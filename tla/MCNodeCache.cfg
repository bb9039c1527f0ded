\* Nothing is left to do once the cache is stopped.
SPECIFICATION FairSpec
CHECK_DEADLOCK FALSE
CONSTANTS
  Readers = {r1}
  Sizes <- MCSizes
  Kids <- MCKids
  Slots = 2
  Limit = 3
  NodeBytes = 3
  ImapSize = 1
  MaxReads = 1
  MaxEvents = 1
INVARIANTS CacheAssertsHold FetchesAreAnswered AddressesMatchLog CachedUnderPrimary WakeUpNotLost
PROPERTIES FetchReturns VacuumEnforcesLimit
