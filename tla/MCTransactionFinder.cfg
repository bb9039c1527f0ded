\* Nothing is left to do when every client has its answer.
SPECIFICATION FairSpec
CONSTANTS
  Clients = {c1, c2, c3}
  Others = {o1}
  Token <- SharedTokens
INVARIANTS OwnDecision NotifyAssertsHold NothingLeftBehind HandlesStayValid
PROPERTIES EveryWaiterReturns
CHECK_DEADLOCK FALSE
