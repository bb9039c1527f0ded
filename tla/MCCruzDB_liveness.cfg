SPECIFICATION FairSpec
CONSTANTS
  Txns = {t1, t2}
  Keys = {k1, k2}
  Values = {v1}
  NoValue = NoValue
  NoToken = NoToken
  MaxOps = 1
  MaxOpens = 1
  MaxGcs = 1
  Limit = 1
INVARIANT AbortsAreJustified
PROPERTIES CommitCallReturns RootsBecomeDurable FinishedTreesDropped
