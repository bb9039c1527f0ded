SPECIFICATION Spec
CONSTANTS
  Txns = {t1, t2}
  Keys = {k1, k2}
  Values = {v1}
  NoValue = NoValue
  NoToken = NoToken
  MaxOps = 2
  MaxOpens = 1
  MaxGcs = 0
  Limit = 2
SYMMETRY KeyTxnSymmetry
INVARIANT NoStaleReadCommits
