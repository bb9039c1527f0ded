SPECIFICATION Spec
CONSTANTS
  Txns = {t1, t2}
  Keys = {k1}
  Values = {v1}
  NoValue = NoValue
  NoToken = NoToken
  MaxOps = 1
  MaxOpens = 2
  MaxGcs = 1
  Limit = 2
SYMMETRY KeyTxnSymmetry
INVARIANT OutcomesHold
