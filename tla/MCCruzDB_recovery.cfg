SPECIFICATION Spec
CONSTANTS
  Txns = {t1, t2, t3}
  Keys = {k1, k2}
  Values = {v1}
  NoValue = NoValue
  NoToken = NoToken
  MaxOps = 1
  MaxOpens = 2
  MaxGcs = 0
  Limit = 1
SYMMETRY KeyTxnSymmetry
INVARIANTS TypeOK FirstCommitterWins TreesMatchLog OutcomesHoldWithoutSelfConflict AssertsHoldWithoutSelfConflict
PROPERTIES IsSerialHistory RestorePointAdvances
