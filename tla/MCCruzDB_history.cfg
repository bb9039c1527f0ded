SPECIFICATION Spec
CONSTANTS
  Txns = {1, 2, 3, 4}
  Keys = {k1}
  Values = {v1}
  NoValue = NoValue
  NoToken = 0
  MaxOps = 2
  MaxOpens = 2
  MaxGcs = 1
  Limit = 2
CONSTRAINT Script
INVARIANT ReplayIsSequential
CHECK_DEADLOCK FALSE
