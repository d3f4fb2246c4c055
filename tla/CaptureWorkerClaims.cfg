SPECIFICATION Spec
CONSTANTS
  c1 = c1  c2 = c2
  i1 = i1  i2 = i2  i3 = i3
  None = None
  Conns <- TwoConns
  Ids <- ThreeIds
  RESULT_HISTORY = 2
  MAX_CONSECUTIVE_RECOVERIES = 2
  MAX_WARM_ATTEMPTS = 1
  MaxRuns = 3
INVARIANT
  RestartsAreBounded
