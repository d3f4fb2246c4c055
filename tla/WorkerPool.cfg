SPECIFICATION FairSpec
CONSTANTS
  w1 = w1  w2 = w2  w3 = w3
  a = a  b = b  c = c
  None = None
  Workers <- ThreeWorkers
  Items <- ThreeItems
  Order <- ThreeInOrder
  MAX_CONSECUTIVE_WORKER_FAILURES = 2
  UNREACHABLE_PROBES_BEFORE_RETIRE = 2
  MayBeUnusable = TRUE
  MayDegrade = TRUE
CHECK_DEADLOCK FALSE
INVARIANTS
  OnePlace
  BlameIsTheStreak
  ProgressAgrees
PROPERTIES
  RunEnds
