SPECIFICATION VmSpec
CONSTANTS
  r1 = r1
  r2 = r2
  r3 = r3
  VmRuns <- MCRuns
  NoRun = NoRun
  AfterRuns <- AnyAfterRun
  Hands <- AnyHand
  MaxMisfortunes = 2
SYMMETRY Symmetry
CHECK_DEADLOCK FALSE
INVARIANTS NoVmIsPulled LeftAsFound
PROPERTIES CutTakesARace
