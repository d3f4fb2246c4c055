SPECIFICATION Spec
CONSTANTS
  r1 = r1
  r2 = r2
  r3 = r3
  Runs <- MCRuns
  None = None
SYMMETRY Symmetry
CHECK_DEADLOCK FALSE
INVARIANTS NobodyIsPulled LeftClean
