SPECIFICATION TrunkSpec
CONSTANTS
  r1 = r1  r2 = r2  r3 = r3
  product = product  org = org  lint = lint
  Runs <- TwoRuns
  Tests <- AllThree
  Suite <- ProductAndOrg
  Rechecked <- Product
  MaxCommit = 2
  MaxFlakes = 1
  None = None
CHECK_DEADLOCK FALSE
INVARIANT
  StillPassesBefore
\* and with this one instead:
\* INVARIANT GateFailureIsOwn
