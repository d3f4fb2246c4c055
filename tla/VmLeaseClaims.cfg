SPECIFICATION VmSpec
CONSTANTS
  r1 = r1
  r2 = r2
  r3 = r3
  VmRuns <- TwoRuns
  NoRun = NoRun
  AfterRuns <- Default
  Hands <- NoHand
  MaxMisfortunes = 1
CHECK_DEADLOCK FALSE
PROPERTIES StandsDown
\* and with this one instead:
\* INVARIANT StoppedAgain
