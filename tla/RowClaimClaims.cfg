SPECIFICATION Spec
CONSTANTS
  s1 = s1  s2 = s2  s3 = s3
  None = None
  Released = Released
  Sessions <- ThreeSessions
  MaxCommands = 5
  MaxThrows = 1
CHECK_DEADLOCK FALSE
PROPERTIES
  BegunWithoutRace
\* and with this one instead:
\* INVARIANT HeldIsInProgress
