SPECIFICATION Spec
CONSTANTS
  s1 = s1  s2 = s2
  Sweep = Sweep
  ArmJob = ArmJob
  Sessions <- TwoSessions
SYMMETRY Symmetric
CHECK_DEADLOCK FALSE
INVARIANTS
  OneHolder
  HoldStopsMerge
  OnlyArmedIsRearmed
