SPECIFICATION Spec
CONSTANTS
  w1 = w1
  w2 = w2
  c1 = c1
  c2 = c2
  p1 = p1
  p2 = p2
  e1 = e1
  e2 = e2
  Workers <- MCWorkers
  Cases <- MCCases
  Pages <- MCPages
  Environments <- MCEnvironments
  Unknown = e2
  None = None
  Absent = Absent
  Torn = Torn
  MaxTakes = 3
SYMMETRY Symmetry
INVARIANT ReusedIsOneReading
\* and with this one instead:
\* PROPERTY UnansweredReusesNothing
