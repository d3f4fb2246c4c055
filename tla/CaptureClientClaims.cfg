SPECIFICATION Spec
CONSTANTS
  c1 = c1  c2 = c2
  i1 = i1  i2 = i2  i3 = i3  i4 = i4
  None = None
  Free = "free"
  Other = "other"
  OK = "ok"
  Clients <- TwoClients
  Ids <- FourIds
  Answers <- TwoAnswers
  RESULT_HISTORY = 2
  MAX_POLL_FAILURES = 2
  CAPTURE_ATTEMPTS = 2
  MaxRestarts = 1
CHECK_DEADLOCK FALSE
PROPERTY
  LostMeansRestart
