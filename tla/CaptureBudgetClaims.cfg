SPECIFICATION BudgetSpec
CONSTANTS
  DESKTOP_PREPARE_TIMEOUT = 6
  DEFAULT_BUDGET = 42
  WORST_CASE_STARTUP = 5
  CAPTURE_HARD_TIMEOUT = 52
  ACCEPT_TIMEOUT = 3
  CAPTURE_CLIENT_TIMEOUT = 62
  NoAnswer = NoAnswer
INVARIANT
  TrueWorstCase
