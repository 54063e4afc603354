SPECIFICATION QFairSpec
CONSTANTS
  None = None
  MaxInstant = 3
  Families = {"v4", "v6"}
  PROBE_INTERVAL = 1
  INITIAL_PROBE_WAIT_MAX = 0
  TIEBREAK_DEFER_WAIT = 1
  ANNOUNCE_INTERVAL = 1
  RefreshInterval = 1
  MAX_PARTIAL_ANNOUNCE_SHIFT = 1
  MAX_PARTIAL_ROUNDS = 1
  MAX_RETRIES = 1
  INITIAL_SECS = 1
  MAX_SECS = 2
  MaxAnswers = 1
  MAX_QUERY_EVENT_BACKLOG = 1
  Timeouts = {None, 2}
  Rdata = {1, 2}
  Outcomes = {"accepted", "refused", "refused_permanent"}
  MaxAccepted = 3
INVARIANTS QueryNeverForgotten BudgetSpentOnTheWire AnswersAccounted
PROPERTIES ReaderIsReleased
CHECK_DEADLOCK FALSE
