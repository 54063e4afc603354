SPECIFICATION Spec
CONSTANTS
  Services = {1, 2}
  Queries = {3}
  Links = {v4}
  v4 = v4
  MAX_SEND_CREDITS_PER_DRAIN = 1
  MAX_CONSECUTIVE_ENCODE_ERRORS = 2
  GoodbyeRounds = 2
  Fanouts = {0, 1}
  Faulty = {1, 3}
  MaxDue = 1
INVARIANTS
  ClassifiesOnlySealed
  TurnsComeRound
  NothingLeftBehind
  NoWorkSleptOn
  OrphansCollected
  ReadersReleased
CHECK_DEADLOCK FALSE
