SPECIFICATION FairSpec
CONSTANTS
  None = None
  MaxInstant = 4
  Families = {"v4", "v6"}
  Handles = {1, 2}
  RegNames = {0, 1}
  LastSuffix = 1
  Subtyped = {1}
  Unencodable = {1}
  EmitSets <- Announcements
  HostOnAll = FALSE
  WITHDRAWAL_SENDS = 2
  WITHDRAWAL_INTERVAL = 2
  WITHDRAWAL_RETRY_BACKOFF = 1
  WITHDRAWAL_CEILING = 3
  RelinquishedRetention = 0
  Outcomes = {"accepted", "refused", "no_socket"}
  MaxDefeats = 0
  MaxForced = 1
  Prompt = TRUE
  StrictDriver = FALSE
PROPERTIES GoodbyesSpaced WithdrawalsEnd
CHECK_DEADLOCK FALSE
