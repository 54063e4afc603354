SPECIFICATION Spec
CONSTANTS
  None = None
  MaxInstant = 2
  Families = {"v4", "v6"}
  Handles = {1, 2}
  RegNames = {0, 1}
  LastSuffix = 2
  Subtyped = {1}
  Unencodable = {}
  EmitSets <- InstanceOrHost
  HostOnAll = FALSE
  WITHDRAWAL_SENDS = 1
  WITHDRAWAL_INTERVAL = 1
  WITHDRAWAL_RETRY_BACKOFF = 1
  WITHDRAWAL_CEILING = 1
  RelinquishedRetention = 0
  Outcomes = {"accepted", "refused"}
  MaxDefeats = 0
  MaxForced = 0
  Prompt = TRUE
  StrictDriver = TRUE
INVARIANT LastSiblingWithdrawsHost
CHECK_DEADLOCK FALSE
