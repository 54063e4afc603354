SPECIFICATION Spec
CONSTANTS
  None = None
  MaxInstant = 2
  Families = {v4, v6}
  v4 = v4
  v6 = v6
  Handles = {1, 2}
  RegNames = {0}
  LastSuffix = 1
  Subtyped = {1}
  Unencodable = {}
  EmitSets <- InstanceOrAll
  HostOnAll = TRUE
  WITHDRAWAL_SENDS = 1
  WITHDRAWAL_INTERVAL = 1
  WITHDRAWAL_RETRY_BACKOFF = 1
  WITHDRAWAL_CEILING = 1
  RelinquishedRetention = 1
  Outcomes = {"accepted", "refused"}
  MaxDefeats = 1
  MaxForced = 1
  Prompt = TRUE
  StrictDriver = TRUE
INVARIANTS InstanceRecordsCovered HostRecordsCovered EchoesDisowned
PROPERTIES NoGoodbyeOverLiveClaim
SYMMETRY FamilySymmetry
CHECK_DEADLOCK FALSE
