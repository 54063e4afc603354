SPECIFICATION Spec
CONSTANTS
  None = None
  MaxInstant = 5
  Families = {"v4"}
  PROBE_INTERVAL = 1
  INITIAL_PROBE_WAIT_MAX = 0
  TIEBREAK_DEFER_WAIT = 2
  ANNOUNCE_INTERVAL = 2
  RefreshInterval = 4
  MAX_PARTIAL_ANNOUNCE_SHIFT = 2
  MAX_PARTIAL_ROUNDS = 1
  CONFLICT_BURST_LEN = 2
  CONFLICT_BURST_WINDOW = 2
  CONFLICT_BACKOFF_MIN_WAIT = 3
  CONFLICT_REPROBE_MIN_INTERVAL = 2
  Owners = {"instance", "host", "sibling"}
  ProbeFirst = TRUE
  ReAnnounce = FALSE
  MAX_LEGACY_RESPONSES = 1
  ResponseWaits = {1}
  Kinds = {"ptr", "srv", "nsec", "host"}
  ResponseSets = {{"ptr"}, {"srv", "nsec", "host"}}
  InitialSuffix = 0
  LastSuffix = 2
  Taken = {1}
  Questions = {"mdns", "meta", "legacy"}
  PeerEvents = {"owner", "relinquished", "proposal", "host", "sibling"}
  MaxPeerEvents = 2
  QuietFrom = 99
  SocketOutcomes <- AllOutcomes
  MaxSendDelay = 1
  StrictDriver = FALSE
  Prompt = TRUE
INVARIANTS GoodbyesAreExact DefeatOnlyBeforeClaim
PROPERTIES ClaimsWaitForProbes FloodFloorHeld
CHECK_DEADLOCK FALSE
