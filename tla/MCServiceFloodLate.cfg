SPECIFICATION Spec
CONSTANTS
  None = None
  MaxInstant = 6
  Families = {"v4", "v6"}
  PROBE_INTERVAL = 1
  INITIAL_PROBE_WAIT_MAX = 1
  TIEBREAK_DEFER_WAIT = 2
  ANNOUNCE_INTERVAL = 2
  RefreshInterval = 4
  MAX_PARTIAL_ANNOUNCE_SHIFT = 2
  MAX_PARTIAL_ROUNDS = 1
  CONFLICT_BURST_LEN = 2
  CONFLICT_BURST_WINDOW = 2
  CONFLICT_BACKOFF_MIN_WAIT = 3
  CONFLICT_REPROBE_MIN_INTERVAL = 2
  Owners = {"instance", "host", "sibling"}
  ProbeFirst = TRUE
  ReAnnounce = TRUE
  MAX_LEGACY_RESPONSES = 1
  ResponseWaits = {1}
  Kinds = {"ptr", "srv", "host"}
  ResponseSets = {{"ptr"}, {"srv", "host"}}
  InitialSuffix = 0
  LastSuffix = 2
  Taken = {1}
  Questions = {}
  PeerEvents = {"sibling"}
  MaxPeerEvents = 2
  QuietFrom = 99
  SocketOutcomes <- SingleStack
  MaxSendDelay = 0
  StrictDriver = TRUE
  Prompt = FALSE
PROPERTIES FloodFloorHeld
CHECK_DEADLOCK FALSE
