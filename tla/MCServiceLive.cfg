SPECIFICATION FairSpec
CONSTANTS
  None = None
  MaxInstant = 22
  Families = {"v4", "v6"}
  PROBE_INTERVAL = 1
  INITIAL_PROBE_WAIT_MAX = 0
  TIEBREAK_DEFER_WAIT = 2
  ANNOUNCE_INTERVAL = 2
  RefreshInterval = 5
  MAX_PARTIAL_ANNOUNCE_SHIFT = 1
  MAX_PARTIAL_ROUNDS = 1
  CONFLICT_BURST_LEN = 2
  CONFLICT_BURST_WINDOW = 2
  CONFLICT_BACKOFF_MIN_WAIT = 3
  CONFLICT_REPROBE_MIN_INTERVAL = 2
  Owners = {"instance", "host", "sibling"}
  ProbeFirst = TRUE
  ReAnnounce = TRUE
  MAX_LEGACY_RESPONSES = 1
  ResponseWaits = {1}
  Kinds = {"srv"}
  ResponseSets = {}
  InitialSuffix = 0
  LastSuffix = 1
  Taken = {}
  Questions = {}
  PeerEvents = {"owner", "proposal", "sibling"}
  MaxPeerEvents = 2
  QuietFrom = 2
  SocketOutcomes <- OneSound
  MaxSendDelay = 0
  StrictDriver = TRUE
  Prompt = TRUE
INVARIANTS NoLostWakeup RefreshNotLate
PROPERTIES Settles SettlingWindow
CHECK_DEADLOCK FALSE
