SPECIFICATION Spec
CONSTANTS
  None = None
  MaxInstant = 3
  SELF_SEND_TTL = 1
  MAX_SELF_SEND_ENTRIES = 2
  MAX_SELF_SEND_BYTES = 3
  WALL_STEP_TOLERANCE = 1
  RX_TIMESTAMP_GRAIN = 0
  v4 = v4
  v6 = v6
  SendFamilies = {v4, v6}
  Bodies <- Bodies2
  Steps <- StepsBothWays
  MaxSends = 2
  MaxSelfTicks = 2
  MaxPeers = 1
  MaxDisturbances = 2
  OCTET = 2
  OCTETS = 2
  SUBNET_REFRESH_INTERVAL = 2
  Confs <- ThreeConfs
  Sources <- SomeSources
  Destinations <- SomeDestinations
  MaxRenumbers = 1
  MaxLinkTicks = 2
  MDNS_PORT = 5353
  Tables <- TwoTables
  Packets <- SomePackets
  Families = {"v4", "v6"}
  FirstFamily = "v4"
  Identities = {1, 2, 3}
  MAX_RELINQUISHED_RRSETS = 1
  MAX_RELINQUISHED_IDENTITIES = 2
  Retention = 2
  Generations <- OneEach
  CONFLICT_BURST_LEN = 3
  CONFLICT_BURST_WINDOW = 2
  CONFLICT_BACKOFF_MIN_WAIT = 1
  Owners = {"instance", "host"}
  MaxConflicts = 6
  MaxFloodTicks = 9
SYMMETRY SocketSymmetry
INVARIANTS
  OwnEchoRecognised
  SuppressionBounded
  OnlyCurrentGenerationSilences
  OnLinkSound
  OnLinkComplete
  RoutesExactly
  DefeatsReachTheJudge
  OneProberYields
  LimitIsExact
  EpochIsFirstBurst
PROPERTIES
  KeepsPromise
CHECK_DEADLOCK FALSE
