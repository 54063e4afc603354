SPECIFICATION FairSpec
CONSTANTS
  None = None
  MaxInstant = 5
  RRSets = {srv, a}
  Rdatas = {x, y}
  Ttls = {0, 2, 5}
  OneSecond = 2
  MaxEntries = 2
  PoolCapacity = 3
  MaxEvents = 1
INVARIANTS CacheBounded GoodbyeTakesEffect FlushTakesEffect CutShortOnlyWithCause
PROPERTIES WithdrawnIsForgotten
