SPECIFICATION FairSpec
CONSTANTS
  r1 = r1
  r2 = r2
  r3 = r3
  Requests = {r1, r2, r3}
  Stalled = {r1}
  PoolSize = 2
  IndexRange = 8
  ChannelCapacity = 1
  MaxItems = 2
INVARIANTS
  GaugeIsExact
  NobodyWaitsInVain
PROPERTIES
  Isolation
