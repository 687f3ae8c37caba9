SPECIFICATION Spec
CONSTANTS
  r1 = r1
  r2 = r2
  r3 = r3
  Requests = {r1, r2}
  Stalled = {}
  PoolSize = 1
  IndexRange = 8
  ChannelCapacity = 1
  MaxItems = 2
SYMMETRY Symmetry
INVARIANTS
  GaugeReturnsToZero
