SPECIFICATION Spec
CONSTANTS
  r1 = r1
  r2 = r2
  r3 = r3
  r4 = r4
  Requests = {r1, r2, r3, r4}
  Arguments = {0, 1}
  Parallelism = 2
  IndexRange = 3
  MaxVersion = 1
SYMMETRY Symmetry
INVARIANTS
  ServesWithWholePool
  RoundRobin
  StaleHeaderOnce
PROPERTIES
  FreshRead
