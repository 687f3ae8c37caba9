SPECIFICATION Spec
CONSTANTS
  r1 = r1
  r2 = r2
  r3 = r3
  s1 = s1
  c1 = c1
  c2 = c2
  Requests = {r1, r2}
  Readers = {s1}
  Clients = {c1}
  Events <- OneEvent
  RingSize = 2
  MaxRecent = 1
  InOrder = TRUE
  MaxLag = 2
  MaxTime = 4
SYMMETRY Symmetry
INVARIANTS
  PointsAreTrue
  SnapshotCoversSettled
CHECK_DEADLOCK FALSE
