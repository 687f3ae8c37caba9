SPECIFICATION Spec
CONSTANTS
  r1 = r1
  r2 = r2
  r3 = r3
  s1 = s1
  c1 = c1
  c2 = c2
  Requests = {r1, r2, r3}
  Readers = {}
  Clients = {c1, c2}
  Events <- MCEvents
  RingSize = 2
  MaxRecent = 2
  InOrder = FALSE
  MaxLag = 2
  MaxTime = 4
SYMMETRY Symmetry
INVARIANTS
  TypeOK
  AtRestConsistent
  HistoryIsExact
  RecentIsNewest
CHECK_DEADLOCK FALSE
