SPECIFICATION Spec
CONSTANTS
  r1 = r1
  r2 = r2
  r3 = r3
  r4 = r4
  Requests = {r1}
  Arguments = {1}
  Parallelism = 1
  IndexRange = 3
  MaxVersion = 1
INVARIANTS
  HeaderNamesColumns
