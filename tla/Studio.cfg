SPECIFICATION Spec
CONSTANTS
  q1 = q1
  q2 = q2
  q3 = q3
  q4 = q4
  Texts = {q1, q2, q3, q4}
  MaxHistory = 3
  MaxCalls = 3
  MaxTimers = 2
SYMMETRY Symmetry
INVARIANTS
  StaleOnlyByOverlap
  PageAgreesAtRest
  HistoryIsRecency
