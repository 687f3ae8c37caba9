SPECIFICATION Spec
CONSTANTS
  Quote = quote
  Comma = comma
  CR = cr
  LF = lf
  Others = {x, space}
  Spaces = {space}
  MaxColumns = 2
  MaxCells = 4
  MaxField = 2
  MaxText = 3
INVARIANTS RecordsInStep GridIsResult TableListIsExact
