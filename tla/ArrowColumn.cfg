SPECIFICATION ColumnSpec
CONSTANTS
  BatchSize = 2
  MaxKeywords = 2
  MaxRows = 3
INVARIANTS RowsKeepTheirPlace DeclaredTypeKeeps SampledTypeKeeps AppendersAgree
