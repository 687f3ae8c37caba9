SPECIFICATION FairSpec
CONSTANTS
  ChunkSize = 2
  ChannelCapacity = 2
  BatchSize = 2
  BatchCapacity = 2
  MaxRows = 6
INVARIANTS
  RowsConserved
  CleanEndIsWhole
PROPERTIES
  ImplementsResult
  WorkersEnd
  BodyEnds
