SPECIFICATION FairSpec
CONSTANTS
  ChunkSize = 2
  ChannelCapacity = 2
  RecordSizes = {1, 3}
  MaxRows = 3
INVARIANTS
  TypeOK
  BytesInOrder
  RecordedOnce
  EventMatchesBody
  CleanEndIsWhole
  RecordedCoversDelivered
  FailureIsQueued
  ChunkSizes
PROPERTIES
  ImplementsResult
  WorkerEnds
  BodyEnds
