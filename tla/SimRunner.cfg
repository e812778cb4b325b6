SPECIFICATION Spec
CONSTANTS
  Objects <- AllObjects
  Bytes <- ByNumber
  Locality = 1
  SramCapacity = 2
  DramCapacity = 3
  Matrix <- TwoRuns
  Streams <- AllStreams
  Lookahead = 2
  Warmup = 2
  UsefulWindow = 1
  QueueDepth = 4
  ReadLatency = 2
  FlashRate = 1
  ComputeTime = 2
INVARIANTS
  TypeOK
  TouchFindsEntry
  SramExact
  WithinCapacity
  LoopAsStated
  SramIsLru
  DriftIsPrefetched
  MissesWerePrefetched
  EventsPartition
  PrefetchesSettled
CHECK_DEADLOCK FALSE
