SPECIFICATION Spec
CONSTANTS
  Objects <- AllObjects
  Bytes <- OneEach
  Locality = 1
  SramCapacity = 1
  DramCapacity = 2
  Matrix <- OneStream
  Streams <- AllStreams
  Lookahead = 3
  Warmup = 1
  UsefulWindow = 1
  QueueDepth = 4
  ReadLatency = 2
  FlashRate = 1
  ComputeTime = 2
INVARIANTS
  SettledAtMostOnce
CHECK_DEADLOCK FALSE
