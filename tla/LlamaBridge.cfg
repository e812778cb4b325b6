SPECIFICATION FairBridgeSpec
CONSTANTS
  o1 = o1
  o2 = o2
  Objects = {o1, o2}
  None = None
  Threads = {t1, t2}
  Closers = {t1, t2}
  Entries = {e1}
  Truncated = {}
  FixedBufferCount = 2
  BufferOf <- SharedBuffer
  DeferredCompletion = TRUE
  IOErrors = TRUE
  Preinitialized = FALSE
  Relayout = FALSE
  Fds = {3, 4}
  MaxRequests = 3
  MaxBatches = 2
  EnablePrefetch = TRUE
  LookaheadTokens = 2
  MaxFuture = 3
  MaxDramLoads = 2
INVARIANTS
  WaitersAreServed
  QueueIsPrefetches
  
  ReadsOpenDevice
PROPERTIES
  CallsEnd
