SPECIFICATION Spec
CONSTANTS
  o1 = o1
  o2 = o2
  Objects = {o1, o2}
  None = None
  Threads = {t1, t2}
  Closers = {t2}
  Entries = {e1}
  Truncated = {}
  FixedBufferCount = 2
  BufferOf <- OwnBuffers
  DeferredCompletion = TRUE
  IOErrors = FALSE
  Preinitialized = TRUE
  Relayout = FALSE
  Fds = {3, 4}
  MaxRequests = 3
  MaxBatches = 2
INVARIANTS
  InFlightIsRead
