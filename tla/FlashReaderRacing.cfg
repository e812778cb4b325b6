SPECIFICATION Spec
CONSTANTS
  o1 = o1
  o2 = o2
  Objects = {o1, o2}
  None = None
  Threads = {t1, t2, t3}
  Closers = {t1, t2, t3}
  Entries = {e1, e2}
  Truncated = {e2}
  FixedBufferCount = 2
  BufferOf <- SharedBuffer
  DeferredCompletion = TRUE
  IOErrors = TRUE
  Preinitialized = FALSE
  Relayout = FALSE
  Fds = {3, 4, 5}
  MaxRequests = 2
  MaxBatches = 2
SYMMETRY ThreadSymmetry
INVARIANTS
  TypeOK
  OneReadPerObject
  RequestAccounting
  BuffersBeforeUse
  PerObjectOrder
  DataInPlace
PROPERTIES
  ImplementsService
