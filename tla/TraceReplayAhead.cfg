SPECIFICATION Spec
CONSTANTS
  NumSlots = 3
  SlotSize = 1
  Objects = {o1, o2, o3}
  Deadlines = {d1}
  None = None
  Entries = {e1}
  Truncated = {}
  Traces <- Traces3
  Prefetch = TRUE
  Lookahead = 2
  IOErrors = FALSE
  MaxReplays = 1
INVARIANTS
  PrefetchServesDemand
CHECK_DEADLOCK FALSE
