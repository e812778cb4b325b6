SPECIFICATION FairSpec
CONSTANTS
  NumSlots = 2
  SlotSize = 1
  Objects = {o1, o2, o3}
  Deadlines = {d1}
  None = None
  Entries = {e1, e2}
  Truncated = {e2}
  Traces <- Traces3
  Prefetch = TRUE
  Lookahead = 2
  IOErrors = TRUE
  MaxReplays = 2
INVARIANTS
  TypeOK
  NoDuplicateResidency
  EventsAccounted
  ResidueBounded
  OwnLayout
  HitsArePaidFor
PROPERTIES
  ReplayEnds
CHECK_DEADLOCK FALSE
