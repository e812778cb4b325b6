SPECIFICATION Spec
SYMMETRY Symmetry
CONSTANTS
  NumSlots = 2
  SlotSize = 1
  Objects = {o1, o2, o3}
  Deadlines = {d1}
  None = None
  Callers = {TRUE, FALSE}
INVARIANTS
  TypeOK
  UniqueResidency
  ReadyMeansMarked
PROPERTIES
  ReuseGoesThroughFree
  EvictionOrder
