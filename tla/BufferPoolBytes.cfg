SPECIFICATION Spec
CONSTANTS
  NumSlots = 3
  SlotSize = 1
  Objects = {o1, o2, o3}
  Deadlines = {d1}
  None = None
  Callers = {TRUE}
INVARIANT UsedBytesTracksOccupancy
