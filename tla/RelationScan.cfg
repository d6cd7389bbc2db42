SPECIFICATION Spec
CONSTANTS
  Scans = {s1, s2}
  NumBufs = 2
  MaxPages = 3
  MaxSlots = 2
  NULL = NULL
INVARIANTS PinsExact DirtyExact
PROPERTY ImplementsCursor
