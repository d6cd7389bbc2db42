\* Any sequence of calls, the ones after the list of used pages went wrong
\* included.  A call that goes round for ever is the end of the program.
SPECIFICATION FileSpec
CONSTANTS
  MaxPages = 4
  Data = {d0, d1}
  Empty = d0
  Gone = Gone
INVARIANTS UsedListExact FreeListExact
PROPERTIES AllocationSucceeds LivePagesCanBeDeleted ImplementsContents
CHECK_DEADLOCK FALSE
