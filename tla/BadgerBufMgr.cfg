\* HTSIZE is what the constructor computes for two frames.  The sums of 14
\* with 1 and with 2 share a chain; those with 2 and 4 wrap.
SPECIFICATION CarefulSpec
CONSTANTS
  NumBufs = 2
  Address = {14}
  PageIds = {1, 2, 4}
  HTSIZE = 3
  Width = 4
  NoFrame = NoFrame
  Data = {d0, d1}
  Empty = d0
  Gone = Gone
  NoFile = NoFile
  NoPage = NoPage
  MaxPin = 1
INVARIANTS PoolIndexed ExceededMeansAllPinned
PROPERTIES ImplementsStore
VIEW View
