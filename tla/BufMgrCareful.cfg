SPECIFICATION CarefulSpec
CONSTANTS
  NumBufs = 2
  f1 = f1
  f2 = f2
  p1 = p1
  p2 = p2
  p3 = p3
  p4 = p4
  d0 = d0
  d1 = d1
  Files <- TwoFiles
  PageIds <- TwoPages
  Data <- TwoContents
  Empty = d0
  Gone = Gone
  NoFile = NoFile
  NoPage = NoPage
  MaxPin = 1
SYMMETRY Symmetry
INVARIANTS
  PoolIsHashed
  CleanFramesMatchDisk
PROPERTIES
  IdlePoolAlwaysServes
  ImplementsStore
VIEW View
