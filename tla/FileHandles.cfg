SPECIFICATION Spec
CONSTANTS
  Names = {n1, n2}
  Objects = {o1, o2, o3}
  None = None
INVARIANTS CountsExact StreamsShared
