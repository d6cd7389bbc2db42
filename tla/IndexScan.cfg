SPECIFICATION Spec
CONSTANTS
  Keys = {1, 2, 3}
  MaxRecords = 3
  MaxPins = 3
INVARIANTS
  AnswersTheRange
  ScanPageStaysPinned
