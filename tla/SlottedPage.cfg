\* A call that takes other bytes for a slot is the last one modelled.
SPECIFICATION Spec
CONSTANTS
  DataSize = 12
  SlotSize = 2
  Records <- ShortRecords
  NoRecord = NoRecord
INVARIANTS RecordsTile SlotsCounted
PROPERTIES ImplementsMap
CHECK_DEADLOCK FALSE
