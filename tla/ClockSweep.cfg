SPECIFICATION Spec
CONSTANTS
  NumBufs = 4
  MaxPin = 1
INVARIANTS
  LoopMatchesRule
  GivingUpNeedsAMajority
  SecondChance
PROPERTY SweepEnds
