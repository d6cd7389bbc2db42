SPECIFICATION ResultsSpec
CONSTANT Pages <- SomePages
INVARIANTS
  FocusOnScreen
  MatchesTogether
  KeyInHand
PROPERTIES
  ArrowsWalk
