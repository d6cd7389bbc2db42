SPECIFICATION FairSpec
CONSTANTS
  Values <- Values_
  Label <- Label_
  Squeezed <- Squeezed_
  Trimmed <- Trimmed_
  Letter <- Letter_
  Hits <- Hits_
  Sites <- Sites_
  MaxTimers = 2
INVARIANTS
  InactivePanelIsReset
  InactiveShowsLabelOnly
  ShownIsLastSearch
  KnownTimerRuns
PROPERTIES
  KeepsUp
  Settles
