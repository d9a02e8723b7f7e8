CONSTANTS
  MaxRuns = 4
SPECIFICATION FairSpec
INVARIANTS
  AlertIsCurrent
  OneLiveFetch
PROPERTIES
  NeverBackwards
  RunIsShown
CHECK_DEADLOCK FALSE
