CONSTANTS
  MaxMessages = 3
  Terminators <- MCTerminators
SPECIFICATION Spec
INVARIANTS
  EachFrameOnce
  KeepsUnfinishedOnly
CHECK_DEADLOCK FALSE
