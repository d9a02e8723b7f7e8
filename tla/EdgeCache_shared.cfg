CONSTANTS
  Allowed = {page, preview}
  Outside = {probe}
  Empty = Empty
SPECIFICATION Spec
INVARIANTS
  PageMayRead
  AtMostAMinuteOld
PROPERTIES
  ErrorsAreFirstHand
  OneRunPerWindow
