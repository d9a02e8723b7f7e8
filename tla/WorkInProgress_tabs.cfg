CONSTANTS
  Tabs = {t1, t2, t3}
SPECIFICATION Spec
INVARIANTS ClosedStaysClosed
