SPECIFICATION FairSpec
CONSTANTS
  Executions = {e1, e2, s1}
  Streamed = {s1}
  Panels = {p1}
  MaxQueue = 2
INVARIANTS  NothingStuckExecuting
PROPERTIES NothingUnread ExecutionsEnd
CHECK_DEADLOCK FALSE
