CONSTANTS
  c1 = c1
  c2 = c2
  p1 = p1
  p2 = p2
  e1 = e1
  e2 = e2
  Sockets = {s1, s2, s3}
  Solvers = {b1, b2}
  Sessions = {c1, c2}
  Executions = {e1, e2}
  Agents = 1
  Panels = {p1, p2}
  MaxMessages = 1
  MaxGhosts = 1
SPECIFICATION MCFairHubSpec
INVARIANTS BroadcastSound PanelsCurrent NobodyUncounted
PROPERTIES DeadLeaveTheList
