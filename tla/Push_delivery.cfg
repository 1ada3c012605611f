SPECIFICATION Spec
CONSTANTS
  a1 = a1
  a2 = a2
  p1 = p1
  p2 = p2
  b1 = b1
  b2 = b2
  Artifacts = {a1}
  Pushers = {p1, p2}
  Drains = {p1, p2}
  Branches = {b1, b2}
  PlanBranch <- MCPlanBranch
  Faults = {"loss", "error", "cancel", "kill"}
  Forced = FALSE
  Calls = 2
  MaxPush = 2
  MaxSources = 1
  MaxClock = 2
  MaxSession = 2
  MaxCloud = 0
  MaxStops = 1
INVARIANTS SentOnce OneUnfinished SettledReached
PROPERTIES ArrivalsInOrder HistoryTold
SYMMETRY Symmetric
CHECK_DEADLOCK FALSE
