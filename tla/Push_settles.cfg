SPECIFICATION FairSpec
CONSTANTS
  a1 = a1
  a2 = a2
  p1 = p1
  p2 = p2
  b1 = b1
  b2 = b2
  Artifacts = {a1}
  Pushers = {p1, p2}
  Drains = {p1}
  Branches = {b1}
  PlanBranch <- MCPlanBranch
  Faults = {"error", "kill"}
  Forced = FALSE
  Calls = 2
  MaxPush = 2
  MaxSources = 2
  MaxClock = 1
  MaxSession = 1
  MaxCloud = 1
  MaxStops = 1
INVARIANTS NotPendingIsThere
PROPERTIES Settles
CHECK_DEADLOCK FALSE
