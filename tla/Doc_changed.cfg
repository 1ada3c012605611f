SPECIFICATION Spec
CONSTANTS
  a1 = a1
  a2 = a2
  p1 = p1
  p2 = p2
  b1 = b1
  b2 = b2
  Artifacts = {a1}
  Pushers = {p1, p2}
  Drains = {p1}
  Branches = {b1}
  PlanBranch <- MCPlanBranch
  Faults = {"cancel"}
  Forced = FALSE
  Calls = 1
  MaxPush = 1
  MaxSources = 1
  MaxClock = 1
  MaxSession = 1
  MaxCloud = 1
  MaxStops = 1
PROPERTIES UncreditedChanged
CHECK_DEADLOCK FALSE
