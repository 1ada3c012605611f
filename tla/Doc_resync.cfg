SPECIFICATION FairSpec
CONSTANTS
  a1 = a1
  a2 = a2
  p1 = p1
  p2 = p2
  b1 = b1
  b2 = b2
  Artifacts = {a1}
  Pushers = {p1}
  Drains = {}
  Branches = {b1}
  PlanBranch <- MCPlanBranch
  Faults = {"error"}
  Forced = FALSE
  Calls = 1
  MaxPush = 1
  MaxSources = 1
  MaxClock = 1
  MaxSession = 1
  MaxCloud = 0
  MaxStops = 0
PROPERTIES Retried
CHECK_DEADLOCK FALSE
