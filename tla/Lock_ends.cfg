SPECIFICATION FairSpec
CONSTANTS
  p1 = p1
  p2 = p2
  p3 = p3
  t1 = t1
  t2 = t2
  t3 = t3
  t4 = t4
  Processes = {p1, p2}
  Tasks = {t1, t2}
  ProcessOf <- MCApart
  Sync = {}
  Parent <- MCNoParent
  Clouds = {t1, t2}
  CloudOf <- MCClouds
  None = None
  Stale = 1
  Acquire = 1
  MaxTime = 3
  MaxDirs = 5
  MaxKills = 1
  LeftBehind = {"named", "unnamed"}
PROPERTY CallsEnd
CHECK_DEADLOCK FALSE
