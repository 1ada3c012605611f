SPECIFICATION HSpec
CONSTANTS
  p1 = p1
  p2 = p2
  p3 = p3
  t1 = t1
  t2 = t2
  t3 = t3
  t4 = t4
  Processes = {p1, p2}
  Tasks = {t1, t2, t3, t4}
  ProcessOf <- MCTogether
  Sync = {t3, t4}
  Parent <- MCNested
  Clouds = {t1, t2, t3, t4}
  CloudOf <- MCClouds
  None = None
  Stale = 1
  Acquire = 1
  MaxTime = 3
  MaxDirs=5
  MaxKills = 1
  LeftBehind = {"named", "unnamed"}
INVARIANTS ExclusiveUntilOvertaken HeldUntilOvertaken WrittenUntilOvertaken SyncFailsFast
CONSTRAINT NotOvertaken
CHECK_DEADLOCK FALSE
