SPECIFICATION FairSpec
CONSTANTS
  c1 = c1
  c2 = c2
  a1 = a1
  a2 = a2
  g1 = g1
  g2 = g2
  None = None
  Captures <- OneCapture
  Agents <- OneAgent
  Cleaners <- OneCleaner
  MaxRevision = 1
  MaxCleanups = 3
  MaxStops = 1
  MaxLosses = 0
PROPERTY StaleIsRetired
CHECK_DEADLOCK FALSE
