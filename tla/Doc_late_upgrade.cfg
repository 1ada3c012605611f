SPECIFICATION Spec
CONSTANTS
  s1 = s1
  s2 = s2
  u1 = u1
  u2 = u2
  r1 = r1
  r2 = r2
  None = None
  Sessions = {}
  Upgraders = {u1}
  Restorers = {r1}
  Build <- MCBuild
  Silent = {}
  InPlace = {"readable"}
  Attempts = 2
  MaxFile = 2
  MaxWrite = 0
INVARIANT OwnLog
CHECK_DEADLOCK FALSE
