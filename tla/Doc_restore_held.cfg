SPECIFICATION Spec
CONSTANTS
  s1 = s1
  s2 = s2
  u1 = u1
  u2 = u2
  r1 = r1
  r2 = r2
  None = None
  Sessions = {s1}
  Upgraders = {}
  Restorers = {r1, r2}
  Build <- MCBuild
  Silent = {1}
  InPlace = {"readable"}
  Attempts = 2
  MaxFile = 3
  MaxWrite = 2
INVARIANT HeldAcrossSwap
CHECK_DEADLOCK FALSE
