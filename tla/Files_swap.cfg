SPECIFICATION Spec
CONSTANTS
  s1 = s1
  s2 = s2
  u1 = u1
  u2 = u2
  r1 = r1
  r2 = r2
  None = None
  Sessions = {s1, s2}
  Upgraders = {u1}
  Restorers = {r1, r2}
  Build <- MCBuild
  Silent = {1}
  InPlace = {"readable", "unreadable", "absent"}
  Attempts = 2
  MaxFile = 3
  MaxWrite = 1
INVARIANTS ToldKept PathWhole
PROPERTIES UpgradesBacked OwnVersion
SYMMETRY Symmetric
CONSTRAINT Uncrossed
CHECK_DEADLOCK FALSE
