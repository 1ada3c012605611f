SPECIFICATION Spec
CONSTANTS
  Owners = {o1}
  Jobs = {1}
  WithoutModel = {}
  None = None
  Units <- MCOneUnit
  LeaseTerm = 1
  CallLifetime = 1
  RetryDelay = 0
  AttemptLimits = {2}
  CallSpan = 1
  CallLimit = 1
  SpendSpan = 2
  Budget = 3
  Reservation = 2
  ReportedCosts = {1}
  ParkReasons = {}
  Skew = 1
  MaxTime = 1
  MaxGeneration = 1
  MaxAttempts = 2
  MaxReopenings = 0
  MaxConfirmations = 0
INVARIANT WindowsHeld

