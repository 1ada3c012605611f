SPECIFICATION AdmittedSpec
CONSTANTS
  Owners = {o1, o2}
  Jobs = {1, 2}
  WithoutModel = {2}
  None = None
  Units <- MCOneUnit
  LeaseTerm = 1
  CallLifetime = 1
  RetryDelay = 0
  AttemptLimits = {1}
  CallSpan = 1
  CallLimit = 1
  SpendSpan = 2
  Budget = 3
  Reservation = 2
  ReportedCosts = {1}
  ParkReasons = {}
  Skew = 1
  MaxTime = 1
  MaxGeneration = 2
  MaxAttempts = 1
  MaxReopenings = 0
  MaxConfirmations = 1
INVARIANTS OpenAttemptHeld NoStrandedHold OneRunning WindowsHeld
PROPERTIES SupersededChangesNothing
SYMMETRY OwnerSymmetry
CONSTRAINT TimePassesBefore
