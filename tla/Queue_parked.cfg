SPECIFICATION Spec
CONSTANTS
  Owners = {o1, o2}
  Jobs = {1, 2}
  WithoutModel = {2}
  None = None
  Units <- MCMixedUnits
  LeaseTerm = 1
  CallLifetime = 1
  RetryDelay = 1
  AttemptLimits = {1}
  CallSpan = 2
  CallLimit = 3
  SpendSpan = 2
  Budget = None
  Reservation = 0
  ReportedCosts = {}
  ParkReasons = {"permanent", "model_reconfirmation_required"}
  Skew = 0
  MaxTime = 1
  MaxGeneration = 2
  MaxAttempts = 1
  MaxReopenings = 0
  MaxConfirmations = 1
INVARIANTS OpenAttemptHeld NoStrandedHold OneRunning
PROPERTIES SupersededChangesNothing
SYMMETRY OwnerSymmetry
