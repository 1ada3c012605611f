SPECIFICATION FairWorkerSpec
CONSTANTS
  Owners = {o1}
  Jobs = {1, 2}
  WithoutModel = {2}
  None = None
  Units <- MCMixedUnits
  LeaseTerm = 1
  CallLifetime = 1
  RetryDelay = 0
  AttemptLimits = {1, 2}
  CallSpan = 1
  CallLimit = 2
  SpendSpan = 1
  Budget = None
  Reservation = 0
  ReportedCosts = {}
  ParkReasons = {"source_schedule_limit", "model_reconfirmation_required"}
  Skew = 0
  MaxTime = 1
  MaxGeneration = 2
  MaxAttempts = 3
  MaxReopenings = 1
  MaxConfirmations = 1
  PersonActs = {"confirm", "reopen"}
INVARIANTS AllowanceHeld UnitsPublishedOnce
PROPERTIES RunEnds ImplementsQueue
CHECK_DEADLOCK FALSE
