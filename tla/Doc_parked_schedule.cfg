SPECIFICATION WorkerSpec
CONSTANTS
  Owners = {o1}
  Jobs = {1}
  WithoutModel = {}
  None = None
  Units <- MCTwoUnits
  LeaseTerm = 1
  CallLifetime = 1
  RetryDelay = 0
  AttemptLimits = {1, 2}
  CallSpan = 1
  CallLimit = 9
  SpendSpan = 1
  Budget = None
  Reservation = 0
  ReportedCosts = {}
  ParkReasons = {"source_schedule_limit"}
  Skew = 0
  MaxTime = 1
  MaxGeneration = 2
  MaxAttempts = 4
  MaxReopenings = 1
  MaxConfirmations = 0
  PersonActs = {"reopen", "retry"}
INVARIANT ParkedScheduleCanRun
CHECK_DEADLOCK FALSE
