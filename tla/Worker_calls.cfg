SPECIFICATION WorkerSpec
CONSTANTS
  Owners = {o1, o2}
  Jobs = {1}
  WithoutModel = {}
  None = None
  Units <- MCOneUnit
  LeaseTerm = 1
  CallLifetime = 2
  RetryDelay = 0
  AttemptLimits = {2}
  CallSpan = 1
  CallLimit = 9
  SpendSpan = 1
  Budget = None
  Reservation = 0
  ReportedCosts = {}
  ParkReasons = {"permanent", "source_schedule_limit"}
  Skew = 0
  MaxTime = 2
  MaxGeneration = 2
  MaxAttempts = 2
  MaxReopenings = 0
  MaxConfirmations = 0
  PersonActs = {"retry"}
INVARIANTS ReleasedNeverCalled LiveCallIsOpen OneLiveCall
PROPERTIES ReplacedOnlyIfAsked
CHECK_DEADLOCK FALSE
SYMMETRY OwnerSymmetry
