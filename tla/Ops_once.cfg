SPECIFICATION FairSpec
CONSTANTS
  h1 = h1
  h2 = h2
  o1 = o1
  o2 = o2
  o3 = o3
  begin = begin
  complete = complete
  other = other
  None = None
  Connections = {h1, h2}
  OpIds = {o1, o2, o3}
  Contents = {begin, complete, other}
  Intents = {begin}
  Reserves <- MCReserves
  Completion <- MCCompletion
  Attempts = 2
  Capacity = 3
  MaxCalls = 2
INVARIANTS PerformedOnce ReservedForCompletion
PROPERTIES ImplementsLog CallsEnd
CHECK_DEADLOCK FALSE
