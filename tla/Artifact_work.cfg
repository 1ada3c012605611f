SPECIFICATION Spec
CONSTANTS
  a1 = a1
  a2 = a2
  w1 = w1
  w2 = w2
  Agents = {a1, a2}
  Worktrees = {w1, w2}
  Branches = {"detached"}
  Detached = "detached"
  None = None
  Steps = {"s1"}
  Criteria = {"c1", "c2"}
  Plans <- MCGrowing
  First <- MCGrowingFirst
  MaxEvents = 4
  MaxBindings = 2
  MaxHead = 1
SYMMETRY MCSymmetry
INVARIANTS ClaimsDisjoint MeaningKept DoneIsEvidenced WorkStaysHome CompletedIsWhole
CHECK_DEADLOCK FALSE
