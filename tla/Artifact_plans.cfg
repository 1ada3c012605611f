SPECIFICATION Spec
CONSTANTS
  a1 = a1
  a2 = a2
  w1 = w1
  w2 = w2
  Agents = {a1, a2}
  Worktrees = {w1}
  Branches = {"main"}
  Detached = "detached"
  None = None
  Steps = {"s1", "s2"}
  Criteria = {"c1", "c2", "c3", "c4"}
  Plans <- MCPlans
  First <- MCFirst
  MaxEvents = 6
  MaxBindings = 1
  MaxHead = 0
SYMMETRY MCSymmetry
INVARIANTS TypeOK ClaimsDisjoint MeaningKept DoneIsEvidenced LossesAcknowledged WorkStaysHome CompletedIsWhole
PROPERTY SummaryIsFinal
CHECK_DEADLOCK FALSE
