SPECIFICATION Spec
CONSTANTS
  Signatures = {"s1", "s2"}
  Costs = {0, 1, 2}
  Budgets = {1, 3}
  Duration = 1
INVARIANTS
  TypeOK
  WithinBudget
  FixesAccounted
  NoFailureTwiceRunning
  DoneIsEarned
PROPERTIES
  Settles
CHECK_DEADLOCK FALSE
