SPECIFICATION Spec
CONSTANTS
  h1 = h1
  h2 = h2
  t1 = t1
  Handlers <- MCHandlers
  Tasks <- MCTasks
  Recharges = {r1}
  Budgets <- MCBudgets
  RoundsUp <- MCRoundsUp
  TotalBudget <- MCTotalBudget
  MaxCalls = 6
SYMMETRY MCSymmetry
INVARIANT
  NoMoreThanPaidIn
CHECK_DEADLOCK FALSE
