SPECIFICATION Spec
CONSTANTS
  h1 = h1
  h2 = h2
  Handlers <- MCHandlers
  Seats = {a1}
  Budgets = {0, 1, 2}
  Steps = {50}
  MaxCalls = 8
SYMMETRY MCSymmetry
INVARIANTS
  TypeOK
  NoStageSkipped
  CompletedHasReason
  ClaimedHasRoles
CHECK_DEADLOCK FALSE
