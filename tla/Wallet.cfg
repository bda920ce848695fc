SPECIFICATION FairSpec
CONSTANTS
  h1 = h1
  h2 = h2
  w1 = w1
  w2 = w2
  Handlers <- MCHandlers
  Withdrawals <- MCWithdrawals
  Amounts <- MCAmounts
  Gross <- MCGross
  MaxCalls = 5
  MaxFaults = 1
INVARIANTS
  TypeOK
  RowsExplainAvailable
  LeaseIsExclusive
PROPERTIES
  ImplementsAccount
  WithdrawalCompletes
CHECK_DEADLOCK FALSE
