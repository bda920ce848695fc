SPECIFICATION FairSpec
CONSTANTS
  h1 = h1
  h2 = h2
  w1 = w1
  w2 = w2
  Handlers <- MCHandlers
  Workers <- MCWorkers
  Headcount = 2
  MaxCalls = 5
  MaxFaults = 1
INVARIANTS
  TypeOK
  NeverOverstaffed
  NoSecondInvitation
PROPERTY
  AcceptedStartsTask
CHECK_DEADLOCK FALSE
