SPECIFICATION Spec
CONSTANTS
  u1 = u1
  u2 = u2
  r1 = r1
  r2 = r2
  None = None
  Users <- MCUsers
  Requests <- MCRequests
  MaxAsks = 3
  MaxExpiries = 1
  MaxFaults = 1
PROPERTIES
  NetworkErrorKeepsSession
CHECK_DEADLOCK FALSE
