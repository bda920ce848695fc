SPECIFICATION FairSpec
CONSTANTS
  c1 = c1
  c2 = c2
  Convs <- MCConvs
  Texts = {"ok"}
  PageSize = 1
  None = None
  MaxOpens = 2
  MaxSends = 2
  MaxFaults = 1
INVARIANTS
  TypeOK
  ShownOnceAndRead
  UnderTitleUnlessRaced
PROPERTIES
  Settles
CHECK_DEADLOCK FALSE
