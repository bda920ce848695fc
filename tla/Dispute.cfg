SPECIFICATION Spec
CONSTANTS
  h1 = h1
  h2 = h2
  d1 = d1
  d2 = d2
  a1 = a1
  a2 = a2
  e1 = e1
  e2 = e2
  Handlers <- MCHandlers
  Disputes <- MCDisputes
  Assignments <- MCAssignments
  Evidence <- MCEvidence
  MaxFiles = 1
  Locked = 2
  SameId = FALSE
  MaxCalls = 5
  MaxFaults = 1
INVARIANTS
  TypeOK
  OneOpenUnlessRaced
  MovedOnceUnlessRaced
PROPERTY
  EvidenceKeptUnlessRaced
SYMMETRY MCSymmetry
CHECK_DEADLOCK FALSE
