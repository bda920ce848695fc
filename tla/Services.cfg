SPECIFICATION FairSpec
CONSTANTS
  Calls <- MCCalls
  MaxFaults = 1
  Assignments = {a1, a2}
  MaxSettled = 3
  LastDay = 3
  Rows = {c1, c2}
  MaxPerTask = 2
  MaxRevisions = 1
  Milestones = {m1, m2}
  Tasks = {t1}
  MaxMilestones = 2
  Users = {u1, u2, u3, u4}
  Owner = u1
  MaxAccounts = 3
  MaxFailures = 2
  People = {w1, w2}
  Cards = {i1, i2}
  Names = {n1, n2}
  MaxRoles = 1
  MaxWorks = 1
  Phones = {p1, p2}
  Reports = {r1, r2}
  Notes = {b1, b2}
  Applied = {b2}
  Agents = {g1, g2}
  Presets = {k1}
  MaxAgents = 2
  MaxHistory = 1
  MaxRounds = 2
  Drafts = {d1, d2}
  MaxEdits = 3
  MaxAside = 1
  MaxPages = 2
  MaxSaves = 2
  Items = {x1}
  EndDay = 4
  Horizon = 2
  MaxUnread = 1
  KeepDays = 1
  Titles = {e1, e2}
  Offered = {e1, e2}
  MaxListed <- MCMaxListed
  MaxOpen = 2
  Posts = {o1, o2}
  Filters = {f1, f2}
  Firms = {h1}
  MaxLoads = 1
  IdNumbers <- MCIdNumbers
  Queries = {q1, q2}
  LastPage = 3
  None = None
INVARIANTS
  TypeOK
  ReviewsHold
  BilledWithinSettled
  SubmissionsHold
  MilestonesHold
  AccountsHold
  AdviceHolds
  DraftsHold
PROPERTIES WaitingEnds
CHECK_DEADLOCK FALSE
