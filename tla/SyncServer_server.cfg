SPECIFICATION Spec
CONSTANTS
  t1 = t1
  t2 = t2
  t3 = t3
  c1 = c1
  c2 = c2
  Tenants = {t1, t2, t3}
  Main = t1
  Clients = {c1, c2}
  Keys = {"k1", "k2"}
  Admins = {"adm1", "adm2"}
  Entries = {"a1", "a2", "b1"}
  DocOf <- MCDocOf
  AuthorOf <- MCAuthorOf
  Purges = {"r1", "r2"}
  PurgeDocs <- MCPurgeDocs
  Upstream = {"a1", "b1"}
  MaxChallenges = 1
  MaxInst = 3
  MaxTickets = 2
  Budgets <- MCBudgets
SYMMETRY MCSymmetry
CHECK_DEADLOCK FALSE
INVARIANTS ChallengeOnce AccessSound AcksKept PurgesLast
