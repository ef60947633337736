SPECIFICATION Spec
CONSTANTS
  k1 = k1
  k2 = k2
  m1 = m1
  m2 = m2
  s1 = s1
  s2 = s2
  Keys = {k1, k2}
  GrantDocs = {"g1", "g2"}
  GroupDocs = {"q1", "q2"}
  AppDist = "app"
  SyncSetup = "setup"
  DefaultDist = "default"
  Members = {m1, m2}
  User = m1
  Budgets <- DirScenarios
  Signers = {s1, s2}
  RuleDocs = {"r1", "r2"}
  UserRule = "r2"
  AcBudgets <- AcScenarios
CHECK_DEADLOCK FALSE
SYMMETRY Sym
INVARIANTS DirectoryCurrent ChainIsReplay AcceptedIsClosed
