SPECIFICATION Spec
CONSTANTS
  NumDevices = 3
  Locked = {3}
  UkBudgets <- UkRuns
  KeyIds = {"default", "k1"}
  DefaultKey = "default"
  Foreign = "foreign"
  Dbs = {"db1", "db2"}
  OldDbs = {"db1@past"}
  KbBudgets <- KbRuns
CHECK_DEADLOCK FALSE
INVARIANTS KeysHeldByRight SettledIsEnrolled WritesBounded KeyViewsCurrent
