CONSTANTS
  Docs = {"d1", "d2"}
  Remote = {"r1", "r2", "r3", "r4"}
  Local = {"w0", "w1", "w2", "w3"}
  DocOf <- MCDocOf
  AuthorOf <- MCAuthorOf
  Kind <- MCKind
  RemoteDeps <- MCRemoteDeps
  Unknown = {"bob"}
  Secret = {"d1"}
  None = None
  MaxCached = 1
  RestoreToL2 = TRUE
  Budgets <- MCBudgets
SPECIFICATION Spec
CHECK_DEADLOCK FALSE
INVARIANTS CacheComplete RecordComplete VisibleIffKey FeedComplete
