SPECIFICATION MCSpec
CONSTANTS
  Requests = {1, 2, 3}
  MaxSlots = 1
  MaxPause = 2
  Attempts = 2
  RetryAfter = {0, 3}
  HtBudgets <- HtScenarios
  Databases = {"docs", "attachments"}
  Callers = {1, 2, 3}
  Device = "device"
  Admin = "admin"
  CsBudgets <- CsScenarios
  Ids = {1, 2}
  Docs = {"d1", "d2"}
  DocOf <- MCDocOf
  Witnesses = {"server"}
  Times = {1}
  NoReceipt = NoReceipt
  Stores = {"client", "server"}
  Client = "client"
  Sessions = {"push"}
  Src <- MCSrc
  Tgt <- MCTgt
  PageSize = 1
  BatchSize = 1
  MaxConcurrent = 2
  Legacy = {}
  Untrusted = {}
  Revocable = {}
  Purgeable = {}
  MaxEpoch = 1
  MaxFaults = 1
CHECK_DEADLOCK FALSE
INVARIANTS
  SlotsConserved
  CancelledSendsLittle
  TokenSound
PROPERTIES
  PauseHolds
  RequestsEnd
  SyncsEnd
