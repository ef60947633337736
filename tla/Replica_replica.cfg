CONSTANTS
    Ids = {1, 2, 3}
    Docs = {"d1", "d2"}
    DocOf <- MCDocOf
    Witnesses = {"w"}
    Times = {1}
    NoReceipt = NoReceipt
    Tabs = {"t1", "t2"}
    c1 = c1
    c2 = c2
    c3 = c3
    Callers = {c1, c2, c3}
    TabOf <- MCTabOf
    Hashes = {"h1", "h2"}
    HashOf <- MCHashOf
    CreatedAt <- MCCreatedAt
    Batches <- MCBatches
    Removals <- MCRemovals
    Received <- MCReceived
    MinSized = 1
    MaxRetries = 1
    MaxFaults = 1
    MaxCalls = 2
    MaxGen = 2
    Key <- MCKey
    None = None
    Paths = {1, 2}
    Witnessed = {1, 2}
    Now = 3
SYMMETRY MCSymmetry
SPECIFICATION Spec
CHECK_DEADLOCK FALSE
INVARIANTS ReportsHold ContentAccounted HistoryAgrees ConflictsReported RevisionsExact
PROPERTY ImplementsStore
