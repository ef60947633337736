CONSTANTS
  c1 = c1
  c2 = c2
  Callers <- MCCallers
  MaxAtts = 2
  ChunkSize = 2
  Batch = 2
  Overlap = FALSE
  Slow = FALSE
  None = None
  Atts = {1, 2}
  MaxEntries = 3
  MaxJobs = 2
  CopyBatch = 2
  Branches = FALSE
  NoJob = NoJob
  Ids = {1, 2, 3}
  DocOf <- MCDocOf
  HashOf <- MCHashOf
  Stamps = {"r1", "r2"}
  NoReceipt = NoReceipt
  Absent = Absent
  Unlogged = Unlogged
  Tasks = {"a", "b"}
  Installations <- MCInstallations
  Incoming = {1, 2, 3}
  Purgeable = {1, 2}
  MinFiles = 2
  SameTick = TRUE
  MaxOrder = 5
  MaxStops = 2
  MaxCrashes = 2
SPECIFICATION MCSpec
CHECK_DEADLOCK FALSE
INVARIANT ReadsExact
INVARIANT NoForgottenChunks
INVARIANT CopyStandsAlone
INVARIANT AcknowledgedIsDurable
INVARIANT DiskAgrees
INVARIANT FeedHonest
PROPERTY UploadsSettle
