SPECIFICATION PullSpec
CONSTANTS
    Ids = {1, 2, 3}
    Docs = {"d1", "d2"}
    DocOf <- MCDocOf
    Witnesses = {"server"}
    Times = {1, 2}
    NoReceipt = NoReceipt
    Stores = {"client", "server"}
    Client = "client"
    pull = pull
    pull2 = pull2
    Sessions <- MCSessions
    Src <- MCSrc
    Tgt <- MCTgt
    PageSize = 2
    BatchSize = 1
    MaxConcurrent = 2
    Legacy = {3}
    Untrusted = {1}
    Revocable = {2}
    Purgeable = {"d1"}
    MaxEpoch = 2
    MaxFaults = 1
INVARIANT PulledIsProcessed
