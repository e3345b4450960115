SPECIFICATION FairSpec
CONSTANTS
    w1 = w1
    w2 = w2
    Workers <- MCWorkers
    NoJob = NoJob
    Payload <- MCPayload
    Messages = {"twoLines", "object", "negative", "file", "unsigned"}
    MaxBatch = 2
    MaxFaults = 1
INVARIANTS OnlyBadFilesFail AckAfterCommitted CacheIsSound AuditedAtMostOnce IInv
PROPERTIES RefinesAckAfterCommit 
CHECK_DEADLOCK FALSE
