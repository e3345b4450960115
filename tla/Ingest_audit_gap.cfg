SPECIFICATION Spec
CONSTANTS
    w1 = w1
    w2 = w2
    Workers <- MCWorkers
    NoJob = NoJob
    Payload <- MCPayload
    Messages = {"queued", "posted"}
    MaxBatch = 2
    MaxFaults = 1
INVARIANT AckedIsAudited
CHECK_DEADLOCK FALSE
