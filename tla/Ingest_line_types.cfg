SPECIFICATION Spec
CONSTANTS
    w1 = w1
    w2 = w2
    Workers <- MCWorkers
    NoJob = NoJob
    Payload <- MCPayload
    Messages = {"lineTypes"}
    MaxBatch = 2
    MaxFaults = 0
INVARIANT DuplicateMeansPersisted
CHECK_DEADLOCK FALSE
