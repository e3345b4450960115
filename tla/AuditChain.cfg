SPECIFICATION FairSpec
CONSTANTS
    w1 = w1  w2 = w2  w3 = w3
    b1 = b1  b2 = b2
    Writers <- MCWriters
    Bodies <- MCBodies
    MaxCalls = 4
    MaxFaults = 1
INVARIANTS ChainIntact OneOpenInsert
PROPERTIES RefinesAuditAppend CallsReturn SomeoneCommits
CHECK_DEADLOCK FALSE
