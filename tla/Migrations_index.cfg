SPECIFICATION Spec
CONSTANTS
    Programs <- MCPrograms
    Files <- UpFiles
    Shipped <- MCShipped
    MaxStarts = 2
    MaxFaults = 1
INVARIANT BuiltByThisFile
CHECK_DEADLOCK FALSE
