SPECIFICATION FairSpec
CONSTANTS
    Programs <- MCPrograms
    Files <- UpFiles
    Shipped <- MCShipped
    MaxStarts = 2
    MaxFaults = 1
INVARIANT RecordedIsBuilt
PROPERTIES AloneSucceeds SomeoneGetsReady
CHECK_DEADLOCK FALSE
