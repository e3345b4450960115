SPECIFICATION FairSpec
CONSTANTS
    c1 = c1
    c2 = c2
    Callers = {c1, c2}
    Cap = 4
    Cost = 2
    Threshold = 1
    Cooldown = 2
    MaxFaults = 1
    MaxCarried = 1
INVARIANTS SpendWithinCap RefusedOnlyAtCap IInv
PROPERTY BreakerRecovers
