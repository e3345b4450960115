SPECIFICATION FairSpec
CONSTANTS
    r1 = r1
    r2 = r2
    Runs <- MCRuns
    NoRun = NoRun
    WideRunes = {}
    Separators = {"-"}
    LowerCase <- MCLowerCase
    AllPayments <- TwoMethods
    AllLines = {}
    AllLedger <- OneBooking
    MaxTime = 0
    MaxDeaths = 1
    Lookback = 2
PROPERTIES LockIsReleased RunsEnd
CHECK_DEADLOCK FALSE
