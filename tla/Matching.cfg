SPECIFICATION Spec
CONSTANTS
    r1 = r1
    r2 = r2
    Runs <- MCRuns
    NoRun = NoRun
    WideRunes = {}
    Separators = {"-"}
    LowerCase <- MCLowerCase
    AllPayments <- Alike
    AllLines <- Lines
    AllLedger <- OneBooking
    MaxTime = 1
    MaxDeaths = 1
    Lookback = 2
SYMMETRY RunSymmetry
CONSTRAINT OneMishap
INVARIANTS OneRunAtATime DecidedOnce LoadedIsDecided OnlyTheLastIsUnaudited PointerIsBacked MatchesAreSound MatchIsUnrivalled
PROPERTIES LedgerMatchedOnce CandidatesAreComplete LedgerIsComplete
CHECK_DEADLOCK FALSE
