SPECIFICATION Spec
CONSTANTS
    ExceptionRows <- MCRows
    Questions <- MCQuestions
    Ids <- MCIds
    DefaultLimit = 2
    MaxLimit = 3
    MaxQuestion = 2
    WhyCap = 2
    None = None
CONSTRAINT OneClient
INVARIANTS ListingIsExact NoEmptyPage TotalsAgree ModelTextIsBacked
