SPECIFICATION Spec
CONSTANTS
    Runes = {"a", "A", "-"}
    WideRunes = {}
    Separators = {"-"}
    LowerCase <- MCLowerCase
    MaxLength = 3
    Payload <- MCPayload
    Spaces <- MCSpaces
    MinRun = 2
    MaxRun = 3
    MaxPayload = 5
INVARIANTS LevenshteinIsEditDistance FormattingIsIgnored CardNumberIsFound
CHECK_DEADLOCK FALSE
