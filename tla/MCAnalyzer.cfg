\* Near-valid queries of every kind, written with and without blanks.
SPECIFICATION Spec
CONSTANTS
    Sentences <- MCSentences
    Queries <- MCQueries
    UIntMax = 7
    IntMin <- MCIntMin
    OutOfRange = {"1e400"}
    Unquoted <- MCUnquoted
    SplitText <- MCSplitText
CHECK_DEADLOCK FALSE
INVARIANTS
    TypeOK
    LexedAsWritten
    SentencesAreUnderstood
    ChangesAreMeant
    SelectKeepsItsConditions
    GetsFitTheContext
