\* Tables of up to two columns, files cut anywhere.
SPECIFICATION Spec
CONSTANTS
    Names <- MCNames
    Sizes <- MCSizes
    Types = {0, 10, 11}
    MaxColumns = 2
\* A load comes to its end.
CHECK_DEADLOCK FALSE
INVARIANTS
    TypeOK
    LoadsWhatWasSaved
