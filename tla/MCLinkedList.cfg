\* Two lists, every operation of the class, and every reuse of an address.
SPECIFICATION Spec
CONSTANTS
    Objects = {a, b}
    Nodes <- MCNodes
    Null = Null
    Keys <- MCKeys
    Vals = {x, y}
    MaxCount = 2
    MaxGiven = 1
\* A pop of an empty List ends the program.
CHECK_DEADLOCK FALSE
SYMMETRY MCSymmetry
INVARIANTS
    TypeOK
    WellLinked
PROPERTIES
    FaultsOnlyOnEmptyPop
    OnlyMoveAssignLeaks
    KeysStayUnique
    ContentsAreKept
