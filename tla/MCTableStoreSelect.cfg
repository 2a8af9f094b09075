CONSTANTS
    ann = ann
    bob = bob
    t1 = t1
    t2 = t2
    Worker = {ann, bob}
    Table = {t1, t2}
    Half <- TwoBits
    Columns <- Layouts
    Inserts <- AllInserts
    Selects <- AllSelects
    Stored <- Contents
    MaxStatements <- TwoAndOne
SPECIFICATION Spec
INVARIANTS
    TypeOK
    StoredAsInserted
    AnswersAreMatchingRows
CHECK_DEADLOCK FALSE
