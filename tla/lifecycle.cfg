SPECIFICATION FairSpec
CONSTANTS
    Validator = {v1, v2}
    Administrator = {a1}
    Worker = {w1, w2}
    NoWorker = NoWorker
    MayCrash = TRUE
INVARIANTS
    TypeOK
    StatusMatchesFlags
PROPERTIES
    ArchivedFinal
    DisabledGoesQuiet
\* Nothing happens to an archived connection.
CHECK_DEADLOCK FALSE
