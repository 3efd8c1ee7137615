SPECIFICATION Spec
CONSTANTS
    Validator = {v1}
    Administrator = {a1}
    Worker = {w1}
    NoWorker = NoWorker
    MayCrash = FALSE
PROPERTIES
    OnlyEnableEnables
\* Nothing happens to an archived connection.
CHECK_DEADLOCK FALSE
