SPECIFICATION Spec
CONSTANTS
    Worker = {w1}
    Token = {t1, t2}
    NoToken = NoToken
    DbClock = DbClock
    MaxRuns = 2
    MaxRecord = 1
    BadRecord = {}
    PageSize = 1
    Ranges <- MCRanges
    MaxRetries = 2
    MaxMappingEdits = 0
    MaxDisturbances = 1
INVARIANTS
    BackfillImmediatelyDue
\* Nothing happens to an archived connection.
CHECK_DEADLOCK FALSE
