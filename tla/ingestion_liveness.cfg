SPECIFICATION FairSpec
CONSTANTS
    Worker = {w1}
    Token = {t1, t2}
    NoToken = NoToken
    DbClock = DbClock
    MaxRuns = 2
    MaxRecord = 1
    BadRecord = {}
    PageSize = 1
    Ranges <- MCRanges
    MaxRetries = 2
    MaxMappingEdits = 1
    MaxDisturbances = 2
PROPERTIES
    DeliverySpec
    
\* Every run may have finished, with no budget left for another.
CHECK_DEADLOCK FALSE
