SPECIFICATION Spec
CONSTANTS
    Worker = {w1, w2}
    Token = {t1, t2, t3}
    NoToken = NoToken
    DbClock = DbClock
    MaxRuns = 2
    MaxRecord = 2
    BadRecord = {2}
    PageSize = 1
    Ranges <- MCRanges
    MaxRetries = 2
    MaxMappingEdits = 0
    MaxDisturbances = 2
SYMMETRY MCSymmetry
INVARIANTS
    TypeOK
    LeaseOwnsOneRun
    LeaseExclusive
    CheckpointStableUnderLease
    NoLossBehindCheckpoint
    
    AccountingExact
PROPERTIES
    FinishedRunsFrozen
    BackfillProgressKept
\* Every run may have finished, with no budget left for another.
CHECK_DEADLOCK FALSE
