SPECIFICATION FairSpec
CONSTANTS
    Worker = {w1, w2}
    Request = {q1, q2}
    Nobody = Nobody
    MaxRetry = 1
    MaxProgress = 1
    MaxDisturbances = 2
INVARIANTS
    TypeOK
    CompleteHasItsResult
    
    StrandedOnlyAfterRetry
PROPERTIES
    RegisterSpec
    RowSettles
\* Nothing has to happen to a settled job.
CHECK_DEADLOCK FALSE
