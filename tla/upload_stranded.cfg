SPECIFICATION Spec
CONSTANTS
    Worker = {w1}
    Request = {q1}
    Nobody = Nobody
    MaxRetry = 1
    MaxProgress = 1
    MaxDisturbances = 0
INVARIANTS
    NoStrandedAttempt
CHECK_DEADLOCK FALSE
