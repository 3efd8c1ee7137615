SPECIFICATION Spec
CONSTANTS
    Worker = {w1}
    Nobody = Nobody
    MaxGrowth = 0
    MaxEdits = 0
    MaxDisturbances = 0
INVARIANTS
    NoStrandedWindow
CHECK_DEADLOCK FALSE
