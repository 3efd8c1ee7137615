SPECIFICATION FairSpec
CONSTANTS
    Process = {p1, p2}
    Relationship = {r1}
    MaxClock = 3
    StaleAfter = 2
    MaxSwitches = 1
    MaxDisturbances = 2
INVARIANTS
    TypeOK
    OneLiveClaim
    
PROPERTIES
    TerminalRunFinal
    NoPermanentClaim
\* A disabled system rests.
CHECK_DEADLOCK FALSE
