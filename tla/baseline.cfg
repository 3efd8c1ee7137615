SPECIFICATION Spec
CONSTANTS
    Process = {p1, p2}
    Job = {j1, j2, j3}
    Automatic = {j1}
    Unsuitable = {j3}
    MaxVersion = 2
    MaxRequests = 4
SYMMETRY Processes
INVARIANTS
    TypeOK
    PublishedAfterSelection
    SupersededBySelected
    
\* Once the requests are used up nothing has to happen.
CHECK_DEADLOCK FALSE
