SPECIFICATION Spec
CONSTANTS
    Handler = {h1, h2}
    Key = {k1}
    NoKey = NoKey
    Target = {"open", "investigating", "dismissed"}
    MaxRequests = 2
    MaxUnversioned = 1
SYMMETRY MCSymmetry
INVARIANTS
    TypeOK
    TransitionsFollowTable
    NoReportOnTerminal
    AppliedOnce
    NoLostEdit
\* The budgets may be spent.
CHECK_DEADLOCK FALSE
