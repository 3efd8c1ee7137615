SPECIFICATION FairSpec
CONSTANTS
    Worker = {w1, w2}
    Nobody = Nobody
    MaxGrowth = 1
    MaxEdits = 1
    MaxDisturbances = 2
INVARIANTS
    TypeOK
    ExecutedOnce
    PublishedAsLinked
PROPERTIES
    TerminalFinal
    AnalysisNeverBlocks
\* Nothing happens after the run.
CHECK_DEADLOCK FALSE
