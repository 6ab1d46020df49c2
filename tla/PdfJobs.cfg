SPECIFICATION PdfFairSpec
CONSTANTS
    Jobs = {j1, j2}
    NoJob = NoJob
    Attempts = 2
    MaxStalls = 1
    MaxFailures = 1
    MaxCrashes = 2
INVARIANT PdfInv
PROPERTIES DoneIsFinal EveryJobEnds
\* All jobs may have ended.
CHECK_DEADLOCK FALSE
