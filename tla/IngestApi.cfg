SPECIFICATION FairSpec
CONSTANTS
    Requests = {r1, r2}
    r1 = r1
    r2 = r2
    Size <- OneAndTwo
    Processes = {p1, p2}
    NoProcess = NoProcess
    MaxFaults = 1
INVARIANTS IInv
PROPERTIES AckedReachesLog
