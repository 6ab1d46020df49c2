SPECIFICATION FairSpec
CONSTANTS
    Partitions = {0, 1}
    Workers = {w1}
    NoWorker = NoWorker
    MaxLog = 2
    Malformed <- SecondMalformed
    Unwritable <- None
    BatchMax = 2
    MaxFaults = 1
    MaxRebalances = 1
    MaxStops = 1
PROPERTIES LagDrains CommittedNeverRegresses
