SPECIFICATION Spec
CONSTANTS
    Partitions = {0, 1}
    Workers = {w1, w2}
    NoWorker = NoWorker
    MaxLog = 2
    Malformed <- SecondMalformed
    Unwritable <- LastUnwritable
    BatchMax = 3
    MaxFaults = 1
    MaxRebalances = 1
    MaxStops = 1
SYMMETRY WorkersAlike
INVARIANTS NoLoss IInv WithinBounds
PROPERTIES ImplementsEventLog
