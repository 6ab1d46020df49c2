SPECIFICATION PathSpec
CONSTANTS
    MaxEvents = 2
    BatchSize = 2
    MaxRetries = 1
    Processes = {p1}
    NoProcess = NoProcess
    Partition = 0
    Workers = {w1}
    NoWorker = NoWorker
    BatchMax = 2
    MaxFaults = 1
INVARIANTS PathInv CopiesNeedFaults
PROPERTIES ImplementsDelivery PromisesKept
