SPECIFICATION Spec
CONSTANTS
    MaxEvents = 2
    BatchSize = 2
    MaxRetries = 2
INVARIANTS RefusedIsNotRetried
