SPECIFICATION Spec
CONSTANTS
    Requests = {r1, r2}
    Rate = 2
    Burst = 3
    Slack = 1
    Costs = {1, 2}
    MaxDelay = 1
    MaxClock = 7
CHECK_DEADLOCK FALSE
INVARIANTS GrantBound IInv
PROPERTIES ImplementsTokenBucket
