SPECIFICATION FairSpec
CONSTANTS
    Alerts = {a1, a2, a3}
    NoAlert = NoAlert
    Threshold = {a3}
    Broken = {a2}
    Cooldowns = {2, 3}
    Passes = {p1, p2}
    MaxClock = 3
    MaxDays = 1
    MaxFaults = 1
    MaxEdits = 2
INVARIANTS IInv
PROPERTIES StampRespectsCooldown FlaggedIsNotified
