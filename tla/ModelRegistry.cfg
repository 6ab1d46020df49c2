SPECIFICATION FairSpec
CONSTANTS
    Tasks = {t1, t2}
    Readers = {r1}
    MaxSaves = 3
    MaxFaults = 1
INVARIANTS IInv ForecastIsFresh
PROPERTIES ServedNeverOlder ArimaGetsItsTurn
