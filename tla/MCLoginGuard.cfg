SPECIFICATION Spec
CONSTANTS
    k1 = k1
    Keys = {k1}
    Null = Null
    MaxFails = 2
    FailWindow = 3
    BlockFor = 4
    SweepEvery = 2
    MaxWait = 1
    MaxInFlight = 2
    MaxTime = 8
INVARIANTS
    TypeOK
    GuessesBounded
PROPERTIES
    RefusalJustified
