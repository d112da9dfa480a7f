SPECIFICATION Spec
CONSTANTS
    k1 = k1
    Keys = {k1}
    Null = Null
    Burst = 3
    Cost = 2
    TTL = 4
    SweepEvery = 3
    MaxWait = 1
    MaxTime = 10
INVARIANTS
    TypeOK
    RateBounded
PROPERTIES
    RefusalJustified
