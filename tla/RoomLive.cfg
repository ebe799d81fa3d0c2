SPECIFICATION FairRoomSpec
CONSTANTS
    i1 = i1
    i2 = i2
    c1 = c1
    c2 = c2
    c3 = c3
    Nobody = Nobody
    Ghost = Ghost
    Instance = {i1, i2}
    Customer = {c1, c2}
    T0 = 2
    MaxClock = 3
    Skew = 1
    MaxBatch = 2
    MaxTime = 5
    MaxFaults = 2
    Schedule = {}
CHECK_DEADLOCK FALSE
INVARIANT
    NothingBeforeSale
PROPERTY
    NobodyForgotten
