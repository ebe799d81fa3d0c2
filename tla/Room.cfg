SPECIFICATION RoomSpec
CONSTANTS
    i1 = i1
    i2 = i2
    c1 = c1
    c2 = c2
    c3 = c3
    Nobody = Nobody
    Ghost = Ghost
    Instance = {i1, i2}
    Customer = {c1, c2, c3}
    T0 = 2
    MaxClock = 3
    Skew = 1
    MaxBatch = 2
    MaxTime = 4
    MaxFaults = 1
    Schedule = {"unpublished", "reschedule"}
CHECK_DEADLOCK FALSE
SYMMETRY Alike
INVARIANTS
    OnePlace
    NobodyStranded
    LotteryFirstIn
PROPERTIES
    WritesInOrderOfTerms
    RanksKept
