SPECIFICATION IdemSpec
CONSTANTS
    r1 = r1
    r2 = r2
    r3 = r3
    other = other
    Request = {r1, r2, r3, other}
    Valid = {r1, r2, r3, other}
    Hash <- MCHash
    TTL = 4
    Lease = 2
    MaxBeginAttempts = 3
    EndOfTime = 5
SYMMETRY Repetitions
CHECK_DEADLOCK FALSE
INVARIANTS
    RunsApart
    ResponsesStand
