SPECIFICATION DbSpec
CONSTANTS
    o1 = o1
    o2 = o2
    o3 = o3
    alice = alice
    bob = bob
    p1 = p1
    p3 = p3
    Order = {o1, o2, o3}
    Identity = {alice, bob}
    Owner <- MCOwner
    Qty <- MCQty
    NBuckets = 1
    Capacity <- OneBucket
    MaxPerOrder = 2
    MaxPerIdentity = 2
    Payment = {p1, p3}
    PayFor <- MCPayFor
CHECK_DEADLOCK FALSE
INVARIANT
    NoOversell
