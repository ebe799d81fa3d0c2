SPECIFICATION FlowSpec
CONSTANTS
    o1 = o1
    o2 = o2
    alice = alice
    bob = bob
    NoOrder = NoOrder
    Order = {o1, o2, o3}
    Identity = {alice, bob}
    Owner <- OneCustomer
    Qty <- Singles
    NBuckets = 1
    Capacity <- Scarce
    MaxPerOrder = 2
    MaxPerIdentity = 2
    Payment = {}
    PayFor <- MCPayFor
    Sweeper = {w1}
    Faults = {"lost_reply", "redis_loss", "slow_request"}
    MaxLosses = 1
CHECK_DEADLOCK FALSE
SYMMETRY Requests
INVARIANTS
    OneLiveHold
    GateWithinCapacity
