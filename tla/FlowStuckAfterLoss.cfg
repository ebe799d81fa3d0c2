SPECIFICATION FairFlowSpec
CONSTANTS
    o1 = o1
    o2 = o2
    alice = alice
    bob = bob
    NoOrder = NoOrder
    Order = {o1, o2}
    Identity = {alice, bob}
    Owner <- TwoCustomers
    Qty <- MCQty
    NBuckets = 1
    Capacity <- Scarce
    MaxPerOrder = 2
    MaxPerIdentity = 2
    Payment = {p1}
    PayFor <- MCPayFor
    Sweeper = {w1}
    Faults = {"redis_loss"}
    MaxLosses = 1
CHECK_DEADLOCK FALSE
PROPERTY
    HoldsEnd
