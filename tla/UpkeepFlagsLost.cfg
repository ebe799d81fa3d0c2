SPECIFICATION FairUpkeepSpec
CONSTANTS
    o1 = o1
    o2 = o2
    alice = alice
    bob = bob
    w1 = w1
    w2 = w2
    w3 = w3
    NoOrder = NoOrder
    Order = {o1}
    Identity = {alice, bob}
    Owner <- MCOwner
    Qty <- MCQty
    NBuckets = 1
    Capacity <- One
    MaxPerOrder = 1
    MaxPerIdentity = 1
    Reconciler = {w1}
    Watcher = {w2, w3}
    Deployments <- Pairs
    Faults = {"redis_loss"}
    MaxLosses = 1
    ConfirmTicks = 2
CHECK_DEADLOCK FALSE
PROPERTY FlagsRightAfterLoss
