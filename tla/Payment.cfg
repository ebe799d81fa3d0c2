SPECIFICATION FairPaySpec
CONSTANTS
    o1 = o1
    o2 = o2
    alice = alice
    bob = bob
    p1 = p1
    p2 = p2
    e1 = e1
    Order = {o1, o2}
    Identity = {alice, bob}
    Owner <- MCOwner
    Qty <- MCQty
    NBuckets = 1
    Capacity <- MCCapacity
    MaxPerOrder = 1
    MaxPerIdentity = 1
    Payment = {p1, p2, e1}
    PayFor <- MCPayFor
    Gateway <- MixedGateways
    Early = {e1}
    Retried = {p1, p2, e1}
    MaxAttempts = 2
    Refunder = {1}
    Modes = {"success", "fail"}
    Default = "sandbox"
CONSTRAINT OneAtATime
CHECK_DEADLOCK FALSE
INVARIANTS
    OnePayable
    AckedIsRecorded
    RefundsMatch
PROPERTIES
    PendingEnds
    EarlyIsReplayed
