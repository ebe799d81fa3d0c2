SPECIFICATION FairCatalogueSpec
CONSTANTS
    e1 = e1
    r1 = r1
    r2 = r2
    w1 = w1
    Event = {e1}
    Request = {r1, r2}
    Worker = {w1}
    Does <- TwoCallers
    Lead = 1
    StartsAt = 2
    MaxTime = 1
    MaxQuota = 2
    MaxRows = 1
    Batch = 2
    MaxAttempts = 2
    Faults = {}
    MaxFaults = 0
CONSTRAINT Apart
CHECK_DEADLOCK FALSE
PROPERTY
    NeverStuck
