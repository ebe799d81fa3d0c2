SPECIFICATION FairCatalogueSpec
CONSTANTS
    e1 = e1
    r1 = r1
    r2 = r2
    w1 = w1
    Event = {e1}
    Request = {r1, r2}
    Worker = {w1}
    Does <- TwoCallers
    Lead = 1
    StartsAt = 2
    MaxTime = 1
    MaxQuota = 2
    MaxRows = 2
    Batch = 2
    MaxAttempts = 2
    Faults = {"unconfirmed", "gemini_down", "db_down", "audit_down", "svc_crash", "lost_answer", "worker_crash", "request_crash"}
    MaxFaults = 1
CONSTRAINT Apart
INVARIANTS
    QuotaIsCapacity
    NotOnSaleEarly
    PendingHasJob
CHECK_DEADLOCK FALSE
PROPERTIES
    ReviewsEnd
    SalesOpen
