SPECIFICATION FairDeliverySpec
CONSTANTS
    o1 = o1
    rp1 = rp1
    rp2 = rp2
    rt = rt
    issuer = issuer
    notifier = notifier
    m1 = m1
    s1 = s1
    s2 = s2
    Order = {o1}
    Relay = {rp1, rp2, rt}
    Serves <- Services
    Batch = 2
    Consumer = {issuer, notifier}
    Reads <- Queues
    Manual = {m1}
    Scanner = {s1, s2}
    MaxAttempts = 2
    Faults = {"unpublished", "unconfirmed", "relay_crash", "crash", "db_down", "lost_commit", "smtp_down", "lost_receipt"}
    MaxFaults = 1
CONSTRAINT Apart
INVARIANTS
    NothingLost
    SentOncePerLoss
    OneEntry
PROPERTIES
    PaidGetsTickets
CHECK_DEADLOCK FALSE
