SPECIFICATION FairDeliverySpec
CONSTANTS
    o1 = o1
    rp1 = rp1
    rp2 = rp2
    rt = rt
    issuer = issuer
    notifier = notifier
    m1 = m1
    s1 = s1
    s2 = s2
    Order = {o1}
    Relay = {rp1, rt}
    Serves <- Services
    Batch = 2
    Consumer = {issuer, notifier}
    Reads <- Queues
    Manual = {}
    Scanner = {}
    MaxAttempts = 2
    Faults = {"db_down"}
    MaxFaults = 2
PROPERTY PaidGetsTickets
CHECK_DEADLOCK FALSE
