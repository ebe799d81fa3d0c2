SPECIFICATION RateSpec
CONSTANTS
    i1 = i1
    i2 = i2
    Nobody = Nobody
    Ghost = Ghost
    Instance = {i1, i2}
    Unit = 2
    MinRate = 2
    MaxRate = 6
    StepUp = 2
    Backoff = 7
    DecreaseCooldown = 2
    OpsRates = {0}
    Failures = {"failed_read"}
    MaxTime = 4
    MaxFaults = 2
CHECK_DEADLOCK FALSE
PROPERTY
    StaysObeyed
