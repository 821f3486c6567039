SPECIFICATION FairSpec

CONSTANTS
    Tasks = {t1, t2}
    Workers = {w1}
    p1 = p1
    p2 = p2
    Pools = {p1, p2}
    PoolOf <- SharedPool
    NoWorker = NoWorker
    NoRef = NoRef
    MaxAttempts = 2
    LeaseDuration = 1
    MaxBackoff = 1
    Skew = 0
    ManualDLQ = TRUE
    MaxTime = 20
    MaxFaults = 2
    MaxBeats = 0

PROPERTIES
    EveryTaskSettles

CHECK_DEADLOCK FALSE
