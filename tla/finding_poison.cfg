SPECIFICATION Spec

CONSTANTS
    Tasks = {t1}
    Workers = {w1}
    p1 = p1
    p2 = p2
    Pools = {p1, p2}
    PoolOf <- SharedPool
    NoWorker = NoWorker
    NoRef = NoRef
    MaxAttempts = 2
    LeaseDuration = 1
    MaxBackoff = 2
    Skew = 0
    ManualDLQ = FALSE
    MaxTime = 8
    MaxFaults = 3
    MaxBeats = 1

INVARIANTS
    AttemptsAreLimited

CHECK_DEADLOCK FALSE
