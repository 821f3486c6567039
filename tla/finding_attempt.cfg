SPECIFICATION FairSpec

CONSTANTS
    Tasks = {t1}
    Workers = {w1}
    Pools = {p1}
    PoolOf <- SharedPool
    NoWorker = NoWorker
    NoRef = NoRef
    p1 = p1
    t1 = t1
    t2 = t2
    t3 = t3
    k1 = k1
    bodyA = bodyA
    bodyB = bodyB
    KeyOf <- NoKeys
    PayloadOf <- OneBody
    NoKey = NoKey
    MaxAttempts = 2
    LeaseDuration = 1
    MaxBackoff = 1
    Skew = 0
    ManualDLQ = FALSE
    UpsertAttempts = FALSE
    MaxPlugins = 1
    MaxTime = 12
    MaxFaults = 0
    MaxBeats = 0

PROPERTIES
    CompletedRunIsStored

CHECK_DEADLOCK FALSE
