SPECIFICATION Spec

CONSTANTS
    Tasks = {t1, t2}
    Workers = {w1, w2}
    p1 = p1
    p2 = p2
    Pools = {p1, p2}
    PoolOf <- SharedPool
    NoWorker = NoWorker
    NoRef = NoRef
    MaxAttempts = 2
    LeaseDuration = 2
    MaxBackoff = 2
    Skew = 1
    ManualDLQ = FALSE
    MaxTime = 4
    MaxFaults = 2
    MaxBeats = 1

SYMMETRY TaskWorkerSymmetry

INVARIANTS
    TypeOK
    LiveLeaseIsExclusive
    LeasesAreFenced

PROPERTIES
    OnlyOwnerSettles
    SettledIsFinal
    KeepsContract

CHECK_DEADLOCK FALSE
