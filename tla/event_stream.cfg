SPECIFICATION Spec

CONSTANTS
    worker = worker
    other = other
    Recorders = {worker, other}
    Watched = {worker}
    Streams = {s1, s2}
    NoOne = NoOne
    Capacity = 1
    EventsOf <- Counts
    MaxConnects = 3
    MaxFaults = 1

INVARIANTS
    TypeOK
    StreamKeepsOrder
    MissedForCause
    StoredUnlessRaced

PROPERTIES
    RecordingNeverWaits

CHECK_DEADLOCK FALSE
