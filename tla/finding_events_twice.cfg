SPECIFICATION Spec

CONSTANTS
    worker = worker
    other = other
    Recorders = {worker, other}
    Watched = {worker}
    Streams = {s1, s2}
    NoOne = NoOne
    Capacity = 1
    EventsOf <- Counts
    MaxConnects = 3
    MaxFaults = 0

INVARIANT
    NoEventTwice

CHECK_DEADLOCK FALSE
