SPECIFICATION Spec

CONSTANTS
    Requests = {x1, x2, x3}
    Cancels = {}
    Workers = {w1}
    Main = Main
    NoOne = NoOne
    NoKey = NoKey
    x1 = x1
    x2 = x2
    x3 = x3
    k1 = k1
    bodyA = bodyA
    KeyOf <- RetryOfSecond
    PayloadOf <- OneBody
    QueueSize = 1
    MaxPlugins = 1
    Reported = {"Success"}
    MaxFaults = 0
    MaxCrashes = 0

INVARIANTS
    RetriesShareOneExecution

CHECK_DEADLOCK FALSE
