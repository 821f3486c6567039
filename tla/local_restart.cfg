SPECIFICATION FairSpec

CONSTANTS
    Requests = {x1, x2}
    Cancels = {}
    Workers = {w1}
    Main = Main
    NoOne = NoOne
    NoKey = NoKey
    x1 = x1
    x2 = x2
    x3 = x3
    k1 = k1
    bodyA = bodyA
    KeyOf <- NoKeys
    PayloadOf <- OneBody
    QueueSize = 1
    MaxPlugins = 1
    Reported = {"Success"}
    MaxFaults = 1
    MaxCrashes = 1

PROPERTIES
    AcceptedIsDecided

CHECK_DEADLOCK FALSE
