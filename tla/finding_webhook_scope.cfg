SPECIFICATION Spec

CONSTANTS
    e1 = e1
    e2 = e2
    h1 = h1
    h2 = h2
    t1 = t1
    t2 = t2
    a1 = a1
    Events = {e1, e2}
    Endpoints = {h1, h2}
    Scheduler = Scheduler
    Admins = {a1}
    Enabled = {h1, h2}
    EventsOf <- AllEvents
    ScopeOf <- TwoScopeHooks
    UserScope <- Users
    SuperAdmins = {}
    RunScope <- TwoScopeRuns
    DefaultScope = t1
    NoRow = NoRow
    MaxAttempts = 2
    Batch = 1
    MaxChanges = 0
    MaxFailures = 0

INVARIANT
    DeliveredInScope

CHECK_DEADLOCK FALSE
