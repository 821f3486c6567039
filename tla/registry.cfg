SPECIFICATION Spec

CONSTANTS
    Keys = {k1}
    Reloaders = {r1, r2}
    Admins = {a1}
    NoOne = NoOne
    Sql = FALSE
    Revisions = {v1, v2}
    MaxChanges = 1
    MaxReloads = 3
    MaxRequests = 2
    MaxFaults = 1

SYMMETRY Symmetry

INVARIANTS
    TypeOK
    ReloadMatchesDirectory
    ReloadKeepsDecisions

CHECK_DEADLOCK FALSE
