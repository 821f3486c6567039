SPECIFICATION FairSpec

CONSTANTS
    Manifests <- AllManifests
    Sql = FALSE
    TrustedKeys = TRUE
    Provider = TRUE
    ContainersEnabled = TRUE
    MaxTimeout = 30
    DefaultTimeout = 5
    MaxOutput = 2
    MaxWritten = 3
    MaxChanges = 1

INVARIANTS
    TypeOK
    RunsAsDeclared
    ResultIsTrue

PROPERTIES
    RunEnds

CHECK_DEADLOCK FALSE
