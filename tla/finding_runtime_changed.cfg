SPECIFICATION Spec

CONSTANTS
    Manifests <- AllManifests
    Sql = FALSE
    TrustedKeys = TRUE
    Provider = TRUE
    ContainersEnabled = TRUE
    MaxTimeout = 30
    DefaultTimeout = 5
    MaxOutput = 2
    MaxWritten = 3
    MaxChanges = 1

INVARIANTS
    VerifiedIsWhatRuns

CHECK_DEADLOCK FALSE
