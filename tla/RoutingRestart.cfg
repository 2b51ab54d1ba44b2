\* Two accounts, failing writes and restarts; three to choose from.
SPECIFICATION RoutingSpec
CONSTANTS
    Ladder <- Steps
    FailureReset = 3
    MaxSoftProbeDelay = 2
    Accounts = {a1, a2}
    Requests = {r1, r2}
    Admin = admin
    NoOne = none
    Environment <- RestartEvents
    Hints = {2}
    MaxTime = 2
    MaxRevision = 1
    IDs = {s1, s2, s3}
    BatchSize = 2
    Views <- Sights
    MaxAssigned = 3
SYMMETRY RoutingSymmetry
INVARIANTS NoLostUpdate EveryoneGetsATurn UseIsCompared FirstIsTaken
PROPERTIES HardBlockSticks
