\* One account beside the administrator and the refreshers.
SPECIFICATION FairSpec
CONSTANTS
    Ladder <- Steps
    FailureReset = 3
    MaxSoftProbeDelay = 2
    Accounts = {a1}
    Requests = {r1, r2}
    Admin = admin
    NoOne = none
    Environment <- AdminEvents
    Hints = {2}
    MaxTime = 2
    MaxRevision = 2
INVARIANTS DiskInSync
PROPERTIES BlockEndsWithSuccess StaleIsHarmless SlotIsReturned
