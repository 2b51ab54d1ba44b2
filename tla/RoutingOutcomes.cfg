\* One account, several requests, every outcome, failing writes and restarts.
SPECIFICATION Spec
CONSTANTS
    Ladder <- Steps
    FailureReset = 3
    MaxSoftProbeDelay = 2
    Accounts = {a1}
    Requests = {r1, r2, r3}
    Admin = admin
    NoOne = none
    Environment <- OutcomeEvents
    Hints = {2}
    MaxTime = 3
    MaxRevision = 1
SYMMETRY RequestSymmetry
INVARIANTS SlotHasOwner SingleProbe CooldownHasReason
PROPERTIES EvidenceIsFresh
