\* README.md:89 against the candidate lists of selectAccountWithMode.
SPECIFICATION Spec
CONSTANTS
    Ladder <- Steps
    FailureReset = 3
    MaxSoftProbeDelay = 2
    Accounts = {a1, a2}
    Requests = {r1, r2}
    Admin = admin
    NoOne = none
    Environment <- ProbeEvents
    Hints = {2}
    MaxTime = 4
    MaxRevision = 1
SYMMETRY RequestSymmetry
INVARIANTS ExpiredBlockIsProbed
