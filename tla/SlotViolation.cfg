\* README.md:288 against the 409 of handleProxy.
SPECIFICATION Spec
CONSTANTS
    Keys = {k1}
    GlobalConcurrency = 2
    AccountConcurrency = 1
    GlobalRate = 1
    GlobalBurst = 2
    AccountRate = 1
    AccountBurst = 1
    Ladder <- Steps
    FailureReset = 1
    MaxRetryAfter = 3
    MaxTime = 1
    Limit = 2
    Clients = {c1}
    NoKey = none
    Sizes = {1}
    Contexts = {0, 1}
    Capture = 1
    Hints = {0, 3}
    Environment <- LateChange
SYMMETRY ClientSymmetry
INVARIANTS OnlyRequestsAreCounted
