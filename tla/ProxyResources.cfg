\* Requests that wait for memory and for the gate, time, and every way out.
SPECIFICATION Spec
CONSTANTS
    Keys = {k1, k2}
    GlobalConcurrency = 2
    AccountConcurrency = 1
    GlobalRate = 1
    GlobalBurst = 2
    AccountRate = 1
    AccountBurst = 1
    Ladder <- Steps
    FailureReset = 1
    MaxRetryAfter = 3
    MaxTime = 2
    Limit = 2
    Clients = {c1, c2}
    NoKey = none
    Sizes = {0, 1, 2}
    Contexts = {0, 1}
    Capture = 1
    Hints = {0, 3}
    Environment <- NoEvents
SYMMETRY ClientSymmetry
INVARIANTS TypeOK CountsMatch BytesAreHeld NoLostWakeup RateIsKept
PROPERTIES CooldownIsKept
