\* Every version of the configuration; one request at a time, one timer.
SPECIFICATION Spec
CONSTANTS
    Timers = {g1}
    Requests = {r1}
    Main = main0
    None = none
    MaxCount = 2
INVARIANTS NothingIsLost
PROPERTIES OldIsKept ShutdownEnds
