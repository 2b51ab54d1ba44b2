\* Two callers beside login, logout, saves, failing writes and restarts.
SPECIFICATION FairSpec
CONSTANTS
    Callers = {c1, c2}
    Admin = admin
    NoOne = none
    Environment <- AllEvents
    MaxToken = 4
    MaxRevision = 2
INVARIANTS TypeOK ReplacementIsKept
PROPERTIES TokensMoveForward FollowersAreReleased
