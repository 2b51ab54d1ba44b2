\* Two requests, one or two sessions, three connections.
SPECIFICATION FairSpec
CONSTANTS
    Clients = {c1, c2}
    Keys = {k1, k2}
    Conns = {n1, n2}
    NoConn = none
    NoKey = nokey
    MaxGeneration = 3
INVARIANTS NoConnectionLeaks BusyMeansLeased
PROPERTIES IdlePeriodIsFull IdleIsClosed OneUserPerConnection
