------------------------ MODULE ExclusiveConnections ------------------------
(***************************************************************************)
(* What the WebSocket pool promises (codexWebSocketPool): a connection is  *)
(* dialled by one request for one cache key, used by one request at a time, *)
(* kept between requests of that key only, and never used again once it has *)
(* been closed.                                                            *)
(***************************************************************************)
CONSTANTS Clients, Keys, Conns, NoKey

VARIABLES
    holder,     \* who uses the connection, or what has become of it
    home        \* the cache key an open connection was dialled for

vars == <<holder, home>>

Init ==
    /\ holder = [n \in Conns |-> "unborn"]
    /\ home = [n \in Conns |-> NoKey]

Dial(c, n, k) ==
    /\ holder[n] = "unborn"
    /\ holder' = [holder EXCEPT ![n] = c] /\ home' = [home EXCEPT ![n] = k]

Park(c, n) ==
    /\ holder[n] = c
    /\ holder' = [holder EXCEPT ![n] = "parked"] /\ UNCHANGED home

Take(c, n, k) ==
    /\ holder[n] = "parked" /\ home[n] = k
    /\ holder' = [holder EXCEPT ![n] = c] /\ UNCHANGED home

Close(n) ==
    /\ holder[n] \in Clients \cup {"parked"}
    /\ holder' = [holder EXCEPT ![n] = "closed"] /\ home' = [home EXCEPT ![n] = NoKey]

Next ==
    \E n \in Conns :
        \/ \E c \in Clients :
              \/ \E k \in Keys : Dial(c, n, k) \/ Take(c, n, k)
              \/ Park(c, n)
        \/ Close(n)

Spec == Init /\ [][Next]_vars

=============================================================================
