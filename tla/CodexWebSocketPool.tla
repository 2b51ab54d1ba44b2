------------------------- MODULE CodexWebSocketPool -------------------------
(***************************************************************************)
(* The pool of WebSocket connections to Codex (codexWebSocketPool): leases *)
(* that requests take and give back, idle connections that expire, and the *)
(* goroutines that may end one reply at the same time: the pump that reads *)
(* it, the handler that closes its body, and the request's context.        *)
(*                                                                         *)
(* A cache entry never changes its connection, so the connection stands for *)
(* the entry.  Closing a connection nobody else can reach is part of the   *)
(* step that took it out of everyone's reach.                              *)
(***************************************************************************)
EXTENDS Integers

CONSTANTS
    Clients,        \* requests
    Keys,           \* cache keys: account, revision and session
    Conns,          \* connections that may be dialled
    NoConn, NoKey,
    MaxGeneration   \* bound of an entry's idleGeneration

ASSUME PoolAssumption ==
    /\ NoConn \notin Conns /\ NoKey \notin Keys
    /\ {"unborn", "parked", "closed"} \cap Clients = {}
    /\ MaxGeneration \in Nat \ {0}

VARIABLES
    entries,        \* codexWebSocketPool.entries: the connection of each key
    busy,           \* entries whose connection is leased
    old,            \* connections past codexWebSocketMaxAge
    generation,     \* idleGeneration of each entry
    armed,          \* entries whose idleTimer is running
    fired,          \* timers that ran out and wait for the mutex
    open, closed,   \* connections dialled, and those closed by this process
    client          \* the requests

vars == <<entries, busy, old, generation, armed, fired, open, closed, client>>

\* draining: the reply has ended, its body is not closed yet.
Places == {"idle", "dialling", "dialled", "sending", "streaming", "draining"}

\* live: releaseOnce has not run.  pooled: the lease has an entry.
Idle == [pc |-> "idle", key |-> NoKey, conn |-> NoConn, pooled |-> FALSE,
         live |-> FALSE]

TypeOK ==
    /\ entries \in [Keys -> Conns \cup {NoConn}]
    /\ busy \subseteq Conns /\ old \subseteq Conns
    /\ generation \in [Conns -> 0 .. MaxGeneration]
    /\ armed \subseteq Conns
    /\ fired \subseteq Conns \X (1 .. MaxGeneration)
    /\ open \subseteq Conns /\ closed \subseteq Conns
    /\ client \in [Clients -> [pc : Places, key : Keys \cup {NoKey},
                               conn : Conns \cup {NoConn}, pooled : BOOLEAN,
                               live : BOOLEAN]]

Init ==
    /\ entries = [k \in Keys |-> NoConn]
    /\ busy = {} /\ old = {} /\ armed = {} /\ fired = {}
    /\ generation = [n \in Conns |-> 0]
    /\ open = {} /\ closed = {}
    /\ client = [c \in Clients |-> Idle]

-----------------------------------------------------------------------------
(* Helpers.                                                                *)

timers == <<generation, armed, fired>>

At(c, places) == client[c].pc \in places

Goto(c, place) == client' = [client EXCEPT ![c].pc = place]

Leave(c) == client' = [client EXCEPT ![c] = Idle]

CloseConn(n) == open' = open \ {n} /\ closed' = closed \cup {n}

Pooled(n) == \E k \in Keys : entries[k] = n

Forget(n) ==
    entries' = [k \in Keys |-> IF entries[k] = n THEN NoConn ELSE entries[k]]

\* idleTimer.Stop: a timer that has fired already is not stopped by it, but
\* finds that the generation has moved on.
StopTimer(n) ==
    /\ armed' = armed \ {n}
    /\ generation[n] < MaxGeneration
    /\ generation' = [generation EXCEPT ![n] = @ + 1]
    /\ UNCHANGED fired

-----------------------------------------------------------------------------
(* acquire.                                                                *)

\* The idle connection of the key is taken.
Acquire(c, k) ==
    LET n == entries[k]
    IN  /\ At(c, {"idle"}) /\ n # NoConn /\ n \notin busy \cup old
        /\ StopTimer(n) /\ busy' = busy \cup {n}
        /\ client' = [client EXCEPT ![c] = [pc |-> "sending", key |-> k,
                              conn |-> n, pooled |-> TRUE, live |-> TRUE]]
        /\ UNCHANGED <<entries, old, open, closed>>

\* There is none, or it is busy.
AcquireNew(c, k) ==
    /\ At(c, {"idle"}) /\ entries[k] \in busy \cup {NoConn}
    /\ client' = [client EXCEPT ![c].pc = "dialling", ![c].key = k]
    /\ UNCHANGED <<entries, busy, old, timers, open, closed>>

\* It has reached its maximum age: closed, and another one is dialled.
Retire(c, k) ==
    LET n == entries[k]
    IN  /\ At(c, {"idle"}) /\ n \in old \ busy
        /\ Forget(n) /\ StopTimer(n) /\ CloseConn(n)
        /\ client' = [client EXCEPT ![c].pc = "dialling", ![c].key = k]
        /\ UNCHANGED <<busy, old>>

\* dialCodexWebSocketWithRetry, out of the mutex.
Dial(c) ==
    /\ At(c, {"dialling"})
    /\ \/ \E n \in Conns \ (open \cup closed) :
             /\ open' = open \cup {n}
             /\ client' = [client EXCEPT ![c].pc = "dialled", ![c].conn = n]
       \/ Leave(c) /\ UNCHANGED open
    /\ UNCHANGED <<entries, busy, old, timers, closed>>

\* Faulty: what another request has put there meanwhile is overwritten.
RegisterOver(c) ==
    LET k == client[c].key
        n == client[c].conn
    IN  /\ At(c, {"dialled"})
        /\ entries' = [entries EXCEPT ![k] = n] /\ busy' = busy \cup {n}
        /\ client' = [client EXCEPT ![c].pc = "sending", ![c].live = TRUE,
                                    ![c].pooled = TRUE]
        /\ UNCHANGED <<old, timers, open, closed>>

\* The new connection becomes the key's entry, unless another request was
\* faster: then it is used once, outside the pool.
Register(c) ==
    LET k == client[c].key
        n == client[c].conn
        first == entries[k] = NoConn
    IN  /\ At(c, {"dialled"})
        /\ entries' = IF first THEN [entries EXCEPT ![k] = n] ELSE entries
        /\ busy' = IF first THEN busy \cup {n} ELSE busy
        /\ client' = [client EXCEPT ![c].pc = "sending", ![c].live = TRUE,
                                    ![c].pooled = first]
        /\ UNCHANGED <<old, timers, open, closed>>

-----------------------------------------------------------------------------
(* release.                                                                *)

\* The connection is closed, and its entry, if it has one, forgotten.
Discard(c) ==
    LET n == client[c].conn
        mine == client[c].pooled /\ entries[client[c].key] = n
    IN  /\ CloseConn(n)
        /\ IF mine THEN Forget(n) ELSE UNCHANGED entries
        /\ armed' = IF mine THEN armed \ {n} ELSE armed
        /\ busy' = IF mine THEN busy \ {n} ELSE busy
        /\ UNCHANGED <<generation, fired>>

\* The entry is still the lease's own, and young enough.
MayKeep(c) ==
    /\ client[c].pooled /\ entries[client[c].key] = client[c].conn
    /\ client[c].conn \notin old

\* Faulty: the timer is not armed.
KeepUntimed(c) ==
    LET n == client[c].conn
    IN  /\ busy' = busy \ {n}
        /\ generation[n] < MaxGeneration
        /\ generation' = [generation EXCEPT ![n] = @ + 1]
        /\ UNCHANGED <<entries, armed, fired, open, closed>>

\* Faulty: the entry stays busy.
KeepBusy(c) ==
    LET n == client[c].conn
    IN  /\ armed' = armed \cup {n}
        /\ generation[n] < MaxGeneration
        /\ generation' = [generation EXCEPT ![n] = @ + 1]
        /\ UNCHANGED <<entries, busy, fired, open, closed>>

\* The connection waits for the key's next request, under a timer.
Keep(c) ==
    LET n == client[c].conn
    IN  /\ busy' = busy \ {n} /\ armed' = armed \cup {n}
        /\ generation[n] < MaxGeneration
        /\ generation' = [generation EXCEPT ![n] = @ + 1]
        /\ UNCHANGED <<entries, fired, open, closed>>

\* release(false) under releaseOnce: only the first one counts.
GiveBack(c) ==
    IF client[c].live THEN Discard(c)
    ELSE UNCHANGED <<entries, busy, timers, open, closed>>

\* Sent: the pump takes over.
Send(c) ==
    /\ At(c, {"sending"}) /\ client[c].live /\ Goto(c, "streaming")
    /\ UNCHANGED <<entries, busy, old, timers, open, closed>>

\* The context's AfterFunc gives the lease back under the sender's hands.
CancelSend(c) ==
    /\ At(c, {"sending"}) /\ client[c].live
    /\ Discard(c) /\ client' = [client EXCEPT ![c].live = FALSE]
    /\ UNCHANGED old

\* The message could not be sent, or the context has ended.
SendFails(c) ==
    /\ At(c, {"sending"})
    /\ GiveBack(c) /\ Leave(c)
    /\ UNCHANGED old

\* The pump has passed on the last event of a good reply ...
PumpEnds(c) ==
    /\ At(c, {"streaming"}) /\ client[c].live
    /\ IF MayKeep(c) THEN Keep(c) ELSE Discard(c)
    /\ client' = [client EXCEPT ![c].live = FALSE, ![c].pc = "draining"]
    /\ UNCHANGED old

\* ... or of a failed one, or reading failed, or the context ended first.
PumpFails(c) ==
    /\ At(c, {"streaming"}) /\ client[c].live /\ Discard(c)
    /\ client' = [client EXCEPT ![c].live = FALSE, ![c].pc = "draining"]
    /\ UNCHANGED old

\* The handler closes the body, before or after the pump is done.
CloseBody(c) ==
    /\ At(c, {"streaming", "draining"})
    /\ GiveBack(c) /\ Leave(c)
    /\ UNCHANGED old

-----------------------------------------------------------------------------
(* Time.                                                                   *)

\* codexWebSocketMaxAge after it entered the pool.
Age(n) ==
    /\ Pooled(n) /\ n \notin old /\ old' = old \cup {n}
    /\ UNCHANGED <<entries, busy, timers, open, closed, client>>

\* codexWebSocketIdleTimeout has passed: the timer's goroutine starts.
Fire(n) ==
    /\ n \in armed
    /\ armed' = armed \ {n} /\ fired' = fired \cup {<<n, generation[n]>>}
    /\ UNCHANGED <<entries, busy, old, generation, open, closed, client>>

Expiring(n, g, allowed) ==
    /\ <<n, g>> \in fired /\ fired' = fired \ {<<n, g>>}
    /\ IF Pooled(n) /\ allowed THEN Forget(n) /\ CloseConn(n)
       ELSE UNCHANGED <<entries, open, closed>>
    /\ UNCHANGED <<busy, old, generation, armed, client>>

\* Faulty: the generation is not looked at.
ExpireIdle(n, g) == Expiring(n, g, n \notin busy)

\* expire: only an entry that has been idle since this very timer was armed.
Expire(n, g) == Expiring(n, g, n \notin busy /\ generation[n] = g)

-----------------------------------------------------------------------------
Next ==
    \/ \E c \in Clients :
          \/ \E k \in Keys : Acquire(c, k) \/ AcquireNew(c, k) \/ Retire(c, k)
          \/ Dial(c) \/ Register(c) \/ Send(c) \/ CancelSend(c) \/ SendFails(c)
          \/ PumpEnds(c) \/ PumpFails(c) \/ CloseBody(c)
    \/ \E n \in Conns :
          \/ Age(n) \/ Fire(n)
          \/ \E g \in 1 .. MaxGeneration : Expire(n, g)

Spec == Init /\ [][Next]_vars

\* Timers run out and their goroutines get the mutex.
FairSpec ==
    /\ Spec
    /\ \A n \in Conns : /\ WF_vars(Fire(n))
                        /\ \A g \in 1 .. MaxGeneration : WF_vars(Expire(n, g))

-----------------------------------------------------------------------------
(* Properties.                                                             *)

Leased(n) == {c \in Clients : client[c].live /\ client[c].conn = n}

InHand(n) == {c \in Clients : At(c, {"dialled"}) /\ client[c].conn = n}

Users(n) == Leased(n) \cup InHand(n)

Parked(n) == Pooled(n) /\ n \notin busy

\* Every open connection is on its way into the pool, leased to one request,
\* or idle under a timer that will close it: none leaks whichever of the pump,
\* the body, the context and the timer comes first.
NoConnectionLeaks ==
    \A n \in open :
        \/ \E c \in Clients : Users(n) = {c}
        \/ Parked(n) /\ (n \in armed \/ <<n, generation[n]>> \in fired)

\* An entry marked busy is leased and an idle one is not: otherwise the key
\* would be blocked for good, or its connection shared.  And nobody closes the
\* connection under the request that has leased it, whoever gives it back first.
BusyMeansLeased ==
    /\ \A k \in Keys : entries[k] # NoConn =>
           /\ entries[k] \in open
           /\ entries[k] \in busy <=> Leased(entries[k]) # {}
    /\ \A c \in Clients : client[c].live => client[c].conn \in open

\* A young idle connection is closed by the timer of its present idle period
\* only: the timer of an earlier one, which had run out when a request took the
\* connection and comes to the mutex after it was given back, leaves it alone.
IdlePeriodIsFull ==
    [][\A n \in Conns : Parked(n) /\ n \notin old /\ n \in closed'
           => <<n, generation[n]>> \in fired]_vars

\* What nobody asks for any more is closed in the end.
IdleIsClosed == \A n \in Conns : Parked(n) ~> n \in busy \cup closed

-----------------------------------------------------------------------------
(* The pool implements exclusive connections: who holds each one, and for  *)
(* which key.                                                              *)

Holder(n) ==
    CASE n \in closed -> "closed"
      [] n \notin open \cup closed -> "unborn"
      [] n \in open /\ Parked(n) -> "parked"
      [] n \in open /\ ~Parked(n) /\ Users(n) # {} ->
             CHOOSE c \in Clients : c \in Users(n)
      [] OTHER -> "lost"

Home(n) ==
    CASE n \in open /\ Pooled(n) -> CHOOSE k \in Keys : entries[k] = n
      [] n \in open /\ ~Pooled(n) /\ Users(n) # {} -> client[Holder(n)].key
      [] OTHER -> NoKey

Exclusive == INSTANCE ExclusiveConnections
                 WITH holder <- [n \in Conns |-> Holder(n)],
                      home <- [n \in Conns |-> Home(n)]

\* A connection serves one request at a time, only requests of the key it was
\* dialled for, and none after it was closed (acquire, release and expire).
OneUserPerConnection == Exclusive!Spec

=============================================================================
