---------------------- MODULE CodexWebSocketPoolProofs ----------------------
(* CodexWebSocketPool for any number of requests, keys and connections:    *)
(* who can reach a connection at any time, one lemma for each way in which *)
(* an action changes that, then the theorems and the refinement.           *)
EXTENDS CodexWebSocketPool, TLAPS

USE PoolAssumption

ClientRec == [pc : Places, key : Keys \cup {NoKey}, conn : Conns \cup {NoConn},
              pooled : BOOLEAN, live : BOOLEAN]

\* c will be the one to give n back, or to put it into the pool.
Uses(c, n) == client[c].conn = n /\ (client[c].live \/ client[c].pc = "dialled")

Shape(r) ==
    /\ r.pc = "idle" => r = Idle
    /\ r.pc # "idle" => r.key \in Keys
    /\ r.pc \in {"dialled", "sending", "streaming", "draining"} => r.conn \in Conns
    /\ r.live => r.pc \in {"sending", "streaming"}

ClientsOK == \A c \in Clients : Shape(client[c])

\* An entry has an open connection and shares it with no other.
EntriesOK ==
    /\ open \cap closed = {}
    /\ \A k \in Keys : entries[k] # NoConn =>
           /\ entries[k] \in open
           /\ \A j \in Keys : entries[j] = entries[k] => j = k

\* A connection in use is open and has one user.
UsersOK ==
    \A n \in Conns : \A c \in Clients : Uses(c, n) =>
        n \in open /\ \A d \in Clients : Uses(d, n) => d = c

\* A lease has the entry of its key, or a connection outside the pool.
LeasesOK ==
    \A c \in Clients :
        /\ client[c].live /\ client[c].pooled =>
              entries[client[c].key] = client[c].conn /\ client[c].conn \in busy
        /\ client[c].pc = "dialled" \/ (client[c].live /\ ~client[c].pooled) =>
              \A k \in Keys : entries[k] # client[c].conn

BusyOK ==
    \A n \in busy : \E c \in Clients :
        client[c].live /\ client[c].pooled /\ client[c].conn = n

OpenOK == \A n \in open : Pooled(n) \/ \E c \in Clients : Uses(c, n)

\* A parked connection has a timer of this very idle period.
TimersOK ==
    /\ \A n \in armed : generation[n] >= 1
    /\ \A n \in Conns : Parked(n) => n \in armed \/ <<n, generation[n]>> \in fired

PoolInv ==
    /\ TypeOK /\ ClientsOK /\ EntriesOK /\ UsersOK /\ LeasesOK
    /\ BusyOK /\ OpenOK /\ TimersOK

-----------------------------------------------------------------------------
(* Records and functions.                                                  *)

LEMMA IdleRec == /\ Idle \in ClientRec /\ Shape(Idle) /\ Idle.pc = "idle"
                 /\ Idle.live = FALSE
  BY DEF Idle, ClientRec, Places, Shape

LEMMA AtPlace ==
    ASSUME NEW r \in ClientRec, NEW place \in Places
    PROVE  /\ [r EXCEPT !.pc = place] \in ClientRec
           /\ [r EXCEPT !.pc = place].pc = place
           /\ [r EXCEPT !.pc = place].key = r.key
           /\ [r EXCEPT !.pc = place].conn = r.conn
           /\ [r EXCEPT !.pc = place].pooled = r.pooled
           /\ [r EXCEPT !.pc = place].live = r.live
  BY DEF ClientRec

\* One request moves.
LEMMA OneClient ==
    ASSUME client \in [Clients -> ClientRec], NEW c \in Clients, NEW r \in ClientRec,
           client' = [client EXCEPT ![c] = r]
    PROVE  /\ client' \in [Clients -> ClientRec] /\ client'[c] = r
           /\ \A d \in Clients : d # c => client'[d] = client[d]
  OBVIOUS

LEMMA Typed ==
    TypeOK <=> /\ entries \in [Keys -> Conns \cup {NoConn}]
               /\ busy \subseteq Conns /\ old \subseteq Conns
               /\ generation \in [Conns -> 0 .. MaxGeneration]
               /\ armed \subseteq Conns
               /\ fired \subseteq Conns \X (1 .. MaxGeneration)
               /\ open \subseteq Conns /\ closed \subseteq Conns
               /\ client \in [Clients -> ClientRec]
  BY DEF TypeOK, ClientRec

-----------------------------------------------------------------------------
(* Who can reach what.                                                     *)

\* A request that moves without taking, getting or giving back a connection.
LEMMA ClientMoves ==
    ASSUME PoolInv, NEW c \in Clients, NEW r \in ClientRec, Shape(r),
           client' = [client EXCEPT ![c] = r],
           \/ ~r.live /\ r.pc # "dialled" /\ ~client[c].live /\ client[c].pc # "dialled"
           \/ /\ r.live /\ client[c].live
              /\ r.key = client[c].key /\ r.conn = client[c].conn
              /\ r.pooled = client[c].pooled,
           UNCHANGED <<entries, busy, old, generation, armed, fired, open, closed>>
    PROVE  PoolInv'
  <1>1. client \in [Clients -> ClientRec]
    BY Typed DEF PoolInv
  <1>2. /\ client' \in [Clients -> ClientRec] /\ client'[c] = r
        /\ \A d \in Clients : d # c => client'[d] = client[d]
    BY <1>1, OneClient
  <1>3. r.live => r.pc # "dialled" /\ client[c].pc # "dialled"
    BY DEF PoolInv, ClientsOK, Shape
  <1>4. TypeOK'
    BY <1>2 DEF PoolInv, TypeOK, ClientRec
  <1>5. ClientsOK'
    BY <1>2 DEF PoolInv, ClientsOK
  <1>6. EntriesOK'
    BY DEF PoolInv, EntriesOK
  <1>7. \A d \in Clients, n \in Conns : Uses(d, n)' <=> Uses(d, n)
    BY <1>2, <1>3 DEF Uses
  <1>8. UsersOK' /\ OpenOK'
    BY <1>7, Typed DEF PoolInv, UsersOK, OpenOK, Pooled
  <1>9. LeasesOK'
    BY <1>2, <1>3 DEF PoolInv, LeasesOK
  <1>10. BusyOK'
    BY <1>2 DEF PoolInv, BusyOK
  <1>11. TimersOK'
    BY DEF PoolInv, TimersOK, Parked, Pooled
  <1> QED
    BY <1>4, <1>5, <1>6, <1>8, <1>9, <1>10, <1>11 DEF PoolInv

\* The generation moves on and an earlier timer counts no longer.
LEMMA Stopped ==
    ASSUME PoolInv, NEW n \in Conns, StopTimer(n)
    PROVE  /\ generation' \in [Conns -> 0 .. MaxGeneration]
           /\ generation'[n] = generation[n] + 1
           /\ \A m \in Conns : m # n => generation'[m] = generation[m]
           /\ armed' = armed \ {n} /\ fired' = fired
           /\ armed' \subseteq Conns /\ fired' \subseteq Conns \X (1 .. MaxGeneration)
           /\ \A m \in armed' : generation'[m] >= 1
  <1>1. generation \in [Conns -> 0 .. MaxGeneration] /\ armed \subseteq Conns
    BY Typed DEF PoolInv
  <1>2. /\ generation[n] < MaxGeneration /\ armed' = armed \ {n} /\ fired' = fired
        /\ generation' = [generation EXCEPT ![n] = generation[n] + 1]
    BY DEF StopTimer
  <1>3. /\ generation'[n] = generation[n] + 1
        /\ \A m \in Conns : m # n => generation'[m] = generation[m]
    BY <1>1, <1>2
  <1>4. generation[n] + 1 \in 0 .. MaxGeneration
    BY <1>1, <1>2
  <1>5. generation' \in [Conns -> 0 .. MaxGeneration]
    BY <1>1, <1>2, <1>4
  <1>6. \A m \in armed' : generation'[m] >= 1
    BY <1>1, <1>2, <1>3 DEF PoolInv, TimersOK
  <1> QED
    BY <1>1, <1>2, <1>3, <1>5, <1>6, Typed DEF PoolInv

\* The same for the timer that is armed.
LEMMA Armed ==
    ASSUME PoolInv, NEW n \in Conns, generation[n] < MaxGeneration,
           generation' = [generation EXCEPT ![n] = @ + 1]
    PROVE  /\ generation' \in [Conns -> 0 .. MaxGeneration]
           /\ generation'[n] = generation[n] + 1 /\ generation'[n] >= 1
           /\ \A m \in Conns : m # n => generation'[m] = generation[m]
  <1>1. generation \in [Conns -> 0 .. MaxGeneration]
    BY Typed DEF PoolInv
  <1>2. generation' = [generation EXCEPT ![n] = generation[n] + 1]
    OBVIOUS
  <1>3. /\ generation'[n] = generation[n] + 1
        /\ \A m \in Conns : m # n => generation'[m] = generation[m]
    BY <1>1, <1>2
  <1>4. generation[n] + 1 \in 0 .. MaxGeneration /\ generation[n] + 1 >= 1
    BY <1>1
  <1>5. generation' \in [Conns -> 0 .. MaxGeneration]
    BY <1>1, <1>2, <1>4
  <1> QED
    BY <1>3, <1>4, <1>5

\* A parked connection has no user.
LEMMA ParkedIsFree ==
    ASSUME PoolInv, NEW n \in Conns, Parked(n), NEW c \in Clients
    PROVE  ~Uses(c, n)
  <1> SUFFICES ASSUME Uses(c, n) PROVE FALSE
    OBVIOUS
  <1>1. PICK k \in Keys : entries[k] = n
    BY DEF Parked, Pooled
  <1>2. client[c].conn = n /\ n \notin busy
    BY DEF Uses, Parked
  <1>3. client[c] \in ClientRec
    BY Typed DEF PoolInv
  <1> QED
    BY <1>1, <1>2, <1>3 DEF PoolInv, LeasesOK, Uses, ClientRec

LEMMA Acquired ==
    ASSUME PoolInv, NEW c \in Clients, NEW k \in Keys, Acquire(c, k)
    PROVE  PoolInv'
  <1> DEFINE n == entries[k]
             r == [pc |-> "sending", key |-> k, conn |-> n, pooled |-> TRUE, live |-> TRUE]
  <1>1. /\ client \in [Clients -> ClientRec] /\ client[c].pc = "idle"
        /\ n \in Conns /\ n \in open /\ n \notin busy /\ n # NoConn
        /\ busy' = busy \cup {n} /\ StopTimer(n)
        /\ client' = [client EXCEPT ![c] = r]
        /\ UNCHANGED <<entries, old, open, closed>>
        /\ busy \subseteq Conns
    BY Typed DEF Acquire, At, PoolInv, EntriesOK
  <1>2. /\ r \in ClientRec /\ Shape(r) /\ r.pc = "sending" /\ r.key = k /\ r.conn = n
        /\ r.pooled = TRUE /\ r.live = TRUE
    BY <1>1 DEF ClientRec, Places, Shape
  <1>3. Parked(n)
    BY <1>1 DEF Parked, Pooled
  <1> HIDE DEF r
  <1>4. /\ client' \in [Clients -> ClientRec] /\ client'[c] = r
        /\ \A d \in Clients : d # c => client'[d] = client[d]
    BY <1>1, <1>2, OneClient
  <1>5. ~client[c].live /\ client[c].pc # "dialled"
    BY <1>1 DEF PoolInv, ClientsOK, Shape
  <1>6. /\ Uses(c, n)'
        /\ \A m \in Conns : m # n => ~Uses(c, m)'
        /\ \A d \in Clients, m \in Conns : d # c => (Uses(d, m)' <=> Uses(d, m))
    BY <1>1, <1>2, <1>4 DEF Uses
  <1>7. \A d \in Clients : ~Uses(d, n)
    BY <1>1, <1>3, ParkedIsFree
  <1>8. TypeOK'
    BY <1>1, <1>4, Stopped, Typed DEF PoolInv, TypeOK, ClientRec
  <1>9. ClientsOK'
    BY <1>2, <1>4 DEF PoolInv, ClientsOK
  <1>10. EntriesOK'
    BY <1>1 DEF PoolInv, EntriesOK
  <1>11. UsersOK'
    BY <1>1, <1>5, <1>6, <1>7 DEF PoolInv, UsersOK, Uses
  <1>12. LeasesOK'
    BY <1>1, <1>2, <1>4 DEF PoolInv, LeasesOK
  <1>13. BusyOK'
    BY <1>1, <1>2, <1>4, <1>5 DEF PoolInv, BusyOK
  <1>14. OpenOK'
    BY <1>1, <1>5, <1>6, Typed DEF PoolInv, OpenOK, Pooled, Uses
  <1>15. TimersOK'
    <2>1. \A m \in Conns : Parked(m)' => Parked(m) /\ m # n
      BY <1>1 DEF Parked, Pooled
    <2> HIDE DEF n
    <2>2. /\ armed' = armed \ {n} /\ fired' = fired
          /\ \A m \in Conns : m # n => generation'[m] = generation[m]
          /\ \A m \in armed' : generation'[m] >= 1
      BY <1>1, Stopped
    <2> QED
      BY <2>1, <2>2 DEF PoolInv, TimersOK
  <1> QED
    BY <1>8, <1>9, <1>10, <1>11, <1>12, <1>13, <1>14, <1>15 DEF PoolInv

\* An idle connection is taken out of the pool and closed.
LEMMA Removed ==
    ASSUME PoolInv, NEW n \in Conns, Parked(n), Forget(n), CloseConn(n),
           client' \in [Clients -> ClientRec], ClientsOK',
           \A d \in Clients : \/ client'[d] = client[d]
                              \/ /\ ~client'[d].live /\ client'[d].pc # "dialled"
                                 /\ ~client[d].live /\ client[d].pc # "dialled",
           UNCHANGED <<busy, old>>,
           generation' \in [Conns -> 0 .. MaxGeneration], armed' \subseteq Conns,
           fired' \subseteq Conns \X (1 .. MaxGeneration),
           \A m \in armed' : generation'[m] >= 1,
           \A m \in Conns : m # n /\ Parked(m) => m \in armed' \/ <<m, generation'[m]>> \in fired'
    PROVE  PoolInv'
  <1>1. /\ entries \in [Keys -> Conns \cup {NoConn}] /\ open' = open \ {n}
        /\ closed' = closed \cup {n} /\ busy \subseteq Conns /\ old \subseteq Conns
        /\ open \subseteq Conns /\ closed \subseteq Conns /\ NoConn # n
        /\ client \in [Clients -> ClientRec]
    BY Typed DEF PoolInv, CloseConn
  <1>2. /\ entries' \in [Keys -> Conns \cup {NoConn}]
        /\ \A k \in Keys : entries'[k] = IF entries[k] = n THEN NoConn ELSE entries[k]
    BY <1>1 DEF Forget
  <1>3. \A d \in Clients, m \in Conns : Uses(d, m)' <=> Uses(d, m)
    BY DEF Uses
  <1>4. \A d \in Clients : ~Uses(d, n)
    BY ParkedIsFree
  <1>5. TypeOK'
    BY <1>1, <1>2 DEF TypeOK, ClientRec
  <1>6. EntriesOK'
    BY <1>1, <1>2 DEF PoolInv, EntriesOK
  <1>7. UsersOK'
    BY <1>1, <1>3, <1>4 DEF PoolInv, UsersOK
  <1>8. LeasesOK'
    <2> SUFFICES ASSUME NEW d \in Clients
                 PROVE  /\ client'[d].live /\ client'[d].pooled =>
                             /\ entries'[client'[d].key] = client'[d].conn
                             /\ client'[d].conn \in busy
                        /\ client'[d].pc = "dialled" \/ (client'[d].live /\ ~client'[d].pooled) =>
                             \A k \in Keys : entries'[k] # client'[d].conn
      BY DEF LeasesOK
    <2>1. CASE client'[d] = client[d]
      <3>1. Shape(client[d]) /\ client[d] \in ClientRec
        BY <1>1 DEF PoolInv, ClientsOK
      <3>2. client[d].live \/ client[d].pc = "dialled" =>
                 client[d].conn \in Conns /\ client[d].conn # n /\ client[d].key \in Keys
        BY <1>4, <3>1 DEF Shape, Uses
      <3> QED
        BY <1>1, <1>2, <2>1, <3>2 DEF PoolInv, LeasesOK
    <2>2. CASE client'[d] # client[d]
      BY <2>2
    <2> QED
      BY <2>1, <2>2
  <1>9. BusyOK'
    BY DEF PoolInv, BusyOK
  <1>10. OpenOK'
    BY <1>1, <1>2, <1>3 DEF PoolInv, OpenOK, Pooled
  <1>11. TimersOK'
    <2>1. \A m \in Conns : Parked(m)' => Parked(m) /\ m # n
      BY <1>1, <1>2 DEF Parked, Pooled
    <2> QED
      BY <2>1 DEF TimersOK
  <1> QED
    BY <1>5, <1>6, <1>7, <1>8, <1>9, <1>10, <1>11 DEF PoolInv

\* A connection is dialled: from now on its request uses it.
LEMMA Dialled ==
    ASSUME PoolInv, NEW c \in Clients, NEW n \in Conns, n \notin open \cup closed,
           client[c].pc = "dialling", NEW r \in ClientRec,
           r.pc = "dialled", r.key = client[c].key, r.conn = n, r.live = client[c].live,
           client' = [client EXCEPT ![c] = r], open' = open \cup {n},
           UNCHANGED <<entries, busy, old, generation, armed, fired, closed>>
    PROVE  PoolInv'
  <1>1. /\ client \in [Clients -> ClientRec] /\ entries \in [Keys -> Conns \cup {NoConn}]
        /\ open \subseteq Conns /\ n # NoConn /\ Shape(client[c])
    BY Typed DEF PoolInv, ClientsOK
  <1>2. /\ client' \in [Clients -> ClientRec] /\ client'[c] = r
        /\ \A d \in Clients : d # c => client'[d] = client[d]
    BY <1>1, OneClient
  <1>3. ~client[c].live /\ ~r.live /\ Shape(r)
    BY <1>1 DEF Shape
  <1>4. /\ Uses(c, n)' /\ \A m \in Conns : m # n => ~Uses(c, m)'
        /\ \A d \in Clients, m \in Conns : d # c => (Uses(d, m)' <=> Uses(d, m))
        /\ \A m \in Conns : ~Uses(c, m)
    BY <1>2, <1>3 DEF Uses
  <1>5. TypeOK'
    BY <1>1, <1>2 DEF PoolInv, TypeOK, ClientRec
  <1>6. ClientsOK'
    BY <1>2, <1>3 DEF PoolInv, ClientsOK
  <1>7. EntriesOK'
    BY DEF PoolInv, EntriesOK
  <1>8. UsersOK'
    BY <1>4 DEF PoolInv, UsersOK
  <1>9. LeasesOK'
    BY <1>1, <1>2, <1>3 DEF PoolInv, LeasesOK, EntriesOK
  <1>10. BusyOK'
    BY <1>2, <1>3 DEF PoolInv, BusyOK
  <1>11. OpenOK'
    BY <1>1, <1>4 DEF PoolInv, OpenOK, Pooled
  <1>12. TimersOK'
    BY DEF PoolInv, TimersOK, Parked, Pooled
  <1> QED
    BY <1>5, <1>6, <1>7, <1>8, <1>9, <1>10, <1>11, <1>12 DEF PoolInv

\* It becomes its key's entry, or stays outside the pool.
LEMMA Registered ==
    ASSUME PoolInv, NEW c \in Clients, Register(c)
    PROVE  PoolInv'
  <1> DEFINE k == client[c].key
             n == client[c].conn
             first == entries[k] = NoConn
             r == [client[c] EXCEPT !.pc = "sending", !.live = TRUE, !.pooled = first]
  <1>1. /\ client \in [Clients -> ClientRec] /\ entries \in [Keys -> Conns \cup {NoConn}]
        /\ client[c] \in ClientRec /\ busy \subseteq Conns
        /\ client[c].pc = "dialled" /\ Shape(client[c])
        /\ k \in Keys /\ n \in Conns /\ n # NoConn /\ ~client[c].live
    BY Typed DEF Register, At, PoolInv, ClientsOK, Shape
  <1>2. /\ r \in ClientRec /\ r.pc = "sending" /\ r.key = k /\ r.conn = n
        /\ r.pooled = first /\ r.live = TRUE
    BY <1>1, Zenon DEF ClientRec, Places
  <1>3. Shape(r)
    <2> HIDE DEF k, n, first, r
    <2> QED
      BY <1>1, <1>2 DEF Shape
  <1>4. /\ client' = [client EXCEPT ![c] = r]
        /\ entries' = IF first THEN [entries EXCEPT ![k] = n] ELSE entries
        /\ busy' = IF first THEN busy \cup {n} ELSE busy
        /\ UNCHANGED <<old, generation, armed, fired, open, closed>>
    BY DEF Register, timers
  <1> HIDE DEF r
  <1>5. /\ client' \in [Clients -> ClientRec] /\ client'[c] = r
        /\ \A d \in Clients : d # c => client'[d] = client[d]
    BY <1>1, <1>2, <1>4, OneClient
  <1>6. Uses(c, n) /\ n \in open /\ \A j \in Keys : entries[j] # n
    BY <1>1 DEF PoolInv, UsersOK, LeasesOK, Uses
  <1>7. \A d \in Clients : d # c => ~Uses(d, n)
    BY <1>1, <1>6 DEF PoolInv, UsersOK
  <1>8. /\ entries' \in [Keys -> Conns \cup {NoConn}]
        /\ \A j \in Keys : entries'[j] = IF first /\ j = k THEN n ELSE entries[j]
    BY <1>1, <1>4
  <1>9. n \notin busy
    BY <1>6, Typed DEF PoolInv, BusyOK, LeasesOK, ClientsOK, Shape
  <1> HIDE DEF k, n, first
  <1>10. \A d \in Clients, m \in Conns : Uses(d, m)' <=> Uses(d, m)
    BY <1>1, <1>2, <1>5 DEF Uses, n
  <1>11. TypeOK'
    BY <1>1, <1>4, <1>5, <1>8 DEF PoolInv, TypeOK, ClientRec
  <1>12. ClientsOK'
    BY <1>3, <1>5 DEF PoolInv, ClientsOK
  <1>13. EntriesOK'
    BY <1>1, <1>4, <1>6, <1>8 DEF PoolInv, EntriesOK
  <1>14. UsersOK'
    BY <1>4, <1>10 DEF PoolInv, UsersOK
  <1>15. LeasesOK'
    <2> SUFFICES ASSUME NEW d \in Clients
                 PROVE  /\ client'[d].live /\ client'[d].pooled =>
                             /\ entries'[client'[d].key] = client'[d].conn
                             /\ client'[d].conn \in busy'
                        /\ client'[d].pc = "dialled" \/ (client'[d].live /\ ~client'[d].pooled) =>
                             \A j \in Keys : entries'[j] # client'[d].conn
      BY DEF LeasesOK
    <2>1. CASE d = c
      BY <1>1, <1>2, <1>4, <1>5, <1>6, <1>8, <2>1
    <2>2. CASE d # c
      <3>1. Shape(client[d]) /\ client[d] \in ClientRec /\ client'[d] = client[d]
        BY <1>1, <1>5, <2>2 DEF PoolInv, ClientsOK
      <3>2. client[d].live \/ client[d].pc = "dialled" =>
               /\ client[d].conn \in Conns /\ client[d].conn # n /\ client[d].key \in Keys
        BY <1>7, <2>2, <3>1 DEF Shape, Uses
      <3>3. client[d].live /\ client[d].pooled =>
               entries[client[d].key] = client[d].conn /\ client[d].conn \in busy
        BY DEF PoolInv, LeasesOK
      <3>4. client[d].live /\ client[d].pooled =>
               /\ entries'[client[d].key] = client[d].conn /\ client[d].conn \in busy'
        <4>1. client[d].conn \in Conns => client[d].conn # NoConn
          OBVIOUS
        <4> QED
          BY <1>4, <1>8, <3>2, <3>3, <4>1 DEF first
      <3>5. client[d].pc = "dialled" \/ (client[d].live /\ ~client[d].pooled) =>
               \A j \in Keys : entries[j] # client[d].conn
        BY DEF PoolInv, LeasesOK
      <3> QED
        BY <1>8, <3>1, <3>2, <3>4, <3>5
    <2> QED
      BY <2>1, <2>2
  <1>16. BusyOK'
    <2>1. CASE first
      BY <1>1, <1>2, <1>4, <1>5, <2>1 DEF PoolInv, BusyOK
    <2>2. CASE ~first
      BY <1>1, <1>4, <1>5, <2>2 DEF PoolInv, BusyOK
    <2> QED
      BY <2>1, <2>2
  <1>17. OpenOK'
    BY <1>4, <1>6, <1>8, <1>10, Typed DEF PoolInv, OpenOK, Pooled, first
  <1>18. TimersOK'
    <2>1. \A m \in Conns : Parked(m)' => Parked(m)
      BY <1>1, <1>4, <1>6, <1>8 DEF Parked, Pooled
    <2> QED
      BY <1>4, <2>1 DEF PoolInv, TimersOK
  <1> QED
    BY <1>11, <1>12, <1>13, <1>14, <1>15, <1>16, <1>17, <1>18 DEF PoolInv

-----------------------------------------------------------------------------
(* release.                                                                *)

\* What the owner of a live lease has.
LEMMA LiveLease ==
    ASSUME PoolInv, NEW c \in Clients, client[c].live
    PROVE  /\ client[c].conn \in Conns /\ client[c].key \in Keys
           /\ client[c].pc \in {"sending", "streaming"}
           /\ Uses(c, client[c].conn) /\ client[c].conn \in open
           /\ \A d \in Clients : d # c => ~Uses(d, client[c].conn)
           /\ client[c].pooled =>
                 /\ entries[client[c].key] = client[c].conn /\ client[c].conn \in busy
                 /\ \A j \in Keys : entries[j] = client[c].conn => j = client[c].key
           /\ ~client[c].pooled =>
                 client[c].conn \notin busy /\ \A j \in Keys : entries[j] # client[c].conn
  <1>1. Shape(client[c]) /\ client[c] \in ClientRec
    BY Typed DEF PoolInv, ClientsOK
  <1>2. client[c].conn \in Conns /\ client[c].key \in Keys
        /\ client[c].pc \in {"sending", "streaming"}
    BY <1>1 DEF Shape
  <1>3. Uses(c, client[c].conn)
    BY DEF Uses
  <1>4. /\ client[c].conn \in open
        /\ \A d \in Clients : d # c => ~Uses(d, client[c].conn)
    BY <1>2, <1>3 DEF PoolInv, UsersOK
  <1>5. client[c].pooled =>
           /\ entries[client[c].key] = client[c].conn /\ client[c].conn \in busy
           /\ \A j \in Keys : entries[j] = client[c].conn => j = client[c].key
    BY <1>2 DEF PoolInv, LeasesOK, EntriesOK
  <1>6. ASSUME ~client[c].pooled
        PROVE  client[c].conn \notin busy /\ \A j \in Keys : entries[j] # client[c].conn
    BY <1>4, <1>6 DEF PoolInv, LeasesOK, BusyOK, Uses
  <1> QED
    BY <1>2, <1>3, <1>4, <1>5, <1>6

\* The connection is closed, with its entry if it has one.
LEMMA Discarded ==
    ASSUME PoolInv, NEW c \in Clients, client[c].live, Discard(c),
           NEW r \in ClientRec, Shape(r), ~r.live, r.pc # "dialled",
           client' = [client EXCEPT ![c] = r], UNCHANGED old
    PROVE  PoolInv'
  <1> DEFINE n == client[c].conn
             k == client[c].key
  <1>1. /\ client \in [Clients -> ClientRec] /\ entries \in [Keys -> Conns \cup {NoConn}]
        /\ busy \subseteq Conns /\ armed \subseteq Conns
        /\ open \subseteq Conns /\ closed \subseteq Conns
    BY Typed DEF PoolInv
  <1>2. /\ n \in Conns /\ k \in Keys /\ n # NoConn /\ n \in open
        /\ Uses(c, n) /\ \A d \in Clients : d # c => ~Uses(d, n)
        /\ client[c].pooled => entries[k] = n /\ \A j \in Keys : entries[j] = n => j = k
        /\ ~client[c].pooled => n \notin busy /\ \A j \in Keys : entries[j] # n
    BY LiveLease
  <1>3. /\ open' = open \ {n} /\ closed' = closed \cup {n}
        /\ UNCHANGED <<old, generation, fired>>
    BY DEF Discard, CloseConn
  <1>4. /\ \A j \in Keys : entries'[j] = IF entries[j] = n THEN NoConn ELSE entries[j]
        /\ entries' \in [Keys -> Conns \cup {NoConn}]
    <2>1. CASE client[c].pooled
      BY <1>1, <1>2, <2>1 DEF Discard, Forget
    <2>2. CASE ~client[c].pooled
      BY <1>1, <1>2, <2>2 DEF Discard
    <2> QED
      BY <2>1, <2>2
  <1>5. busy' = busy \ {n} /\ armed' \in {armed, armed \ {n}}
    <2>1. CASE client[c].pooled
      BY <1>2, <2>1 DEF Discard
    <2>2. CASE ~client[c].pooled
      BY <1>2, <2>2 DEF Discard
    <2> QED
      BY <2>1, <2>2
  <1>6. /\ client' \in [Clients -> ClientRec] /\ client'[c] = r
        /\ \A d \in Clients : d # c => client'[d] = client[d]
    BY <1>1, OneClient
  <1> HIDE DEF n, k
  <1>7. /\ \A m \in Conns : ~Uses(c, m)'
        /\ \A d \in Clients, m \in Conns : d # c => (Uses(d, m)' <=> Uses(d, m))
    BY <1>6 DEF Uses
  <1>8. TypeOK'
    <2>1. /\ busy' \subseteq Conns /\ armed' \subseteq Conns
          /\ open' \subseteq Conns /\ closed' \subseteq Conns
      BY <1>1, <1>2, <1>3, <1>5
    <2> QED
      BY <1>3, <1>4, <1>6, <2>1 DEF PoolInv, TypeOK, ClientRec
  <1>9. ClientsOK'
    BY <1>6 DEF PoolInv, ClientsOK
  <1>10. EntriesOK'
    BY <1>1, <1>3, <1>4 DEF PoolInv, EntriesOK
  <1>11. UsersOK'
    BY <1>2, <1>3, <1>7 DEF PoolInv, UsersOK
  <1>12. LeasesOK'
    <2> SUFFICES ASSUME NEW d \in Clients, d # c
                 PROVE  /\ client[d].live /\ client[d].pooled =>
                             /\ entries'[client[d].key] = client[d].conn
                             /\ client[d].conn \in busy'
                        /\ client[d].pc = "dialled" \/ (client[d].live /\ ~client[d].pooled) =>
                             \A j \in Keys : entries'[j] # client[d].conn
      BY <1>6 DEF LeasesOK
    <2>1. Shape(client[d]) /\ client[d] \in ClientRec
      BY <1>1 DEF PoolInv, ClientsOK
    <2>2. client[d].live \/ client[d].pc = "dialled" =>
             client[d].conn \in Conns /\ client[d].conn # n /\ client[d].key \in Keys
      BY <1>2, <2>1 DEF Shape, Uses
    <2>3. \A j \in Keys : entries'[j] = entries[j] \/ (entries'[j] = NoConn /\ entries[j] = n)
      BY <1>4
    <2> QED
      BY <1>4, <1>5, <2>2, <2>3 DEF PoolInv, LeasesOK
  <1>13. BusyOK'
    BY <1>5, <1>6 DEF PoolInv, BusyOK, n
  <1>14. OpenOK'
    BY <1>1, <1>2, <1>3, <1>4, <1>7 DEF PoolInv, OpenOK, Pooled, Uses, n
  <1>15. TimersOK'
    <2>1. \A m \in Conns : Parked(m)' => Parked(m) /\ m # n
      BY <1>1, <1>2, <1>4, <1>5 DEF Parked, Pooled
    <2> QED
      BY <1>3, <1>5, <2>1 DEF PoolInv, TimersOK
  <1> QED
    BY <1>8, <1>9, <1>10, <1>11, <1>12, <1>13, <1>14, <1>15 DEF PoolInv

\* The connection is parked under its timer.
LEMMA Kept ==
    ASSUME PoolInv, NEW c \in Clients, client[c].live, MayKeep(c), Keep(c),
           NEW r \in ClientRec, Shape(r), ~r.live, r.pc # "dialled",
           client' = [client EXCEPT ![c] = r], UNCHANGED old
    PROVE  PoolInv'
  <1> DEFINE n == client[c].conn
             k == client[c].key
  <1>1. /\ client \in [Clients -> ClientRec] /\ entries \in [Keys -> Conns \cup {NoConn}]
        /\ busy \subseteq Conns /\ armed \subseteq Conns
    BY Typed DEF PoolInv
  <1>2. /\ n \in Conns /\ k \in Keys /\ n # NoConn /\ n \in open /\ entries[k] = n
        /\ Uses(c, n) /\ \A d \in Clients : d # c => ~Uses(d, n)
    BY LiveLease DEF MayKeep
  <1>3. /\ busy' = busy \ {n} /\ armed' = armed \cup {n}
        /\ UNCHANGED <<entries, old, fired, open, closed>>
        /\ generation[n] < MaxGeneration
        /\ generation' = [generation EXCEPT ![n] = @ + 1]
    BY DEF Keep
  <1>4. /\ client' \in [Clients -> ClientRec] /\ client'[c] = r
        /\ \A d \in Clients : d # c => client'[d] = client[d]
    BY <1>1, OneClient
  <1> HIDE DEF n, k
  <1>5. /\ \A m \in Conns : ~Uses(c, m)'
        /\ \A d \in Clients, m \in Conns : d # c => (Uses(d, m)' <=> Uses(d, m))
    BY <1>4 DEF Uses
  <1>6. /\ generation' \in [Conns -> 0 .. MaxGeneration] /\ generation'[n] >= 1
        /\ \A m \in Conns : m # n => generation'[m] = generation[m]
    BY <1>2, <1>3, Armed
  <1>7. TypeOK'
    BY <1>1, <1>2, <1>3, <1>4, <1>6, Typed DEF PoolInv, TypeOK, ClientRec
  <1>8. ClientsOK'
    BY <1>4 DEF PoolInv, ClientsOK
  <1>9. EntriesOK'
    BY <1>3 DEF PoolInv, EntriesOK
  <1>10. UsersOK'
    BY <1>3, <1>5 DEF PoolInv, UsersOK
  <1>11. LeasesOK'
    <2> SUFFICES ASSUME NEW d \in Clients, d # c, client[d].live, client[d].pooled
                 PROVE  client[d].conn # n
      BY <1>3, <1>4 DEF PoolInv, LeasesOK
    <2> QED
      BY <1>2 DEF Uses
  <1>12. BusyOK'
    BY <1>3, <1>4 DEF PoolInv, BusyOK, n
  <1>13. OpenOK'
    BY <1>1, <1>2, <1>3, <1>5, Typed DEF PoolInv, OpenOK, Pooled, Uses, n
  <1>14. TimersOK'
    <2>1. \A m \in Conns : Parked(m)' => Parked(m) \/ m = n
      BY <1>3 DEF Parked, Pooled
    <2> QED
      BY <1>1, <1>3, <1>6, <2>1 DEF PoolInv, TimersOK
  <1> QED
    BY <1>7, <1>8, <1>9, <1>10, <1>11, <1>12, <1>13, <1>14 DEF PoolInv

-----------------------------------------------------------------------------
(* Time.                                                                   *)

LEMMA Aged ==
    ASSUME PoolInv, NEW n \in Conns, Age(n)
    PROVE  PoolInv'
  <1>1. /\ old' = old \cup {n}
        /\ UNCHANGED <<entries, busy, generation, armed, fired, open, closed, client>>
    BY DEF Age, timers
  <1>2. TypeOK'
    BY <1>1 DEF PoolInv, TypeOK
  <1>3. ClientsOK' /\ EntriesOK' /\ UsersOK' /\ LeasesOK' /\ BusyOK' /\ OpenOK'
    BY <1>1 DEF PoolInv, ClientsOK, EntriesOK, UsersOK, LeasesOK, BusyOK, OpenOK, Uses, Pooled
  <1>4. TimersOK'
    BY <1>1 DEF PoolInv, TimersOK, Parked, Pooled
  <1> QED
    BY <1>2, <1>3, <1>4 DEF PoolInv

LEMMA Fired ==
    ASSUME PoolInv, NEW n \in Conns, Fire(n)
    PROVE  PoolInv'
  <1>1. /\ n \in armed /\ armed' = armed \ {n} /\ fired' = fired \cup {<<n, generation[n]>>}
        /\ UNCHANGED <<entries, busy, old, generation, open, closed, client>>
    BY DEF Fire
  <1>2. generation \in [Conns -> 0 .. MaxGeneration] /\ generation[n] >= 1
    BY <1>1, Typed DEF PoolInv, TimersOK
  <1>3. TypeOK'
    BY <1>1, <1>2, Typed DEF PoolInv, TypeOK, ClientRec
  <1>4. ClientsOK' /\ EntriesOK' /\ UsersOK' /\ LeasesOK' /\ BusyOK' /\ OpenOK'
    BY <1>1 DEF PoolInv, ClientsOK, EntriesOK, UsersOK, LeasesOK, BusyOK, OpenOK, Uses, Pooled
  <1>5. TimersOK'
    BY <1>1 DEF PoolInv, TimersOK, Parked, Pooled
  <1> QED
    BY <1>3, <1>4, <1>5 DEF PoolInv

LEMMA Expired ==
    ASSUME PoolInv, NEW n \in Conns, NEW g \in 1 .. MaxGeneration, Expire(n, g)
    PROVE  PoolInv'
  <1>1. /\ fired' = fired \ {<<n, g>>} /\ UNCHANGED <<busy, old, generation, armed, client>>
        /\ generation \in [Conns -> 0 .. MaxGeneration] /\ armed \subseteq Conns
        /\ fired \subseteq Conns \X (1 .. MaxGeneration) /\ client \in [Clients -> ClientRec]
    BY Typed DEF Expire, Expiring, PoolInv
  <1>2. CASE Parked(n) /\ generation[n] = g
    <2>1. Forget(n) /\ CloseConn(n)
      BY <1>2 DEF Expire, Expiring, Parked
    <2>2. ClientsOK' /\ \A d \in Clients : client'[d] = client[d]
      BY <1>1 DEF PoolInv, ClientsOK
    <2>3. \A m \in armed' : generation'[m] >= 1
      BY <1>1 DEF PoolInv, TimersOK
    <2>4. \A m \in Conns : m # n /\ Parked(m) =>
              m \in armed' \/ <<m, generation'[m]>> \in fired'
      BY <1>1 DEF PoolInv, TimersOK
    <2>5. /\ client' \in [Clients -> ClientRec] /\ armed' \subseteq Conns
          /\ generation' \in [Conns -> 0 .. MaxGeneration]
          /\ fired' \subseteq Conns \X (1 .. MaxGeneration)
      BY <1>1
    <2> QED
      BY <1>1, <1>2, <2>1, <2>2, <2>3, <2>4, <2>5, Removed
  <1>3. CASE ~(Parked(n) /\ generation[n] = g)
    <2>1. UNCHANGED <<entries, open, closed>>
      BY <1>3 DEF Expire, Expiring, Parked
    <2>2. TypeOK'
      BY <1>1, <2>1, Typed DEF PoolInv, TypeOK, ClientRec
    <2>3. ClientsOK' /\ EntriesOK' /\ UsersOK' /\ LeasesOK' /\ BusyOK' /\ OpenOK'
      BY <1>1, <2>1
         DEF PoolInv, ClientsOK, EntriesOK, UsersOK, LeasesOK, BusyOK, OpenOK, Uses, Pooled
    <2>4. TimersOK'
      BY <1>1, <1>3, <2>1 DEF PoolInv, TimersOK, Parked, Pooled
    <2> QED
      BY <2>2, <2>3, <2>4 DEF PoolInv
  <1> QED
    BY <1>2, <1>3

-----------------------------------------------------------------------------
(* The invariant.                                                          *)

LEMMA InitOK == Init => PoolInv
  <1> SUFFICES ASSUME Init PROVE PoolInv
    OBVIOUS
  <1>1. /\ entries = [k \in Keys |-> NoConn] /\ busy = {} /\ old = {} /\ armed = {}
        /\ fired = {} /\ generation = [n \in Conns |-> 0] /\ open = {} /\ closed = {}
    BY DEF Init
  <1>2. client \in [Clients -> ClientRec] /\ \A c \in Clients : client[c] = Idle
    BY IdleRec DEF Init
  <1>3. TypeOK
    BY <1>1, <1>2, Typed
  <1>4. ClientsOK /\ UsersOK /\ LeasesOK
    BY <1>2, IdleRec DEF ClientsOK, UsersOK, LeasesOK, Uses
  <1>5. EntriesOK /\ BusyOK /\ OpenOK /\ TimersOK
    BY <1>1 DEF EntriesOK, BusyOK, OpenOK, TimersOK, Parked, Pooled
  <1> QED
    BY <1>3, <1>4, <1>5 DEF PoolInv

\* The request's body is closed and the request gone.
LEMMA Left ==
    ASSUME PoolInv, NEW c \in Clients, GiveBack(c), Leave(c), UNCHANGED old,
           client[c].pc # "dialled"
    PROVE  PoolInv'
  <1>1. CASE client[c].live
    BY <1>1, IdleRec, Discarded DEF GiveBack, Leave
  <1>2. CASE ~client[c].live
    BY <1>2, IdleRec, ClientMoves DEF GiveBack, Leave, timers
  <1> QED
    BY <1>1, <1>2

LEMMA ClientSteps ==
    ASSUME PoolInv, NEW c \in Clients,
           \/ \E k \in Keys : AcquireNew(c, k) \/ Retire(c, k)
           \/ Dial(c) \/ Send(c) \/ CancelSend(c) \/ SendFails(c)
           \/ PumpEnds(c) \/ PumpFails(c) \/ CloseBody(c)
    PROVE  PoolInv'
  <1>1. client \in [Clients -> ClientRec] /\ client[c] \in ClientRec /\ Shape(client[c])
    BY Typed DEF PoolInv, ClientsOK
  <1>2. ASSUME NEW k \in Keys, client[c].pc = "idle"
        PROVE  LET r == [client[c] EXCEPT !.pc = "dialling", !.key = k]
               IN  /\ r \in ClientRec /\ Shape(r) /\ ~r.live /\ r.pc # "dialled"
                   /\ ~client[c].live
    <2> DEFINE r == [client[c] EXCEPT !.pc = "dialling", !.key = k]
    <2>1. /\ r \in ClientRec /\ r.pc = "dialling" /\ r.key = k /\ r.live = client[c].live
      BY <1>1 DEF ClientRec, Places
    <2>2. ~client[c].live
      BY <1>1, <1>2 DEF Shape
    <2> HIDE DEF r
    <2>3. Shape(r) /\ ~r.live /\ r.pc # "dialled"
      BY <2>1, <2>2 DEF Shape
    <2> QED
      BY <2>1, <2>2, <2>3 DEF r
  <1>3. ASSUME NEW k \in Keys, AcquireNew(c, k) PROVE PoolInv'
    <2> DEFINE r == [client[c] EXCEPT !.pc = "dialling", !.key = k]
    <2>1. /\ client[c].pc = "idle" /\ client' = [client EXCEPT ![c] = r]
          /\ UNCHANGED <<entries, busy, old, generation, armed, fired, open, closed>>
      BY <1>3 DEF AcquireNew, At, timers
    <2>2. /\ r \in ClientRec /\ Shape(r) /\ ~r.live /\ r.pc # "dialled" /\ ~client[c].live
      BY <1>2, <2>1
    <2> HIDE DEF r
    <2> QED
      BY <2>1, <2>2, ClientMoves
  <1>4. ASSUME NEW k \in Keys, Retire(c, k) PROVE PoolInv'
    <2> DEFINE n == entries[k]
               r == [client[c] EXCEPT !.pc = "dialling", !.key = k]
    <2>1. /\ client[c].pc = "idle" /\ client' = [client EXCEPT ![c] = r]
          /\ n \in old \ busy /\ n \in Conns /\ Forget(n) /\ StopTimer(n) /\ CloseConn(n)
          /\ UNCHANGED <<busy, old>>
      BY <1>4, Typed DEF Retire, At, PoolInv
    <2>2. /\ r \in ClientRec /\ Shape(r) /\ ~r.live /\ r.pc # "dialled" /\ ~client[c].live
      BY <1>2, <2>1
    <2>3. Parked(n)
      BY <2>1 DEF Parked, Pooled
    <2> HIDE DEF r, n
    <2>4. /\ client' \in [Clients -> ClientRec] /\ client'[c] = r
          /\ \A d \in Clients : d # c => client'[d] = client[d]
      BY <1>1, <2>1, <2>2, OneClient
    <2>5. ClientsOK'
      BY <2>2, <2>4 DEF PoolInv, ClientsOK
    <2>6. \A d \in Clients : \/ client'[d] = client[d]
                             \/ /\ ~client'[d].live /\ client'[d].pc # "dialled"
                                /\ ~client[d].live /\ client[d].pc # "dialled"
      BY <2>1, <2>2, <2>4
    <2>7. /\ generation' \in [Conns -> 0 .. MaxGeneration] /\ armed' \subseteq Conns
          /\ fired' \subseteq Conns \X (1 .. MaxGeneration)
          /\ \A m \in armed' : generation'[m] >= 1
          /\ \A m \in Conns : m # n /\ Parked(m) =>
                 m \in armed' \/ <<m, generation'[m]>> \in fired'
      BY <2>1, Stopped DEF PoolInv, TimersOK
    <2> QED
      BY <2>1, <2>3, <2>4, <2>5, <2>6, <2>7, Removed
  <1>5. CASE Dial(c)
    <2>1. /\ client[c].pc = "dialling" /\ ~client[c].live
          /\ UNCHANGED <<entries, busy, old, generation, armed, fired, closed>>
      BY <1>1, <1>5 DEF Dial, At, timers, Shape
    <2>2. ASSUME NEW n \in Conns \ (open \cup closed), open' = open \cup {n},
                 client' = [client EXCEPT ![c].pc = "dialled", ![c].conn = n]
          PROVE  PoolInv'
      <3> DEFINE r == [client[c] EXCEPT !.pc = "dialled", !.conn = n]
      <3>1. /\ r \in ClientRec /\ r.pc = "dialled" /\ r.key = client[c].key
            /\ r.conn = n /\ r.live = client[c].live
        BY <1>1 DEF ClientRec, Places
      <3>2. client' = [client EXCEPT ![c] = r]
        BY <2>2
      <3> HIDE DEF r
      <3> QED
        BY <2>1, <2>2, <3>1, <3>2, Dialled
    <2>3. CASE Leave(c) /\ UNCHANGED open
      BY <2>1, <2>3, IdleRec, ClientMoves DEF Leave
    <2> QED
      BY <1>5, <2>2, <2>3 DEF Dial
  <1>6. CASE Send(c)
    <2> DEFINE r == [client[c] EXCEPT !.pc = "streaming"]
    <2>1. /\ client[c].pc = "sending" /\ client[c].live /\ client' = [client EXCEPT ![c] = r]
          /\ UNCHANGED <<entries, busy, old, generation, armed, fired, open, closed>>
      BY <1>6 DEF Send, At, Goto, timers
    <2>2. /\ r \in ClientRec /\ r.pc = "streaming" /\ r.key = client[c].key
          /\ r.conn = client[c].conn /\ r.pooled = client[c].pooled /\ r.live = client[c].live
      BY <1>1, AtPlace DEF Places
    <2> HIDE DEF r
    <2>3. Shape(r)
      BY <1>1, <2>1, <2>2 DEF Shape
    <2> QED
      BY <2>1, <2>2, <2>3, ClientMoves
  <1>7. CASE CancelSend(c)
    <2> DEFINE r == [client[c] EXCEPT !.live = FALSE]
    <2>1. /\ client[c].pc = "sending" /\ client[c].live /\ Discard(c) /\ UNCHANGED old
          /\ client' = [client EXCEPT ![c] = r]
      BY <1>7 DEF CancelSend, At
    <2>2. /\ r \in ClientRec /\ r.pc = "sending" /\ r.key = client[c].key
          /\ r.conn = client[c].conn /\ r.live = FALSE
      BY <1>1, <2>1 DEF ClientRec
    <2> HIDE DEF r
    <2>3. Shape(r)
      BY <1>1, <2>1, <2>2 DEF Shape
    <2> QED
      BY <2>1, <2>2, <2>3, Discarded
  <1>8. CASE SendFails(c)
    BY <1>8, Left DEF SendFails, At
  <1>9. CASE PumpEnds(c) \/ PumpFails(c)
    <2> DEFINE r == [client[c] EXCEPT !.live = FALSE, !.pc = "draining"]
    <2>1. /\ client[c].pc = "streaming" /\ client[c].live /\ UNCHANGED old
          /\ client' = [client EXCEPT ![c] = r]
          /\ (MayKeep(c) /\ Keep(c)) \/ Discard(c)
      BY <1>9 DEF PumpEnds, PumpFails, At
    <2>2. /\ r \in ClientRec /\ r.pc = "draining" /\ r.key = client[c].key
          /\ r.conn = client[c].conn /\ r.live = FALSE
      BY <1>1, <2>1 DEF ClientRec, Places
    <2> HIDE DEF r
    <2>3. Shape(r)
      BY <1>1, <2>1, <2>2 DEF Shape
    <2> QED
      BY <2>1, <2>2, <2>3, Discarded, Kept
  <1>10. CASE CloseBody(c)
    BY <1>10, Left DEF CloseBody, At
  <1> QED
    BY <1>3, <1>4, <1>5, <1>6, <1>7, <1>8, <1>9, <1>10

LEMMA NextOK == PoolInv /\ [Next]_vars => PoolInv'
  <1> SUFFICES ASSUME PoolInv, [Next]_vars PROVE PoolInv'
    OBVIOUS
  <1>1. CASE UNCHANGED vars
    BY <1>1 DEF vars, PoolInv, TypeOK, ClientsOK, EntriesOK, UsersOK, LeasesOK, BusyOK,
                OpenOK, TimersOK, Uses, Parked, Pooled
  <1>2. ASSUME NEW c \in Clients, NEW k \in Keys, Acquire(c, k) PROVE PoolInv'
    BY <1>2, Acquired
  <1>3. ASSUME NEW c \in Clients,
               \/ \E k \in Keys : AcquireNew(c, k) \/ Retire(c, k)
               \/ Dial(c) \/ Send(c) \/ CancelSend(c) \/ SendFails(c)
               \/ PumpEnds(c) \/ PumpFails(c) \/ CloseBody(c)
        PROVE  PoolInv'
    BY <1>3, ClientSteps
  <1>4. ASSUME NEW c \in Clients, Register(c) PROVE PoolInv'
    BY <1>4, Registered
  <1>5. ASSUME NEW n \in Conns,
               Age(n) \/ Fire(n) \/ \E g \in 1 .. MaxGeneration : Expire(n, g)
        PROVE  PoolInv'
    BY <1>5, Aged, Fired, Expired
  <1> QED
    BY <1>1, <1>2, <1>3, <1>4, <1>5 DEF Next

LEMMA Invariance == Spec => []PoolInv
  <1> QED
    BY InitOK, NextOK, PTL DEF Spec

\* The types of the entries, timers and leases.
THEOREM TypeCorrect == Spec => []TypeOK
  <1>1. PoolInv => TypeOK
    BY DEF PoolInv
  <1> QED
    BY <1>1, Invariance, PTL

\* Every open connection has one user or waits under a timer of its present idle
\* period, whichever of the pump, the body, the context and the timer comes
\* first (acquire, release, expire).
THEOREM NothingLeaks == Spec => []NoConnectionLeaks
  <1>1. PoolInv => NoConnectionLeaks
    <2> SUFFICES ASSUME PoolInv, NEW n \in open
                 PROVE  \/ \E c \in Clients : Users(n) = {c}
                        \/ Parked(n) /\ (n \in armed \/ <<n, generation[n]>> \in fired)
      BY DEF NoConnectionLeaks
    <2>1. n \in Conns
      BY Typed DEF PoolInv
    <2>2. ASSUME NEW c \in Clients, Uses(c, n) PROVE Users(n) = {c}
      BY <2>1, <2>2 DEF PoolInv, UsersOK, Uses, Users, Leased, InHand, At
    <2>3. CASE \E c \in Clients : Uses(c, n)
      BY <2>2, <2>3
    <2>4. CASE ~\E c \in Clients : Uses(c, n)
      <3>1. Parked(n)
        BY <2>4 DEF PoolInv, OpenOK, BusyOK, Uses, Parked
      <3> QED
        BY <2>1, <3>1 DEF PoolInv, TimersOK
    <2> QED
      BY <2>3, <2>4
  <1> QED
    BY <1>1, Invariance, PTL

\* An entry is busy exactly while a request has leased its connection, and a
\* leased connection is open (acquire, release).
THEOREM BusyIsLeased == Spec => []BusyMeansLeased
  <1>1. PoolInv => BusyMeansLeased
    <2> SUFFICES ASSUME PoolInv PROVE BusyMeansLeased
      OBVIOUS
    <2>1. ASSUME NEW k \in Keys, entries[k] # NoConn
          PROVE  entries[k] \in open /\ (entries[k] \in busy <=> Leased(entries[k]) # {})
      <3>1. entries[k] \in open
        BY <2>1 DEF PoolInv, EntriesOK
      <3>2. ASSUME entries[k] \in busy PROVE Leased(entries[k]) # {}
        BY <3>2 DEF PoolInv, BusyOK, Leased
      <3>3. ASSUME NEW c \in Leased(entries[k]) PROVE entries[k] \in busy
        <4>1. c \in Clients /\ client[c].live /\ client[c].conn = entries[k]
          BY DEF Leased
        <4> QED
          BY <4>1, LiveLease
      <3> QED
        BY <3>1, <3>2, <3>3
    <2>2. ASSUME NEW c \in Clients, client[c].live PROVE client[c].conn \in open
      BY <2>2, LiveLease
    <2> QED
      BY <2>1, <2>2 DEF BusyMeansLeased
  <1> QED
    BY <1>1, Invariance, PTL

-----------------------------------------------------------------------------
(* The end of an idle period.                                              *)

LEMMA Closes ==
    ASSUME PoolInv, [Next]_vars, NEW n \in Conns, n \in closed' \ closed
    PROVE  \/ \E c \in Clients : client[c].live /\ client[c].conn = n
           \/ n \in old
           \/ <<n, generation[n]>> \in fired
  <1>1. ASSUME NEW c \in Clients, Discard(c), client[c].live
        PROVE  \E d \in Clients : client[d].live /\ client[d].conn = n
    BY <1>1 DEF Discard, CloseConn
  <1>2. ASSUME NEW c \in Clients, GiveBack(c)
        PROVE  \E d \in Clients : client[d].live /\ client[d].conn = n
    BY <1>1, <1>2 DEF GiveBack
  <1>3. ASSUME NEW c \in Clients,
               CancelSend(c) \/ SendFails(c) \/ PumpEnds(c) \/ PumpFails(c) \/ CloseBody(c)
        PROVE  \E d \in Clients : client[d].live /\ client[d].conn = n
    BY <1>1, <1>2, <1>3 DEF CancelSend, SendFails, PumpEnds, PumpFails, CloseBody, Keep
  <1>4. ASSUME NEW c \in Clients, NEW k \in Keys, Retire(c, k) PROVE n \in old
    BY <1>4 DEF Retire, CloseConn
  <1>5. ASSUME NEW m \in Conns, NEW g \in 1 .. MaxGeneration, Expire(m, g)
        PROVE  <<n, generation[n]>> \in fired
    BY <1>5 DEF Expire, Expiring, CloseConn
  <1>6. ASSUME UNCHANGED closed PROVE FALSE
    BY <1>6
  <1> QED
    BY <1>3, <1>4, <1>5, <1>6
       DEF Next, vars, Acquire, AcquireNew, Dial, Register, Send, Age, Fire

\* A young idle connection is closed by the timer of its present idle period
\* only (expire, with the generation that acquire and release move on).
THEOREM IdlePeriodsAreFull == Spec => IdlePeriodIsFull
  <1>1. PoolInv /\ [Next]_vars =>
            [\A n \in Conns : Parked(n) /\ n \notin old /\ n \in closed'
                 => <<n, generation[n]>> \in fired]_vars
    <2> SUFFICES ASSUME PoolInv, [Next]_vars, NEW n \in Conns,
                        Parked(n), n \notin old, n \in closed'
                 PROVE  <<n, generation[n]>> \in fired
      OBVIOUS
    <2>1. n \notin closed
      BY DEF PoolInv, EntriesOK, Parked, Pooled
    <2>2. \A c \in Clients : ~(client[c].live /\ client[c].conn = n)
      BY ParkedIsFree DEF Uses
    <2> QED
      BY <2>1, <2>2, Closes
  <1> QED
    BY <1>1, Invariance, PTL DEF Spec, IdlePeriodIsFull

-----------------------------------------------------------------------------
(* The refinement.  Each connection is unborn, closed, parked or in use, and *)
(* every step moves one connection, or none, from one to the other.        *)

\* Who holds n, and for which key.
Place(n) ==
    /\ n \in closed => Holder(n) = "closed" /\ Home(n) = NoKey
    /\ n \notin open \cup closed => Holder(n) = "unborn" /\ Home(n) = NoKey
    /\ Parked(n) => /\ Holder(n) = "parked" /\ n \in open
                    /\ \A k \in Keys : entries[k] = n => Home(n) = k
    /\ \A c \in Clients : Uses(c, n) =>
          Holder(n) = c /\ Home(n) = client[c].key /\ n \in open
    /\ n \in open => Parked(n) \/ \E c \in Clients : Uses(c, n)

Placed == \A n \in Conns : Place(n)

LEMMA HolderIs == PoolInv => Placed
  <1> SUFFICES ASSUME PoolInv, NEW n \in Conns PROVE Place(n)
    BY DEF Placed
  <1>1. open \cap closed = {}
    BY DEF PoolInv, EntriesOK
  <1>2. n \in closed => Holder(n) = "closed" /\ Home(n) = NoKey
    BY <1>1 DEF Holder, Home
  <1>3. n \notin open \cup closed => Holder(n) = "unborn" /\ Home(n) = NoKey
    BY DEF Holder, Home
  <1>4. ASSUME NEW k \in Keys, entries[k] = n
        PROVE  n \in open /\ n \notin closed /\ Home(n) = k
    <2>1. n \in open /\ \A j \in Keys : entries[j] = n => j = k
      BY <1>4 DEF PoolInv, EntriesOK
    <2>2. (CHOOSE j \in Keys : entries[j] = n) = k
      BY <1>4, <2>1
    <2> QED
      BY <1>1, <1>4, <2>1, <2>2 DEF Home, Pooled
  <1>5. Parked(n) => /\ Holder(n) = "parked" /\ n \in open
                    /\ \A k \in Keys : entries[k] = n => Home(n) = k
    BY <1>4 DEF Holder, Parked, Pooled
  <1>6. ASSUME NEW c \in Clients, Uses(c, n)
        PROVE  Holder(n) = c /\ Home(n) = client[c].key /\ n \in open
    <2>1. n \in open /\ n \notin closed /\ Users(n) = {c} /\ Shape(client[c])
      BY <1>1, <1>6 DEF PoolInv, UsersOK, ClientsOK, Users, Leased, InHand, Uses, At
    <2>2. ~Parked(n)
      BY <1>6, ParkedIsFree
    <2>3. (CHOOSE d \in Clients : d \in Users(n)) = c
      BY <2>1
    <2>4. Holder(n) = c
      BY <2>1, <2>2, <2>3 DEF Holder
    <2>5. CASE Pooled(n)
      <3>1. entries[client[c].key] = n /\ client[c].key \in Keys
        BY <1>6, <2>1, <2>5 DEF PoolInv, LeasesOK, Uses, Pooled, Shape
      <3> QED
        BY <1>4, <2>1, <2>4, <3>1
    <2>6. CASE ~Pooled(n)
      BY <2>1, <2>4, <2>6 DEF Home
    <2> QED
      BY <2>1, <2>4, <2>5, <2>6
  <1>7. n \in open => Parked(n) \/ \E c \in Clients : Uses(c, n)
    BY DEF PoolInv, OpenOK, BusyOK, Uses, Parked
  <1> QED
    BY <1>2, <1>3, <1>5, <1>6, <1>7 DEF Place

\* Nothing happens to n.
Undisturbed(n) ==
    /\ n \in closed' <=> n \in closed
    /\ n \in open' <=> n \in open
    /\ Parked(n) => Parked(n)' /\ \A k \in Keys : entries[k] = n => entries'[k] = n
    /\ \A c \in Clients : Uses(c, n) => Uses(c, n)' /\ client'[c].key = client[c].key

Mapped(n) == Holder(n)' = Holder(n) /\ Home(n)' = Home(n)

LEMMA Unmoved ==
    ASSUME Placed, Placed', NEW n \in Conns, Undisturbed(n)
    PROVE  Mapped(n)
  <1>1. Place(n) /\ Place(n)'
    BY DEF Placed
  <1>2. CASE n \in closed
    BY <1>1, <1>2 DEF Undisturbed, Mapped, Place
  <1>3. CASE n \notin open \cup closed
    BY <1>1, <1>3 DEF Undisturbed, Mapped, Place
  <1>4. CASE Parked(n)
    <2>1. PICK k \in Keys : entries[k] = n
      BY <1>4 DEF Parked, Pooled
    <2>2. Holder(n) = "parked" /\ Home(n) = k
      BY <1>1, <1>4, <2>1 DEF Place
    <2>3. Holder(n)' = "parked" /\ Home(n)' = k
      BY <1>1, <1>4, <2>1 DEF Place, Undisturbed
    <2> QED
      BY <2>2, <2>3 DEF Mapped
  <1>5. ASSUME NEW c \in Clients, Uses(c, n) PROVE Mapped(n)
    <2>1. Holder(n) = c /\ Home(n) = client[c].key
      BY <1>1, <1>5 DEF Place
    <2>2. Holder(n)' = c /\ Home(n)' = client[c].key
      BY <1>1, <1>5 DEF Place, Undisturbed
    <2> QED
      BY <2>1, <2>2 DEF Mapped
  <1> QED
    BY <1>1, <1>2, <1>3, <1>4, <1>5 DEF Place

LEMMA AllUnmoved ==
    ASSUME Placed, Placed', \A n \in Conns : Undisturbed(n)
    PROVE  UNCHANGED Exclusive!vars
  BY Unmoved DEF Exclusive!vars, Mapped

\* The steps of ExclusiveConnections.
LEMMA AbstractDial ==
    ASSUME Placed, Placed', NEW n \in Conns, NEW c \in Clients, NEW k \in Keys,
           n \notin open \cup closed, Uses(c, n)', client'[c].key = k,
           \A m \in Conns : m # n => Undisturbed(m)
    PROVE  Exclusive!Dial(c, n, k)
  <1>1. Holder(n) = "unborn" /\ Holder(n)' = c /\ Home(n)' = k
    BY DEF Placed, Place
  <1>2. \A m \in Conns : m # n => Holder(m)' = Holder(m) /\ Home(m)' = Home(m)
    BY Unmoved DEF Mapped
  <1> QED
    BY <1>1, <1>2 DEF Exclusive!Dial

LEMMA AbstractTake ==
    ASSUME Placed, Placed', NEW n \in Conns, NEW c \in Clients, NEW k \in Keys,
           Parked(n), entries[k] = n, Uses(c, n)', client'[c].key = k,
           \A m \in Conns : m # n => Undisturbed(m)
    PROVE  Exclusive!Take(c, n, k)
  <1>1. Holder(n) = "parked" /\ Home(n) = k /\ Holder(n)' = c /\ Home(n)' = k
    BY DEF Placed, Place
  <1>2. \A m \in Conns : m # n => Holder(m)' = Holder(m) /\ Home(m)' = Home(m)
    BY Unmoved DEF Mapped
  <1> QED
    BY <1>1, <1>2 DEF Exclusive!Take

LEMMA AbstractPark ==
    ASSUME Placed, Placed', NEW n \in Conns, NEW c \in Clients, NEW k \in Keys,
           Uses(c, n), client[c].key = k, entries'[k] = n, Parked(n)',
           \A m \in Conns : m # n => Undisturbed(m)
    PROVE  Exclusive!Park(c, n)
  <1>1. Holder(n) = c /\ Home(n) = k /\ Holder(n)' = "parked" /\ Home(n)' = k
    BY DEF Placed, Place
  <1>2. \A m \in Conns : m # n => Holder(m)' = Holder(m) /\ Home(m)' = Home(m)
    BY Unmoved DEF Mapped
  <1> QED
    BY <1>1, <1>2 DEF Exclusive!Park

LEMMA AbstractClose ==
    ASSUME Placed, Placed', NEW n \in Conns, n \in open, n \in closed',
           \A m \in Conns : m # n => Undisturbed(m)
    PROVE  Exclusive!Close(n)
  <1>1. Holder(n) \in Clients \cup {"parked"}
    BY DEF Placed, Place
  <1>2. Holder(n)' = "closed" /\ Home(n)' = NoKey
    BY DEF Placed, Place
  <1>3. \A m \in Conns : m # n => Holder(m)' = Holder(m) /\ Home(m)' = Home(m)
    BY Unmoved DEF Mapped
  <1> QED
    BY <1>1, <1>2, <1>3 DEF Exclusive!Close

\* A request that moves disturbs no connection but those it uses.
LEMMA OthersUndisturbed ==
    ASSUME client \in [Clients -> ClientRec], NEW c \in Clients, NEW r,
           client' = [client EXCEPT ![c] = r], NEW n \in Conns, ~Uses(c, n),
           n \in closed' <=> n \in closed, n \in open' <=> n \in open,
           n \in busy' => n \in busy, \A k \in Keys : entries[k] = n => entries'[k] = n
    PROVE  Undisturbed(n)
  <1>1. \A d \in Clients : d # c => client'[d] = client[d]
    OBVIOUS
  <1> QED
    BY <1>1 DEF Undisturbed, Uses, Parked, Pooled

\* A live lease is given back and its connection closed.
LEMMA DiscardMaps ==
    ASSUME PoolInv, Placed, Placed', NEW c \in Clients, client[c].live, Discard(c),
           NEW r, client' = [client EXCEPT ![c] = r]
    PROVE  \E n \in Conns : Exclusive!Close(n)
  <1> DEFINE n == client[c].conn
  <1>1. n \in Conns /\ n \in open
    BY LiveLease
  <1>2. n \in closed'
    BY DEF Discard, CloseConn
  <1>3. ASSUME NEW m \in Conns, m # n PROVE Undisturbed(m)
    <2>1. client \in [Clients -> ClientRec] /\ ~Uses(c, m)
      BY <1>3, Typed DEF PoolInv, Uses
    <2>2. /\ m \in closed' <=> m \in closed
          /\ m \in open' <=> m \in open
          /\ m \in busy' => m \in busy
      BY <1>3 DEF Discard, CloseConn
    <2>3. \A k \in Keys : entries[k] = m => entries'[k] = m
      BY <1>3 DEF Discard, Forget
    <2> QED
      BY <2>1, <2>2, <2>3, OthersUndisturbed
  <1> HIDE DEF n
  <1> QED
    BY <1>1, <1>2, <1>3, AbstractClose

LEMMA KeepMaps ==
    ASSUME PoolInv, Placed, Placed', NEW c \in Clients, client[c].live, MayKeep(c), Keep(c),
           NEW r \in ClientRec, client' = [client EXCEPT ![c] = r]
    PROVE  \E n \in Conns : Exclusive!Park(c, n)
  <1>1. PICK n \in Conns : n = client[c].conn
    BY LiveLease
  <1>2. PICK k \in Keys : k = client[c].key
    BY LiveLease
  <1>3. /\ Uses(c, n) /\ entries[k] = n
        /\ busy' = busy \ {n} /\ UNCHANGED <<entries, open, closed>>
    BY <1>1, <1>2, LiveLease DEF MayKeep, Keep
  <1>4. ASSUME NEW m \in Conns, m # n PROVE Undisturbed(m)
    <2>1. client \in [Clients -> ClientRec] /\ ~Uses(c, m)
      BY <1>1, <1>4, Typed DEF PoolInv, Uses
    <2> QED
      BY <1>3, <2>1, OthersUndisturbed
  <1>5. entries'[k] = n /\ Parked(n)'
    BY <1>3 DEF Parked, Pooled
  <1> QED
    BY <1>2, <1>3, <1>4, <1>5, AbstractPark

LEMMA ClientMaps ==
    ASSUME PoolInv, Placed, Placed', NEW c \in Clients,
           \/ \E k \in Keys : Acquire(c, k) \/ AcquireNew(c, k) \/ Retire(c, k)
           \/ Dial(c) \/ Register(c) \/ Send(c) \/ CancelSend(c) \/ SendFails(c)
           \/ PumpEnds(c) \/ PumpFails(c) \/ CloseBody(c)
    PROVE  [Exclusive!Next]_Exclusive!vars
  <1> USE DEF timers
  <1>1. /\ client \in [Clients -> ClientRec] /\ client[c] \in ClientRec
        /\ Shape(client[c]) /\ entries \in [Keys -> Conns \cup {NoConn}]
    BY Typed DEF PoolInv, ClientsOK
  \* A step that leaves the connections alone and moves a request that has none.
  <1>2. ASSUME NEW r, client' = [client EXCEPT ![c] = r], \A n \in Conns : ~Uses(c, n),
               UNCHANGED <<entries, busy, open, closed>>
        PROVE  UNCHANGED Exclusive!vars
    <2>1. ASSUME NEW n \in Conns PROVE Undisturbed(n)
      BY <1>1, <1>2, OthersUndisturbed
    <2> QED
      BY <2>1, AllUnmoved
  <1>3. client[c].pc \in {"idle", "dialling"} => \A n \in Conns : ~Uses(c, n)
    BY <1>1 DEF Shape, Uses
  <1>4. ASSUME NEW k \in Keys, Acquire(c, k) PROVE Exclusive!Next
    <2> DEFINE n == entries[k]
               r == [pc |-> "sending", key |-> k, conn |-> n, pooled |-> TRUE, live |-> TRUE]
    <2>1. /\ client[c].pc = "idle" /\ n \in Conns /\ n \notin busy
          /\ busy' = busy \cup {n} /\ client' = [client EXCEPT ![c] = r]
          /\ UNCHANGED <<entries, open, closed>>
      BY <1>1, <1>4 DEF Acquire, At
    <2>2. client'[c] = r
      BY <1>1, <2>1
    <2>3. Uses(c, n)' /\ client'[c].key = k
      BY <2>1, <2>2 DEF Uses
    <2>4. Parked(n)
      BY <2>1 DEF Parked, Pooled
    <2>5. ASSUME NEW m \in Conns, m # n PROVE Undisturbed(m)
      <3>1. m \in busy' => m \in busy
        BY <2>1, <2>5
      <3>2. ~Uses(c, m)
        BY <1>3, <2>1
      <3> HIDE DEF n, r
      <3> QED
        BY <1>1, <2>1, <3>1, <3>2, OthersUndisturbed
    <2>6. \E m \in Conns : Exclusive!Take(c, m, k)
      <3>1. PICK m \in Conns : m = n
        BY <2>1
      <3>2. /\ Parked(m) /\ entries[k] = m /\ Uses(c, m)'
            /\ \A q \in Conns : q # m => Undisturbed(q)
        BY <2>1, <2>2, <2>4, <2>5, <3>1 DEF Uses
      <3> QED
        BY <2>3, <3>2, AbstractTake
    <2> QED
      BY <2>6 DEF Exclusive!Next
  <1>5. ASSUME NEW k \in Keys, AcquireNew(c, k) PROVE UNCHANGED Exclusive!vars
    <2> DEFINE r == [client[c] EXCEPT !.pc = "dialling", !.key = k]
    <2>1. /\ client[c].pc = "idle" /\ client' = [client EXCEPT ![c] = r]
          /\ UNCHANGED <<entries, busy, open, closed>>
      BY <1>5 DEF AcquireNew, At
    <2> HIDE DEF r
    <2> QED
      BY <1>2, <1>3, <2>1
  <1>6. ASSUME NEW k \in Keys, Retire(c, k) PROVE Exclusive!Next
    <2> DEFINE r == [client[c] EXCEPT !.pc = "dialling", !.key = k]
    <2>1. PICK n \in Conns : n = entries[k]
      BY <1>6, Typed DEF Retire, PoolInv
    <2>2. /\ client[c].pc = "idle" /\ client' = [client EXCEPT ![c] = r]
          /\ n \notin busy /\ Forget(n) /\ CloseConn(n) /\ UNCHANGED busy
      BY <1>6, <2>1 DEF Retire, At
    <2> HIDE DEF r
    <2>3. n \in open /\ n \in closed'
      BY <2>1, <2>2 DEF PoolInv, EntriesOK, CloseConn
    <2>4. ASSUME NEW m \in Conns, m # n PROVE Undisturbed(m)
      <3>1. /\ m \in closed' <=> m \in closed
            /\ m \in open' <=> m \in open
            /\ \A j \in Keys : entries[j] = m => entries'[j] = m
        BY <2>2, <2>4 DEF Forget, CloseConn
      <3> QED
        BY <1>1, <1>3, <2>2, <3>1, OthersUndisturbed
    <2> QED
      BY <2>3, <2>4, AbstractClose DEF Exclusive!Next
  <1>7. CASE Dial(c)
    <2>1. /\ client[c].pc = "dialling" /\ client[c].key \in Keys
          /\ UNCHANGED <<entries, busy, closed>>
      BY <1>1, <1>7 DEF Dial, At, Shape
    <2>2. ASSUME NEW n \in Conns \ (open \cup closed), open' = open \cup {n},
                 client' = [client EXCEPT ![c].pc = "dialled", ![c].conn = n]
          PROVE  Exclusive!Next
      <3> DEFINE r == [client[c] EXCEPT !.pc = "dialled", !.conn = n]
      <3>1. r.pc = "dialled" /\ r.key = client[c].key /\ r.conn = n
        BY <1>1 DEF ClientRec
      <3>2. client' = [client EXCEPT ![c] = r]
        BY <2>2
      <3> HIDE DEF r
      <3>3. client'[c] = r
        BY <1>1, <3>2
      <3>4. Uses(c, n)' /\ client'[c].key = client[c].key
        BY <3>1, <3>3 DEF Uses
      <3>5. ASSUME NEW m \in Conns, m # n PROVE Undisturbed(m)
        BY <1>1, <1>3, <2>1, <2>2, <3>2, <3>5, OthersUndisturbed
      <3>6. Exclusive!Dial(c, n, client[c].key)
        BY <2>1, <2>2, <3>4, <3>5, AbstractDial
      <3> QED
        BY <2>1, <3>6 DEF Exclusive!Next
    <2>3. CASE Leave(c) /\ UNCHANGED open
      BY <1>2, <1>3, <2>1, <2>3 DEF Leave
    <2> QED
      BY <1>7, <2>2, <2>3 DEF Dial
  <1>8. ASSUME NEW r \in ClientRec, client' = [client EXCEPT ![c] = r],
               r.conn = client[c].conn, r.key = client[c].key, r.live,
               client[c].live \/ client[c].pc = "dialled",
               UNCHANGED <<open, closed>>,
               \A n \in Conns : n # client[c].conn =>
                   /\ n \in busy' => n \in busy
                   /\ \A k \in Keys : entries[k] = n => entries'[k] = n
        PROVE  UNCHANGED Exclusive!vars
    <2>1. client'[c] = r /\ \A d \in Clients : d # c => client'[d] = client[d]
      BY <1>1, <1>8
    <2>2. ASSUME NEW n \in Conns, n = client[c].conn PROVE Undisturbed(n)
      <3>1. ~Parked(n)
        BY <1>8, <2>2, ParkedIsFree DEF Uses
      <3> QED
        BY <1>8, <2>1, <2>2, <3>1 DEF Undisturbed, Uses
    <2>3. ASSUME NEW n \in Conns, n # client[c].conn PROVE Undisturbed(n)
      <3>1. ~Uses(c, n)
        BY <2>3 DEF Uses
      <3> QED
        BY <1>1, <1>8, <2>3, <3>1, OthersUndisturbed
    <2>4. \A n \in Conns : Undisturbed(n)
      BY <2>2, <2>3
    <2> QED
      BY <2>4, AllUnmoved
  <1>9. CASE Register(c)
    <2> DEFINE k == client[c].key
               n == client[c].conn
               first == entries[k] = NoConn
               r == [client[c] EXCEPT !.pc = "sending", !.live = TRUE, !.pooled = first]
    <2>1. /\ client[c].pc = "dialled" /\ client' = [client EXCEPT ![c] = r]
          /\ entries' = IF first THEN [entries EXCEPT ![k] = n] ELSE entries
          /\ busy' = IF first THEN busy \cup {n} ELSE busy
          /\ UNCHANGED <<open, closed>> /\ k \in Keys
      BY <1>1, <1>9 DEF Register, At, Shape
    <2>2. r \in ClientRec /\ r.key = k /\ r.conn = n /\ r.live = TRUE
      BY <1>1, Zenon DEF ClientRec, Places
    <2>3. ASSUME NEW m \in Conns, m # n
          PROVE  /\ m \in busy' => m \in busy
                 /\ \A j \in Keys : entries[j] = m => entries'[j] = m
      BY <1>1, <2>1, <2>3
    <2> HIDE DEF r
    <2> QED
      BY <1>8, <2>1, <2>2, <2>3
  <1>10. CASE Send(c)
    <2> DEFINE r == [client[c] EXCEPT !.pc = "streaming"]
    <2>1. /\ client[c].live /\ client' = [client EXCEPT ![c] = r]
          /\ UNCHANGED <<entries, busy, open, closed>>
      BY <1>10 DEF Send, Goto
    <2>2. /\ r \in ClientRec /\ r.key = client[c].key
          /\ r.conn = client[c].conn /\ r.live = client[c].live
      BY <1>1, AtPlace DEF Places
    <2> HIDE DEF r
    <2> QED
      BY <1>8, <2>1, <2>2
  <1>11. CASE CancelSend(c) \/ PumpFails(c)
    BY <1>11, DiscardMaps DEF CancelSend, PumpFails, Exclusive!Next
  <1>12. CASE PumpEnds(c)
    <2> DEFINE r == [client[c] EXCEPT !.live = FALSE, !.pc = "draining"]
    <2>1. client[c].live /\ client' = [client EXCEPT ![c] = r] /\ r \in ClientRec
      BY <1>1, <1>12 DEF PumpEnds, ClientRec, Places
    <2>2. (MayKeep(c) /\ Keep(c)) \/ Discard(c)
      BY <1>12 DEF PumpEnds
    <2> HIDE DEF r
    <2> QED
      BY <2>1, <2>2, DiscardMaps, KeepMaps DEF Exclusive!Next
  <1>13. CASE SendFails(c) \/ CloseBody(c)
    <2>1. /\ GiveBack(c) /\ client' = [client EXCEPT ![c] = Idle]
          /\ client[c].pc # "dialled"
      BY <1>13 DEF SendFails, CloseBody, Leave, At
    <2>2. CASE client[c].live
      BY <2>1, <2>2, DiscardMaps DEF GiveBack, Exclusive!Next
    <2>3. CASE ~client[c].live
      BY <1>2, <2>1, <2>3 DEF GiveBack, Uses
    <2> QED
      BY <2>2, <2>3
  <1> QED
    BY <1>4, <1>5, <1>6, <1>7, <1>9, <1>10, <1>11, <1>12, <1>13

\* Every step is one of ExclusiveConnections or moves no connection.
LEMMA StepMaps ==
    ASSUME PoolInv, Placed, Placed', [Next]_vars
    PROVE  [Exclusive!Next]_Exclusive!vars
  <1>1. ASSUME UNCHANGED <<entries, busy, open, closed, client>>
        PROVE  UNCHANGED Exclusive!vars
    <2>1. \A n \in Conns : Undisturbed(n)
      BY <1>1 DEF Undisturbed, Uses, Parked, Pooled
    <2> QED
      BY <2>1, AllUnmoved
  <1>2. ASSUME NEW n \in Conns, NEW g \in 1 .. MaxGeneration, Expire(n, g)
        PROVE  [Exclusive!Next]_Exclusive!vars
    <2>1. CASE Parked(n) /\ generation[n] = g
      <3>1. /\ Forget(n) /\ CloseConn(n) /\ UNCHANGED <<busy, client>>
            /\ entries \in [Keys -> Conns \cup {NoConn}]
        BY <1>2, <2>1, Typed DEF Expire, Expiring, Parked, PoolInv
      <3>2. n \in open /\ n \in closed'
        BY <2>1, <3>1 DEF PoolInv, EntriesOK, Parked, Pooled, CloseConn
      <3>3. ASSUME NEW m \in Conns, m # n PROVE Undisturbed(m)
        <4>1. \A k \in Keys : entries[k] = m => entries'[k] = m
          BY <3>1, <3>3 DEF Forget
        <4> QED
          BY <3>1, <3>3, <4>1 DEF CloseConn, Undisturbed, Uses, Parked, Pooled
      <3> QED
        BY <3>2, <3>3, AbstractClose DEF Exclusive!Next
    <2>2. CASE ~(Parked(n) /\ generation[n] = g)
      BY <1>1, <1>2, <2>2 DEF Expire, Expiring, Parked
    <2> QED
      BY <2>1, <2>2
  <1> QED
    BY <1>1, <1>2, ClientMaps DEF Next, vars, Age, Fire

\* The pool implements ExclusiveConnections: a connection serves one request at
\* a time, only requests of the key it was dialled for, and none after it was
\* closed (acquire, release and expire).
THEOREM PoolIsExclusive == Spec => OneUserPerConnection
  <1>1. Init => Exclusive!Init
    BY DEF Init, Exclusive!Init, Holder, Home
  <1>2. PoolInv /\ Placed /\ Placed' /\ [Next]_vars => [Exclusive!Next]_Exclusive!vars
    BY StepMaps
  <1> QED
    BY <1>1, <1>2, HolderIs, Invariance, PTL DEF Spec, OneUserPerConnection, Exclusive!Spec

=============================================================================
