------------------------ MODULE ProxyResourcesProofs ------------------------
(* The gate counts exactly the open attempts and keeps its rates, no byte *)
(* is lost, no request sleeps while it would fit, and the provider's      *)
(* cooldown is kept: for every number of requests, of accounts, and every  *)
(* limit, rate and ladder.                                                 *)
EXTENDS ProxyResources, Sums, FiniteSetTheorems, TLAPS

AnyBucket == [tokens : Int, last : Nat, inFlight : Nat]

Request == [pc : Places, held : Nat, want : Nat, next : {"reading", "selecting", "ready"},
            key : Keys \cup {NoKey}, live : BOOLEAN]

GateShape ==
    /\ now \in Nat /\ until \in Nat /\ limited \in Nat /\ strikes \in Nat
    /\ global \in AnyBucket /\ accounts \in [Keys -> AnyBucket]

Shape ==
    /\ GateShape
    /\ used \in Int /\ parked \subseteq Clients
    /\ client \in [Clients -> Request]

\* A place of the gate is held only from the sending of an attempt to the next one.
Placed ==
    \A c \in Clients :
        client[c].live => client[c].key \in Keys
                          /\ At(c, {"sending", "answered", "selecting", "forwarding"})

-----------------------------------------------------------------------------
(* The gate.                                                               *)

\* A refill changes no count.
LEMMA RefillKeepsPlaces ==
    ASSUME NEW b \in AnyBucket, NEW rate \in Nat, NEW burst \in Nat, now \in Nat
    PROVE  /\ Refilled(b, rate, burst) \in AnyBucket
           /\ Refilled(b, rate, burst).inFlight = b.inFlight
  <1>1. rate * (now - b.last) \in Int
    BY DEF AnyBucket
  <1>2. Refilled(b, rate, burst).tokens \in Int
    BY <1>1 DEF Refilled, Lesser, AnyBucket
  <1> QED
    BY <1>2 DEF Refilled, AnyBucket

\* codexTrafficGate.acquire that admits takes one place in each of the two buckets,
\* where there was one, while the provider is not cooling down.
LEMMA AdmitTakesOne ==
    ASSUME NEW k \in Keys, GateShape, GateAdmits(k)
    PROVE  /\ GateShape'
           /\ global'.inFlight = global.inFlight + 1
           /\ global.inFlight < GlobalConcurrency
           /\ accounts[k].inFlight < AccountConcurrency
           /\ \A j \in Keys : accounts'[j].inFlight =
                  IF j = k THEN accounts[j].inFlight + 1 ELSE accounts[j].inFlight
  <1> DEFINE g == RefilledGlobal
             a == RefilledAccount(k)
  <1>1. g \in AnyBucket /\ g.inFlight = global.inFlight
    BY RefillKeepsPlaces, GateAssumption DEF RefilledGlobal, GateShape
  <1>2. a \in AnyBucket /\ a.inFlight = accounts[k].inFlight
    BY RefillKeepsPlaces, GateAssumption DEF RefilledAccount, GateShape
  <1>3. global' = Entered(g) /\ accounts' = [accounts EXCEPT ![k] = Entered(a)]
    BY DEF GateAdmits
  <1> HIDE DEF g, a
  <1>4. \A b \in AnyBucket : Entered(b) \in AnyBucket /\ Entered(b).inFlight = b.inFlight + 1
    <2> SUFFICES ASSUME NEW b \in AnyBucket
                 PROVE  Entered(b) \in AnyBucket /\ Entered(b).inFlight = b.inFlight + 1
      OBVIOUS
    <2> DEFINE tokens == b.tokens - 1
               places == b.inFlight + 1
    <2>1. tokens \in Int /\ places \in Nat
      BY DEF AnyBucket
    <2>2. Entered(b) = [b EXCEPT !.tokens = tokens, !.inFlight = places]
      BY DEF Entered
    <2> HIDE DEF tokens, places
    <2>3. Entered(b) \in AnyBucket /\ Entered(b).inFlight = places
      BY <2>1, <2>2, Zenon DEF AnyBucket
    <2> QED
      BY <2>3 DEF places
  <1>5. /\ Entered(g) \in AnyBucket /\ Entered(g).inFlight = global.inFlight + 1
        /\ Entered(a) \in AnyBucket /\ Entered(a).inFlight = accounts[k].inFlight + 1
    BY <1>1, <1>2, <1>4
  <1>6. global.inFlight < GlobalConcurrency /\ accounts[k].inFlight < AccountConcurrency
    <2>1. ~(global.inFlight >= GlobalConcurrency) /\ ~(accounts[k].inFlight >= AccountConcurrency)
      BY DEF GateAdmits, Crowded
    <2>2. global.inFlight \in Nat /\ accounts[k].inFlight \in Nat
      BY DEF GateShape, AnyBucket
    <2>3. GlobalConcurrency \in Nat /\ AccountConcurrency \in Nat
      BY GateAssumption
    <2> QED
      BY <2>1, <2>2, <2>3
  <1>7. now' = now /\ until' = until /\ limited' = limited /\ strikes' = strikes
    BY DEF GateAdmits, cooldown
  <1>8. global' \in AnyBucket /\ accounts' \in [Keys -> AnyBucket]
    BY <1>3, <1>5 DEF GateShape
  <1>9. \A j \in Keys : accounts'[j].inFlight =
            IF j = k THEN accounts[j].inFlight + 1 ELSE accounts[j].inFlight
    BY <1>3, <1>5 DEF GateShape
  <1> QED
    BY <1>3, <1>5, <1>6, <1>7, <1>8, <1>9 DEF GateShape

\* acquire that refuses refills, and takes no place.
LEMMA RefuseTakesNone ==
    ASSUME NEW k \in Keys, GateShape, GateRefuses(k)
    PROVE  /\ GateShape'
           /\ global'.inFlight = global.inFlight
           /\ \A j \in Keys : accounts'[j].inFlight = accounts[j].inFlight
  <1> DEFINE g == RefilledGlobal
             a == RefilledAccount(k)
  <1>1. g \in AnyBucket /\ g.inFlight = global.inFlight
    BY RefillKeepsPlaces, GateAssumption DEF RefilledGlobal, GateShape
  <1>2. a \in AnyBucket /\ a.inFlight = accounts[k].inFlight
    BY RefillKeepsPlaces, GateAssumption DEF RefilledAccount, GateShape
  <1>3. global' = g /\ accounts' = [accounts EXCEPT ![k] = a]
    BY DEF GateRefuses
  <1> HIDE DEF g, a
  <1>4. now' = now /\ until' = until /\ limited' = limited /\ strikes' = strikes
    BY DEF GateRefuses, clock, cooldown
  <1>5. global' \in AnyBucket /\ accounts' \in [Keys -> AnyBucket]
    BY <1>1, <1>2, <1>3 DEF GateShape
  <1>6. \A j \in Keys : accounts'[j].inFlight = accounts[j].inFlight
    BY <1>2, <1>3 DEF GateShape
  <1> QED
    BY <1>1, <1>3, <1>4, <1>5, <1>6 DEF GateShape

\* release gives back one place, if there is one.
LEMMA ReleaseReturnsOne ==
    ASSUME NEW k \in Keys, GateShape, GateRelease(k)
    PROVE  /\ GateShape'
           /\ global'.inFlight = Greater(0, global.inFlight - 1)
           /\ \A j \in Keys : accounts'[j].inFlight =
                  IF j = k THEN Greater(0, accounts[j].inFlight - 1)
                           ELSE accounts[j].inFlight
  <1>1. \A b \in AnyBucket : /\ Left(b) \in AnyBucket
                             /\ Left(b).inFlight = Greater(0, b.inFlight - 1)
    BY DEF Left, AnyBucket, Greater
  <1>2. global' = Left(global) /\ accounts' = [accounts EXCEPT ![k] = Left(accounts[k])]
    BY DEF GateRelease
  <1>3. now' = now /\ until' = until /\ limited' = limited /\ strikes' = strikes
    BY DEF GateRelease, clock, cooldown
  <1>4. global' \in AnyBucket /\ accounts' \in [Keys -> AnyBucket]
    BY <1>1, <1>2 DEF GateShape
  <1>5. \A j \in Keys : accounts'[j].inFlight =
            IF j = k THEN Greater(0, accounts[j].inFlight - 1) ELSE accounts[j].inFlight
    BY <1>1, <1>2 DEF GateShape
  <1> QED
    BY <1>1, <1>2, <1>3, <1>4, <1>5 DEF GateShape

\* tripProviderRateLimit only ever moves the end of the cooldown away.
LEMMA TripExtends ==
    ASSUME NEW hint \in Nat, GateShape, Trip(hint)
    PROVE  /\ GateShape'
           /\ until' >= until
           /\ global' = global /\ accounts' = accounts
  <1>1. Strikes \in Nat \ {0}
    BY DEF Strikes, GateShape
  <1>2. Lesser(Strikes, Len(Ladder)) \in 1 .. Len(Ladder)
    BY <1>1, GateAssumption DEF Lesser
  <1>3. Base \in Nat
    BY <1>2, GateAssumption DEF Base
  <1>4. PICK jitter \in 0 .. Base \div 4 :
            until' = Greater(until, now + Delay(hint, jitter))
    BY DEF Trip
  <1>5. jitter \in Nat
    BY <1>3, <1>4
  <1>6. Base + jitter \in Nat
    BY <1>3, <1>5
  <1>7. Delay(hint, jitter) \in Nat
    BY <1>6, GateAssumption DEF Delay, Lesser, Greater
  <1>8. until' \in Nat /\ until' >= until
    BY <1>4, <1>7 DEF Greater, GateShape
  <1>9. /\ now' = now /\ limited' = now /\ strikes' = Strikes
        /\ global' = global /\ accounts' = accounts
    BY DEF Trip, clock, buckets
  <1> QED
    BY <1>1, <1>8, <1>9 DEF GateShape

-----------------------------------------------------------------------------
(* Counting open attempts.                                                 *)

Open == {c \in Clients : client[c].live}

Others(c) == \A d \in Clients \ {c} : client'[d] = client[d]

\* A late change is what breaks the count: see Conflict.
Accurate == "late_change" \notin Environment => CountsMatch

\* Attempts that neither begin nor end are still counted.
LEMMA CountsKept ==
    ASSUME Accurate,
           global'.inFlight = global.inFlight,
           \A k \in Keys : accounts'[k].inFlight = accounts[k].inFlight,
           \A c \in Clients : /\ client'[c].live <=> client[c].live
                              /\ client[c].live => client'[c].key = client[c].key
    PROVE  Accurate'
  <1> SUFFICES ASSUME "late_change" \notin Environment, CountsMatch
               PROVE  CountsMatch'
    BY DEF Accurate
  <1>1. Open' = Open
    BY DEF Open
  <1>2. \A k \in Keys : Inside(k)' = Inside(k)
    BY DEF Inside
  <1> QED
    BY <1>1, <1>2 DEF CountsMatch, Open

\* One that begins is counted once, where there was a place.
LEMMA CountsRaise ==
    ASSUME NEW c \in Clients, NEW k \in Keys, Shape, Accurate, GateAdmits(k),
           ~client[c].live, client'[c].live, client'[c].key = k, Others(c)
    PROVE  Accurate'
  <1> SUFFICES ASSUME "late_change" \notin Environment, CountsMatch
               PROVE  CountsMatch'
    BY DEF Accurate
  <1>1. /\ global'.inFlight = global.inFlight + 1
        /\ global.inFlight < GlobalConcurrency
        /\ accounts[k].inFlight < AccountConcurrency
        /\ \A j \in Keys : accounts'[j].inFlight =
               IF j = k THEN accounts[j].inFlight + 1 ELSE accounts[j].inFlight
    BY AdmitTakesOne DEF Shape
  <1>2. Open' = Open \cup {c} /\ c \notin Open
    BY DEF Open, Others
  <1>3. Inside(k)' = Inside(k) \cup {c} /\ c \notin Inside(k)
    BY DEF Inside, Others
  <1>4. \A j \in Keys \ {k} : Inside(j)' = Inside(j)
    BY DEF Inside, Others
  <1>5. IsFiniteSet(Open) /\ IsFiniteSet(Inside(k))
    BY FS_Subset, ResourcesAssumption DEF Open, Inside
  <1>6. /\ Cardinality(Open') = Cardinality(Open) + 1
        /\ Cardinality(Inside(k)') = Cardinality(Inside(k)) + 1
    BY <1>2, <1>3, <1>5, FS_AddElement
  <1>7. GlobalConcurrency \in Nat /\ AccountConcurrency \in Nat
    BY GateAssumption
  <1>8. global.inFlight \in Nat /\ accounts[k].inFlight \in Nat
    BY DEF Shape, GateShape, AnyBucket
  <1>9. /\ global'.inFlight = Cardinality(Open')
        /\ global'.inFlight <= GlobalConcurrency
    BY <1>1, <1>6, <1>7, <1>8 DEF CountsMatch, Open
  <1>10. ASSUME NEW j \in Keys
         PROVE  /\ accounts'[j].inFlight = Cardinality(Inside(j)')
                /\ accounts'[j].inFlight <= AccountConcurrency
    <2>1. CASE j = k
      BY <2>1, <1>1, <1>6, <1>7, <1>8 DEF CountsMatch
    <2>2. CASE j # k
      BY <2>2, <1>1, <1>4 DEF CountsMatch
    <2> QED
      BY <2>1, <2>2
  <1> QED
    BY <1>9, <1>10 DEF CountsMatch, Open

\* One that ends gives its place back once.
LEMMA CountsLower ==
    ASSUME NEW c \in Clients, NEW k \in Keys, Shape, Accurate, GateRelease(k),
           client[c].live, client[c].key = k, ~client'[c].live, Others(c)
    PROVE  Accurate'
  <1> SUFFICES ASSUME "late_change" \notin Environment, CountsMatch
               PROVE  CountsMatch'
    BY DEF Accurate
  <1>1. /\ global'.inFlight = Greater(0, global.inFlight - 1)
        /\ \A j \in Keys : accounts'[j].inFlight =
               IF j = k THEN Greater(0, accounts[j].inFlight - 1) ELSE accounts[j].inFlight
    BY ReleaseReturnsOne DEF Shape
  <1>2. Open' = Open \ {c} /\ c \in Open
    BY DEF Open, Others
  <1>3. Inside(k)' = Inside(k) \ {c} /\ c \in Inside(k)
    BY DEF Inside, Others
  <1>4. \A j \in Keys \ {k} : Inside(j)' = Inside(j)
    BY DEF Inside, Others
  <1>5. IsFiniteSet(Open) /\ IsFiniteSet(Inside(k))
    BY FS_Subset, ResourcesAssumption DEF Open, Inside
  <1>6. /\ Cardinality(Open') = Cardinality(Open) - 1
        /\ Cardinality(Inside(k)') = Cardinality(Inside(k)) - 1
    BY <1>2, <1>3, <1>5, FS_RemoveElement
  <1>7. IsFiniteSet(Open') /\ IsFiniteSet(Inside(k)')
    BY <1>2, <1>3, <1>5, FS_RemoveElement
  <1>8. /\ Cardinality(Open') \in Nat /\ Cardinality(Inside(k)') \in Nat
        /\ Cardinality(Open) \in Nat /\ Cardinality(Inside(k)) \in Nat
    BY <1>5, <1>7, FS_CardinalityType
  <1>9. /\ global.inFlight = Cardinality(Open) /\ global.inFlight <= GlobalConcurrency
        /\ accounts[k].inFlight = Cardinality(Inside(k))
        /\ accounts[k].inFlight <= AccountConcurrency
    BY DEF CountsMatch, Open
  <1>10. GlobalConcurrency \in Nat /\ AccountConcurrency \in Nat
    BY GateAssumption
  <1>11. /\ global'.inFlight = Cardinality(Open')
         /\ global'.inFlight <= GlobalConcurrency
    BY <1>1, <1>6, <1>8, <1>9, <1>10 DEF Greater
  <1>12. ASSUME NEW j \in Keys
         PROVE  /\ accounts'[j].inFlight = Cardinality(Inside(j)')
                /\ accounts'[j].inFlight <= AccountConcurrency
    <2>1. CASE j = k
      BY <2>1, <1>1, <1>6, <1>8, <1>9, <1>10 DEF Greater
    <2>2. CASE j # k
      BY <2>2, <1>1, <1>4 DEF CountsMatch
    <2> QED
      BY <2>1, <2>2
  <1> QED
    BY <1>11, <1>12 DEF CountsMatch, Open

\* Closing the body of the last attempt, whether it was closed before or not.
LEMMA CloseCounts ==
    ASSUME NEW c \in Clients, Shape, Placed, Accurate, CloseBody(c),
           ~client'[c].live, Others(c)
    PROVE  GateShape' /\ Accurate'
  <1>1. CASE client[c].live
    <2>1. client[c].key \in Keys /\ GateRelease(client[c].key)
      BY <1>1 DEF Placed, CloseBody
    <2> QED
      BY <1>1, <2>1, CountsLower, ReleaseReturnsOne DEF Shape
  <1>2. CASE ~client[c].live
    <2>1. UNCHANGED gate
      BY <1>2 DEF CloseBody
    <2>2. GateShape'
      BY <2>1 DEF Shape, GateShape, gate, clock, buckets, cooldown
    <2>3. global' = global /\ accounts' = accounts
      BY <2>1 DEF gate, buckets
    <2>4. \A d \in Clients : /\ client'[d].live <=> client[d].live
                             /\ client[d].live => client'[d].key = client[d].key
      BY <1>2 DEF Others
    <2> QED
      BY <2>2, <2>3, <2>4, CountsKept
  <1> QED
    BY <1>1, <1>2

-----------------------------------------------------------------------------
(* Waiting for memory.                                                     *)

\* A request that does not fit does not fit either when more is taken.
LEMMA SleepersStay ==
    ASSUME Shape, NoLostWakeup, used' \in Int, used' >= used, parked' \subseteq parked,
           \A d \in parked' : client'[d] = client[d]
    PROVE  NoLostWakeup'
  <1>1. ASSUME NEW d \in parked'
        PROVE  At(d, {"waiting"})' /\ ~Fits(client[d].want)'
    <2>1. At(d, {"waiting"}) /\ ~Fits(client[d].want)
      BY <1>1 DEF NoLostWakeup
    <2>2. client'[d] = client[d] /\ client[d].want \in Nat
      BY <1>1 DEF Shape, Request
    <2>3. ~(client[d].want <= Limit - used')
      BY <2>1, <2>2, BudgetAssumption DEF Fits, Shape
    <2> QED
      BY <2>1, <2>2, <2>3 DEF At, Fits
  <1> QED
    BY <1>1 DEF NoLostWakeup

\* A release wakes everybody, unless nothing is released.
LEMMA ReturnWakes ==
    ASSUME NEW c \in Clients, NEW size \in Nat, Shape, NoLostWakeup, Return(c, size), Others(c)
    PROVE  /\ NoLostWakeup'
           /\ used' \in Int /\ parked' \subseteq Clients
  <1>1. used' \in Int /\ parked' \subseteq Clients
    BY DEF Return, Shape
  <1>2. CASE size > 0
    BY <1>1, <1>2 DEF Return, NoLostWakeup
  <1>3. CASE size = 0
    <2>1. used' = used /\ parked' = parked \ {c}
      BY <1>3 DEF Return, Shape
    <2> QED
      BY <1>1, <2>1, SleepersStay DEF Others, Shape
  <1> QED
    BY <1>1, <1>2, <1>3

\* Taking bytes wakes nobody; the request that takes them is awake.
LEMMA TakeWakesNone ==
    ASSUME NEW c \in Clients, NEW size \in Nat, Shape, NoLostWakeup, TakeBytes(size),
           c \notin parked, Others(c)
    PROVE  /\ NoLostWakeup'
           /\ used' \in Int /\ parked' \subseteq Clients
  <1>1. used' \in Int /\ used' >= used /\ parked' = parked
    BY DEF TakeBytes, Shape
  <1> QED
    BY <1>1, SleepersStay DEF Others, Shape

-----------------------------------------------------------------------------
(* The steps.                                                              *)

IInv == Shape /\ Placed /\ Accurate /\ NoLostWakeup

\* An end of a handler gives everything back.
LEMMA LeaveKeeps ==
    ASSUME NEW c \in Clients, IInv, Leave(c)
    PROVE  IInv'
  <1>1. client' = [client EXCEPT ![c] = Idle] /\ Idle \in Request /\ ~Idle.live
    BY DEF Leave, Depart, Idle, Request, Places
  <1>2. Others(c) /\ ~client'[c].live /\ client' \in [Clients -> Request]
    BY <1>1 DEF Others, IInv, Shape
  <1>3. GateShape' /\ Accurate'
    BY <1>2, CloseCounts DEF IInv, Leave
  <1>4. NoLostWakeup' /\ used' \in Int /\ parked' \subseteq Clients
    <2>1. client[c].held \in Nat
      BY DEF IInv, Shape, Request
    <2> QED
      BY <1>2, <2>1, ReturnWakes DEF IInv, Leave, Depart
  <1>5. Placed'
    BY <1>2 DEF Placed, Others, At, IInv
  <1> QED
    BY <1>2, <1>3, <1>4, <1>5 DEF IInv, Shape

Attempt == {"sending", "answered", "selecting", "forwarding"}

\* The new state of one request, and what it owes the other parts of the invariant.
Becomes(c, request) == request \in Request /\ client' = [client EXCEPT ![c] = request]

\* A step between attempts, or inside one, that leaves the gate alone.
LEMMA GateUntouched ==
    ASSUME NEW c \in Clients, NEW request, IInv, UNCHANGED gate, Becomes(c, request),
           request.live <=> client[c].live, request.key = client[c].key,
           client[c].live => request.pc \in Attempt,
           NoLostWakeup', used' \in Int, parked' \subseteq Clients
    PROVE  IInv'
  <1>1. /\ Others(c) /\ client'[c] = request /\ client' \in [Clients -> Request]
    BY DEF Others, Becomes, IInv, Shape
  <1>2. GateShape' /\ global' = global /\ accounts' = accounts
    BY DEF IInv, Shape, GateShape, gate, clock, buckets, cooldown
  <1>3. \A d \in Clients : /\ client'[d].live <=> client[d].live
                           /\ client[d].live => client'[d].key = client[d].key
    BY <1>1 DEF Others
  <1>4. Accurate'
    BY <1>2, <1>3, CountsKept DEF IInv
  <1>5. Placed'
    BY <1>1 DEF Placed, Others, At, IInv, Attempt
  <1> QED
    BY <1>1, <1>2, <1>4, <1>5 DEF IInv, Shape

\* A step that leaves the budget alone, by a request that is awake.
LEMMA BudgetUntouched ==
    ASSUME NEW c \in Clients, IInv, UNCHANGED budget, c \notin parked, Others(c)
    PROVE  NoLostWakeup' /\ used' \in Int /\ parked' \subseteq Clients
  <1>1. used' = used /\ parked' = parked
    BY DEF budget
  <1> QED
    BY <1>1, SleepersStay DEF IInv, Shape, Others

\* Only a waiting request sleeps.
LEMMA AwakeUnlessWaiting ==
    ASSUME NEW c \in Clients, NoLostWakeup, client[c].pc # "waiting"
    PROVE  c \notin parked
  BY DEF NoLostWakeup, At

\* Moving on, with bytes, without them, or to wait for more.
LEMMA RequestMoves ==
    ASSUME NEW request \in Request, NEW place \in Places,
           NEW size \in Nat, NEW total \in Nat, NEW next \in {"reading", "selecting", "ready"},
           NEW key \in Keys \cup {NoKey}, NEW live \in BOOLEAN
    PROVE  /\ [request EXCEPT !.pc = place] \in Request
           /\ [request EXCEPT !.live = live] \in Request
           /\ [request EXCEPT !.pc = place, !.held = total] \in Request
           /\ [request EXCEPT !.pc = place, !.live = live] \in Request
           /\ [request EXCEPT !.pc = place, !.want = size, !.next = next] \in Request
           /\ [request EXCEPT !.pc = place, !.want = size, !.held = total] \in Request
           /\ [request EXCEPT !.pc = place, !.held = total, !.next = next] \in Request
           /\ [request EXCEPT !.pc = place, !.key = key, !.live = live] \in Request
           /\ [request EXCEPT !.pc = place, !.next = next, !.key = key, !.live = live] \in Request
  BY Zenon DEF Request

LEMMA StartKeeps ==
    ASSUME NEW c \in Clients, NEW size \in Sizes, IInv, Start(c, size)
    PROVE  IInv'
  <1>1. /\ client[c] \in Request /\ client[c].pc = "idle"
        /\ UNCHANGED gate /\ UNCHANGED budget /\ size \in Nat
    BY ResourcesAssumption, BudgetAssumption DEF Start, At, IInv, Shape
  <1>2. ~client[c].live /\ c \notin parked
    BY <1>1, AwakeUnlessWaiting DEF IInv, Placed, At
  <1>3. PICK request : /\ Becomes(c, request)
                       /\ request.live = client[c].live /\ request.key = client[c].key
    <2>1. CASE size = 0
      <3> DEFINE request == [client[c] EXCEPT !.pc = "reading"]
      <3>1. request \in Request
        BY <1>1, RequestMoves DEF Places
      <3>2. client' = [client EXCEPT ![c] = request]
        BY <2>1 DEF Start, Goto
      <3> QED
        BY <3>1, <3>2, <1>1 DEF Becomes, Request
    <2>2. CASE size # 0
      <3> DEFINE request == [client[c] EXCEPT !.pc = "waiting", !.want = size, !.next = "reading"]
      <3>1. request \in Request
        BY <1>1, RequestMoves DEF Places
      <3>2. client' = [client EXCEPT ![c] = request]
        BY <2>2 DEF Start, WaitFor
      <3> QED
        BY <3>1, <3>2, <1>1 DEF Becomes, Request
    <2> QED
      BY <2>1, <2>2
  <1>4. Others(c)
    BY <1>3 DEF Becomes, Others, IInv, Shape
  <1>5. NoLostWakeup' /\ used' \in Int /\ parked' \subseteq Clients
    BY <1>1, <1>2, <1>4, BudgetUntouched
  <1> QED
    BY <1>1, <1>2, <1>3, <1>5, GateUntouched

\* acquire, once around its loop.
LEMMA TryAcquireKeeps ==
    ASSUME NEW c \in Clients, IInv, TryAcquire(c)
    PROVE  IInv'
  <1> DEFINE size == client[c].want
             total == client[c].held + size
             request == [client[c] EXCEPT !.pc = client[c].next, !.want = 0, !.held = total]
  <1>1. /\ client[c] \in Request /\ client[c].pc = "waiting" /\ c \notin parked
        /\ UNCHANGED gate /\ size \in Nat /\ total \in Nat /\ client[c].next \in Places
    BY DEF TryAcquire, At, IInv, Shape, Request, Places
  <1>2. ~client[c].live
    BY <1>1 DEF IInv, Placed, At
  <1>3. CASE Fits(size)
    <2>1. TakeBytes(size) /\ client' = [client EXCEPT ![c] = request]
      BY <1>3 DEF TryAcquire
    <2>2. request \in Request /\ request.live = client[c].live /\ request.key = client[c].key
      <3> HIDE DEF size, total
      <3>1. request \in Request
        BY <1>1, RequestMoves
      <3> QED
        BY <3>1, <1>1 DEF Request
    <2> HIDE DEF size, total, request
    <2>3. Becomes(c, request) /\ Others(c)
      BY <2>1, <2>2 DEF Becomes, Others, IInv, Shape
    <2>4. NoLostWakeup' /\ used' \in Int /\ parked' \subseteq Clients
      BY <1>1, <2>1, <2>3, TakeWakesNone DEF IInv
    <2> QED
      BY <1>1, <1>2, <2>2, <2>3, <2>4, GateUntouched
  <1>4. CASE ~Fits(size)
    <2>1. Park(c) /\ client' = client
      BY <1>4 DEF TryAcquire
    <2>2. Becomes(c, client[c])
      BY <1>1, <2>1 DEF Becomes, IInv, Shape
    <2>3. used' = used /\ parked' = parked \cup {c}
      BY <2>1 DEF Park
    <2>4. NoLostWakeup'
      BY <1>1, <1>4, <2>1, <2>3 DEF NoLostWakeup, IInv, At, Fits
    <2>5. used' \in Int /\ parked' \subseteq Clients
      BY <2>3 DEF IInv, Shape
    <2> QED
      BY <1>1, <1>2, <2>2, <2>4, <2>5, GateUntouched
  <1> QED
    BY <1>3, <1>4

LEMMA ReadKeeps ==
    ASSUME NEW c \in Clients, NEW length \in Sizes, IInv, Read(c, length)
    PROVE  IInv'
  <1> DEFINE request == [client[c] EXCEPT !.pc = "preparing", !.held = length]
             unused == client[c].held - length
  <1>1. /\ client[c] \in Request /\ client[c].pc = "reading" /\ length \in Nat
        /\ UNCHANGED gate /\ unused \in Nat
    BY ResourcesAssumption, BudgetAssumption DEF Read, At, IInv, Shape, Request
  <1>2. ~client[c].live
    BY <1>1 DEF IInv, Placed, At
  <1>3. Return(c, unused) /\ client' = [client EXCEPT ![c] = request]
    BY DEF Read
  <1>4. request \in Request /\ request.live = client[c].live /\ request.key = client[c].key
    <2>1. request \in Request
      BY <1>1, RequestMoves DEF Places
    <2> QED
      BY <2>1, <1>1 DEF Request
  <1> HIDE DEF request, unused
  <1>5. Becomes(c, request) /\ Others(c)
    BY <1>3, <1>4 DEF Becomes, Others, IInv, Shape
  <1>6. NoLostWakeup' /\ used' \in Int /\ parked' \subseteq Clients
    BY <1>1, <1>3, <1>5, ReturnWakes DEF IInv
  <1> QED
    BY <1>1, <1>2, <1>4, <1>5, <1>6, GateUntouched

LEMMA PrepareKeeps ==
    ASSUME NEW c \in Clients, NEW context \in Contexts, IInv, Prepare(c, context)
    PROVE  IInv'
  <1> DEFINE total == client[c].held + context
             request == [client[c] EXCEPT !.pc = "sized", !.held = total, !.next = "selecting"]
  <1>1. /\ client[c] \in Request /\ client[c].pc = "preparing" /\ context \in Nat
        /\ total \in Nat
    BY ResourcesAssumption DEF Prepare, At, IInv, Shape, Request
  <1>2. ~client[c].live /\ c \notin parked
    BY <1>1, AwakeUnlessWaiting DEF IInv, Placed, At
  <1>3. CASE ~Fits(context)
    BY <1>3, LeaveKeeps DEF Prepare
  <1>4. CASE Fits(context)
    <2>1. TakeBytes(context) /\ UNCHANGED gate /\ client' = [client EXCEPT ![c] = request]
      BY <1>4 DEF Prepare
    <2>2. request \in Request /\ request.live = client[c].live /\ request.key = client[c].key
      <3> HIDE DEF total
      <3>1. request \in Request
        BY <1>1, RequestMoves DEF Places
      <3> QED
        BY <3>1, <1>1 DEF Request
    <2> HIDE DEF total, request
    <2>3. Becomes(c, request) /\ Others(c)
      BY <2>1, <2>2 DEF Becomes, Others, IInv, Shape
    <2>4. NoLostWakeup' /\ used' \in Int /\ parked' \subseteq Clients
      BY <1>1, <1>2, <2>1, <2>3, TakeWakesNone DEF IInv
    <2> QED
      BY <1>2, <2>1, <2>2, <2>3, <2>4, GateUntouched
  <1> QED
    BY <1>3, <1>4

LEMMA ResizeKeeps ==
    ASSUME NEW c \in Clients, NEW length \in Sizes, IInv, Resize(c, length)
    PROVE  IInv'
  <1> DEFINE extra == length - client[c].held
  <1>1. /\ client[c] \in Request /\ client[c].pc = "sized" /\ length \in Nat
        /\ UNCHANGED gate /\ client[c].held \in Nat
        /\ client[c].next \in {"reading", "selecting", "ready"}
    BY ResourcesAssumption, BudgetAssumption DEF Resize, At, IInv, Shape, Request
  <1>2. ~client[c].live /\ c \notin parked
    BY <1>1, AwakeUnlessWaiting DEF IInv, Placed, At
  <1>3. CASE extra > 0
    <2> DEFINE request == [client[c] EXCEPT !.pc = "waiting", !.want = extra, !.next = client[c].next]
    <2>1. extra \in Nat
      BY <1>1, <1>3
    <2>2. UNCHANGED budget /\ client' = [client EXCEPT ![c] = request]
      BY <1>3 DEF Resize, WaitFor
    <2>3. request \in Request /\ request.live = client[c].live /\ request.key = client[c].key
      <3> HIDE DEF extra
      <3>1. request \in Request
        BY <1>1, <2>1, RequestMoves DEF Places
      <3> QED
        BY <3>1, <1>1 DEF Request
    <2> HIDE DEF extra, request
    <2>4. Becomes(c, request) /\ Others(c)
      BY <2>2, <2>3 DEF Becomes, Others, IInv, Shape
    <2>5. NoLostWakeup' /\ used' \in Int /\ parked' \subseteq Clients
      BY <1>2, <2>2, <2>4, BudgetUntouched
    <2> QED
      BY <1>1, <1>2, <2>3, <2>4, <2>5, GateUntouched
  <1>4. CASE ~(extra > 0)
    <2> DEFINE request == [client[c] EXCEPT !.pc = client[c].next, !.held = length]
               unused == -extra
    <2>1. unused \in Nat
      BY <1>1, <1>4
    <2>2. Return(c, unused) /\ client' = [client EXCEPT ![c] = request]
      BY <1>4 DEF Resize
    <2>3. request \in Request /\ request.live = client[c].live /\ request.key = client[c].key
      <3>1. client[c].next \in Places
        BY <1>1 DEF Places
      <3>2. request \in Request
        BY <1>1, <3>1, RequestMoves
      <3> QED
        BY <3>2, <1>1 DEF Request
    <2> HIDE DEF extra, unused, request
    <2>4. Becomes(c, request) /\ Others(c)
      BY <2>2, <2>3 DEF Becomes, Others, IInv, Shape
    <2>5. NoLostWakeup' /\ used' \in Int /\ parked' \subseteq Clients
      BY <2>1, <2>2, <2>4, ReturnWakes DEF IInv
    <2> QED
      BY <1>1, <1>2, <2>3, <2>4, <2>5, GateUntouched
  <1> QED
    BY <1>3, <1>4

\* The handler goes on to another place, which may be in an attempt, or not.
LEMMA GotoKeeps ==
    ASSUME NEW c \in Clients, NEW place \in Places, IInv, Goto(c, place),
           UNCHANGED gate, UNCHANGED budget, client[c].pc # "waiting",
           client[c].live => place \in Attempt
    PROVE  IInv'
  <1> DEFINE request == [client[c] EXCEPT !.pc = place]
  <1>1. client[c] \in Request /\ c \notin parked
    BY AwakeUnlessWaiting DEF IInv, Shape
  <1>2. request \in Request
    BY <1>1, RequestMoves
  <1>3. request.live = client[c].live /\ request.key = client[c].key /\ request.pc = place
    BY <1>1 DEF Request
  <1>4. client' = [client EXCEPT ![c] = request]
    BY DEF Goto
  <1> HIDE DEF request
  <1>5. Becomes(c, request) /\ Others(c)
    BY <1>2, <1>4 DEF Becomes, Others, IInv, Shape
  <1>6. NoLostWakeup' /\ used' \in Int /\ parked' \subseteq Clients
    BY <1>1, <1>5, BudgetUntouched
  <1> QED
    BY <1>3, <1>5, <1>6, GateUntouched

\* The body of the last attempt is closed, and the request goes on.
LEMMA CloseKeeps ==
    ASSUME NEW c \in Clients, NEW request, IInv, CloseBody(c), Becomes(c, request),
           ~request.live, UNCHANGED budget, client[c].pc # "waiting"
    PROVE  IInv'
  <1>1. Others(c) /\ client'[c] = request /\ client' \in [Clients -> Request]
    BY DEF Others, Becomes, IInv, Shape
  <1>2. GateShape' /\ Accurate'
    BY <1>1, CloseCounts DEF IInv
  <1>3. NoLostWakeup' /\ used' \in Int /\ parked' \subseteq Clients
    BY <1>1, AwakeUnlessWaiting, BudgetUntouched DEF IInv
  <1>4. Placed'
    BY <1>1 DEF Placed, Others, At, IInv
  <1> QED
    BY <1>1, <1>2, <1>3, <1>4 DEF IInv, Shape

LEMMA SelectKeeps ==
    ASSUME NEW c \in Clients, IInv, Select(c)
    PROVE  IInv'
  <1>1. PICK replay \in BOOLEAN :
            client' = [client EXCEPT ![c].pc = IF replay THEN "sized" ELSE "ready",
                                     ![c].next = IF replay THEN "ready" ELSE @,
                                     ![c].key = NoKey, ![c].live = FALSE]
    BY DEF Select
  <1> DEFINE place == IF replay THEN "sized" ELSE "ready"
             next == IF replay THEN "ready" ELSE client[c].next
             request == [client[c] EXCEPT !.pc = place, !.next = next, !.key = NoKey, !.live = FALSE]
  <1>2. client[c] \in Request /\ client[c].pc = "selecting"
    BY DEF Select, At, IInv, Shape
  <1>3. client' = [client EXCEPT ![c] = request]
    BY <1>1
  <1>4. place \in Places /\ next \in {"reading", "selecting", "ready"}
    BY <1>2 DEF Places, Request
  <1>5. request \in Request
    <2> HIDE DEF place, next
    <2> QED
      BY <1>2, <1>4, RequestMoves
  <1>6. ~request.live
    BY <1>2 DEF Request
  <1> HIDE DEF request
  <1>7. Becomes(c, request)
    BY <1>3, <1>5 DEF Becomes
  <1> QED
    BY <1>2, <1>6, <1>7, CloseKeeps DEF Select

LEMMA FailKeeps ==
    ASSUME NEW c \in Clients, IInv, Fail(c)
    PROVE  IInv'
  <1> DEFINE request == [client[c] EXCEPT !.pc = "selecting", !.live = FALSE]
  <1>1. client[c] \in Request /\ client[c].pc \in {"sending", "answered"}
    BY DEF Fail, At, IInv, Shape
  <1>2. request \in Request
    BY <1>1, RequestMoves DEF Places
  <1>3. ~request.live
    BY <1>1 DEF Request
  <1>4. CASE Leave(c)
    BY <1>4, LeaveKeeps
  <1>5. CASE CloseBody(c) /\ UNCHANGED budget /\ client' = [client EXCEPT ![c] = request]
    <2> HIDE DEF request
    <2> QED
      BY <1>1, <1>2, <1>3, <1>5, CloseKeeps DEF Becomes
  <1> QED
    BY <1>4, <1>5 DEF Fail

LEMMA InspectionKeeps ==
    ASSUME NEW c \in Clients, IInv, InspectionEnds(c)
    PROVE  IInv'
  <1> DEFINE request == [client[c] EXCEPT !.live = FALSE]
  <1>1. client[c] \in Request /\ client[c].pc = "answered"
    BY DEF InspectionEnds, At, IInv, Shape
  <1>2. request \in Request
    BY <1>1, Zenon DEF Request
  <1>3. ~request.live
    BY <1>1 DEF Request
  <1>4. CloseBody(c) /\ UNCHANGED budget /\ client' = [client EXCEPT ![c] = request]
    BY DEF InspectionEnds
  <1> HIDE DEF request
  <1> QED
    BY <1>1, <1>2, <1>3, <1>4, CloseKeeps DEF Becomes

\* A request that ends with 409 holds no place, unless there was a late change.
LEMMA ConflictKeeps ==
    ASSUME NEW c \in Clients, IInv, Conflict(c)
    PROVE  IInv'
  <1>1. Depart(c) /\ UNCHANGED gate
    BY DEF Conflict
  <1>2. CASE ~client[c].live
    BY <1>1, <1>2, LeaveKeeps DEF Leave, CloseBody
  <1>3. CASE client[c].live
    <2>1. Accurate'
      BY <1>3 DEF Conflict, Accurate
    <2>2. client' = [client EXCEPT ![c] = Idle] /\ Idle \in Request /\ ~Idle.live
      BY <1>1 DEF Depart, Idle, Request, Places
    <2>3. Others(c) /\ ~client'[c].live /\ client' \in [Clients -> Request]
      BY <2>2 DEF Others, IInv, Shape
    <2>4. GateShape'
      BY <1>1 DEF IInv, Shape, GateShape, gate, clock, buckets, cooldown
    <2>5. client[c].held \in Nat
      BY DEF IInv, Shape, Request
    <2>6. NoLostWakeup' /\ used' \in Int /\ parked' \subseteq Clients
      BY <1>1, <2>3, <2>5, ReturnWakes DEF IInv, Depart
    <2>7. Placed'
      BY <2>3 DEF Placed, Others, At, IInv
    <2> QED
      BY <2>1, <2>3, <2>4, <2>6, <2>7 DEF IInv, Shape
  <1> QED
    BY <1>2, <1>3

LEMMA FindFullKeeps ==
    ASSUME NEW c \in Clients, NEW k \in Keys, IInv, FindFull(c, k)
    PROVE  IInv'
  <1>1. client[c].pc = "ready" /\ GateRefuses(k) /\ Depart(c)
    BY DEF FindFull, At
  <1>2. ~client[c].live
    BY <1>1 DEF IInv, Placed, At
  <1>3. client' = [client EXCEPT ![c] = Idle] /\ Idle \in Request /\ ~Idle.live
    BY <1>1 DEF Depart, Idle, Request, Places
  <1>4. Others(c) /\ ~client'[c].live /\ client' \in [Clients -> Request]
    BY <1>3 DEF Others, IInv, Shape
  <1>5. /\ GateShape'
        /\ global'.inFlight = global.inFlight
        /\ \A j \in Keys : accounts'[j].inFlight = accounts[j].inFlight
    BY <1>1, RefuseTakesNone DEF IInv, Shape
  <1>6. \A d \in Clients : /\ client'[d].live <=> client[d].live
                           /\ client[d].live => client'[d].key = client[d].key
    BY <1>2, <1>4 DEF Others
  <1>7. Accurate'
    BY <1>5, <1>6, CountsKept DEF IInv
  <1>8. NoLostWakeup' /\ used' \in Int /\ parked' \subseteq Clients
    <2>1. client[c].held \in Nat
      BY DEF IInv, Shape, Request
    <2> QED
      BY <1>1, <1>4, <2>1, ReturnWakes DEF IInv, Depart
  <1>9. Placed'
    BY <1>4 DEF Placed, Others, At, IInv
  <1> QED
    BY <1>4, <1>5, <1>7, <1>8, <1>9 DEF IInv, Shape

LEMMA EnterKeeps ==
    ASSUME NEW c \in Clients, NEW k \in Keys, IInv, Enter(c, k)
    PROVE  IInv'
  <1> DEFINE request == [client[c] EXCEPT !.pc = "sending", !.key = k, !.live = TRUE]
  <1>1. /\ client[c] \in Request /\ client[c].pc = "ready"
        /\ GateAdmits(k) /\ UNCHANGED budget
        /\ client' = [client EXCEPT ![c] = request]
    BY DEF Enter, At, IInv, Shape
  <1>2. ~client[c].live /\ c \notin parked
    BY <1>1, AwakeUnlessWaiting DEF IInv, Placed, At
  <1>3. request \in Request
    BY <1>1, RequestMoves DEF Places
  <1>4. request.live /\ request.key = k /\ request.pc = "sending"
    BY <1>1 DEF Request
  <1> HIDE DEF request
  <1>5. Others(c) /\ client'[c] = request /\ client' \in [Clients -> Request]
    BY <1>1, <1>3 DEF Others, IInv, Shape
  <1>6. GateShape' /\ Accurate'
    BY <1>1, <1>2, <1>4, <1>5, AdmitTakesOne, CountsRaise DEF IInv, Shape
  <1>7. NoLostWakeup' /\ used' \in Int /\ parked' \subseteq Clients
    BY <1>1, <1>2, <1>5, BudgetUntouched
  <1>8. Placed'
    BY <1>4, <1>5 DEF Placed, Others, At, IInv
  <1> QED
    BY <1>5, <1>6, <1>7, <1>8 DEF IInv, Shape

LEMMA RateLimitedKeeps ==
    ASSUME NEW c \in Clients, NEW hint \in Hints, IInv, RateLimited(c, hint)
    PROVE  IInv'
  <1> DEFINE request == [client[c] EXCEPT !.pc = "selecting"]
  <1>1. /\ client[c] \in Request /\ client[c].pc = "answered" /\ hint \in Nat
        /\ Trip(hint) /\ UNCHANGED budget
        /\ client' = [client EXCEPT ![c] = request]
    BY ResourcesAssumption DEF RateLimited, At, Goto, IInv, Shape
  <1>2. request \in Request
    BY <1>1, RequestMoves DEF Places
  <1>3. request.live = client[c].live /\ request.key = client[c].key /\ request.pc = "selecting"
    BY <1>1 DEF Request
  <1> HIDE DEF request
  <1>4. Others(c) /\ client'[c] = request /\ client' \in [Clients -> Request]
    BY <1>1, <1>2 DEF Others, IInv, Shape
  <1>5. GateShape' /\ global' = global /\ accounts' = accounts
    BY <1>1, TripExtends DEF IInv, Shape
  <1>6. \A d \in Clients : /\ client'[d].live <=> client[d].live
                           /\ client[d].live => client'[d].key = client[d].key
    BY <1>3, <1>4 DEF Others
  <1>7. Accurate'
    BY <1>5, <1>6, CountsKept DEF IInv
  <1>8. NoLostWakeup' /\ used' \in Int /\ parked' \subseteq Clients
    BY <1>1, <1>4, AwakeUnlessWaiting, BudgetUntouched DEF IInv
  <1>9. Placed'
    BY <1>3, <1>4 DEF Placed, Others, At, IInv
  <1> QED
    BY <1>4, <1>5, <1>7, <1>8, <1>9 DEF IInv, Shape

LEMMA ForwardKeeps ==
    ASSUME NEW c \in Clients, IInv, Forward(c)
    PROVE  IInv'
  <1> DEFINE total == client[c].held + Capture
             request == [client[c] EXCEPT !.pc = "forwarding", !.held = total]
  <1>1. /\ client[c] \in Request /\ client[c].pc = "answered" /\ UNCHANGED gate
        /\ total \in Nat /\ Capture \in Nat
    BY ResourcesAssumption DEF Forward, At, IInv, Shape, Request
  <1>2. CASE Goto(c, "forwarding") /\ UNCHANGED budget
    BY <1>1, <1>2, GotoKeeps DEF Places, Attempt
  <1>3. CASE TakeBytes(Capture) /\ client' = [client EXCEPT ![c] = request]
    <2>1. request \in Request
      <3>1. "forwarding" \in Places
        BY DEF Places
      <3> HIDE DEF total
      <3> QED
        BY <1>1, <3>1, RequestMoves
    <2>2. request.live = client[c].live /\ request.key = client[c].key
          /\ request.pc = "forwarding"
      BY <1>1 DEF Request
    <2> HIDE DEF total, request
    <2>3. Becomes(c, request) /\ Others(c)
      BY <1>3, <2>1 DEF Becomes, Others, IInv, Shape
    <2>4. c \notin parked
      BY <1>1, AwakeUnlessWaiting DEF IInv
    <2>5. NoLostWakeup' /\ used' \in Int /\ parked' \subseteq Clients
      BY <1>1, <1>3, <2>3, <2>4, TakeWakesNone DEF IInv
    <2> QED
      BY <1>1, <2>2, <2>3, <2>5, GateUntouched DEF Attempt
  <1> QED
    BY <1>2, <1>3 DEF Forward

-----------------------------------------------------------------------------
(* The theorems.                                                           *)

LEMMA InitSound == Init => IInv
  <1> SUFFICES ASSUME Init
               PROVE  IInv
    OBVIOUS
  <1>1. Idle \in Request /\ ~Idle.live
    BY DEF Idle, Request, Places
  <1>2. GateShape
    BY DEF Init, GateInit, GateShape, AnyBucket, NewBucket, Never
  <1>3. Shape /\ \A c \in Clients : ~client[c].live
    BY <1>1, <1>2 DEF Init, BudgetInit, Shape
  <1>4. Placed
    BY <1>3 DEF Placed
  <1>5. NoLostWakeup
    BY DEF Init, BudgetInit, NoLostWakeup
  <1>6. {c \in Clients : client[c].live} = {} /\ \A k \in Keys : Inside(k) = {}
    BY <1>3 DEF Inside
  <1>7. global.inFlight = 0 /\ \A k \in Keys : accounts[k].inFlight = 0
    BY DEF Init, GateInit, NewBucket
  <1>8. CountsMatch
    <2>1. GlobalConcurrency >= 0 /\ AccountConcurrency >= 0
      BY GateAssumption
    <2>2. \A k \in Keys : Cardinality(Inside(k)) = 0
      BY <1>6, FS_EmptySet
    <2>3. Cardinality({c \in Clients : client[c].live}) = 0
      BY <1>6, FS_EmptySet
    <2>4. \A k \in Keys : /\ accounts[k].inFlight = Cardinality(Inside(k))
                          /\ accounts[k].inFlight <= AccountConcurrency
      BY <1>7, <2>1, <2>2
    <2>5. /\ global.inFlight = Cardinality({c \in Clients : client[c].live})
          /\ global.inFlight <= GlobalConcurrency
      BY <1>7, <2>1, <2>3
    <2> QED
      BY <2>4, <2>5 DEF CountsMatch
  <1> QED
    BY <1>3, <1>4, <1>5, <1>8 DEF IInv, Accurate

LEMMA StepSound ==
    ASSUME IInv, [Next]_vars
    PROVE  IInv'
  <1>1. CASE UNCHANGED vars
    BY <1>1 DEF vars, gate, clock, buckets, cooldown, budget, IInv, Shape, GateShape, Placed,
             At, Accurate, CountsMatch, Inside, NoLostWakeup, Fits
  <1>2. CASE Tick /\ UNCHANGED <<budget, client>>
    <2>1. /\ now' \in Nat
          /\ UNCHANGED <<until, limited, strikes, global, accounts, used, parked, client>>
      BY <1>2 DEF Tick, buckets, cooldown, budget, IInv, Shape, GateShape
    <2> QED
      BY <2>1 DEF IInv, Shape, GateShape, Placed, At, Accurate, CountsMatch, Inside, NoLostWakeup, Fits
  <1>3. ASSUME NEW c \in Clients,
               \/ \E size \in Sizes : Start(c, size) \/ Read(c, size) \/ Resize(c, size)
               \/ \E context \in Contexts : Prepare(c, context)
               \/ TryAcquire(c)
        PROVE  IInv'
    BY <1>3, StartKeeps, ReadKeeps, ResizeKeeps, PrepareKeeps, TryAcquireKeeps
  <1>4. ASSUME NEW c \in Clients, GiveUp(c) \/ Reject(c) \/ Finish(c)
        PROVE  IInv'
    BY <1>4, LeaveKeeps DEF GiveUp, Reject, Finish
  <1>5. ASSUME NEW c \in Clients, NoCandidate(c)
        PROVE  IInv'
    BY <1>5, LeaveKeeps, GotoKeeps DEF NoCandidate, At, Places, Attempt
  <1>6. ASSUME NEW c \in Clients, FindClosed(c) \/ SendPlain(c) \/ Answer(c) \/ Retry(c)
        PROVE  IInv'
    BY <1>6, GotoKeeps DEF FindClosed, SendPlain, Answer, Retry, At, Places, Attempt
  <1>7. ASSUME NEW c \in Clients,
               Select(c) \/ Fail(c) \/ InspectionEnds(c) \/ Forward(c) \/ Conflict(c)
        PROVE  IInv'
    BY <1>7, SelectKeeps, FailKeeps, InspectionKeeps, ForwardKeeps, ConflictKeeps
  <1>8. ASSUME NEW c \in Clients,
               \/ \E k \in Keys : FindFull(c, k) \/ Enter(c, k)
               \/ \E hint \in Hints : RateLimited(c, hint)
        PROVE  IInv'
    BY <1>8, FindFullKeeps, EnterKeeps, RateLimitedKeeps
  <1> QED
    BY <1>1, <1>2, <1>3, <1>4, <1>5, <1>6, <1>7, <1>8 DEF Next

\* What every reachable state satisfies.
THEOREM ResourceInvariance == Spec => []IInv
  <1>1. Init => IInv
    BY InitSound
  <1>2. IInv /\ [Next]_vars => IInv'
    BY StepSound
  <1> QED
    BY <1>1, <1>2, PTL DEF Spec

\* codexTrafficGate: its counts are those of the open attempts, within the limits,
\* if no account is saved between two attempts of a request that continues its
\* conversation (see OnlyRequestsAreCounted).
THEOREM PlacesAreCounted ==
    ASSUME "late_change" \notin Environment
    PROVE  Spec => []CountsMatch
  <1>1. Spec => []IInv
    BY ResourceInvariance
  <1>2. IInv => CountsMatch
    BY DEF IInv, Accurate
  <1> QED
    BY <1>1, <1>2, PTL

\* byteBudget: no request sleeps on its channel while it would fit.
THEOREM SleepersAreWoken == Spec => []NoLostWakeup
  <1>1. Spec => []IInv
    BY ResourceInvariance
  <1>2. IInv => NoLostWakeup
    BY DEF IInv
  <1> QED
    BY <1>1, <1>2, PTL

Kept ==
    /\ until' >= until
    /\ until > now => admitted' = admitted

LEMMA StillKept ==
    ASSUME Shape, UNCHANGED cooldown, UNCHANGED admitted
    PROVE  Kept
  BY DEF Kept, cooldown, Shape, GateShape

LEMMA ClosingKeeps ==
    ASSUME NEW c, Shape, CloseBody(c)
    PROVE  Kept
  <1>1. UNCHANGED cooldown /\ UNCHANGED admitted
    BY DEF CloseBody, GateRelease, gate, clock
  <1> QED
    BY <1>1, StillKept

LEMMA AdmissionKeeps ==
    ASSUME NEW k, Shape, GateAdmits(k) \/ GateRefuses(k)
    PROVE  Kept
  <1>1. CASE GateRefuses(k)
    BY <1>1, StillKept DEF GateRefuses, clock
  <1>2. CASE GateAdmits(k)
    BY <1>2 DEF GateAdmits, GateClosed, cooldown, Kept, Shape, GateShape
  <1> QED
    BY <1>1, <1>2

LEMMA StepKeepsCooldown ==
    ASSUME Shape, Next
    PROVE  Kept
  <1>1. CASE Tick /\ UNCHANGED <<budget, client>>
    BY <1>1, StillKept DEF Tick
  <1>2. ASSUME NEW c \in Clients,
               \/ \E size \in Sizes : Start(c, size) \/ Read(c, size) \/ Resize(c, size)
               \/ TryAcquire(c) \/ Conflict(c)
               \/ FindClosed(c) \/ SendPlain(c) \/ Answer(c) \/ Retry(c) \/ Forward(c)
        PROVE  Kept
    <2>1. UNCHANGED gate
      BY <1>2 DEF Start, Read, Resize, TryAcquire, Conflict, FindClosed, SendPlain, Answer,
                  Retry, Forward
    <2> QED
      BY <2>1, StillKept DEF gate, clock
  <1>3. ASSUME NEW c \in Clients,
               \/ \E context \in Contexts : Prepare(c, context)
               \/ GiveUp(c) \/ Reject(c) \/ Finish(c) \/ NoCandidate(c)
               \/ Select(c) \/ Fail(c) \/ InspectionEnds(c)
        PROVE  Kept
    <2>1. UNCHANGED gate \/ CloseBody(c)
      BY <1>3 DEF Prepare, GiveUp, Reject, Finish, NoCandidate, Select, Fail, InspectionEnds,
                  Leave
    <2> QED
      BY <2>1, StillKept, ClosingKeeps DEF gate, clock
  <1>4. ASSUME NEW c \in Clients, NEW k \in Keys, FindFull(c, k) \/ Enter(c, k)
        PROVE  Kept
    BY <1>4, AdmissionKeeps DEF FindFull, Enter
  <1>5. ASSUME NEW c \in Clients, NEW hint \in Hints, RateLimited(c, hint)
        PROVE  Kept
    <2>1. Trip(hint) /\ hint \in Nat
      BY <1>5, ResourcesAssumption DEF RateLimited
    <2>2. until' >= until
      BY <2>1, TripExtends DEF Shape
    <2> QED
      BY <2>1, <2>2 DEF Trip, clock, Kept
  <1> QED
    BY <1>1, <1>2, <1>3, <1>4, <1>5 DEF Next

\* tripProviderRateLimit, acquire: no 429, however late, shortens the provider's
\* cooldown, and nobody is admitted before its end.
THEOREM CooldownLasts == Spec => CooldownIsKept
  <1>1. Spec => []IInv
    BY ResourceInvariance
  <1>2. IInv /\ [Next]_vars => [Kept]_vars
    BY StepKeepsCooldown DEF IInv
  <1> QED
    BY <1>1, <1>2, PTL DEF Spec, CooldownIsKept, Kept

-----------------------------------------------------------------------------
(* Bytes.                                                                  *)

HeldBytes == [c \in Clients |-> client[c].held]

\* What is taken is what the requests hold, and nobody waits for more than
\* there could be.
BytesInv ==
    /\ used <= Limit /\ BytesAreHeld
    /\ \A c \in Clients : client[c].want <= Limit

LEMMA HeldIsCounted ==
    ASSUME Shape
    PROVE  /\ IsFiniteSet(Clients)
           /\ \A c \in Clients : HeldBytes[c] = client[c].held /\ HeldBytes[c] \in Nat
           /\ BytesAreHeld <=> used = SumFunctionOnSet(HeldBytes, Clients)
           /\ BytesAreHeld => used \in Nat /\ \A c \in Clients : client[c].held <= used
  <1>1. IsFiniteSet(Clients)
    BY ResourcesAssumption
  <1>2. \A c \in Clients : HeldBytes[c] = client[c].held /\ HeldBytes[c] \in Nat
    BY DEF HeldBytes, Shape, Request
  <1>3. BytesAreHeld <=> used = SumFunctionOnSet(HeldBytes, Clients)
    BY DEF BytesAreHeld, SumFunction, HeldBytes
  <1>4. /\ SumFunctionOnSet(HeldBytes, Clients) \in Nat
        /\ \A c \in Clients : HeldBytes[c] <= SumFunctionOnSet(HeldBytes, Clients)
    BY <1>1, <1>2, SumOfNaturals
  <1> QED
    BY <1>1, <1>2, <1>3, <1>4

\* One request takes bytes or gives some back.
LEMMA BytesMove ==
    ASSUME NEW c \in Clients, Shape, Shape', BytesInv, Others(c),
           used' = used + (client'[c].held - client[c].held),
           used' <= Limit, client'[c].want <= Limit
    PROVE  BytesInv'
  <1> DEFINE f == HeldBytes
             g == [d \in Clients |-> client'[d].held]
  <1>1. IsFiniteSet(Clients) /\ \A d \in Clients : f[d] \in Nat /\ f[d] = client[d].held
    BY HeldIsCounted
  <1>2. \A d \in Clients : g[d] \in Nat /\ g[d] = client'[d].held
    BY DEF Shape, Request
  <1>3. \A d \in Clients : d # c => g[d] = f[d]
    BY <1>1, <1>2 DEF Others
  <1>4. used = SumFunctionOnSet(f, Clients)
    BY HeldIsCounted DEF BytesInv
  <1>5. SumFunctionOnSet(g, Clients) = SumFunctionOnSet(f, Clients) - f[c] + g[c]
    <2> HIDE DEF f, g
    <2>1. \A d \in Clients : f[d] \in Int /\ g[d] \in Int /\ (d # c => g[d] = f[d])
      BY <1>1, <1>2, <1>3
    <2> QED
      BY <1>1, <2>1, SumChanges
  <1>6. SumFunctionOnSet(g, Clients) = used'
    <2>1. f[c] \in Int /\ g[c] \in Int /\ used \in Int
      BY <1>1, <1>2 DEF Shape
    <2>2. f[c] = client[c].held /\ g[c] = client'[c].held
      BY <1>1, <1>2
    <2> HIDE DEF f, g
    <2> QED
      BY <1>4, <1>5, <2>1, <2>2
  <1>7. BytesAreHeld'
    BY <1>6 DEF BytesAreHeld, SumFunction
  <1>8. \A d \in Clients : client'[d].want <= Limit
    BY DEF BytesInv, Others
  <1> QED
    BY <1>7, <1>8 DEF BytesInv

\* The budget and what the requests hold stay as they are.
LEMMA BytesStay ==
    ASSUME Shape, BytesInv, UNCHANGED used,
           \A c \in Clients : client'[c].held = client[c].held /\ client'[c].want <= Limit
    PROVE  BytesInv'
  <1>1. [c \in Clients |-> client'[c].held] = [c \in Clients |-> client[c].held]
    OBVIOUS
  <1>2. BytesAreHeld'
    BY <1>1 DEF BytesAreHeld, BytesInv
  <1> QED
    BY <1>2 DEF BytesInv

LEMMA DepartReturns ==
    ASSUME NEW c \in Clients, Shape, Shape', BytesInv, Depart(c)
    PROVE  BytesInv'
  <1>1. client'[c] = Idle /\ Others(c)
    BY DEF Depart, Shape, Others
  <1>2. used' = used - client[c].held /\ Idle.held = 0 /\ Idle.want = 0
    BY DEF Depart, Return, Idle
  <1>3. client[c].held \in Nat /\ used \in Int /\ used <= Limit /\ Limit \in Nat
    BY BudgetAssumption DEF Shape, Request, BytesInv
  <1>4. used' = used + (Idle.held - client[c].held) /\ used' <= Limit /\ Idle.want <= Limit
    BY <1>2, <1>3
  <1> QED
    BY <1>1, <1>4, BytesMove

LEMMA StepCountsBytes ==
    ASSUME IInv, IInv', BytesInv, [Next]_vars
    PROVE  BytesInv'
  <1>0. /\ Shape /\ Shape' /\ used \in Int /\ used' \in Int /\ used <= Limit /\ Limit \in Nat
        /\ client \in [Clients -> Request]
    BY BudgetAssumption DEF IInv, Shape, BytesInv
  <1>1. \A d \in Clients : /\ client[d] \in Request /\ client[d].want \in Nat
                           /\ client[d].held \in Nat /\ client[d].want <= Limit
    BY <1>0 DEF Request, BytesInv
  <1>2. CASE UNCHANGED <<used, client>>
    BY <1>0, <1>1, <1>2, BytesStay
  <1>3. ASSUME NEW c \in Clients, Depart(c)
        PROVE  BytesInv'
    BY <1>0, <1>3, DepartReturns
  <1>4. ASSUME NEW c \in Clients, UNCHANGED budget, NEW request,
               client' = [client EXCEPT ![c] = request],
               request.held = client[c].held, request.want <= Limit
        PROVE  BytesInv'
    <2>1. \A d \in Clients : client'[d].held = client[d].held /\ client'[d].want <= Limit
      BY <1>0, <1>1, <1>4
    <2> QED
      BY <1>0, <1>4, <2>1, BytesStay DEF budget
  <1>5. ASSUME NEW c \in Clients, NEW size \in Nat, TakeBytes(size), NEW request,
               client' = [client EXCEPT ![c] = request],
               request.held = client[c].held + size, request.want <= Limit
        PROVE  BytesInv'
    <2>1. Others(c) /\ client'[c] = request
      BY <1>0, <1>5 DEF Others
    <2>2. used' = used + size /\ used' <= Limit
      BY <1>0, <1>5 DEF TakeBytes, Fits
    <2>3. used' = used + (request.held - client[c].held)
      BY <1>0, <1>1, <1>5, <2>2
    <2> QED
      BY <1>0, <1>5, <2>1, <2>2, <2>3, BytesMove
  <1>6. ASSUME NEW c \in Clients, NEW size \in Nat, Return(c, size), NEW request,
               client' = [client EXCEPT ![c] = request],
               request.held + size = client[c].held, request.held \in Nat,
               request.want <= Limit
        PROVE  BytesInv'
    <2>1. Others(c) /\ client'[c] = request
      BY <1>0, <1>6 DEF Others
    <2>2. used' = used - size /\ used' <= Limit
      BY <1>0, <1>6 DEF Return
    <2>3. used' = used + (request.held - client[c].held)
      BY <1>0, <1>1, <1>6, <2>2
    <2> QED
      BY <1>0, <1>6, <2>1, <2>2, <2>3, BytesMove
  <1>7. ASSUME NEW c \in Clients, NEW place, Goto(c, place), UNCHANGED budget
        PROVE  BytesInv'
    <2> DEFINE request == [client[c] EXCEPT !.pc = place]
    <2>1. client' = [client EXCEPT ![c] = request]
      BY <1>7 DEF Goto
    <2>2. request.held = client[c].held /\ request.want <= Limit
      BY <1>1 DEF Request
    <2> HIDE DEF request
    <2> QED
      BY <1>4, <1>7, <2>1, <2>2
  <1>8. ASSUME NEW c \in Clients, NEW size \in Nat, size <= Limit, NEW next,
               WaitFor(c, size, next), UNCHANGED budget
        PROVE  BytesInv'
    <2> DEFINE request == [client[c] EXCEPT !.pc = "waiting", !.want = size, !.next = next]
    <2>1. client' = [client EXCEPT ![c] = request]
      BY <1>8 DEF WaitFor
    <2>2. request.held = client[c].held /\ request.want <= Limit
      BY <1>1, <1>8 DEF Request
    <2> HIDE DEF request
    <2> QED
      BY <1>4, <1>8, <2>1, <2>2
  <1>9. \A size \in Sizes : size \in Nat /\ size <= Limit
    BY ResourcesAssumption, BudgetAssumption
  <1>10. ASSUME NEW c \in Clients, NEW size \in Sizes, Start(c, size)
         PROVE  BytesInv'
    BY <1>7, <1>8, <1>9, <1>10 DEF Start
  <1>11. ASSUME NEW c \in Clients, NEW length \in Sizes, Read(c, length)
         PROVE  BytesInv'
    <2> DEFINE request == [client[c] EXCEPT !.pc = "preparing", !.held = length]
               unused == client[c].held - length
    <2>1. Return(c, unused) /\ client' = [client EXCEPT ![c] = request]
          /\ length <= client[c].held
      BY <1>11 DEF Read
    <2>2. request.held = length /\ request.want <= Limit
      BY <1>1 DEF Request
    <2>3. unused \in Nat /\ request.held + unused = client[c].held /\ request.held \in Nat
      BY <1>1, <1>9, <2>1, <2>2
    <2> HIDE DEF request, unused
    <2> QED
      BY <1>6, <2>1, <2>2, <2>3
  <1>12. ASSUME NEW c \in Clients, NEW length \in Sizes, Resize(c, length)
         PROVE  BytesInv'
    <2> DEFINE extra == length - client[c].held
    <2>1. length \in Nat /\ length <= Limit /\ client[c].held \in Nat
      BY <1>1, <1>9
    <2>2. CASE extra > 0
      <3>1. extra \in Nat /\ extra <= Limit
        BY <1>0, <2>1, <2>2
      <3>2. WaitFor(c, extra, client[c].next) /\ UNCHANGED budget
        BY <1>12, <2>2 DEF Resize
      <3> HIDE DEF extra
      <3> QED
        BY <1>8, <3>1, <3>2
    <2>3. CASE ~(extra > 0)
      <3> DEFINE request == [client[c] EXCEPT !.pc = client[c].next, !.held = length]
                 unused == -extra
      <3>1. Return(c, unused) /\ client' = [client EXCEPT ![c] = request]
        BY <1>12, <2>3 DEF Resize
      <3>2. request.held = length /\ request.want <= Limit
        BY <1>1 DEF Request
      <3>3. unused \in Nat /\ request.held + unused = client[c].held /\ request.held \in Nat
        BY <2>1, <2>3, <3>2
      <3> HIDE DEF request, unused
      <3> QED
        BY <1>6, <3>1, <3>2, <3>3
    <2> QED
      BY <2>2, <2>3
  <1>13. ASSUME NEW c \in Clients, NEW context \in Contexts, Prepare(c, context)
         PROVE  BytesInv'
    <2>1. CASE ~Fits(context)
      BY <1>3, <1>13, <2>1 DEF Prepare, Leave
    <2>2. CASE Fits(context)
      <3> DEFINE total == client[c].held + context
                 request == [client[c] EXCEPT !.pc = "sized", !.held = total,
                                              !.next = "selecting"]
      <3>1. TakeBytes(context) /\ client' = [client EXCEPT ![c] = request]
        BY <1>13, <2>2 DEF Prepare
      <3>2. request.held = total /\ request.want <= Limit
        <4> HIDE DEF total
        <4> QED
          BY <1>1 DEF Request
      <3>3. context \in Nat
        BY ResourcesAssumption
      <3> HIDE DEF request
      <3> QED
        BY <1>5, <3>1, <3>2, <3>3
    <2> QED
      BY <2>1, <2>2
  <1>14. ASSUME NEW c \in Clients, TryAcquire(c)
         PROVE  BytesInv'
    <2> DEFINE size == client[c].want
    <2>1. CASE ~Fits(size)
      BY <1>2, <1>14, <2>1 DEF TryAcquire, Park
    <2>2. CASE Fits(size)
      <3> DEFINE total == client[c].held + size
                 request == [client[c] EXCEPT !.pc = client[c].next, !.want = 0,
                                              !.held = total]
      <3>1. TakeBytes(size) /\ client' = [client EXCEPT ![c] = request]
        BY <1>14, <2>2 DEF TryAcquire
      <3>2. request.held = total /\ request.want = 0
        <4> HIDE DEF total
        <4> QED
          BY <1>1 DEF Request
      <3>3. size \in Nat /\ 0 <= Limit
        BY <1>0, <1>1
      <3> HIDE DEF request
      <3> QED
        BY <1>5, <3>1, <3>2, <3>3
    <2> QED
      BY <2>1, <2>2
  <1>15. ASSUME NEW c \in Clients, Forward(c)
         PROVE  BytesInv'
    <2>1. CASE Goto(c, "forwarding") /\ UNCHANGED budget
      BY <1>7, <2>1
    <2>2. CASE /\ TakeBytes(Capture)
               /\ client' = [client EXCEPT ![c].pc = "forwarding", ![c].held = @ + Capture]
      <3> DEFINE total == client[c].held + Capture
                 request == [client[c] EXCEPT !.pc = "forwarding", !.held = total]
      <3>1. TakeBytes(Capture) /\ client' = [client EXCEPT ![c] = request]
        BY <2>2
      <3>2. request.held = total /\ request.want <= Limit
        <4> HIDE DEF total
        <4> QED
          BY <1>1 DEF Request
      <3>3. Capture \in Nat
        BY ResourcesAssumption
      <3> HIDE DEF request
      <3> QED
        BY <1>5, <3>1, <3>2, <3>3
    <2> QED
      BY <1>15, <2>1, <2>2 DEF Forward
  <1>16. ASSUME NEW c \in Clients, Select(c)
         PROVE  BytesInv'
    <2>1. PICK replay \in BOOLEAN :
              client' = [client EXCEPT ![c].pc = IF replay THEN "sized" ELSE "ready",
                                       ![c].next = IF replay THEN "ready" ELSE @,
                                       ![c].key = NoKey, ![c].live = FALSE]
      BY <1>16 DEF Select
    <2> DEFINE place == IF replay THEN "sized" ELSE "ready"
               next == IF replay THEN "ready" ELSE client[c].next
               request == [client[c] EXCEPT !.pc = place, !.next = next, !.key = NoKey,
                                            !.live = FALSE]
    <2>2. client' = [client EXCEPT ![c] = request] /\ UNCHANGED budget
      BY <1>16, <2>1 DEF Select
    <2>3. request.held = client[c].held /\ request.want <= Limit
      <3> HIDE DEF place, next
      <3> QED
        BY <1>1 DEF Request
    <2> HIDE DEF request
    <2> QED
      BY <1>4, <2>2, <2>3
  <1>17. ASSUME NEW c \in Clients, NEW k \in Keys, Enter(c, k)
         PROVE  BytesInv'
    <2> DEFINE request == [client[c] EXCEPT !.pc = "sending", !.key = k, !.live = TRUE]
    <2>1. client' = [client EXCEPT ![c] = request] /\ UNCHANGED budget
      BY <1>17 DEF Enter
    <2>2. request.held = client[c].held /\ request.want <= Limit
      BY <1>1 DEF Request
    <2> HIDE DEF request
    <2> QED
      BY <1>4, <2>1, <2>2
  <1>18. ASSUME NEW c \in Clients, Fail(c) \/ InspectionEnds(c)
         PROVE  BytesInv'
    <2>1. CASE Leave(c)
      BY <1>3, <2>1 DEF Leave
    <2>2. CASE /\ UNCHANGED budget
               /\ client' = [client EXCEPT ![c].pc = "selecting", ![c].live = FALSE]
      <3> DEFINE request == [client[c] EXCEPT !.pc = "selecting", !.live = FALSE]
      <3>1. client' = [client EXCEPT ![c] = request]
        BY <2>2
      <3>2. request.held = client[c].held /\ request.want <= Limit
        BY <1>1 DEF Request
      <3> HIDE DEF request
      <3> QED
        BY <1>4, <2>2, <3>1, <3>2
    <2>3. CASE UNCHANGED budget /\ client' = [client EXCEPT ![c].live = FALSE]
      <3> DEFINE request == [client[c] EXCEPT !.live = FALSE]
      <3>1. client' = [client EXCEPT ![c] = request]
        BY <2>3
      <3>2. request.held = client[c].held /\ request.want <= Limit
        BY <1>1 DEF Request
      <3> HIDE DEF request
      <3> QED
        BY <1>4, <2>3, <3>1, <3>2
    <2> QED
      BY <1>18, <2>1, <2>2, <2>3 DEF Fail, InspectionEnds
  <1>19. ASSUME NEW c \in Clients, NEW hint \in Hints, RateLimited(c, hint)
         PROVE  BytesInv'
    BY <1>7, <1>19 DEF RateLimited
  <1>20. ASSUME NEW c \in Clients,
                \/ GiveUp(c) \/ Reject(c) \/ Finish(c) \/ NoCandidate(c) \/ Conflict(c)
                \/ \E k \in Keys : FindFull(c, k)
         PROVE  BytesInv'
    BY <1>3, <1>7, <1>20 DEF GiveUp, Reject, Finish, NoCandidate, Conflict, FindFull, Leave
  <1>21. ASSUME NEW c \in Clients, FindClosed(c) \/ SendPlain(c) \/ Answer(c) \/ Retry(c)
         PROVE  BytesInv'
    BY <1>7, <1>21 DEF FindClosed, SendPlain, Answer, Retry
  <1>22. CASE Tick /\ UNCHANGED <<budget, client>>
    BY <1>2, <1>22 DEF budget
  <1>23. CASE UNCHANGED vars
    BY <1>2, <1>23 DEF vars, budget
  <1> QED
    BY <1>10, <1>11, <1>12, <1>13, <1>14, <1>15, <1>16, <1>17, <1>18, <1>19, <1>20, <1>21,
       <1>22, <1>23 DEF Next

LEMMA BytesInit ==
    ASSUME Init
    PROVE  BytesInv
  <1>1. Shape
    BY InitSound DEF IInv
  <1>2. used = 0 /\ \A c \in Clients : client[c].held = 0 /\ client[c].want = 0
    BY DEF Init, BudgetInit, Idle
  <1>3. SumFunctionOnSet(HeldBytes, Clients) = 0
    <2>1. \A c \in Clients : HeldBytes[c] = 0
      BY <1>2 DEF HeldBytes
    <2> QED
      BY <2>1, ResourcesAssumption, SumOfZeros
  <1> QED
    BY <1>1, <1>2, <1>3, HeldIsCounted, BudgetAssumption DEF BytesInv

\* byteBudget: every byte that is taken belongs to a request that will give it
\* back, on each of the many ways out of handleProxy.
THEOREM BytesAreOwned == Spec => []BytesAreHeld
  <1>1. Init => BytesInv
    BY BytesInit
  <1>2. IInv /\ IInv' /\ BytesInv /\ [Next]_vars => BytesInv'
    BY StepCountsBytes
  <1>3. BytesInv => BytesAreHeld
    BY DEF BytesInv
  <1> QED
    BY <1>1, <1>2, <1>3, ResourceInvariance, PTL DEF Spec

-----------------------------------------------------------------------------
(* The rate.  table[first][last] stands for the admissions from the second  *)
(* first to the second last, of one account or of all.                      *)

\* The tokens there would be after a refill at second n.
Available(b, rate, burst, n) ==
    IF b.last = Never THEN burst ELSE Lesser(burst, b.tokens + rate * (n - b.last))

\* What was admitted since any second and what is left in the bucket are
\* together no more than a burst and what the rate has added since then.
Metered(table, b, rate, burst, n) ==
    /\ b.tokens \in 0 .. burst /\ b.last \in 0 .. n
    /\ \A last \in 1 .. n : \A first \in 1 .. last :
           /\ table[first][last] \in Nat
           /\ table[first][last] <= burst + rate * (last - first)
    /\ \A first \in 1 .. n :
           table[first][n] + Available(b, rate, burst, n) <= burst + rate * (n - first)

LEMMA Product ==
    ASSUME NEW rate \in Nat, NEW n \in Nat
    PROVE  rate * n \in Nat /\ rate * (n + 1) = rate * n + rate
  OBVIOUS

LEMMA AvailableType ==
    ASSUME NEW rate \in Nat, NEW burst \in Nat, NEW n \in Nat, NEW b,
           b.tokens \in 0 .. burst, b.last \in 0 .. n
    PROVE  Available(b, rate, burst, n) \in 0 .. burst
  <1>1. n - b.last \in Nat
    OBVIOUS
  <1>2. rate * (n - b.last) \in Nat
    BY <1>1, Product
  <1> QED
    BY <1>2 DEF Available, Lesser

\* A second goes by without admissions so far.
LEMMA SecondPasses ==
    ASSUME NEW rate \in Nat, NEW burst \in Nat, NEW n \in Nat, NEW b, NEW table,
           Metered(table, b, rate, burst, n),
           \A first \in 1 .. n : table[first][n + 1] = table[first][n],
           table[n + 1][n + 1] = 0
    PROVE  Metered(table, b, rate, burst, n + 1)
  <1> DEFINE here == Available(b, rate, burst, n)
             next == Available(b, rate, burst, n + 1)
  <1>1. b.tokens \in 0 .. burst /\ b.last \in 0 .. n /\ b.last \in 0 .. n + 1
    BY DEF Metered
  <1>2. here \in 0 .. burst /\ next \in 0 .. burst
    <2>1. here \in 0 .. burst
      BY <1>1, AvailableType
    <2>2. n + 1 \in Nat
      OBVIOUS
    <2>3. next \in 0 .. burst
      BY <1>1, <2>2, AvailableType
    <2> QED
      BY <2>1, <2>3
  <1>3. next <= here + rate
    <2>1. n - b.last \in Nat /\ (n + 1) - b.last = (n - b.last) + 1
      BY <1>1
    <2>2. /\ rate * (n - b.last) \in Nat
          /\ rate * ((n + 1) - b.last) = rate * (n - b.last) + rate
      BY <2>1, Product
    <2> QED
      BY <1>1, <2>2 DEF Available, Lesser
  <1>4. ASSUME NEW first \in 1 .. n
        PROVE  /\ table[first][n + 1] \in Nat
               /\ table[first][n + 1] + next <= burst + rate * ((n + 1) - first)
    <2>1. /\ table[first][n] \in Nat
          /\ table[first][n] + here <= burst + rate * (n - first)
      BY DEF Metered
    <2>2. n - first \in Nat /\ (n + 1) - first = (n - first) + 1
      OBVIOUS
    <2>3. /\ rate * (n - first) \in Nat
          /\ rate * ((n + 1) - first) = rate * (n - first) + rate
      BY <2>2, Product
    <2>4. table[first][n + 1] = table[first][n]
      OBVIOUS
    <2> HIDE DEF here, next
    <2> QED
      BY <1>2, <1>3, <2>1, <2>3, <2>4
  <1>5. table[n + 1][n + 1] + next <= burst + rate * ((n + 1) - (n + 1))
    <2>1. rate * ((n + 1) - (n + 1)) = 0
      OBVIOUS
    <2> HIDE DEF next
    <2> QED
      BY <1>2, <2>1
  <1>6. ASSUME NEW first \in 1 .. n + 1
        PROVE  /\ table[first][n + 1] \in Nat
               /\ table[first][n + 1] + next <= burst + rate * ((n + 1) - first)
    <2>1. first \in 1 .. n \/ first = n + 1
      OBVIOUS
    <2> QED
      BY <1>4, <1>5, <2>1
  <1>7. ASSUME NEW first \in 1 .. n + 1
        PROVE  table[first][n + 1] <= burst + rate * ((n + 1) - first)
    <2>1. (n + 1) - first \in Nat
      OBVIOUS
    <2>2. rate * ((n + 1) - first) \in Nat
      BY <2>1, Product
    <2> HIDE DEF next
    <2> QED
      BY <1>2, <1>6, <2>2
  <1>8. ASSUME NEW last \in 1 .. n + 1, NEW first \in 1 .. last
        PROVE  /\ table[first][last] \in Nat
               /\ table[first][last] <= burst + rate * (last - first)
    <2>1. CASE last = n + 1
      BY <1>6, <1>7, <2>1
    <2>2. CASE last \in 1 .. n
      BY <2>2 DEF Metered
    <2> QED
      BY <2>1, <2>2
  <1> QED
    BY <1>1, <1>6, <1>8 DEF Metered

\* A refill at second n, by a request that is refused.
LEMMA RefusalIsMetered ==
    ASSUME NEW rate \in Nat, NEW burst \in Nat, NEW n \in Nat \ {0}, NEW b, NEW table,
           Metered(table, b, rate, burst, n), NEW d,
           d.tokens = Available(b, rate, burst, n), d.last = n
    PROVE  Metered(table, d, rate, burst, n)
  <1>1. Available(b, rate, burst, n) \in 0 .. burst
    BY AvailableType DEF Metered
  <1>2. Available(d, rate, burst, n) = Available(b, rate, burst, n)
    <2>1. rate * (n - d.last) = 0
      OBVIOUS
    <2> QED
      BY <1>1, <2>1 DEF Available, Lesser, Never
  <1> QED
    BY <1>1, <1>2 DEF Metered

\* One more is admitted at second n.
LEMMA AdmissionIsMetered ==
    ASSUME NEW rate \in Nat, NEW burst \in Nat, NEW n \in Nat \ {0}, NEW b, NEW table,
           Metered(table, b, rate, burst, n), Available(b, rate, burst, n) >= 1, NEW d,
           d.tokens = Available(b, rate, burst, n) - 1, d.last = n, NEW more,
           \A last \in 1 .. n : \A first \in 1 .. last :
               more[first][last] = IF last = n THEN table[first][n] + 1 ELSE table[first][last]
    PROVE  Metered(more, d, rate, burst, n)
  <1> DEFINE here == Available(b, rate, burst, n)
  <1>1. here \in 0 .. burst /\ here - 1 \in 0 .. burst
    <2>1. here \in 0 .. burst
      BY AvailableType DEF Metered
    <2> QED
      BY <2>1
  <1>2. Available(d, rate, burst, n) = here - 1
    <2>1. rate * (n - d.last) = 0
      OBVIOUS
    <2>2. d.last # Never
      BY DEF Never
    <2> HIDE DEF here
    <2>3. d.tokens = here - 1
      BY DEF here
    <2> QED
      BY <1>1, <2>1, <2>2, <2>3 DEF Available, Lesser
  <1>3. ASSUME NEW first \in 1 .. n
        PROVE  /\ more[first][n] \in Nat /\ more[first][n] <= burst + rate * (n - first)
               /\ more[first][n] + (here - 1) <= burst + rate * (n - first)
    <2>1. /\ table[first][n] \in Nat
          /\ table[first][n] + here <= burst + rate * (n - first)
      BY DEF Metered
    <2>2. n - first \in Nat
      OBVIOUS
    <2>3. rate * (n - first) \in Nat
      BY <2>2, Product
    <2>4. more[first][n] = table[first][n] + 1
      OBVIOUS
    <2> HIDE DEF here
    <2>5. here >= 1 /\ here \in Int
      BY <1>1 DEF here
    <2> QED
      BY <2>1, <2>3, <2>4, <2>5
  <1>4. ASSUME NEW last \in 1 .. n, NEW first \in 1 .. last
        PROVE  /\ more[first][last] \in Nat
               /\ more[first][last] <= burst + rate * (last - first)
    <2>1. CASE last = n
      BY <1>3, <2>1
    <2>2. CASE last # n
      BY <2>2 DEF Metered
    <2> QED
      BY <2>1, <2>2
  <1>5. d.tokens \in 0 .. burst /\ d.last \in 0 .. n
    BY <1>1
  <1> QED
    BY <1>2, <1>3, <1>4, <1>5 DEF Metered

\* The admissions of one account from one second to another.
Days == 1 .. MaxTime

LEMMA DaysType == MaxTime \in Nat /\ Days = 1 .. MaxTime
  BY GateAssumption DEF Days

LEMMA StretchIsFinite ==
    ASSUME NEW last \in Days, NEW first \in 1 .. last
    PROVE  first .. last \subseteq Days /\ IsFiniteSet(first .. last)
  <1>1. first .. last \subseteq Days /\ first \in Int /\ last \in Int
    BY DaysType
  <1> QED
    BY <1>1, FS_Interval

LEMMA Stretch ==
    ASSUME NEW adm \in [Days -> Nat], NEW last \in Days, NEW first \in 1 .. last
    PROVE  /\ first .. last \subseteq Days /\ IsFiniteSet(first .. last)
           /\ SumFunctionOnSet(adm, first .. last) \in Nat
  <1>1. first .. last \subseteq Days /\ IsFiniteSet(first .. last)
    BY StretchIsFinite
  <1>2. \A t \in first .. last : adm[t] \in Nat
    BY <1>1
  <1> QED
    BY <1>1, <1>2, SumOfNaturals

LEMMA StretchGrows ==
    ASSUME NEW adm \in [Days -> Nat], NEW n \in Days, n + 1 \in Days, adm[n + 1] = 0
    PROVE  /\ \A first \in 1 .. n : SumFunctionOnSet(adm, first .. n + 1)
                                        = SumFunctionOnSet(adm, first .. n)
           /\ SumFunctionOnSet(adm, n + 1 .. n + 1) = 0
  <1>1. ASSUME NEW first \in 1 .. n + 1
        PROVE  SumFunctionOnSet(adm, first .. n + 1)
                   = SumFunctionOnSet(adm, (first .. n + 1) \ {n + 1})
    <2>1. /\ first .. n + 1 \subseteq Days /\ IsFiniteSet(first .. n + 1)
          /\ SumFunctionOnSet(adm, first .. n + 1) \in Nat
      BY Stretch
    <2>2. n + 1 \in first .. n + 1
      BY DaysType
    <2>3. \A t \in first .. n + 1 : adm[t] \in Int
      BY <2>1
    <2>4. SumFunctionOnSet(adm, first .. n + 1)
              = adm[n + 1] + SumFunctionOnSet(adm, (first .. n + 1) \ {n + 1})
      BY <2>1, <2>2, <2>3, SumTakes
    <2>5. IsFiniteSet((first .. n + 1) \ {n + 1})
      BY <2>1, FS_RemoveElement
    <2>6. SumFunctionOnSet(adm, (first .. n + 1) \ {n + 1}) \in Int
      BY <2>3, <2>5, SumTakes
    <2> QED
      BY <2>4, <2>6
  <1>2. ASSUME NEW first \in 1 .. n
        PROVE  SumFunctionOnSet(adm, first .. n + 1) = SumFunctionOnSet(adm, first .. n)
    <2>1. (first .. n + 1) \ {n + 1} = first .. n
      BY DaysType
    <2>2. first \in 1 .. n + 1
      BY DaysType
    <2> QED
      BY <1>1, <2>1, <2>2
  <1>3. SumFunctionOnSet(adm, n + 1 .. n + 1) = 0
    <2>1. (n + 1 .. n + 1) \ {n + 1} = {} /\ n + 1 \in 1 .. n + 1
      BY DaysType
    <2> QED
      BY <1>1, <2>1, SumOfNothing
  <1> QED
    BY <1>2, <1>3

\* then is adm with one more admission at second n.
OneMore(adm, then, n) == then[n] = adm[n] + 1 /\ \A t \in Days : t # n => then[t] = adm[t]

LEMMA StretchAdmits ==
    ASSUME NEW adm \in [Days -> Nat], NEW then \in [Days -> Nat], NEW n \in Days,
           OneMore(adm, then, n), NEW S \in SUBSET Days, IsFiniteSet(S)
    PROVE  /\ n \in S => SumFunctionOnSet(then, S) = SumFunctionOnSet(adm, S) + 1
           /\ n \notin S => SumFunctionOnSet(then, S) = SumFunctionOnSet(adm, S)
  <1>1. ASSUME NEW t \in S
        PROVE  adm[t] \in Int /\ then[t] \in Int /\ (t # n => then[t] = adm[t])
    <2>1. adm[t] \in Nat /\ then[t] \in Nat
      OBVIOUS
    <2> QED
      BY <2>1 DEF OneMore
  <1>2. CASE n \in S
    <2>1. SumFunctionOnSet(then, S) = SumFunctionOnSet(adm, S) - adm[n] + then[n]
      BY <1>1, <1>2, SumChanges
    <2>2. SumFunctionOnSet(adm, S) \in Int
      BY <1>1, SumTakes
    <2>3. adm[n] \in Nat /\ then[n] = adm[n] + 1
      BY DEF OneMore
    <2> QED
      BY <1>2, <2>1, <2>2, <2>3
  <1>3. CASE n \notin S
    <2>1. \A t \in S : adm[t] \in Int /\ then[t] = adm[t]
      BY <1>1, <1>3
    <2>2. SumFunctionOnSet(then, S) = SumFunctionOnSet(adm, S)
      BY <2>1, SumAgrees
    <2> QED
      BY <1>3, <2>2
  <1> QED
    BY <1>2, <1>3

Table(adm) ==
    [first \in Days |-> [last \in Days |-> SumFunctionOnSet(adm, first .. last)]]

Totals(adms) ==
    [first \in Days |-> [last \in Days |->
        SumFunction([k \in Keys |-> SumFunctionOnSet(adms[k], first .. last)])]]

LEMMA TotalsOf ==
    ASSUME NEW adms \in [Keys -> [Days -> Nat]], NEW last \in Days, NEW first \in 1 .. last
    PROVE  LET sums == [k \in Keys |-> SumFunctionOnSet(adms[k], first .. last)]
           IN  /\ \A k \in Keys : sums[k] \in Nat
               /\ Totals(adms)[first][last] = SumFunctionOnSet(sums, Keys)
               /\ Totals(adms)[first][last] \in Nat
  <1> DEFINE sums == [k \in Keys |-> SumFunctionOnSet(adms[k], first .. last)]
  <1>1. \A k \in Keys : sums[k] \in Nat
    BY Stretch
  <1>2. first \in Days
    BY DaysType
  <1>3. Totals(adms)[first][last] = SumFunctionOnSet(sums, Keys)
    BY <1>2 DEF Totals, SumFunction
  <1>4. SumFunctionOnSet(sums, Keys) \in Nat
    <2> HIDE DEF sums
    <2> QED
      BY <1>1, SumOfNaturals, ResourcesAssumption
  <1> QED
    BY <1>1, <1>3, <1>4

LEMMA TotalsGrow ==
    ASSUME NEW adms \in [Keys -> [Days -> Nat]], NEW n \in Days, n + 1 \in Days,
           \A k \in Keys : adms[k][n + 1] = 0
    PROVE  /\ \A first \in 1 .. n : Totals(adms)[first][n + 1] = Totals(adms)[first][n]
           /\ Totals(adms)[n + 1][n + 1] = 0
  <1>1. ASSUME NEW first \in 1 .. n
        PROVE  Totals(adms)[first][n + 1] = Totals(adms)[first][n]
    <2> DEFINE here == [k \in Keys |-> SumFunctionOnSet(adms[k], first .. n)]
               next == [k \in Keys |-> SumFunctionOnSet(adms[k], first .. n + 1)]
    <2>1. first \in 1 .. n + 1
      BY DaysType
    <2>2. /\ Totals(adms)[first][n] = SumFunctionOnSet(here, Keys)
          /\ Totals(adms)[first][n + 1] = SumFunctionOnSet(next, Keys)
          /\ \A k \in Keys : here[k] \in Nat
      BY <2>1, TotalsOf
    <2>3. \A k \in Keys : SumFunctionOnSet(adms[k], first .. n + 1)
                              = SumFunctionOnSet(adms[k], first .. n)
      BY StretchGrows
    <2>4. next = here
      BY <2>3
    <2> HIDE DEF here, next
    <2> QED
      BY <2>2, <2>4
  <1>2. Totals(adms)[n + 1][n + 1] = 0
    <2> DEFINE next == [k \in Keys |-> SumFunctionOnSet(adms[k], n + 1 .. n + 1)]
    <2>1. n + 1 \in 1 .. n + 1
      BY DaysType
    <2>2. Totals(adms)[n + 1][n + 1] = SumFunctionOnSet(next, Keys)
      BY <2>1, TotalsOf
    <2>3. \A k \in Keys : next[k] = 0
      BY StretchGrows
    <2> HIDE DEF next
    <2> QED
      BY <2>2, <2>3, ResourcesAssumption, SumOfZeros
  <1> QED
    BY <1>1, <1>2

\* Altogether, over the seconds of S.
Total(adms, S) == SumFunctionOnSet([k \in Keys |-> SumFunctionOnSet(adms[k], S)], Keys)

LEMMA TotalAdmits ==
    ASSUME NEW adms \in [Keys -> [Days -> Nat]], NEW more \in [Keys -> [Days -> Nat]],
           NEW n \in Days, NEW k \in Keys, OneMore(adms[k], more[k], n),
           \A j \in Keys : j # k => more[j] = adms[j],
           NEW S \in SUBSET Days, IsFiniteSet(S)
    PROVE  /\ n \in S => Total(more, S) = Total(adms, S) + 1
           /\ n \notin S => Total(more, S) = Total(adms, S)
  <1> DEFINE here == [j \in Keys |-> SumFunctionOnSet(adms[j], S)]
             next == [j \in Keys |-> SumFunctionOnSet(more[j], S)]
  <1>1. ASSUME NEW j \in Keys
        PROVE  here[j] \in Int /\ next[j] \in Int
    <2>1. ASSUME NEW adm \in [Days -> Nat]
          PROVE  SumFunctionOnSet(adm, S) \in Nat
      <3>1. \A t \in S : adm[t] \in Nat
        OBVIOUS
      <3> QED
        BY <3>1, SumOfNaturals
    <2>2. adms[j] \in [Days -> Nat] /\ more[j] \in [Days -> Nat]
      OBVIOUS
    <2>3. SumFunctionOnSet(adms[j], S) \in Nat /\ SumFunctionOnSet(more[j], S) \in Nat
      BY <2>1, <2>2
    <2> QED
      BY <2>3
  <1>2. \A j \in Keys : j # k => next[j] = here[j]
    OBVIOUS
  <1>3. /\ n \in S => next[k] = here[k] + 1
        /\ n \notin S => next[k] = here[k]
    <2>1. adms[k] \in [Days -> Nat] /\ more[k] \in [Days -> Nat]
      OBVIOUS
    <2>2. /\ n \in S => SumFunctionOnSet(more[k], S) = SumFunctionOnSet(adms[k], S) + 1
          /\ n \notin S => SumFunctionOnSet(more[k], S) = SumFunctionOnSet(adms[k], S)
      BY <2>1, StretchAdmits
    <2> QED
      BY <2>2
  <1>4. Total(adms, S) = SumFunctionOnSet(here, Keys)
    BY DEF Total
  <1>5. Total(more, S) = SumFunctionOnSet(next, Keys)
    BY DEF Total
  <1> HIDE DEF here, next
  <1>6. SumFunctionOnSet(next, Keys) = SumFunctionOnSet(here, Keys) - here[k] + next[k]
    BY <1>1, <1>2, SumChanges, ResourcesAssumption
  <1>7. here[k] \in Int /\ SumFunctionOnSet(here, Keys) \in Int
    BY <1>1, SumTakes, ResourcesAssumption
  <1> QED
    BY <1>3, <1>4, <1>5, <1>6, <1>7

\* The buckets hold what the admissions so far have left in them.
RateInv ==
    /\ now \in Days /\ limited \in 0 .. MaxTime
    /\ admitted \in [Keys -> [Days -> Nat]]
    /\ \A k \in Keys : \A t \in Days : t > now => admitted[k][t] = 0
    /\ \A k \in Keys :
           Metered(Table(admitted[k]), accounts[k], AccountRate, AccountBurst, now)
    /\ Metered(Totals(admitted), global, GlobalRate, GlobalBurst, now)

LEMMA RatesType ==
    /\ AccountRate \in Nat /\ AccountBurst \in Nat
    /\ GlobalRate \in Nat /\ GlobalBurst \in Nat
  BY GateAssumption

\* Only the tokens and the time of the last refill matter.
LEMMA MeteredAgain ==
    ASSUME NEW table, NEW b, NEW d, NEW rate, NEW burst, NEW n,
           Metered(table, b, rate, burst, n), d.tokens = b.tokens, d.last = b.last
    PROVE  Metered(table, d, rate, burst, n)
  BY DEF Metered, Available

LEMMA TableOf ==
    ASSUME NEW adm \in [Days -> Nat], NEW last \in Days, NEW first \in 1 .. last
    PROVE  Table(adm)[first][last] = SumFunctionOnSet(adm, first .. last)
  <1>1. first \in Days
    BY DaysType
  <1> QED
    BY <1>1 DEF Table

LEMMA RefilledFields ==
    ASSUME NEW b \in AnyBucket, NEW rate, NEW burst
    PROVE  /\ Refilled(b, rate, burst).tokens = Available(b, rate, burst, now)
           /\ Refilled(b, rate, burst).last = now
           /\ Entered(Refilled(b, rate, burst)).tokens = Available(b, rate, burst, now) - 1
           /\ Entered(Refilled(b, rate, burst)).last = now
  <1> DEFINE tokens == Available(b, rate, burst, now)
  <1>1. Refilled(b, rate, burst) = [b EXCEPT !.tokens = tokens, !.last = now]
    BY DEF Refilled, Available
  <1> HIDE DEF tokens
  <1> QED
    BY <1>1 DEF Entered, AnyBucket, tokens

\* What only moves requests in flight leaves the rate alone.
LEMMA BucketsRest ==
    ASSUME RateInv, now' = now, admitted' = admitted, limited' \in 0 .. MaxTime,
           global'.tokens = global.tokens, global'.last = global.last,
           \A k \in Keys : /\ accounts'[k].tokens = accounts[k].tokens
                           /\ accounts'[k].last = accounts[k].last
    PROVE  RateInv'
  <1>1. \A k \in Keys :
            Metered(Table(admitted[k]), accounts'[k], AccountRate, AccountBurst, now)
    BY MeteredAgain DEF RateInv
  <1>2. Metered(Totals(admitted), global', GlobalRate, GlobalBurst, now)
    BY MeteredAgain DEF RateInv
  <1> QED
    BY <1>1, <1>2 DEF RateInv

LEMMA RefusalKeepsRate ==
    ASSUME RateInv, GateShape, NEW k \in Keys, GateRefuses(k)
    PROVE  RateInv'
  <1>1. /\ now' = now /\ admitted' = admitted /\ limited' = limited
        /\ global' = Refilled(global, GlobalRate, GlobalBurst)
        /\ accounts' = [accounts EXCEPT ![k] = Refilled(accounts[k], AccountRate, AccountBurst)]
    BY DEF GateRefuses, RefilledGlobal, RefilledAccount, clock, cooldown
  <1>2. global \in AnyBucket /\ accounts \in [Keys -> AnyBucket]
    BY DEF GateShape
  <1>3. now \in Nat \ {0}
    BY DaysType DEF RateInv
  <1>4. Metered(Totals(admitted), global', GlobalRate, GlobalBurst, now)
    <2>1. /\ global'.tokens = Available(global, GlobalRate, GlobalBurst, now)
          /\ global'.last = now
      BY <1>1, <1>2, RefilledFields
    <2> QED
      BY <1>3, <2>1, RefusalIsMetered, RatesType DEF RateInv
  <1>5. ASSUME NEW j \in Keys
        PROVE  Metered(Table(admitted[j]), accounts'[j], AccountRate, AccountBurst, now)
    <2>1. CASE j = k
      <3>1. accounts'[j] = Refilled(accounts[j], AccountRate, AccountBurst)
        BY <1>1, <1>2, <2>1
      <3>2. accounts[j] \in AnyBucket
        BY <1>2
      <3>3. /\ accounts'[j].tokens = Available(accounts[j], AccountRate, AccountBurst, now)
            /\ accounts'[j].last = now
        BY <3>1, <3>2, RefilledFields
      <3> QED
        BY <1>3, <3>3, RefusalIsMetered, RatesType DEF RateInv
    <2>2. CASE j # k
      BY <1>1, <1>2, <2>2 DEF RateInv
    <2> QED
      BY <2>1, <2>2
  <1> QED
    BY <1>1, <1>4, <1>5 DEF RateInv

LEMMA AdmissionKeepsRate ==
    ASSUME RateInv, GateShape, NEW k \in Keys, GateAdmits(k)
    PROVE  RateInv'
  <1> DEFINE n == now
  <1>1. /\ now' = n /\ limited' = limited
        /\ global' = Entered(Refilled(global, GlobalRate, GlobalBurst))
        /\ accounts' = [accounts EXCEPT
               ![k] = Entered(Refilled(accounts[k], AccountRate, AccountBurst))]
        /\ admitted' = [admitted EXCEPT ![k][n] = @ + 1]
    BY DEF GateAdmits, RefilledGlobal, RefilledAccount, cooldown
  <1>2. global \in AnyBucket /\ accounts \in [Keys -> AnyBucket]
    BY DEF GateShape
  <1>3. n \in Nat \ {0} /\ n \in Days /\ admitted \in [Keys -> [Days -> Nat]]
    BY DaysType DEF RateInv
  <1>4. /\ Available(global, GlobalRate, GlobalBurst, n) >= 1
        /\ Available(accounts[k], AccountRate, AccountBurst, n) >= 1
    <2>1. /\ ~(Refilled(global, GlobalRate, GlobalBurst).tokens < 1)
          /\ ~(Refilled(accounts[k], AccountRate, AccountBurst).tokens < 1)
      BY DEF GateAdmits, Dry, RefilledGlobal, RefilledAccount
    <2>2. accounts[k] \in AnyBucket
      BY <1>2
    <2>3. /\ Refilled(global, GlobalRate, GlobalBurst).tokens
                 = Available(global, GlobalRate, GlobalBurst, n)
          /\ Refilled(accounts[k], AccountRate, AccountBurst).tokens
                 = Available(accounts[k], AccountRate, AccountBurst, n)
      BY <1>2, <2>2, RefilledFields
    <2>4. /\ Available(global, GlobalRate, GlobalBurst, n) \in 0 .. GlobalBurst
          /\ Available(accounts[k], AccountRate, AccountBurst, n) \in 0 .. AccountBurst
      BY <1>3, AvailableType, RatesType DEF RateInv, Metered
    <2> QED
      BY <2>1, <2>3, <2>4, RatesType
  <1>5. /\ admitted' \in [Keys -> [Days -> Nat]]
        /\ OneMore(admitted[k], admitted'[k], n)
        /\ \A j \in Keys : j # k => admitted'[j] = admitted[j]
    <2> HIDE DEF n
    <2> QED
      BY <1>1, <1>3 DEF OneMore
  <1>6. \A last \in 1 .. n : last \in Days
    BY <1>3, DaysType
  <1>7. ASSUME NEW last \in Days, NEW first \in 1 .. last
         PROVE  first .. last \in SUBSET Days /\ IsFiniteSet(first .. last)
    BY StretchIsFinite
  <1>8. ASSUME NEW S \in SUBSET Days, IsFiniteSet(S)
         PROVE  /\ n \in S => Total(admitted', S) = Total(admitted, S) + 1
                /\ n \notin S => Total(admitted', S) = Total(admitted, S)
    <2>1. n \in Days
      BY <1>3
    <2> HIDE DEF n
    <2> QED
      BY <1>3, <1>5, <1>8, <2>1, TotalAdmits
  <1>9. ASSUME NEW S \in SUBSET Days, IsFiniteSet(S)
         PROVE  /\ n \in S => SumFunctionOnSet(admitted'[k], S)
                                  = SumFunctionOnSet(admitted[k], S) + 1
                /\ n \notin S => SumFunctionOnSet(admitted'[k], S)
                                     = SumFunctionOnSet(admitted[k], S)
    <2>1. n \in Days /\ admitted[k] \in [Days -> Nat] /\ admitted'[k] \in [Days -> Nat]
      BY <1>3, <1>5
    <2> HIDE DEF n
    <2> QED
      BY <1>5, <1>9, <2>1, StretchAdmits
  <1>10. ASSUME NEW last \in 1 .. n, NEW first \in 1 .. last
        PROVE  Totals(admitted')[first][last]
                   = IF last = n THEN Totals(admitted)[first][n] + 1
                                 ELSE Totals(admitted)[first][last]
    <2>1. /\ Totals(admitted)[first][last] = Total(admitted, first .. last)
          /\ Totals(admitted')[first][last] = Total(admitted', first .. last)
      BY <1>3, <1>5, <1>6, TotalsOf DEF Total
    <2>2. first .. last \in SUBSET Days /\ IsFiniteSet(first .. last)
      BY <1>6, <1>7
    <2>3. n \in first .. last <=> last = n
      BY <1>3
    <2> HIDE DEF n
    <2> QED
      BY <1>8, <2>1, <2>2, <2>3
  <1>11. Metered(Totals(admitted'), global', GlobalRate, GlobalBurst, n)
    <2>1. /\ global'.tokens = Available(global, GlobalRate, GlobalBurst, n) - 1
          /\ global'.last = n
      BY <1>1, <1>2, RefilledFields
    <2>2. Metered(Totals(admitted), global, GlobalRate, GlobalBurst, n)
      BY DEF RateInv
    <2> HIDE DEF n
    <2> QED
      BY <1>3, <1>4, <1>10, <2>1, <2>2, AdmissionIsMetered, RatesType
  <1>12. ASSUME NEW last \in 1 .. n, NEW first \in 1 .. last
        PROVE  Table(admitted'[k])[first][last]
                   = IF last = n THEN Table(admitted[k])[first][n] + 1
                                 ELSE Table(admitted[k])[first][last]
    <2>1. admitted[k] \in [Days -> Nat] /\ admitted'[k] \in [Days -> Nat]
      BY <1>3, <1>5
    <2>2. /\ Table(admitted[k])[first][last] = SumFunctionOnSet(admitted[k], first .. last)
          /\ Table(admitted'[k])[first][last] = SumFunctionOnSet(admitted'[k], first .. last)
      BY <1>6, <2>1, TableOf
    <2>3. first .. last \in SUBSET Days /\ IsFiniteSet(first .. last)
      BY <1>6, <1>7
    <2>4. n \in first .. last <=> last = n
      BY <1>3
    <2> HIDE DEF n
    <2> QED
      BY <1>9, <2>2, <2>3, <2>4
  <1>13. ASSUME NEW j \in Keys
        PROVE  Metered(Table(admitted'[j]), accounts'[j], AccountRate, AccountBurst, n)
    <2>0. Metered(Table(admitted[j]), accounts[j], AccountRate, AccountBurst, n)
      BY DEF RateInv
    <2> HIDE DEF n
    <2>1. CASE j = k
      <3>1. accounts[k] \in AnyBucket
        BY <1>2
      <3>2. /\ accounts'[k].tokens
                   = Available(accounts[k], AccountRate, AccountBurst, n) - 1
            /\ accounts'[k].last = n
        <4>1. accounts'[k] = Entered(Refilled(accounts[k], AccountRate, AccountBurst))
          BY <1>1, <1>2
        <4> QED
          BY <3>1, <4>1, RefilledFields DEF n
      <3>3. Metered(Table(admitted'[k]), accounts'[k], AccountRate, AccountBurst, n)
        BY <1>3, <1>4, <1>12, <2>0, <2>1, <3>2, AdmissionIsMetered, RatesType
      <3> QED
        BY <2>1, <3>3
    <2>2. CASE j # k
      BY <1>1, <1>2, <1>5, <2>0, <2>2
    <2> QED
      BY <2>1, <2>2
  <1>14. ASSUME NEW j \in Keys, NEW t \in Days, t > n
         PROVE  admitted'[j][t] = 0
    <2>1. admitted[j][t] = 0
      BY <1>14 DEF RateInv
    <2>2. t # n
      BY <1>3, <1>14, DaysType
    <2> QED
      BY <1>5, <2>1, <2>2, <1>3 DEF OneMore
  <1> QED
    BY <1>1, <1>3, <1>5, <1>11, <1>13, <1>14 DEF RateInv

LEMMA TickKeepsRate ==
    ASSUME RateInv, Tick
    PROVE  RateInv'
  <1> DEFINE n == now
  <1>1. n \in Nat /\ n \in Days /\ n + 1 \in Days
    BY DaysType DEF RateInv, Tick
  <1>2. /\ now' = n + 1 /\ admitted' = admitted /\ limited' = limited
        /\ global' = global /\ accounts' = accounts
    BY DEF Tick, buckets, cooldown
  <1>3. admitted \in [Keys -> [Days -> Nat]] /\ \A k \in Keys : admitted[k][n + 1] = 0
    BY <1>1 DEF RateInv
  <1>4. Metered(Totals(admitted), global, GlobalRate, GlobalBurst, n + 1)
    <2>1. Metered(Totals(admitted), global, GlobalRate, GlobalBurst, n)
      BY DEF RateInv
    <2> HIDE DEF n
    <2>2. /\ \A first \in 1 .. n : Totals(admitted)[first][n + 1] = Totals(admitted)[first][n]
          /\ Totals(admitted)[n + 1][n + 1] = 0
      BY <1>1, <1>3, TotalsGrow
    <2> QED
      BY <1>1, <2>1, <2>2, SecondPasses, RatesType
  <1>5. ASSUME NEW k \in Keys
        PROVE  Metered(Table(admitted[k]), accounts[k], AccountRate, AccountBurst, n + 1)
    <2> DEFINE adm == admitted[k]
    <2>1. Metered(Table(adm), accounts[k], AccountRate, AccountBurst, n)
      BY DEF RateInv
    <2>2. adm \in [Days -> Nat] /\ adm[n + 1] = 0
      BY <1>3
    <2> HIDE DEF n, adm
    <2>3. /\ \A first \in 1 .. n : SumFunctionOnSet(adm, first .. n + 1)
                                        = SumFunctionOnSet(adm, first .. n)
          /\ SumFunctionOnSet(adm, n + 1 .. n + 1) = 0
      BY <1>1, <2>2, StretchGrows
    <2>4. ASSUME NEW first \in 1 .. n
          PROVE  Table(adm)[first][n + 1] = Table(adm)[first][n]
      <3>1. first \in 1 .. n + 1
        BY <1>1
      <3> QED
        BY <1>1, <2>2, <2>3, <3>1, TableOf
    <2>5. Table(adm)[n + 1][n + 1] = 0
      <3>1. n + 1 \in 1 .. n + 1
        BY <1>1
      <3> QED
        BY <1>1, <2>2, <2>3, <3>1, TableOf
    <2>6. Metered(Table(adm), accounts[k], AccountRate, AccountBurst, n + 1)
      BY <1>1, <2>1, <2>4, <2>5, SecondPasses, RatesType
    <2> QED
      BY <2>6 DEF adm
  <1>6. \A k \in Keys : \A t \in Days : t > n + 1 => admitted[k][t] = 0
    BY <1>1, DaysType DEF RateInv
  <1> QED
    BY <1>1, <1>2, <1>3, <1>4, <1>5, <1>6 DEF RateInv

LEMMA ReleaseKeepsRate ==
    ASSUME RateInv, GateShape, NEW k \in Keys, GateRelease(k)
    PROVE  RateInv'
  <1>1. /\ now' = now /\ admitted' = admitted /\ limited' = limited
        /\ global' = Left(global) /\ accounts' = [accounts EXCEPT ![k] = Left(accounts[k])]
    BY DEF GateRelease, clock, cooldown
  <1>2. ASSUME NEW b \in AnyBucket
        PROVE  Left(b).tokens = b.tokens /\ Left(b).last = b.last
    BY DEF Left, AnyBucket
  <1>3. global'.tokens = global.tokens /\ global'.last = global.last
    BY <1>1, <1>2 DEF GateShape
  <1>4. ASSUME NEW j \in Keys
        PROVE  /\ accounts'[j].tokens = accounts[j].tokens
               /\ accounts'[j].last = accounts[j].last
    <2>1. accounts[j] \in AnyBucket
      BY DEF GateShape
    <2>2. CASE j = k
      <3>1. accounts'[j] = Left(accounts[j])
        BY <1>1, <2>2 DEF GateShape
      <3> QED
        BY <1>2, <2>1, <3>1
    <2>3. CASE j # k
      BY <1>1, <2>3 DEF GateShape
    <2> QED
      BY <2>2, <2>3
  <1>5. limited' \in 0 .. MaxTime
    BY <1>1 DEF RateInv
  <1> QED
    BY <1>1, <1>3, <1>4, <1>5, BucketsRest

LEMMA QuietKeepsRate ==
    ASSUME RateInv, UNCHANGED <<clock, buckets>>, limited' \in {limited, now}
    PROVE  RateInv'
  <1>1. /\ now' = now /\ admitted' = admitted /\ global' = global /\ accounts' = accounts
    BY DEF clock, buckets
  <1>2. limited' \in 0 .. MaxTime
    BY DaysType DEF RateInv
  <1> QED
    BY <1>1, <1>2, BucketsRest

LEMMA ClosingKeepsRate ==
    ASSUME RateInv, Shape, Placed, NEW c \in Clients, UNCHANGED gate \/ CloseBody(c)
    PROVE  RateInv'
  <1>1. CASE UNCHANGED gate
    BY <1>1, QuietKeepsRate DEF gate, cooldown
  <1>2. CASE CloseBody(c) /\ client[c].live
    BY <1>2, ReleaseKeepsRate DEF CloseBody, Placed, Shape
  <1> QED
    BY <1>1, <1>2 DEF CloseBody

\* Every step keeps what the buckets hold and what was admitted in balance.
LEMMA StepKeepsRate ==
    ASSUME RateInv, Shape, Placed, [Next]_vars
    PROVE  RateInv'
  <1>1. CASE Tick /\ UNCHANGED <<budget, client>>
    BY <1>1, TickKeepsRate
  <1>2. ASSUME NEW c \in Clients,
               \/ \E size \in Sizes : Start(c, size) \/ Read(c, size) \/ Resize(c, size)
               \/ TryAcquire(c) \/ Conflict(c)
               \/ FindClosed(c) \/ SendPlain(c) \/ Answer(c) \/ Retry(c) \/ Forward(c)
        PROVE  RateInv'
    <2>1. UNCHANGED gate
      BY <1>2 DEF Start, Read, Resize, TryAcquire, Conflict, FindClosed, SendPlain, Answer,
                  Retry, Forward
    <2> QED
      BY <2>1, ClosingKeepsRate
  <1>3. ASSUME NEW c \in Clients,
               \/ \E context \in Contexts : Prepare(c, context)
               \/ GiveUp(c) \/ Reject(c) \/ Finish(c) \/ NoCandidate(c)
               \/ Select(c) \/ Fail(c) \/ InspectionEnds(c)
        PROVE  RateInv'
    <2>1. UNCHANGED gate \/ CloseBody(c)
      BY <1>3 DEF Prepare, GiveUp, Reject, Finish, NoCandidate, Select, Fail, InspectionEnds,
                  Leave
    <2> QED
      BY <2>1, ClosingKeepsRate
  <1>4. ASSUME NEW c \in Clients, NEW k \in Keys, FindFull(c, k) \/ Enter(c, k)
        PROVE  RateInv'
    BY <1>4, RefusalKeepsRate, AdmissionKeepsRate DEF FindFull, Enter, Shape
  <1>5. ASSUME NEW c \in Clients, NEW hint \in Hints, RateLimited(c, hint)
        PROVE  RateInv'
    <2>1. UNCHANGED <<clock, buckets>> /\ limited' = now
      BY <1>5 DEF RateLimited, Trip
    <2> QED
      BY <2>1, QuietKeepsRate
  <1>6. CASE UNCHANGED vars
    BY <1>6, QuietKeepsRate DEF vars, gate, cooldown
  <1> QED
    BY <1>1, <1>2, <1>3, <1>4, <1>5, <1>6 DEF Next

LEMMA RateInit ==
    ASSUME Init
    PROVE  RateInv
  <1>1. /\ now = 1 /\ limited = 0 /\ global = NewBucket
        /\ accounts = [k \in Keys |-> NewBucket]
        /\ admitted = [k \in Keys |-> [t \in 1 .. MaxTime |-> 0]]
    BY DEF Init, GateInit, Never
  <1>2. 1 \in Days /\ 0 \in 0 .. MaxTime /\ MaxTime \in Nat /\ Days = 1 .. MaxTime
    BY DaysType, GateAssumption
  <1>3. /\ admitted \in [Keys -> [Days -> Nat]]
        /\ \A k \in Keys : \A t \in Days : admitted[k][t] = 0
    BY <1>1, <1>2
  <1>4. ASSUME NEW table, table[1][1] = 0, NEW rate \in Nat, NEW burst \in Nat
        PROVE  Metered(table, NewBucket, rate, burst, 1)
    <2>1. /\ NewBucket.tokens = 0 /\ NewBucket.last = Never
          /\ Available(NewBucket, rate, burst, 1) = burst
      BY DEF NewBucket, Available
    <2>2. rate * (1 - 1) = 0
      OBVIOUS
    <2>3. \A last \in 1 .. 1 : last = 1
      OBVIOUS
    <2> QED
      BY <1>4, <2>1, <2>2, <2>3 DEF Metered, Never
  <1>5. 1 \in 1 .. 1 /\ IsFiniteSet(1 .. 1) /\ 1 .. 1 \subseteq Days
    <2>1. IsFiniteSet(1 .. 1)
      <3>1. 1 .. 1 = {1}
        OBVIOUS
      <3> QED
        BY <3>1, FS_Singleton
    <2> QED
      BY <1>2, <2>1
  <1>6. ASSUME NEW k \in Keys
        PROVE  SumFunctionOnSet(admitted[k], 1 .. 1) = 0
    <2>1. \A t \in 1 .. 1 : admitted[k][t] = 0
      BY <1>3, <1>5
    <2> QED
      BY <1>5, <2>1, SumOfZeros
  <1>7. ASSUME NEW k \in Keys
        PROVE  Table(admitted[k])[1][1] = 0
    <2>1. admitted[k] \in [Days -> Nat]
      BY <1>3
    <2>2. Table(admitted[k])[1][1] = SumFunctionOnSet(admitted[k], 1 .. 1)
      BY <1>2, <1>5, <2>1, TableOf
    <2> QED
      BY <1>6, <2>2
  <1>8. Totals(admitted)[1][1] = 0
    <2> DEFINE sums == [k \in Keys |-> SumFunctionOnSet(admitted[k], 1 .. 1)]
    <2>1. Totals(admitted)[1][1] = SumFunctionOnSet(sums, Keys)
      BY <1>2, <1>3, <1>5, TotalsOf
    <2>2. \A k \in Keys : sums[k] = 0
      BY <1>6
    <2> HIDE DEF sums
    <2> QED
      BY <2>1, <2>2, SumOfZeros, ResourcesAssumption
  <1>9. Metered(Totals(admitted), global, GlobalRate, GlobalBurst, now)
    BY <1>1, <1>4, <1>8, RatesType
  <1>10. ASSUME NEW k \in Keys
         PROVE  Metered(Table(admitted[k]), accounts[k], AccountRate, AccountBurst, now)
    <2>1. accounts[k] = NewBucket
      BY <1>1
    <2> QED
      BY <1>1, <1>4, <1>7, <2>1, RatesType
  <1> QED
    BY <1>1, <1>2, <1>3, <1>9, <1>10 DEF RateInv

\* What is in balance is within the rate.
LEMMA RateIsBounded ==
    ASSUME RateInv
    PROVE  RateIsKept
  <1> SUFFICES ASSUME NEW last \in 1 .. now, NEW first \in 1 .. last
               PROVE  /\ \A k \in Keys : Admissions(k, first, last)
                                             <= AccountBurst + AccountRate * (last - first)
                      /\ SumFunction([k \in Keys |-> Admissions(k, first, last)])
                             <= GlobalBurst + GlobalRate * (last - first)
    BY DEF RateIsKept
  <1>1. last \in Days /\ admitted \in [Keys -> [Days -> Nat]]
    BY DaysType DEF RateInv
  <1>2. ASSUME NEW k \in Keys
        PROVE  Admissions(k, first, last) <= AccountBurst + AccountRate * (last - first)
    <2>1. Table(admitted[k])[first][last] <= AccountBurst + AccountRate * (last - first)
      BY DEF RateInv, Metered
    <2>2. admitted[k] \in [Days -> Nat]
      BY <1>1
    <2>3. Table(admitted[k])[first][last] = Admissions(k, first, last)
      BY <1>1, <2>2, TableOf DEF Admissions
    <2> QED
      BY <2>1, <2>3
  <1>3. SumFunction([k \in Keys |-> Admissions(k, first, last)])
            <= GlobalBurst + GlobalRate * (last - first)
    <2>1. Totals(admitted)[first][last] <= GlobalBurst + GlobalRate * (last - first)
      BY DEF RateInv, Metered
    <2>2. first \in Days
      BY <1>1, DaysType
    <2>3. Totals(admitted)[first][last]
              = SumFunction([k \in Keys |-> Admissions(k, first, last)])
      BY <1>1, <2>2 DEF Totals, Admissions
    <2> QED
      BY <2>1, <2>3
  <1> QED
    BY <1>2, <1>3

\* refillCodexTrafficBucket, acquire: the token buckets do what they are there for,
\* for any rates and bursts, and any interleaving of requests, refusals and time.
THEOREM RateIsNotExceeded == Spec => []RateIsKept
  <1>1. Init => RateInv
    BY RateInit
  <1>2. IInv /\ RateInv /\ [Next]_vars => RateInv'
    BY StepKeepsRate DEF IInv
  <1>3. RateInv => RateIsKept
    BY RateIsBounded
  <1> QED
    BY <1>1, <1>2, <1>3, ResourceInvariance, PTL DEF Spec

LEMMA BucketType ==
    ASSUME NEW b \in AnyBucket, NEW table, NEW rate, NEW burst \in 0 .. GlobalBurst + AccountBurst,
           Metered(table, b, rate, burst, now), now \in 1 .. MaxTime
    PROVE  b \in Bucket
  <1>1. b.tokens \in 0 .. burst /\ b.last \in 0 .. now
    BY DEF Metered
  <1>2. b.tokens \in 0 .. GlobalBurst + AccountBurst /\ b.last \in 0 .. MaxTime
    BY <1>1, DaysType, RatesType
  <1> QED
    BY <1>2 DEF AnyBucket, Bucket

LEMMA TypesFollow ==
    ASSUME IInv, BytesInv, RateInv
    PROVE  TypeOK
  <1>0. Limit \in Nat /\ now \in 1 .. MaxTime
    BY BudgetAssumption, DaysType DEF RateInv
  <1>1. global \in Bucket
    <2>1. GlobalBurst \in 0 .. GlobalBurst + AccountBurst
      BY RatesType
    <2> QED
      BY <1>0, <2>1, BucketType DEF IInv, Shape, GateShape, RateInv
  <1>2. ASSUME NEW k \in Keys
        PROVE  accounts[k] \in Bucket
    <2>1. AccountBurst \in 0 .. GlobalBurst + AccountBurst
      BY RatesType
    <2>2. accounts[k] \in AnyBucket
      BY DEF IInv, Shape, GateShape
    <2> QED
      BY <1>0, <2>1, <2>2, BucketType DEF RateInv
  <1>3. GateTypeOK
    <2>1. accounts \in [Keys -> Bucket]
      BY <1>2 DEF IInv, Shape, GateShape
    <2>2. admitted \in [Keys -> [1 .. MaxTime -> Nat]]
      BY DaysType DEF RateInv
    <2> QED
      BY <1>0, <1>1, <2>1, <2>2 DEF GateTypeOK, IInv, Shape, GateShape, RateInv
  <1>4. Shape /\ \A c \in Clients : client[c].held \in Nat
    BY DEF IInv, Shape, Request
  <1>5. used \in Nat /\ \A c \in Clients : client[c].held <= used
    BY <1>4, HeldIsCounted DEF BytesInv
  <1>6. used \in 0 .. Limit /\ \A c \in Clients : client[c].held \in 0 .. Limit
    <2>1. used <= Limit
      BY DEF BytesInv
    <2> QED
      BY <1>0, <1>4, <1>5, <2>1
  <1>7. ASSUME NEW c \in Clients
        PROVE  client[c] \in [pc : Places, held : 0 .. Limit, want : 0 .. Limit,
                              next : {"reading", "selecting", "ready"},
                              key : Keys \cup {NoKey}, live : BOOLEAN]
    <2>1. client[c] \in Request /\ client[c].want <= Limit
      BY DEF IInv, Shape, BytesInv
    <2>2. client[c].want \in 0 .. Limit
      BY <1>0, <2>1 DEF Request
    <2> QED
      BY <1>6, <2>1, <2>2 DEF Request
  <1> QED
    BY <1>3, <1>6, <1>7 DEF TypeOK, IInv, Shape

\* No request holds, and no bucket contains, more than there is.
THEOREM TypeCorrect == Spec => []TypeOK
  <1>1. Init => RateInv /\ BytesInv
    BY RateInit, BytesInit
  <1>2. IInv /\ IInv' /\ RateInv /\ BytesInv /\ [Next]_vars => RateInv' /\ BytesInv'
    BY StepKeepsRate, StepCountsBytes DEF IInv
  <1>3. IInv /\ RateInv /\ BytesInv => TypeOK
    BY TypesFollow
  <1> QED
    BY <1>1, <1>2, <1>3, ResourceInvariance, PTL DEF Spec

=============================================================================
