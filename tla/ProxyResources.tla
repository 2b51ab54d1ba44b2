--------------------------- MODULE ProxyResources ---------------------------
(***************************************************************************)
(* What a proxied request holds while it runs, and gives back on each of   *)
(* its ways out (handleProxy, sendUpstream): bytes of the body budget, and *)
(* for each attempt with a Codex account a place in the traffic gate, which *)
(* the body of the reply keeps until it is closed.                         *)
(*                                                                         *)
(* Deferred releases happen at once when a handler returns.  Sizes are     *)
(* counted in units; what the accounts are is the business of              *)
(* AccountRouting.                                                         *)
(***************************************************************************)
EXTENDS CodexTrafficGate, ByteBudget, FiniteSets, Functions

CONSTANTS
    Clients,        \* requests
    NoKey,
    Sizes,          \* lengths of bodies
    Contexts,       \* lengths of stored conversations; 0: none
    Capture,        \* responsesCaptureMaxBytes
    Hints,          \* values of Retry-After; 0: none
    Environment     \* {"late_change"}: see Conflict

ASSUME ResourcesAssumption ==
    /\ NoKey \notin Keys /\ IsFiniteSet(Keys) /\ IsFiniteSet(Clients)
    /\ Sizes \subseteq 0 .. Limit /\ Contexts \subseteq Nat /\ 0 \in Contexts
    /\ Capture \in Nat \ {0} /\ Hints \subseteq Nat
    /\ Environment \subseteq {"late_change"}

VARIABLE client

vars == <<gate, budget, client>>

\* selecting: may hold the previous account's reply; sized: the length of the
\* body to send is known.
Places == {"idle", "waiting", "reading", "preparing", "sized", "selecting", "ready",
           "sending", "answered", "forwarding"}

\* next: where to go with the bytes that are waited for; after a replay it
\* stays "ready" (bodyIsReplay).  live: the gate's release function of the
\* last attempt, for account key, has not run.
Idle == [pc |-> "idle", held |-> 0, want |-> 0, next |-> "reading", key |-> NoKey,
         live |-> FALSE]

TypeOK ==
    /\ GateTypeOK
    /\ used \in 0 .. Limit /\ parked \subseteq Clients
    /\ client \in [Clients -> [pc : Places, held : 0 .. Limit, want : 0 .. Limit,
                               next : {"reading", "selecting", "ready"},
                               key : Keys \cup {NoKey}, live : BOOLEAN]]

Init == GateInit /\ BudgetInit /\ client = [c \in Clients |-> Idle]

At(c, places) == client[c].pc \in places

Goto(c, place) == client' = [client EXCEPT ![c].pc = place]

-----------------------------------------------------------------------------
(* Ways out.                                                               *)

\* Faulty: the body is not closed only once.
CloseBodyAgain(c) ==
    IF client[c].key # NoKey THEN GateRelease(client[c].key) ELSE UNCHANGED gate

\* codexTrafficBody.Close, or the release deferred by sendUpstream.
CloseBody(c) == IF client[c].live THEN GateRelease(client[c].key) ELSE UNCHANGED gate

\* The deferred release of whatever is reserved.
Depart(c) == Return(c, client[c].held) /\ client' = [client EXCEPT ![c] = Idle]

Leave(c) == CloseBody(c) /\ Depart(c)

-----------------------------------------------------------------------------
(* The body, before an account is chosen.                                  *)

WaitFor(c, size, next) ==
    client' = [client EXCEPT ![c].pc = "waiting", ![c].want = size, ![c].next = next]

\* The declared length is reserved, the whole budget if there is none.
Start(c, size) ==
    /\ At(c, {"idle"})
    /\ IF size = 0 THEN Goto(c, "reading") ELSE WaitFor(c, size, "reading")
    /\ UNCHANGED <<gate, budget>>

\* Faulty: what is reserved is not added to what will be given back.
TryAcquireUncounted(c) ==
    LET size == client[c].want
    IN  /\ At(c, {"waiting"}) /\ c \notin parked
        /\ IF Fits(size)
           THEN /\ TakeBytes(size)
                /\ client' = [client EXCEPT ![c].pc = client[c].next, ![c].want = 0]
           ELSE Park(c) /\ UNCHANGED client
        /\ UNCHANGED gate

\* byteBudget.acquire, once around its loop.
TryAcquire(c) ==
    LET size == client[c].want
    IN  /\ At(c, {"waiting"}) /\ c \notin parked
        /\ IF Fits(size)
           THEN /\ TakeBytes(size)
                /\ client' = [client EXCEPT ![c].pc = client[c].next, ![c].want = 0,
                                            ![c].held = @ + size]
           ELSE Park(c) /\ UNCHANGED client
        /\ UNCHANGED gate

\* Its context is done: 503, or the client is gone.
GiveUp(c) == At(c, {"waiting"}) /\ Leave(c)

\* The body is read; what it did not need is given back.
Read(c, length) ==
    /\ At(c, {"reading"}) /\ length <= client[c].held
    /\ Return(c, client[c].held - length)
    /\ client' = [client EXCEPT ![c].pc = "preparing", ![c].held = length]
    /\ UNCHANGED gate

\* prepareResponsesRequest: the stored conversation fits, or it is 503.
Prepare(c, context) ==
    /\ At(c, {"preparing"})
    /\ IF Fits(context)
       THEN /\ TakeBytes(context)
            /\ client' = [client EXCEPT ![c].pc = "sized", ![c].held = @ + context,
                                        ![c].next = "selecting"]
            /\ UNCHANGED gate
       ELSE Leave(c)

\* The body that will be sent is longer or shorter than what is reserved.
Resize(c, length) ==
    LET extra == length - client[c].held
    IN  /\ At(c, {"sized"})
        /\ IF extra > 0
           THEN WaitFor(c, extra, client[c].next) /\ UNCHANGED budget
           ELSE /\ Return(c, -extra)
                /\ client' = [client EXCEPT ![c].pc = client[c].next, ![c].held = length]
        /\ UNCHANGED gate

\* 400, 409 or 413 at any of these points.
Reject(c) == At(c, {"reading", "preparing", "sized"}) /\ Leave(c)

-----------------------------------------------------------------------------
(* An attempt.                                                             *)

\* An account is chosen and the previous reply closed.  The conversation is
\* replayed to it, at most once, or the body sent as it is.
Select(c) ==
    /\ At(c, {"selecting"}) /\ CloseBody(c)
    /\ \E replay \in BOOLEAN :
          /\ replay => client[c].next # "ready"
          /\ client' = [client EXCEPT ![c].pc = IF replay THEN "sized" ELSE "ready",
                                      ![c].next = IF replay THEN "ready" ELSE @,
                                      ![c].key = NoKey, ![c].live = FALSE]
    /\ UNCHANGED budget

\* None is left: the previous reply is forwarded, or an error is.
NoCandidate(c) ==
    /\ At(c, {"selecting"})
    /\ \/ Goto(c, "forwarding") /\ UNCHANGED <<gate, budget>>
       \/ Leave(c)

\* The conversation's account has changed since the request was prepared: 409.
\* The previous reply stays open, if there is one: when an administrator saves
\* the account between two attempts, "late_change".
Conflict(c) ==
    /\ At(c, {"selecting"}) /\ client[c].held > 0
    /\ client[c].live => "late_change" \in Environment
    /\ Depart(c) /\ UNCHANGED gate

\* The provider is cooling down: try another account.
FindClosed(c) ==
    /\ At(c, {"ready"}) /\ GateClosed /\ Goto(c, "selecting")
    /\ UNCHANGED <<gate, budget>>

\* 429 to the client, with a Retry-After.
FindFull(c, k) == At(c, {"ready"}) /\ GateRefuses(k) /\ Depart(c)

Enter(c, k) ==
    /\ At(c, {"ready"}) /\ GateAdmits(k)
    /\ client' = [client EXCEPT ![c].pc = "sending", ![c].key = k, ![c].live = TRUE]
    /\ UNCHANGED budget

\* An account with an API key has no gate.
SendPlain(c) == At(c, {"ready"}) /\ Goto(c, "sending") /\ UNCHANGED <<gate, budget>>

Answer(c) == At(c, {"sending"}) /\ Goto(c, "answered") /\ UNCHANGED <<gate, budget>>

\* No reply, or one whose stream does not start: on to the next account, or
\* the error goes to the client.
Fail(c) ==
    /\ At(c, {"sending", "answered"})
    /\ \/ /\ CloseBody(c) /\ UNCHANGED budget
          /\ client' = [client EXCEPT ![c].pc = "selecting", ![c].live = FALSE]
       \/ Leave(c)

\* A timer closes the body while its beginning is inspected; the handler goes
\* on with what was read.
InspectionEnds(c) ==
    /\ At(c, {"answered"}) /\ client[c].live /\ CloseBody(c)
    /\ client' = [client EXCEPT ![c].live = FALSE]
    /\ UNCHANGED budget

\* The reply sends the request to another account.
Retry(c) == At(c, {"answered"}) /\ Goto(c, "selecting") /\ UNCHANGED <<gate, budget>>

RateLimited(c, hint) ==
    /\ At(c, {"answered"}) /\ client[c].key # NoKey
    /\ Trip(hint) /\ Goto(c, "selecting") /\ UNCHANGED budget

\* The reply goes to the client; a copy is kept if there is room for it.
Forward(c) ==
    /\ At(c, {"answered"})
    /\ \/ Goto(c, "forwarding") /\ UNCHANGED budget
       \/ /\ TakeBytes(Capture)
          /\ client' = [client EXCEPT ![c].pc = "forwarding", ![c].held = @ + Capture]
    /\ UNCHANGED gate

Finish(c) == At(c, {"forwarding"}) /\ Leave(c)

-----------------------------------------------------------------------------
Next ==
    \/ \E c \in Clients :
          \/ \E size \in Sizes : Start(c, size) \/ Read(c, size) \/ Resize(c, size)
          \/ \E context \in Contexts : Prepare(c, context)
          \/ TryAcquire(c) \/ GiveUp(c) \/ Reject(c)
          \/ Select(c) \/ NoCandidate(c) \/ Conflict(c)
          \/ \E k \in Keys : FindFull(c, k) \/ Enter(c, k)
          \/ FindClosed(c) \/ SendPlain(c) \/ Answer(c) \/ Fail(c) \/ InspectionEnds(c)
          \/ Retry(c) \/ Forward(c) \/ Finish(c)
          \/ \E hint \in Hints : RateLimited(c, hint)
    \/ Tick /\ UNCHANGED <<budget, client>>

Spec == Init /\ [][Next]_vars

-----------------------------------------------------------------------------
(* Properties.                                                             *)

Inside(k) == {c \in Clients : client[c].live /\ client[c].key = k}

\* The gate counts exactly the attempts whose reply is still awaited or open,
\* whichever of the timer, the handler and the deferred calls closes it, and
\* they are never more than the limits (codexTrafficGate.release).
CountsMatch ==
    /\ \A k \in Keys : /\ accounts[k].inFlight = Cardinality(Inside(k))
                       /\ accounts[k].inFlight <= AccountConcurrency
    /\ global.inFlight = Cardinality({c \in Clients : client[c].live})
    /\ global.inFlight <= GlobalConcurrency

\* Every byte that is taken belongs to a request that will give it back.
BytesAreHeld == used = SumFunction([c \in Clients |-> client[c].held])

\* A request that waits for the next release does not fit: none sleeps while
\* there is room (byteBudget.acquire, byteBudget.release).
NoLostWakeup == \A c \in parked : At(c, {"waiting"}) /\ ~Fits(client[c].want)

Admissions(k, first, last) == SumFunctionOnSet(admitted[k], first .. last)

\* In any stretch of time the gate admits a burst and what the rate adds to it,
\* per account and altogether, however requests, refusals and refills interleave.
RateIsKept ==
    \A last \in 1 .. now : \A first \in 1 .. last :
        /\ \A k \in Keys :
              Admissions(k, first, last) <= AccountBurst + AccountRate * (last - first)
        /\ SumFunction([k \in Keys |-> Admissions(k, first, last)])
              <= GlobalBurst + GlobalRate * (last - first)

\* A late 429 never shortens the provider's cooldown, and nobody is admitted
\* before its end.
CooldownIsKept ==
    [][/\ until' >= until
       /\ until > now => admitted' = admitted]_vars

\* README.md:288 limits the requests in flight ("2 in-flight requests for each
\* real CodexAccountID"), and a stream leaves when its body is closed.  With a
\* save between two attempts the place of a request that is over is never given
\* back, and the account ends up closed for good.
OnlyRequestsAreCounted ==
    (\A c \in Clients : At(c, {"idle"})) => global.inFlight = 0

=============================================================================
