-------------------------- MODULE CodexTrafficGate --------------------------
(***************************************************************************)
(* What codexTrafficGate (proxy.go) keeps under its mutex: how many requests *)
(* are in flight, a token bucket for all Codex accounts and one for each,  *)
(* and the cooldown after a 429 of the provider.  Time passes in whole     *)
(* seconds, so that buckets hold whole tokens; 0 is the zero time.Time.    *)
(***************************************************************************)
EXTENDS Integers, Sequences

CONSTANTS
    Keys,                                   \* real accounts: CodexAccountID
    GlobalConcurrency, AccountConcurrency,  \* 4 and 2 in the code
    GlobalRate, GlobalBurst,                \* 2 a second and 4
    AccountRate, AccountBurst,              \* 1 a second and 2
    Ladder,                                 \* steps of upstreamFailureCooldown
    FailureReset, MaxRetryAfter,
    MaxTime                                 \* bound of the clock

ASSUME GateAssumption ==
    /\ {GlobalConcurrency, AccountConcurrency, GlobalRate, GlobalBurst, AccountRate,
        AccountBurst, FailureReset, MaxRetryAfter, MaxTime} \subseteq Nat \ {0}
    /\ Ladder \in Seq(Nat \ {0}) /\ Len(Ladder) > 0

VARIABLES
    now,
    global, accounts,       \* the buckets
    until, limited, strikes, \* providerUntil, -LastRateLimit, -Strikes
    admitted                \* history: admissions of each account and second

clock == <<now, admitted>>
buckets == <<global, accounts>>
cooldown == <<until, limited, strikes>>
gate == <<clock, buckets, cooldown>>

Never == 0

Bucket == [tokens : 0 .. GlobalBurst + AccountBurst, last : 0 .. MaxTime, inFlight : Nat]

NewBucket == [tokens |-> 0, last |-> Never, inFlight |-> 0]

GateTypeOK ==
    /\ now \in 1 .. MaxTime
    /\ global \in Bucket /\ accounts \in [Keys -> Bucket]
    /\ until \in Nat /\ limited \in 0 .. MaxTime /\ strikes \in Nat
    /\ admitted \in [Keys -> [1 .. MaxTime -> Nat]]

GateInit ==
    /\ now = 1
    /\ global = NewBucket /\ accounts = [k \in Keys |-> NewBucket]
    /\ until = Never /\ limited = Never /\ strikes = 0
    /\ admitted = [k \in Keys |-> [t \in 1 .. MaxTime |-> 0]]

Greater(i, j) == IF i > j THEN i ELSE j
Lesser(i, j) == IF i < j THEN i ELSE j

-----------------------------------------------------------------------------
(* acquire and release.                                                    *)

\* Faulty: the time of the refill is not noted.
RefilledAgain(b, rate, burst) ==
    IF b.last = Never THEN [b EXCEPT !.tokens = burst, !.last = now]
    ELSE [b EXCEPT !.tokens = Lesser(burst, @ + rate * (now - b.last))]

\* refillCodexTrafficBucket: a new bucket is full.
Refilled(b, rate, burst) ==
    [b EXCEPT !.tokens = IF b.last = Never THEN burst
                         ELSE Lesser(burst, @ + rate * (now - b.last)),
              !.last = now]

RefilledGlobal == Refilled(global, GlobalRate, GlobalBurst)
RefilledAccount(k) == Refilled(accounts[k], AccountRate, AccountBurst)

GateClosed == until > now

Crowded(k) ==
    \/ global.inFlight >= GlobalConcurrency
    \/ accounts[k].inFlight >= AccountConcurrency

Dry(k) == RefilledGlobal.tokens < 1 \/ RefilledAccount(k).tokens < 1

Entered(b) == [b EXCEPT !.tokens = @ - 1, !.inFlight = @ + 1]

GateAdmits(k) ==
    /\ ~GateClosed /\ ~Crowded(k) /\ ~Dry(k)
    /\ global' = Entered(RefilledGlobal)
    /\ accounts' = [accounts EXCEPT ![k] = Entered(RefilledAccount(k))]
    /\ admitted' = [admitted EXCEPT ![k][now] = @ + 1]
    /\ UNCHANGED <<now, cooldown>>

\* The buckets are refilled all the same.
GateRefuses(k) ==
    /\ ~GateClosed /\ (Crowded(k) \/ Dry(k))
    /\ global' = RefilledGlobal
    /\ accounts' = [accounts EXCEPT ![k] = RefilledAccount(k)]
    /\ UNCHANGED <<clock, cooldown>>

Left(b) == [b EXCEPT !.inFlight = Greater(0, @ - 1)]

GateRelease(k) ==
    /\ global' = Left(global)
    /\ accounts' = [accounts EXCEPT ![k] = Left(@)]
    /\ UNCHANGED <<clock, cooldown>>

-----------------------------------------------------------------------------
(* The provider's cooldown.                                                *)

Strikes ==
    IF limited = Never \/ now - limited > FailureReset THEN 1 ELSE strikes + 1

Base == Ladder[Lesser(Strikes, Len(Ladder))]

\* The ladder, up to a quarter of jitter, or a longer Retry-After; at most 31 days.
Delay(hint, jitter) == Lesser(MaxRetryAfter, Greater(hint, Base + jitter))

\* Faulty: an earlier and longer cooldown is forgotten.
TripAnew(hint) ==
    /\ strikes' = Strikes /\ limited' = now
    /\ \E jitter \in 0 .. Base \div 4 : until' = now + Delay(hint, jitter)
    /\ UNCHANGED <<clock, buckets>>

\* tripProviderRateLimit: the provider answered 429.
Trip(hint) ==
    /\ strikes' = Strikes /\ limited' = now
    /\ \E jitter \in 0 .. Base \div 4 :
          until' = Greater(until, now + Delay(hint, jitter))
    /\ UNCHANGED <<clock, buckets>>

Tick ==
    /\ now < MaxTime /\ now' = now + 1
    /\ UNCHANGED <<admitted, buckets, cooldown>>

=============================================================================
