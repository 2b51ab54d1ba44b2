--------------------------- MODULE AccountRuntime ---------------------------
(***************************************************************************)
(* The health record the router keeps for one account (accountRuntime in   *)
(* router.go) and the pure state changes every handler applies to it while *)
(* it holds application.mu.  Time is a natural number; 0 is Go's zero      *)
(* time.Time, so a running router has now >= 1.                            *)
(***************************************************************************)
EXTENDS Integers, Sequences

CONSTANTS
    Ladder,             \* back-off steps: 10s, 30s, 5m, 15m, 30m in the code
    FailureReset,       \* upstreamFailureReset, 5m
    MaxSoftProbeDelay   \* maxSoftProbeDelay, 30s

ASSUME LadderAssumption ==
    /\ Ladder \in Seq(Nat \ {0})
    /\ Len(Ladder) > 0
    /\ FailureReset \in Nat \ {0}
    /\ MaxSoftProbeDelay \in Nat \ {0}

Never == 0              \* the zero time.Time
NoHint == -1            \* no Retry-After and no known quota reset

NoReason == "none"      \* the empty string
Upstream == "upstream_failures"
RecoverableReasons == {"quota", "unauthorized"}
HardReasons == {"restricted"}
BlockReasons == {NoReason} \cup RecoverableReasons \cup HardReasons
CooldownReasons == {NoReason, Upstream, "rate_limit"} \cup RecoverableReasons

Runtime ==
    [until : Nat, reason : CooldownReasons, failures : Nat, recovery : Nat,
     lastFailure : Nat, lastRecovery : Nat, barrier : Nat, probe : BOOLEAN]

EmptyRuntime ==
    [until |-> Never, reason |-> NoReason, failures |-> 0, recovery |-> 0,
     lastFailure |-> Never, lastRecovery |-> Never, barrier |-> Never,
     probe |-> FALSE]

-----------------------------------------------------------------------------
(* Reading the record.                                                     *)

Backoff(n) == Ladder[IF n \in 1 .. Len(Ladder) THEN n ELSE Len(Ladder)]

Cooling(runtime, now) == now < runtime.until

SoftProbeAt(runtime) ==
    LET step == Backoff(runtime.failures)
        delay == IF step > MaxSoftProbeDelay THEN MaxSoftProbeDelay ELSE step
        probeAt == runtime.lastFailure + delay
    IN  IF runtime.until # Never /\ runtime.until < probeAt
        THEN runtime.until ELSE probeAt

\* What every reader of the record relies on: a cooldown has a reason to be
\* probed for, a network cooldown has a failure to back off from, that failure
\* has a time, and the barrier is no earlier than the failure it stands for.
Sound(runtime, now) ==
    /\ Cooling(runtime, now) => runtime.reason # NoReason
    /\ runtime.reason = Upstream => runtime.failures > 0
    /\ runtime.failures > 0 <=> runtime.lastFailure # Never
    /\ runtime.lastFailure <= runtime.barrier /\ runtime.barrier <= now

WaitsForProbe(runtime) == runtime.reason = Upstream /\ runtime.failures > 0

ProbeAt(runtime) ==
    IF WaitsForProbe(runtime) THEN SoftProbeAt(runtime) ELSE runtime.until

\* A success counts unless it began before the barrier.
SuccessIsLate(runtime, started) == started < runtime.barrier

\* Faulty: no barrier, so every failure in flight counts.
FailureNeverLate(runtime, started) == FALSE

\* A failure counts only if it began after the barrier.
FailureIsLate(runtime, started) ==
    runtime.barrier # Never /\ started <= runtime.barrier

-----------------------------------------------------------------------------
(* Writing the record.                                                     *)

ClearUpstream(runtime) ==
    LET lifted == runtime.reason = Upstream
    IN  [runtime EXCEPT !.failures = 0, !.lastFailure = Never,
                        !.until = IF lifted THEN Never ELSE @,
                        !.reason = IF lifted THEN NoReason ELSE @]

\* A reply that proves the account reachable but says nothing else about it.
Reachable(runtime, now) == [ClearUpstream(runtime) EXCEPT !.barrier = now]

MarkSuccess(runtime, now) ==
    [EmptyRuntime EXCEPT !.barrier = now, !.probe = runtime.probe]

HardBlock(runtime, now) == [MarkSuccess(runtime, now) EXCEPT !.probe = FALSE]

CountFailure(runtime, started, now) ==
    LET outageOpen ==
            runtime.reason = Upstream /\ Cooling(runtime, now) /\ ~runtime.probe
        startsOver ==
            \/ runtime.lastFailure = Never
            \/ /\ runtime.until # Never
               /\ now - runtime.until > FailureReset
        failures == IF startsOver THEN 1 ELSE runtime.failures + 1
    IN  IF outageOpen \/ FailureIsLate(runtime, started) THEN runtime
        ELSE [runtime EXCEPT !.failures = failures, !.lastFailure = now,
                             !.barrier = now, !.reason = Upstream,
                             !.until = now + Backoff(failures)]

\* Is a further refusal for this reason already covered by the cooldown?
Covered(runtime, reason, started, now) ==
    \/ FailureIsLate(runtime, started)
    \/ runtime.reason = reason /\ Cooling(runtime, now) /\ ~runtime.probe

RecoveryCooldown(runtime, reason, hint, now) ==
    LET startsOver ==
            \/ runtime.reason # reason
            \/ runtime.lastRecovery = Never
            \/ now - runtime.lastRecovery > FailureReset
        attempts == IF startsOver THEN 1 ELSE runtime.recovery + 1
        duration == IF hint = NoHint THEN Backoff(attempts) ELSE hint
    IN  [runtime EXCEPT !.recovery = attempts, !.failures = 0,
                        !.lastFailure = Never, !.barrier = now,
                        !.lastRecovery = now, !.reason = reason,
                        !.until = now + duration]

\* Faulty: the reason goes, the cooldown stays.
AcceptKeepsCooldown(runtime) ==
    [runtime EXCEPT !.reason = IF @ = Upstream THEN NoReason ELSE @,
                    !.probe = FALSE]

\* Headers of a 2xx reply: an account cooling for network failures is usable
\* again at once, but keeps its failure count until the body has arrived.
Accept(runtime) ==
    LET lifted == runtime.reason = Upstream
    IN  [runtime EXCEPT !.until = IF lifted THEN Never ELSE @,
                        !.reason = IF lifted THEN NoReason ELSE @,
                        !.probe = FALSE]

Wake(runtime, now) == [runtime EXCEPT !.until = now, !.barrier = now]

=============================================================================
