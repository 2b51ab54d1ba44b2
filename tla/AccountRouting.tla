--------------------------- MODULE AccountRouting ---------------------------
(***************************************************************************)
(* Proxied requests (handleProxy goroutines) choosing accounts, and the    *)
(* account state their outcomes change, beside the administrator's saves,  *)
(* the balance and usage refreshers, failing config writes and restarts.   *)
(*                                                                         *)
(* An action is one critical section of application.mu.  configMu is the   *)
(* variable "lock": it is held from the moment a new configuration is      *)
(* built until its write has succeeded or failed, while other goroutines   *)
(* run.  Routing strategies only order the candidates, so Select takes any.*)
(***************************************************************************)
EXTENDS AccountRuntime, FiniteSets

CONSTANTS
    Accounts,       \* account IDs; adding and deleting accounts is left out
    Requests,       \* handler goroutines, reused by later requests
    Admin, NoOne,   \* other values of "lock"
    Environment,    \* what may happen in this instance (see Events)
    Hints,          \* durations a Retry-After or a quota reset may give
    MaxTime,        \* bound of the clock
    MaxRevision     \* bound of an account's revision

Events ==
    {"failure", "quota", "unauthorized", "rate_limit", "restricted",
     "incompatible", "status", "gone", "gate",
     "rekey", "touch", "toggle", "wake", "usage", "balance",
     "write_failure", "crash"}

ASSUME RoutingAssumption ==
    /\ Admin # NoOne /\ Admin \notin Requests /\ NoOne \notin Requests
    /\ NoOne \notin Accounts
    /\ Environment \subseteq Events
    /\ Hints \subseteq Nat
    /\ MaxTime \in Nat \ {0} /\ MaxRevision \in Nat \ {0}

VARIABLES
    now,        \* the clock
    cfg,        \* application.cfg: what routing reads of each account
    disk,       \* the configuration file
    lock, cand, \* holder of configMu and the configuration it is writing
    rt,         \* application.runtime
    req         \* the handler goroutines

vars == <<now, cfg, disk, lock, cand, rt, req>>

Config == [Accounts -> [rev : Nat \ {0}, blocked : BlockReasons,
                        enabled : BOOLEAN, verified : BOOLEAN]]

\* settled: outcome recorded, probe slot not yet given back; "next" follows.
Places == {"idle", "choosing", "picked", "sent", "accepting", "streaming",
           "verifying", "writing", "settled", "relaying"}

Request ==
    [pc : Places, acct : Accounts \cup {NoOne}, rev : Nat, probe : BOOLEAN,
     started : Nat, tried : SUBSET Accounts, next : Places]

Idle == [pc |-> "idle", acct |-> NoOne, rev |-> 0, probe |-> FALSE,
         started |-> Never, tried |-> {}, next |-> "idle"]

TypeOK ==
    /\ now \in Nat \ {0}
    /\ cfg \in Config /\ disk \in Config /\ cand \in Config
    /\ lock \in Requests \cup {Admin, NoOne}
    /\ rt \in [Accounts -> Runtime]
    /\ req \in [Requests -> Request]
    /\ \A r \in Requests :
          req[r].pc \notin {"idle", "choosing"} => req[r].acct \in Accounts

Init ==
    /\ now = 1
    /\ cfg = [a \in Accounts |-> [rev |-> 1, blocked |-> NoReason, enabled |-> TRUE,
                                  verified |-> TRUE]]
    /\ disk = cfg /\ cand = cfg
    /\ lock = NoOne
    /\ rt = [a \in Accounts |-> EmptyRuntime]
    /\ req = [r \in Requests |-> Idle]

-----------------------------------------------------------------------------
(* Choosing an account: selectAccountWithMode with allowSoftProbe.         *)

Recoverable(a) == cfg[a].blocked \in RecoverableReasons
Eligible(r, a) ==
    a \notin req[r].tried /\ cfg[a].enabled /\ cfg[a].blocked \notin HardReasons
Available(a) == cfg[a].blocked = NoReason /\ ~Cooling(rt[a], now)
SoftFailure(a) == Recoverable(a) \/ rt[a].reason # NoReason

Regular(r) == {a \in Accounts : Eligible(r, a) /\ ~SoftFailure(a) /\ Available(a)}

\* Faulty: two requests may probe an account together.
DueProbesTaken(r) ==
    {a \in Accounts : Eligible(r, a) /\ SoftFailure(a) /\ now >= ProbeAt(rt[a])}

DueProbes(r) ==
    {a \in Accounts : /\ Eligible(r, a) /\ SoftFailure(a) /\ ~rt[a].probe
                      /\ now >= ProbeAt(rt[a])}
Probes(r) == {a \in DueProbes(r) : Available(a) \/ ~WaitsForProbe(rt[a])}
Emergency(r) == DueProbes(r) \ Probes(r)

\* A forced probe takes the account with the fewest failures, then the oldest.
Foremost(S) ==
    {a \in S : \A b \in S :
        \/ rt[a].failures < rt[b].failures
        \/ /\ rt[a].failures = rt[b].failures
           /\ rt[a].lastFailure <= rt[b].lastFailure}

Candidates(r) ==
    IF Regular(r) # {} THEN Regular(r) \cup Probes(r)
    ELSE IF Probes(r) # {} THEN Foremost(Probes(r)) ELSE Foremost(Emergency(r))

SoftRemaining(r) ==
    \E a \in Accounts : /\ Eligible(r, a) /\ SoftFailure(a)
                        /\ rt[a].probe \/ WaitsForProbe(rt[a])

-----------------------------------------------------------------------------
(* Helpers of the handlers.                                                *)

At(r, places) == req[r].pc \in places

\* sameAccountRevision: is r's copy of its account still the configured one?
\* What it compares beside changes with the revision, except the switch for Codex
\* credits, which is left out.
Current(r) == req[r].rev = cfg[req[r].acct].rev

Goto(r, place) == req' = [req EXCEPT ![r].pc = place]

Settle(r, place) == req' = [req EXCEPT ![r].pc = "settled", ![r].next = place]

\* finishAccountProbe(account, false), when r is the probe.
Released(r) ==
    IF req[r].probe /\ Current(r) THEN [rt EXCEPT ![req[r].acct].probe = FALSE]
    ELSE rt

\* The loop's next attempt keeps only the set of attempted accounts.
Return(r, place) ==
    req' = [req EXCEPT ![r] =
        CASE place = "choosing" -> [Idle EXCEPT !.pc = place, !.tried = req[r].tried]
          [] place = "relaying" -> [@ EXCEPT !.pc = place, !.probe = FALSE, !.next = "idle"]
          [] OTHER -> Idle]

\* A reply cut short or in the body of a 2xx response ends the request; a
\* refusal in the reply's status lets it try the next account.
NextAccount(r) == IF At(r, {"streaming"}) THEN "idle" ELSE "choosing"
-----------------------------------------------------------------------------
(* One attempt of a proxied request.                                       *)

Arrive(r) == At(r, {"idle"}) /\ Goto(r, "choosing")
             /\ UNCHANGED <<now, cfg, disk, lock, cand, rt>>

Select(r) ==
    /\ At(r, {"choosing"})
    /\ \E a \in Candidates(r) :
          LET probe == SoftFailure(a)
          IN  /\ rt' = IF probe THEN [rt EXCEPT ![a].probe = TRUE] ELSE rt
              /\ req' = [req EXCEPT ![r] =
                    [Idle EXCEPT !.pc = "picked", !.acct = a, !.rev = cfg[a].rev,
                                 !.probe = probe, !.tried = req[r].tried \cup {a}]]
    /\ UNCHANGED <<now, cfg, disk, lock, cand>>

\* 503: nothing to try and nothing worth waiting for.
Reject(r) ==
    /\ At(r, {"choosing"}) /\ Candidates(r) = {} /\ ~SoftRemaining(r)
    /\ Return(r, "idle")
    /\ UNCHANGED <<now, cfg, disk, lock, cand, rt>>

\* The client leaves while its request waits for another request's probe.
StopWaiting(r) ==
    /\ At(r, {"choosing"}) /\ Candidates(r) = {} /\ SoftRemaining(r)
    /\ Return(r, "idle")
    /\ UNCHANGED <<now, cfg, disk, lock, cand, rt>>

\* Faulty: an early return that forgets finishProbe.
AbandonKeepsSlot(r) ==
    /\ At(r, {"picked"}) /\ Return(r, "idle")
    /\ UNCHANGED <<now, cfg, disk, lock, cand, rt>>

\* The conversation's account changed, its transcript cannot be replayed, or
\* no memory was granted in time: answered without contacting the account.
Abandon(r) ==
    /\ At(r, {"picked"})
    /\ rt' = Released(r) /\ Return(r, "idle")
    /\ UNCHANGED <<now, cfg, disk, lock, cand>>

\* failureStartedAt is read after the account was chosen, without the mutex.
Dispatch(r) ==
    /\ At(r, {"picked"})
    /\ req' = [req EXCEPT ![r].pc = "sent", ![r].started = now]
    /\ UNCHANGED <<now, cfg, disk, lock, cand, rt>>

\* Turned away by the provider's cooldown (next account) or the local rate
\* limit (429); neither says anything about the account.
Gated(r) ==
    /\ "gate" \in Environment /\ At(r, {"sent"})
    /\ rt' = Released(r)
    /\ \E place \in {"choosing", "idle"} : Return(r, place)
    /\ UNCHANGED <<now, cfg, disk, lock, cand>>

Disconnect(r) ==
    /\ "gone" \in Environment /\ At(r, {"sent", "streaming"})
    /\ rt' = Released(r) /\ Return(r, "idle")
    /\ UNCHANGED <<now, cfg, disk, lock, cand>>

\* 2xx headers: probeReleasesOnHeaders, and then finishAccountProbe in a
\* critical section of its own.
Headers(r) ==
    /\ At(r, {"sent"})
    /\ LET releases == /\ req[r].probe /\ Current(r)
                       /\ rt[req[r].acct].reason = Upstream
       IN  Goto(r, IF releases THEN "accepting" ELSE "streaming")
    /\ UNCHANGED <<now, cfg, disk, lock, cand, rt>>

AcceptProbe(r) ==
    /\ At(r, {"accepting"})
    /\ rt' = IF Current(r) THEN [rt EXCEPT ![req[r].acct] = Accept(@)] ELSE rt
    /\ req' = [req EXCEPT ![r].pc = "streaming", ![r].probe = FALSE]
    /\ UNCHANGED <<now, cfg, disk, lock, cand>>

-----------------------------------------------------------------------------
(* Outcomes.  Each is one critical section; the probe slot is given back   *)
(* in the next one.                                                        *)

\* Faulty: no sameAccountRevision.
UpdateStale(r, runtime) == rt' = [rt EXCEPT ![req[r].acct] = runtime]

Update(r, runtime) ==
    rt' = IF Current(r) THEN [rt EXCEPT ![req[r].acct] = runtime] ELSE rt

\* Network error, 408, 5xx, or a body that ended early.  Only a request that
\* was surely not executed, or a GET, goes on to another account.
Fail(r) ==
    /\ "failure" \in Environment /\ At(r, {"sent", "streaming"})
    /\ Update(r, CountFailure(rt[req[r].acct], req[r].started, now))
    /\ \E place \in {"idle", NextAccount(r)} : Settle(r, place)
    /\ UNCHANGED <<now, cfg, disk, lock, cand>>

RateLimited(r) ==
    /\ "rate_limit" \in Environment /\ At(r, {"sent", "streaming"})
    /\ \E hint \in Hints \cup {NoHint} :
          LET runtime == rt[req[r].acct]
          IN  Update(r, IF Covered(runtime, "rate_limit", req[r].started, now)
                        THEN runtime
                        ELSE RecoveryCooldown(runtime, "rate_limit", hint, now))
    /\ Settle(r, NextAccount(r))
    /\ UNCHANGED <<now, cfg, disk, lock, cand>>

\* The account answered, but cannot serve this request.
Incompatible(r) ==
    /\ "incompatible" \in Environment /\ At(r, {"sent", "streaming"})
    /\ Update(r, Reachable(rt[req[r].acct], now))
    /\ Settle(r, NextAccount(r))
    /\ UNCHANGED <<now, cfg, disk, lock, cand>>

\* Any other status is relayed, after the probe slot has been given back.
OtherStatus(r) ==
    /\ "status" \in Environment /\ At(r, {"sent"})
    /\ Update(r, Reachable(rt[req[r].acct], now))
    /\ Settle(r, "relaying")
    /\ UNCHANGED <<now, cfg, disk, lock, cand>>

\* configMu is taken and the configuration new goes to the disk.
StartWrite(holder, new) == lock = NoOne /\ lock' = holder /\ cand' = new

\* Faulty: a recoverable block replaces a ban.
BlockOverBan(r, reason) ==
    LET a == req[r].acct
        blocked == [cfg EXCEPT ![a].blocked = reason]
    IN  /\ reason \in Environment /\ At(r, {"sent", "streaming"}) /\ lock = NoOne
        /\ Current(r) /\ ~Covered(rt[a], reason, req[r].started, now)
        /\ rt' = [rt EXCEPT ![a] = RecoveryCooldown(@, reason, NoHint, now)]
        /\ cfg' = blocked /\ StartWrite(r, blocked)
        /\ req' = [req EXCEPT ![r].pc = "writing", ![r].next = NextAccount(r)]
        /\ UNCHANGED <<now, disk>>

\* blockAccountFor with a recoverable reason: memory changes before the write.
Block(r, reason) ==
    LET a == req[r].acct
        blocked == [cfg EXCEPT ![a].blocked = reason]
        ignored == \/ ~Current(r) \/ cfg[a].blocked \in HardReasons
                   \/ Covered(rt[a], reason, req[r].started, now)
    IN  /\ reason \in Environment /\ At(r, {"sent", "streaming"}) /\ lock = NoOne
        /\ \/ /\ ignored
              /\ Settle(r, NextAccount(r)) /\ UNCHANGED <<cfg, lock, cand, rt>>
           \/ /\ ~ignored
              /\ \E hint \in Hints \cup {NoHint} :
                    rt' = [rt EXCEPT ![a] = RecoveryCooldown(@, reason, hint, now)]
              /\ cfg' = blocked
              /\ IF blocked = cfg
                 THEN Settle(r, NextAccount(r)) /\ UNCHANGED <<lock, cand>>
                 ELSE /\ StartWrite(r, blocked)
                      /\ req' = [req EXCEPT ![r].pc = "writing",
                                            ![r].next = NextAccount(r)]
        /\ UNCHANGED <<now, disk>>

\* Faulty: the ban does not wait for configMu.
RestrictUnlocked(r) ==
    LET a == req[r].acct
    IN  /\ "restricted" \in Environment /\ At(r, {"sent", "streaming"})
        /\ Settle(r, NextAccount(r))
        /\ IF Current(r) THEN /\ rt' = [rt EXCEPT ![a] = HardBlock(@, now)]
                              /\ cfg' = [cfg EXCEPT ![a].blocked = "restricted"]
           ELSE UNCHANGED <<cfg, rt>>
        /\ UNCHANGED <<now, disk, lock, cand>>

\* A banned account, whenever the request that learnt it was started.
RestrictAccount(r) ==
    LET a == req[r].acct
        blocked == [cfg EXCEPT ![a].blocked = "restricted"]
    IN  /\ "restricted" \in Environment /\ At(r, {"sent", "streaming"})
        /\ lock = NoOne
        /\ IF Current(r)
           THEN /\ rt' = [rt EXCEPT ![a] = HardBlock(@, now)]
                /\ cfg' = blocked /\ StartWrite(r, blocked)
                /\ req' = [req EXCEPT ![r].pc = "writing",
                                      ![r].next = NextAccount(r)]
           ELSE Settle(r, NextAccount(r)) /\ UNCHANGED <<cfg, lock, cand, rt>>
        /\ UNCHANGED <<now, disk>>

\* Faulty: a success of the account as it was before a save.
ProvenStale(r) == ~SuccessIsLate(rt[req[r].acct], req[r].started)

\* setAccountVerified needs configMu only to change the configuration.
Proven(r) == Current(r) /\ ~SuccessIsLate(rt[req[r].acct], req[r].started)
Unproven(a) == Recoverable(a) \/ ~cfg[a].verified

Succeed(r) ==
    LET a == req[r].acct
    IN  /\ At(r, {"streaming"})
        /\ \/ ~Proven(r) /\ Settle(r, "idle") /\ UNCHANGED rt
           \/ /\ Proven(r) /\ ~Unproven(a)
              /\ rt' = [rt EXCEPT ![a] = MarkSuccess(@, now)] /\ Settle(r, "idle")
           \/ Proven(r) /\ Unproven(a) /\ Goto(r, "verifying") /\ UNCHANGED rt
        /\ UNCHANGED <<now, cfg, disk, lock, cand>>

\* All of it is decided again once configMu is held; memory changes only
\* after the write.
Verify(r) ==
    LET a == req[r].acct
        unblocked == IF Recoverable(a) THEN NoReason ELSE cfg[a].blocked
    IN  /\ At(r, {"verifying"}) /\ lock = NoOne
        /\ rt' = IF Proven(r) THEN [rt EXCEPT ![a] = MarkSuccess(@, now)] ELSE rt
        /\ IF Proven(r) /\ Unproven(a)
           THEN /\ StartWrite(r, [cfg EXCEPT ![a].verified = TRUE,
                                             ![a].blocked = unblocked])
                /\ req' = [req EXCEPT ![r].pc = "writing", ![r].next = "idle"]
           ELSE Settle(r, "idle") /\ UNCHANGED <<lock, cand>>
        /\ UNCHANGED <<now, cfg, disk>>

\* finishProbe, and on to the next account, the relayed reply or the end.
Finish(r) ==
    /\ At(r, {"settled"})
    /\ rt' = Released(r) /\ Return(r, req[r].next)
    /\ UNCHANGED <<now, cfg, disk, lock, cand>>

\* Relaying another status may still fail, which counts against the account.
Relay(r) ==
    /\ At(r, {"relaying"})
    /\ \/ UNCHANGED rt
       \/ /\ "failure" \in Environment
          /\ Update(r, CountFailure(rt[req[r].acct], req[r].started, now))
    /\ Return(r, "idle")
    /\ UNCHANGED <<now, cfg, disk, lock, cand>>

-----------------------------------------------------------------------------
(* The end of a configuration write.                                       *)

\* The goroutine that was writing goes on; the others are untouched.
WriterSettles ==
    req' = IF lock \in Requests THEN [req EXCEPT ![lock].pc = "settled"] ELSE req

\* Faulty: installed, and never written.
WriteSkipsDisk ==
    /\ lock # NoOne
    /\ cfg' = cand
    /\ rt' = [a \in Accounts |->
                 IF cand[a].rev = cfg[a].rev THEN rt[a] ELSE EmptyRuntime]
    /\ WriterSettles /\ lock' = NoOne
    /\ UNCHANGED <<now, disk, cand>>

\* The new configuration is installed with a fresh record for every account
\* whose revision changed.  After a block this installs nothing new.
WriteSucceeds ==
    /\ lock # NoOne
    /\ disk' = cand /\ cfg' = cand
    /\ rt' = [a \in Accounts |->
                 IF cand[a].rev = cfg[a].rev THEN rt[a] ELSE EmptyRuntime]
    /\ WriterSettles /\ lock' = NoOne
    /\ UNCHANGED <<now, cand>>

\* A failed write is logged: a block stays in memory, anything else is dropped.
\* saveProtectedJSON may fail after the rename, with the new file in place.
WriteFails ==
    /\ "write_failure" \in Environment
    /\ lock # NoOne
    /\ disk' \in {disk, cand} /\ cand' = cfg
    /\ WriterSettles /\ lock' = NoOne
    /\ UNCHANGED <<now, cfg, rt>>

-----------------------------------------------------------------------------
(* The administrator.                                                      *)

\* New credentials (handleSave, an OAuth login or logout) start over.
Rekeyed(account) ==
    [account EXCEPT !.rev = @ + 1, !.blocked = NoReason, !.verified = FALSE]

\* New balance credentials or quota-reset rules only change the revision.
Touched(account) == [account EXCEPT !.rev = @ + 1]

Save(a) ==
    /\ \/ /\ "rekey" \in Environment /\ cfg[a].rev < MaxRevision
          /\ StartWrite(Admin, [cfg EXCEPT ![a] = Rekeyed(@)])
       \/ /\ "touch" \in Environment /\ cfg[a].rev < MaxRevision
          /\ StartWrite(Admin, [cfg EXCEPT ![a] = Touched(@)])
       \/ /\ "toggle" \in Environment
          /\ StartWrite(Admin, [cfg EXCEPT ![a].enabled = ~@])
    /\ UNCHANGED <<now, cfg, disk, rt, req>>

WakeUp(a) ==
    /\ rt' = [rt EXCEPT ![a] = Wake(@, now)]
    /\ UNCHANGED <<now, cfg, disk, lock, cand, req>>

\* "Verify and restore": handleAccountReset.
Reset(a) ==
    /\ "wake" \in Environment
    /\ cfg[a].enabled /\ cfg[a].blocked \notin HardReasons
    /\ ~rt[a].probe /\ SoftFailure(a)
    /\ WakeUp(a)

\* "Restore now": handleAccountResume.
Resume(a) ==
    /\ "wake" \in Environment
    /\ WaitsForProbe(rt[a]) /\ ~rt[a].probe
    /\ WakeUp(a)

-----------------------------------------------------------------------------
(* Refreshers, restarts and time.                                          *)

\* applyBalance: money is back, so the half-open request may come early.
BalanceRecovers(a) ==
    /\ "balance" \in Environment
    /\ cfg[a].blocked = "quota" /\ rt[a].reason = "quota"
    /\ rt[a].until # Never /\ now <= rt[a].until
    /\ rt' = [rt EXCEPT ![a].until = now]
    /\ UNCHANGED <<now, cfg, disk, lock, cand, req>>

\* refreshCodexUsageAccount with the usage the provider reported.
UsageRefreshed(a) ==
    /\ "usage" \in Environment
    /\ \/ \E delay \in Hints \ {0} :
             rt' = [rt EXCEPT ![a].reason = "quota", ![a].until = now + delay]
       \/ /\ rt[a].reason = "quota"
          /\ rt' = [rt EXCEPT ![a].reason = NoReason, ![a].until = Never]
    /\ UNCHANGED <<now, cfg, disk, lock, cand, req>>

\* The process dies and is started again from its configuration file.
Crash ==
    /\ "crash" \in Environment
    /\ cfg' = disk /\ cand' = disk /\ lock' = NoOne
    /\ rt' = [a \in Accounts |-> EmptyRuntime]
    /\ req' = [r \in Requests |-> Idle]
    /\ UNCHANGED <<now, disk>>

Tick ==
    /\ now < MaxTime /\ now' = now + 1
    /\ UNCHANGED <<cfg, disk, lock, cand, rt, req>>

-----------------------------------------------------------------------------
\* What a goroutine that holds an account does next.
Progress(r) ==
    \/ Abandon(r) \/ Dispatch(r) \/ Gated(r) \/ Disconnect(r) \/ Headers(r)
    \/ AcceptProbe(r) \/ Fail(r) \/ RateLimited(r) \/ Incompatible(r)
    \/ OtherStatus(r) \/ RestrictAccount(r) \/ Succeed(r) \/ Verify(r) \/ Finish(r)
    \/ Relay(r)
    \/ \E reason \in RecoverableReasons : Block(r, reason)

Choose(r) == Select(r) \/ Reject(r) \/ StopWaiting(r)

Next ==
    \/ \E r \in Requests : Arrive(r) \/ Choose(r) \/ Progress(r)
    \/ WriteSucceeds \/ WriteFails
    \/ \E a \in Accounts : \/ Save(a) \/ Reset(a) \/ Resume(a)
                           \/ BalanceRecovers(a) \/ UsageRefreshed(a)
    \/ Crash \/ Tick

Spec == Init /\ [][Next]_vars

-----------------------------------------------------------------------------
(* Properties.                                                             *)

\* r holds the half-open slot of the account as it is configured now.
Holds(r, a) == req[r].probe /\ req[r].acct = a /\ Current(r)

\* A probe slot that is taken belongs to a live request, which will give it
\* back: no path of handleProxy leaks it (finishProbe, router.go:801).
SlotHasOwner == \A a \in Accounts : rt[a].probe => \E r \in Requests : Holds(r, a)

\* "Only one half-open request per account": whatever is saved, blocked or
\* restarted meanwhile, two requests never probe one account revision at once.
SingleProbe ==
    \A a \in Accounts : \A r, s \in Requests : Holds(r, a) /\ Holds(s, a) => r = s

\* A cooldown always has a reason to be probed for, and a network cooldown a
\* failure to back off from: no account cools down outside both candidate lists
\* (regular and probes), and softProbeAt never starts from the zero time.
CooldownHasReason == \A a \in Accounts : Sound(rt[a], now)

\* handleSave and setAccountVerified let go of the mutex while they write the
\* configuration they built: no block that arrives meanwhile is overwritten.
NoLostUpdate ==
    /\ lock = NoOne => cand = cfg
    /\ \A a \in Accounts : cand[a].blocked # cfg[a].blocked =>
          \/ lock = Admin /\ cand[a].rev > cfg[a].rev
          \/ lock \in Requests /\ Recoverable(a) /\ cand[a].blocked = NoReason

\* With writes that succeed, what a restart would load is what the router
\* routes by, whenever nobody is writing.
DiskInSync == lock = NoOne => disk = cfg

\* Between restarts a banned account comes back only with new credentials:
\* no late success, quota answer or save in flight revives it.
HardBlockSticks ==
    [][~Crash => \A a \in Accounts :
          cfg[a].blocked \in HardReasons =>
              cfg'[a].blocked = cfg[a].blocked \/ cfg'[a].rev > cfg[a].rev]_vars

\* Quota and authentication blocks end only with a request of this revision
\* that succeeded (README "failures and switching"), never with a wake-up,
\* a balance, a usage report or an acceptable status.
BlockEndsWithSuccess ==
    [][~Crash => \A a \in Accounts :
          Recoverable(a) /\ cfg'[a].blocked = NoReason /\ cfg'[a].rev = cfg[a].rev =>
              /\ lock \in Requests /\ req[lock].pc = "writing"
              /\ req[lock].acct = a /\ Current(lock)]_vars

\* Evidence is newer than what it changes: a failure is counted once per
\* outage however many requests were in flight, and a success of a request
\* started before the last setback does not end a back-off.
EvidenceIsFresh ==
    [][~Crash => \A a \in Accounts :
          cfg'[a] = cfg[a] =>
          /\ rt'[a].failures > rt[a].failures =>
                \E r \in Requests : req[r].acct = a /\ Current(r)
                                   /\ req[r].started > rt[a].barrier
          /\ rt[a].recovery > 0 /\ rt'[a].recovery = 0
             /\ cfg[a].blocked \notin HardReasons =>
                \E r \in Requests : req[r].acct = a /\ Current(r)
                                   /\ req[r].started >= rt[a].barrier]_vars

\* What a request of an earlier revision reports changes nothing: neither the
\* new record's health nor its probe slot.
StaleIsHarmless ==
    [][\A r \in Requests :
          LET reports == /\ req[r].pc \notin {"idle", "choosing", "writing"}
                         /\ ~Current(r) /\ req'[r] # req[r] /\ ~Crash
          IN  reports => rt' = rt /\ cfg' = cfg]_vars

\* A slot that is taken is given back, given that replies end (timeouts), the
\* disk answers, and configMu is granted to a waiter in the end (sync.Mutex).
SlotIsReturned == \A a \in Accounts : rt[a].probe ~> ~rt[a].probe

-----------------------------------------------------------------------------
(* The inductive invariant behind SlotHasOwner, SingleProbe, NoLostUpdate,  *)
(* CooldownHasReason and HardBlockSticks.                                   *)

\* configMu and the goroutine that writes go together, and a write never
\* lowers a revision.
WriterOK ==
    /\ \A r \in Requests : At(r, {"writing"}) <=> lock = r
    /\ \A a \in Accounts : cand[a].rev >= cfg[a].rev

\* A copy of an account is never newer than the configured one, only a chosen
\* account is probed, only a probe waits to report its headers, and none relays
\* another status.
CopyOK ==
    \A r \in Requests :
        /\ req[r].acct # NoOne => req[r].rev <= cfg[req[r].acct].rev
        /\ req[r].probe => req[r].acct # NoOne
        /\ At(r, {"idle", "choosing"}) <=> req[r].acct = NoOne
        /\ At(r, {"accepting"}) => req[r].probe
        /\ At(r, {"relaying"}) => ~req[r].probe

\* While a request holds the slot it is taken, unless the account was banned.
HolderOK ==
    \A r \in Requests : \A a \in Accounts :
        Holds(r, a) => rt[a].probe \/ cfg[a].blocked \in HardReasons

SlotInv == WriterOK /\ NoLostUpdate /\ CopyOK /\ HolderOK /\ SlotHasOwner /\ SingleProbe

Fairness ==
    /\ WF_vars(WriteSucceeds)
    /\ \A r \in Requests : WF_vars(Progress(r)) /\ SF_vars(Verify(r))

FairSpec == Spec /\ Fairness

-----------------------------------------------------------------------------
(* What the documentation says and the code does not do.                   *)

\* README.md:89: when a quota cooldown is over one half-open request is let
\* through and its success restores the account.  If that request fails in the
\* network the account is left to emergencies: while another account works, no
\* request probes it any more.
ExpiredBlockIsProbed ==
    \A r \in Requests : \A a \in Accounts :
        /\ At(r, {"choosing"}) /\ Eligible(r, a) /\ Recoverable(a)
        /\ ~Cooling(rt[a], now) /\ ~rt[a].probe /\ Regular(r) # {}
        => a \in Candidates(r)

=============================================================================
