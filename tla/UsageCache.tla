----------------------------- MODULE UsageCache -----------------------------
(* The cached usage reports of one Codex OAuth account (codex_usage.go) and   *)
(* the goroutines that refresh them (admin.go, router.go), beside quota       *)
(* errors, token refreshes and saves, which outdate what a report in flight   *)
(* was asked for.  A report is what it says of the limit and the version of   *)
(* the cache it was asked under; its windows and its credits are left out.    *)
EXTENDS Naturals

CONSTANTS
    Callers,        \* goroutines in refreshCodexUsageAccount
    None,
    MaxRevision, MaxCredentials, MaxVersion     \* bounds

ASSUME UsageAssumption ==
    /\ {MaxRevision, MaxCredentials, MaxVersion} \subseteq Nat \ {0}
    /\ None \notin Callers

VARIABLES
    revision,       \* of the saved account
    credentials,    \* the access token it has, as a number
    installing,     \* configMu is held, the cache not yet invalidated
    entry,          \* cache.entries[id]
    version,        \* cache.versions[id]
    leader,         \* the caller whose fetch is cache.inflight[id]
    usage,          \* runtime.CodexUsage
    quota,          \* runtime.CooldownReason is "quota"
    caller          \* caller[c]: the local variables of a caller

usageVars == <<revision, credentials, installing, entry, version, leader, usage, quota, caller>>

account == <<revision, credentials, installing>>
runtime == <<usage, quota>>

Idle == [pc |-> "idle", rev |-> 0, cred |-> 0, asked |-> 0, report |-> None]

UsageInit ==
    /\ revision = 1 /\ credentials = 1 /\ installing = FALSE
    /\ entry = None /\ version = 0 /\ leader = None
    /\ usage = None /\ quota = FALSE
    /\ caller = [c \in Callers |-> Idle]

At(c, places) == caller[c].pc \in places

\* A copy of the account, its token refreshed if need be.
Start(c) ==
    /\ At(c, {"idle"})
    /\ caller' = [caller EXCEPT ![c] =
           [Idle EXCEPT !.pc = "ask", !.rev = revision, !.cred = credentials]]
    /\ UNCHANGED <<account, entry, version, leader, runtime>>

Hits(c) == entry # None /\ entry.cred = caller[c].cred /\ entry.fresh

\* Refresh, the first critical section: a fresh report of these credentials,
\* a fetch in flight to wait for, or a fetch of its own.
Hit(c) ==
    /\ At(c, {"ask"}) /\ Hits(c)
    /\ caller' = [caller EXCEPT ![c].pc = "apply", ![c].report = entry.report]
    /\ UNCHANGED <<account, entry, version, leader, runtime>>

Wait(c) ==
    /\ At(c, {"ask"}) /\ ~Hits(c) /\ leader # None
    /\ caller' = [caller EXCEPT ![c].pc = "wait"]
    /\ UNCHANGED <<account, entry, version, leader, runtime>>

Lead(c) ==
    /\ At(c, {"ask"}) /\ ~Hits(c) /\ leader = None
    /\ leader' = c
    /\ caller' = [caller EXCEPT ![c].pc = "fetch", ![c].asked = version]
    /\ UNCHANGED <<account, entry, version, runtime>>

\* What the callers of Refresh get: those that waited for other credentials
\* look again, no report is an error.
Answered(c, report) ==
    [d \in Callers |->
        CASE d = c \/ (At(d, {"wait"}) /\ caller[d].cred = caller[c].cred) ->
                 IF report = None THEN Idle
                 ELSE [caller[d] EXCEPT !.pc = "apply", !.asked = 0, !.report = report]
          [] At(d, {"wait"}) /\ caller[d].cred # caller[c].cred ->
                 [caller[d] EXCEPT !.pc = "ask"]
          [] OTHER -> caller[d]]

\* Faulty: what was asked before an invalidation is stored all the same.
LandAnyway(c) ==
    \E report \in {None} \union [asked : {caller[c].asked}, limit : BOOLEAN] :
        /\ At(c, {"fetch"})
        /\ entry' = IF report = None THEN entry
                    ELSE [cred |-> caller[c].cred, report |-> report, fresh |-> TRUE]
        /\ caller' = Answered(c, report)
        /\ leader' = None
        /\ UNCHANGED <<account, version, runtime>>

\* Refresh, the second one: the reply or the error.  When the version has
\* changed, the report is not stored and gives way to what is stored.
Land(c) ==
    \E report \in {None} \union [asked : {caller[c].asked}, limit : BOOLEAN] :
        LET outdated == version # caller[c].asked
        IN  /\ At(c, {"fetch"})
            /\ entry' = IF outdated \/ report = None THEN entry
                        ELSE [cred |-> caller[c].cred, report |-> report, fresh |-> TRUE]
            /\ caller' = Answered(c, IF outdated /\ entry # None THEN entry.report ELSE report)
            /\ leader' = None
            /\ UNCHANGED <<account, version, runtime>>

\* A follower's own context ends.
GiveUp(c) ==
    /\ At(c, {"wait"})
    /\ caller' = [caller EXCEPT ![c] = Idle]
    /\ UNCHANGED <<account, entry, version, leader, runtime>>

\* The end of refreshCodexUsageAccount, under application.mu.
Apply(c) ==
    /\ At(c, {"apply"})
    /\ IF caller[c].rev = revision
       THEN usage' = caller[c].report /\ quota' = caller[c].report.limit
       ELSE UNCHANGED runtime
    /\ caller' = [caller EXCEPT ![c] = Idle]
    /\ UNCHANGED <<account, entry, version, leader>>

\* blockAccountFor with "quota": MarkLimitReached runs under both mutexes.
\* An entry that was there keeps its credentials; a new one has none.
Limit ==
    LET limited == [asked |-> version + 1, limit |-> TRUE]
    IN  /\ ~installing /\ version < MaxVersion
        /\ version' = version + 1
        /\ entry' = [cred |-> IF entry = None THEN 0 ELSE entry.cred,
                     report |-> limited, fresh |-> TRUE]
        /\ usage' = limited /\ quota' = TRUE
        /\ UNCHANGED <<account, leader, caller>>

\* persistCodexCredentials after a token refresh, and a login, a logout or a
\* save: the account is installed under application.mu, the cache is
\* invalidated afterwards, configMu held meanwhile.
Renew ==
    /\ ~installing /\ credentials < MaxCredentials /\ version < MaxVersion
    /\ credentials' = credentials + 1 /\ installing' = TRUE
    /\ UNCHANGED <<revision, entry, version, leader, runtime, caller>>

Replace ==
    /\ ~installing /\ revision < MaxRevision /\ version < MaxVersion
    /\ credentials < MaxCredentials
    /\ revision' = revision + 1 /\ credentials' = credentials + 1
    /\ installing' = TRUE
    /\ usage' = None /\ quota' = FALSE
    /\ UNCHANGED <<entry, version, leader, caller>>

Invalidate ==
    /\ installing /\ installing' = FALSE
    /\ entry' = None /\ version' = version + 1
    /\ UNCHANGED <<revision, credentials, leader, runtime, caller>>

\* The report's time is over.
Expire ==
    /\ entry # None /\ entry.fresh
    /\ entry' = [entry EXCEPT !.fresh = FALSE]
    /\ UNCHANGED <<account, version, leader, runtime, caller>>

Refresh(c) ==
    \/ Start(c) \/ Hit(c) \/ Wait(c) \/ Lead(c) \/ Land(c) \/ GiveUp(c) \/ Apply(c)

UsageNext ==
    \/ \E c \in Callers : Refresh(c)
    \/ Limit \/ Renew \/ Replace \/ Invalidate \/ Expire

\* A fetch ends with its reply or its time limit, a critical section ends.
UsageFairness == \A c \in Callers : WF_usageVars(Hit(c) \/ Wait(c) \/ Lead(c) \/ Land(c) \/ Apply(c))

UsageSpec == UsageInit /\ [][UsageNext]_usageVars /\ UsageFairness

-----------------------------------------------------------------------------
(* Properties.                                                               *)

Reports == [asked : 0..MaxVersion, limit : BOOLEAN]

UsageTypeOK ==
    /\ revision \in 1..MaxRevision /\ credentials \in 1..MaxCredentials
    /\ installing \in BOOLEAN /\ version \in 0..MaxVersion
    /\ entry \in {None} \union
           [cred : 0..MaxCredentials, report : Reports, fresh : BOOLEAN]
    /\ leader \in {None} \union Callers
    /\ usage \in {None} \union Reports /\ quota \in BOOLEAN
    /\ caller \in [Callers ->
           [pc : {"idle", "ask", "wait", "fetch", "apply"},
            rev : 0..MaxRevision, cred : 0..MaxCredentials,
            asked : 0..MaxVersion, report : {None} \union Reports]]

\* One fetch at a time, and nobody waits for a fetch that is not in flight.
OneFetch ==
    \A c \in Callers :
        /\ At(c, {"fetch"}) <=> leader = c
        /\ At(c, {"wait"}) => leader # None

\* A report asked for before an invalidation or a quota error is never cached,
\* and what a caller gets is no older than what the cache held at that moment
\* (codex_usage.go:282).
NewsIsKept ==
    [][/\ entry' # None => entry'.report.asked = version'
       /\ \A c \in Callers :
              ~At(c, {"apply"}) /\ At(c, {"apply"})' /\ entry # None
                  => caller'[c].report.asked = version]_usageVars

\* Everyone who waits for somebody else's fetch is answered or looks again.
FollowersReturn == \A c \in Callers : At(c, {"wait"}) ~> ~At(c, {"wait"})
=============================================================================
