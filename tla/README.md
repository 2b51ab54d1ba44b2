# Models and proofs for codex-quota-router

The router is one Go process. It accepts model API requests from local clients,
picks one of the configured upstream accounts for each, forwards the request and
decides from the reply whether the account stays in service. This directory
holds TLA+ models of its core, the TLC runs that check them on small instances
and the TLAPS proofs of what matters most.

## 1. Inventory of the system

| Component (source) | State it keeps | Operations | Interacts with |
|---|---|---|---|
| Account routing and failover (`router.go`, `proxy.go`) | `application.cfg`, `application.runtime` (one health record per account), the half-open probe slot of each account, `probeChanged` | `selectAccountWithMode`, `finishAccountProbe`, `setAccountVerified`, `blockAccountFor`, `cooldownAccountFor*`, `clearUpstreamFailures`, the attempt loop of `handleProxy` | every component below, under `mu` and `configMu` |
| Routing strategies (`router.go`) | round-robin cursor, least-used batch, balances, quota resets | ordering of the candidates | routing |
| Codex traffic gate (`proxy.go`) | two token buckets, in-flight counts, the provider's cooldown and strikes | `acquire`, `release`, `tripProviderRateLimit` | `sendUpstream`, reply bodies |
| Request body budget (`proxy.go`) | bytes in use, the channel closed by a release | `acquire`, `tryAcquire`, `release` | `handleProxy`, Responses context |
| Codex WebSocket pool (`codex_websocket.go`) | connections by account, leases, generations | `acquire`, `release`, `expire`, `send`, `pump` | `sendCodexUpstream` |
| Codex OAuth tokens (`codex_oauth.go`, `admin.go`) | refresh calls in flight, stored tokens | `refreshTokens`, `persistCodexCredentials`, `clearCodexCredentials` | saves, usage refresh, requests |
| Codex browser login (`codex_oauth.go`) | sessions, states, the callback server | `startBrowserLogin`, `poll`, `callback`, `expire` | administration |
| Codex usage cache (`codex_usage.go`) | cached usage, fetches in flight | `Refresh`, `Invalidate`, `MarkLimitReached` | routing |
| Responses conversation cache (`responses_state.go`) | stored conversations, their account and revision, their size | `lookup`, `store`, `evictOldest`, `prepareResponsesRequest` | `handleProxy`, routing preference |
| Configuration file (`config.go`) | the file, its backup of the previous version | `loadConfig`, `backupConfigVersion`, `saveProtectedJSON` | everything that persists |
| Balance refresh (`balance.go`) | balances, failures, sessions | `refreshBalances`, `applyBalance` | routing, quota cooldowns |
| Request statistics (`request_stats.go`) | counters, dirty flag, timer | mark dirty, save, flush | `handleProxy`, shutdown |
| Server lifecycle (`server_lifecycle.go`, `main.go`) | stop request, server state | serve, stop, shut down | tray, statistics |
| Administration (`admin.go`, `security.go`) | sessions, login attempts | save, reset, resume, login, logout | routing, configuration |
| Logging (`logging.go`) | current file, size, backups | write, rotate, prune | everything |
| Protocol conversion, transport, web pages, tray, autostart, packaging | none that outlives a message, or the operating system's | parsing, TLS, display | not modelled |

What is hard in it: handlers, the administrator and three background refreshers
interleave on two mutexes, of which one (`configMu`) is held over disk writes while
the other (`mu`) is free; handlers work with a *copy* of the account they chose,
which a save may outdate; several requests in flight report contradictory
evidence about one account in any order; memory may change before the disk does
and the process may die in between; probe slots, gate slots, leases and bytes
must be given back on each of many paths. `PROJECT.json` lists these hazards at
their lines, with the properties that would catch each.

What makes each component correct, in a sentence: routing sends traffic only to
accounts nothing speaks against, lets one request at a time find out whether an
account is back, and never loses, revives or misattributes a block; the gate and
the budget never exceed their limits and return what was taken; the pool gives a
connection to one lease at a time and closes each once; a rotating refresh token
is used once and its successor is never lost; a conversation is replayed only to
the account revision that holds it, or in full; the configuration survives a crash
at any write; statistics marked dirty reach the disk at an orderly shutdown.

## 2. Plan

In order of importance; each module has a run and, where marked, proofs.

1. `AccountRuntime`, `AccountRouting` - routing and failover **(done, proved)**
2. `CodexTrafficGate`, `ByteBudget`, `ProxyResources` - what a request holds while
   it runs **(done, proved)**
3. `CodexTokenRefresh` - single-flight refresh and its persistence
   **(done, proved)**
4. `CodexWebSocketPool`, `ExclusiveConnections` - leases, expiry, generations
   **(done, proved)**
5. `ResponsesState` - conversations across account changes and eviction
   **(done, proved)**
6. `UsageCache`, `BalanceRefresh`, `Refreshers` - what routing knows of quotas
   **(done, proved)**
7. `ConfigFile`, `RequestStats`, `ServerLifecycle`, `ProcessLife` - upgrades, crash
   safety, shutdown **(done, proved)**
8. `RoutingStrategies`, `Routing` - which candidate is taken **(done, proved)**
9. Not begun: `BrowserLogin`, `LogRotation`

## 3. Account routing and failover

### Modules

* `AccountRuntime` - the record `accountRuntime` and the pure changes made to it
  under the mutex. One operator per Go function: `CountFailure` is
  `cooldownAccountForFailure`, `RecoveryCooldown` is `applyRecoveryCooldownLocked`,
  `Accept` is `finishAccountProbe(account, true)`, `MarkSuccess` is
  `markRuntimeSuccessLocked`, and so on (`PROJECT.json` "map" names them all).
* `AccountRouting` - the state machine. Each request is a `handleProxy` goroutine
  with a program counter; an action is one critical section of `application.mu`.
  `Select` is `selectAccountWithMode` with the candidate lists `regular`,
  `probes` and `emergency`; `Fail`, `RateLimited`, `Block`, `RestrictAccount`,
  `Incompatible`, `OtherStatus`, `Headers`/`AcceptProbe` and `Succeed`/`Verify`
  are the outcomes of an attempt; `Finish` is `finishProbe`.
  `Save`, `Reset`, `Resume` are the administrator, `BalanceRecovers` and
  `UsageRefreshed` the refreshers, `WriteSucceeds`/`WriteFails` the end of a
  configuration write, `Crash` a restart from the file.
* `RoutingStrategies` - the part of `selectAccountWithMode` that takes one of the
  candidates, with what it keeps between two choices. `AccountRouting` lets `Select`
  take any candidate, and here a choice may find any accounts as candidates, with
  any balances and resets (`view`): what holds in either holds in the code, where the
  two are one critical section.
* `Routing` - both: a behaviour is one of `AccountRouting` or one of
  `RoutingStrategies` (`subject`), since they share no variable.
* `AccountRoutingProofs` - lemmas and theorems about both; `Sums` has the induction
  they use.
* `MCAccountRouting`, `MCRoutingStrategies` - constants of the TLC runs.

### State

| Variable | In the code |
|---|---|
| `now` | `a.now()`; 0 is the zero `time.Time` |
| `cfg` | `a.cfg.Accounts`: revision, block, enabled, verified |
| `disk` | the configuration file |
| `lock`, `cand` | who holds `configMu` over a write, and what is being written |
| `rt` | `a.runtime` |
| `req` | the local variables of the handlers: the copy of the account (its revision), `probe`, `failureStartedAt`, `attempted` |

`configMu` matters only while a write is under way: the critical sections that
take it and write nothing are atomic here, guarded by `lock = NoOne`. A
configuration that was written is installed in the same step, since nobody can
observe the difference except by crashing between them, which equals a crash
right after.

### Abstractions

* Time is discrete and the back-off ladder 10 s, 30 s, 5 min, 15 min, 30 min is a
  constant. The runs use `<<1, 2, 3>>` with the soft-probe cap at 2 and the
  failure reset at 3, which keeps the order between steps, cap and reset.
* Strategies only order candidates, so in `AccountRouting` `Select` takes any
  candidate; ties of the forced-probe order are open too. `AssignedRequests` and the last route are left out.
* Adding and deleting accounts, credits and usage windows that gate candidates,
  display-only health states and `LastUnauthorizedAt` are left out.
* `Current` compares revisions. `sameAccountRevision` also compares the settings that only
  change with a revision, and `DisableCodexCredits`, which a save changes without one: the
  model leaves that switch out. In the code a report that meets such a save
  is dropped like one by a stale copy, while its probe slot, released by the revision alone
  (`finishAccountProbe`), is still given back.
* `WriteFails` leaves the old file or the new one on disk: `saveProtectedJSON` may fail
  after its rename.
* What a reply says is chosen freely: every status and body the code
  distinguishes is an outcome that may come at any time. Which outcomes an
  instance allows is its constant `Environment`.

### Runs

| Run | Instance | What it shows |
|---|---|---|
| `RoutingOutcomes` | 1 account, 3 requests, time 3 | every outcome against every other, failing writes and crashes: one owner per slot, one probe, readable records, fresh evidence |
| `RoutingAdmin` | 1 account, 2 requests, time 2, revision 2, fair | requests beside saves, rekeys, wake-ups and refreshers: memory and disk agree, blocks end with a success, stale copies are harmless, a taken half-open slot is given back |
| `RoutingRestart` | 2 accounts, 2 requests, time 2; apart from them, 3 accounts, batches of 2, 3 assigned requests at a time | failing writes and crashes at any point: no update is lost, bans stick; every strategy beside saves, probes and restarts |
| `ProbeViolation` | small | the finding below |

Why the bounds are enough: every property relates one account to the requests
that hold a copy of it. Three requests are a prober, a late success and a late
failure; two revisions are a current and a stale copy; the time bound lets a
cooldown start, expire and start again. A second account is needed only for failover
(`RoutingRestart`, `ProbeViolation`), whose `tried` set and `Foremost` it exercises.
Every run is exhaustive; deadlock is checked,
since an idle request can always arrive.

Fairness (`FairSpec`): weak fairness of each handler's own steps, because every
wait in `handleProxy` has a timeout (headers, body idle, error inspection) or ends
with the client; weak fairness of the disk write; strong fairness of
`Verify`, because `sync.Mutex` hands over to the longest waiter once it has
starved for 1 ms, although other writers take `configMu` again and again.

### Strategies

`cursor`, `batch` and `assigned` are `roundRobinCursor`, `leastUsedBatchAccount` with
`leastUsedBatchLeft`, and `AssignedRequests`. `Rotate`, `TakeLeastUsed` and `TakeFirst`
are the branches of the `switch`; `Winner` is the loop over the candidates in the order
of the list (the account `selected` after each place), `Beats` the comparison in it. `Prefer` is the account of the conversation,
`Force` a choice without a regular account, `FindNobody` one without any; `Save` is
the part of `handleSave` that replaces the list, the counts and the strategy. Three
history variables remember what no variable of the code does.

* `EveryoneGetsATurn`: an account that is always a candidate is passed over fewer times
  in a row than the list is long, whatever the other accounts do. The turn
  belongs to a place in the list, so a save may pass an account over once more: the count
  starts again when the list changes.
* `UseIsCompared`: not more than a batch of choices in a row pass over a less used
  candidate. The batch survives a save, and the account it names may have been deleted.
* `FirstIsTaken`: what the loops keep is first in the order README.md:25-31 gives,
  written as a rank. A blocked account whose probe is due is a candidate, but
  `effectiveStrategyLocked` looks only at available accounts: its unknown balance is the
  amount 0, which wins under `lowest_balance`, although README.md:37 says that an
  unknown balance is never taken for 0. The property leaves such accounts out.

Three accounts are one to take, one to pass over and one that comes and goes; batches
of two are long enough to be interrupted and to end; three assignments at once,
which restarts and saves take back, let a batch run past its end.

### Finding

* `ProbeViolation`: README.md:89 promises a half-open request when a quota
  cooldown is over; if that request fails in the network, the account is kept for
  emergencies and not probed while any other account works.

Two more statements differ from the code, both plain to read there and so without a
run: README.md:93 says "restore now" clears the suspension and the failure count
without a test request, while `handleAccountResume` only makes the half-open
request due; and README.md:95 says five quiet minutes after a cooldown make the next
failure count as the first, while a probe whose headers arrived and whose client then
left drops the cooldown and with it the moment the quiet is counted from, so the
count survives any quiet time.

### Proofs

`AccountRoutingProofs` proves, for every finite or infinite set of accounts and
requests, every subset of the environment, every ladder and every bound:

| Theorem | Statement |
|---|---|
| `TypeCorrect` | `Spec => []TypeOK` |
| `HealthSound` | `Spec => []CooldownHasReason` |
| `SlotInvariant` | `Spec => []SlotInv` |
| `SlotsAreOwned`, `OneProbeAtATime`, `NoUpdateIsLost` | `[]SlotHasOwner`, `[]SingleProbe`, `[]NoLostUpdate` |
| `BansStick` | `HardBlockSticks` |
| `OldReportsChangeNothing` | `StaleIsHarmless` |
| `EvidenceInvariant` | `Spec => []EvidenceInv` |
| `SuccessEndsBlocks` | `BlockEndsWithSuccess` |
| `OldEvidenceIsIgnored` | `EvidenceIsFresh` |
| `DiskFollows` | `[]DiskInSync`, if writes do not fail |
| `RoutingIsBoth` | `RoutingSpec => Spec /\ Order!Spec` |
| `OrderInvariant` | `Order!Spec => []OrderInv` |
| `ChoiceTypes` | `RoutingSpec => []Order!TypeOK` |
| `TurnsComeRound`, `BatchesEnd`, `LoopsFindTheFirst` | `[]EveryoneGetsATurn`, `[]UseIsCompared`, `[]FirstIsTaken` |

The inductive invariant is `IInv == TypeOK /\ CooldownHasReason /\ SlotInv`. None
of the checked properties is inductive alone: that a slot's owner is unique
needs that a current copy with `probe` implies the slot is taken (`HolderOK`),
which needs that copies are never newer than the configuration (`CopyOK`), which
needs that a write never lowers a revision (`WriterOK`). Bans make an exception:
`blockAccountLocked` clears the slot under the request that holds it, which is
sound only because a banned account is not eligible until it is rekeyed, when
that request's copy is stale. The assumptions are `LadderAssumption` (a non-empty
ladder of positive steps) and `RoutingAssumption` (the special values differ, the
environment names known events, bounds are positive), which TLC evaluates in every run.

The action properties on evidence need more than `IInv`, since they speak of who
decided on a write and when. `EvidenceInv` is a second inductive invariant on top of it:
whoever holds `configMu` works with the current copy and changes no block but its own
account's (`OwnWrite`), and whatever reports an outcome was sent at some time
(`StartedOK`); without the first, a write in flight could end a block of another
account, without the second the report of a request that was never sent would count as
older than every setback. Each property then follows action by action.

The strategies are proved for every finite set of accounts, every batch size, and
every set of views of the type `View` (`StrategiesAssumption`), under an invariant of
their own, `OrderInv`:

* No turn count is inductive alone: `skipped[a] < Len(list)` needs that an account
  that was passed over has come closer to the cursor each time. `TurnOK` says
  `skipped[a]` and the distance of `a` together stay below the length of the list; a turn
  that is taken moves the cursor past the account taken, which no candidate was
  nearer to, so each one that was passed over loses at least the place it gains.
* `BatchOK`: the choices that passed over a less used account and what is left of the
  batch together stay below `BatchSize`. A batch that goes on trades one for the other;
  a new one begins with a comparison, after which nobody is less used.
* `WinnerWins` is about the loop, for any comparison that is a weak order: it ends with
  the first candidate that no other beats, by induction on the list. `LeastUsedWins` is
  it for the counts; `ComparedIsWeak` shows the other comparisons to be weak orders, and
  `BeforeIs` that who ranks before the winner would have beaten it, or stands before it
  in the list as an equal: neither is left.

Only model-checked: liveness (`SlotIsReturned`), which is beyond the prover.

## 4. What a request holds: the traffic gate and the body budget

### Modules

* `CodexTrafficGate` - `codexTrafficGate`: two token buckets, in-flight counts, the
  provider's cooldown. `GateAdmits`, `GateRefuses` and `GateRelease` are `acquire` and
  the function it returns, `Trip` is `tripProviderRateLimit`.
* `ByteBudget` - `byteBudget`: `TakeBytes` (`tryAcquire`, and `acquire` that succeeds),
  `Park` (`acquire` that waits) and `Return` (`release`).
* `ProxyResources` - `handleProxy` and `sendUpstream` seen from those two: where each
  request takes, exchanges and gives back bytes and its place. One action per
  critical section or way out.
* `ProxyResourcesProofs` - lemmas and theorems; `Sums` - lemmas about sums over finite
  sets. `MCProxyResources` - constants.

| Variable | In the code |
|---|---|
| `now`, `admitted` | the clock; history of admissions, for `RateIsKept` only |
| `global`, `accounts` | the buckets: tokens, `lastRefill`, `inFlight` |
| `until`, `limited`, `strikes` | `providerUntil`, `providerLastRateLimit`, `providerStrikes` |
| `used`, `parked` | bytes taken; requests whose `changed` channel is still open |
| `client` | a handler: where it is, `reservation` plus the capture (`held`), the size it waits for (`want`) and where it goes then (`next`), and the last attempt's account (`key`) with whether its release has not run (`live`) |

Abstractions: events happen at whole seconds, so that buckets hold whole tokens (rates are
whole numbers); between two seconds the code keeps fractions. Sizes are small units. The account is any
(`AccountRouting` decides), and so are the lengths of the prepared body, of the
stored conversation and of the replay. Deferred releases happen at once when the
handler returns. The jitter is a choice of 0 to a quarter of the step: 0 for the
small steps of the runs. That a conversation is replayed at most once
(`bodyIsReplay`) is carried by `next` staying `ready`.

### Runs

`ProxyResources`: two requests, two Codex accounts and any number of API-key
attempts, 2 units of memory, bodies of 0 to 2 units, one place per account and two
in all, time 2, `Retry-After` none or 3. Bigger instances (three requests at time 1,
time 3) show nothing new. Every collision takes two requests: one holds what the
other wants. Time 2 has a refill, a refusal that refills, and a second 429.

| Property | Hazard |
|---|---|
| `CountsMatch` | a body closed by a timer, the handler and a deferred call gives back its place once |
| `BytesAreHeld` | bytes returned twice or never, on any of the returns of `handleProxy` |
| `NoLostWakeup` | a release between the check and the wait |
| `RateIsKept` | lazy refills, also by refused requests, over any interval |
| `CooldownIsKept` | 429 replies that arrive late, with a shorter delay |

Requests that hold bytes may all wait for each other; then `GiveUp`, the two-minute
timeout, is the only step of theirs that is left. No statement of the repository
excludes it. No liveness is claimed here: the budget has no queue, and a large
request may be overtaken by small ones until it times out.

Finding, `SlotViolation`: README.md:288 limits *requests in flight*, and a stream
gives its place back when its body is closed. `handleProxy` returns 409
`session_account_changed` (proxy.go:513-520) without closing `previous.Body`. If the
conversation's account is saved after a first attempt failed with, say, 429, the
place of that attempt is lost until the process ends. The environment event
`late_change` is this save; the `ProxyResources` run leaves it out, so that
`CountsMatch` is checked for all other ways out.

### Proofs

`ProxyResourcesProofs` proves `ResourceInvariance`, that `IInv` is an invariant, for
every finite set of requests, any set of accounts, all limits, rates, ladders and
sizes; from it follow `PlacesAreCounted` (`CountsMatch`), `SleepersAreWoken`
(`NoLostWakeup`) and `CooldownLasts` (`CooldownIsKept`).

`IInv == Shape /\ Placed /\ Accurate /\ NoLostWakeup`. A count can be compared with
the open attempts only if a place is held from the sending of an attempt to the
next choice and nowhere else (`Placed`): otherwise a refusal or a second admission
would end or begin an attempt without the gate. `Accurate` is `CountsMatch` under the
hypothesis that no `late_change` happens; the other parts need no hypothesis. The
counting steps rest on the library's facts on adding and removing an element of a
finite set. `NoLostWakeup` holds because bytes are only given back by `Return`, which
wakes everybody, and a request that looks again parks only after it looked.

`BytesAreHeld`, `RateIsKept` and `TypeOK` speak of sums over sets, which the community
modules fold. `Sums` derives from the definition of the fold that the sum of a set is
what an element adds to the sum of the rest, whichever element; that equal terms
have equal sums; and how a sum changes with one term. It uses well-founded induction
over the sizes of sets, with a set in the place of the library's operator argument.

* `BytesAreOwned`: `BytesInv == used <= Limit /\ BytesAreHeld /\ (nobody waits for more
  than Limit)` is inductive beside `IInv`; the last part because what `Resize` asks
  for is a part of a length.
* `RateIsNotExceeded`: `RateIsKept` is not inductive, since it does not see the
  tokens that are left. `RateInv` says of each bucket that what was admitted since
  any second *and* what a refill would leave in the bucket now are together no more
  than a burst and what the rate has added since (`Metered`): a token is either still
  there or was spent. A refusal refills and changes nothing of this; an admission
  moves one from the one side to the other; a second adds at most the rate to
  the tokens, and exactly the rate to the bound.
* `TypeCorrect` follows from the three invariants.

## 5. Refreshing Codex tokens

`CodexTokenRefresh` (`codex_oauth.go`, the credential parts of `admin.go`) has
one account, whose refresh tokens are numbered as the provider issues them, and
goroutines (`Callers`) that find its access token expired.

| Variable | In the code |
|---|---|
| `cfg`, `disk`, `lock`, `cand` | the account's revision and token in memory, on disk, and the write under `configMu` |
| `refreshes` | `codexAuthManager.refreshes`, by token: the code's key is account and token, and the account is fixed here |
| `caller` | a goroutine in `ensureCodexCredentials`: its copy of the account, the result it received |
| `login` | the browser session between its start and the status poll that stores its tokens |
| `issued`, `valid`, `successor` | the provider (external): tokens rotate, a used one is refused |
| `intact` | history: no reply, write or process was lost |

`Take`, `Refresh`, `Submit`, `Complete`, `Persist` are the steps of a goroutine;
`Save`, `Logout`, `StartLogin` ... `FinishLogin` the administrator's. A provider
that detects reuse and revokes the whole line is not assumed.

`TokenRefresh` (2 callers, 4 tokens, 2 revisions, every event) checks that
a stored token moves only to its own replacement (`TokensMoveForward`), that a replacement is
always in the hands of somebody about to store it (`ReplacementIsKept`), and that
followers are released (`FollowersAreReleased`; weak fairness of `Submit`, which
the HTTP timeout justifies, and of `Complete`, which waits for nobody). Two
callers give a leader and a follower, or an early and a late refresher of one
token; four tokens are two rotations and a login.

`TokenViolation` is a finding: codex_oauth.go:297 says a rotating token is
submitted once, but the call's entry is deleted before the new token is stored; a
goroutine holding an older copy submits the old token again, is refused, and the
router blocks an account whose stored credentials are good.

### Proofs

`CodexTokenRefreshProofs` proves, for every set of goroutines and any number of tokens
and revisions, `TypeCorrect`, `ReplacementIsNotDropped` (`ReplacementIsKept`),
`StoredTokenMovesForward` (`TokensMoveForward`) and `CallsAreCoalesced`.

The inductive invariant is `TokenInv`. That a replacement is on its way says nothing of
the step that stores it, unless it is also what the provider accepts and in nobody's
copy (`ReplacementsOK`); whether a goroutine may store it is decided by comparing
revisions and tokens, which is right because a copy of the stored token was made in
its revision (`CopiesOK`); and a login must bring a token that nobody has
(`LoginOK`, `AdminWrites`), or the old line and the new one would mix. `WriterOK`
ties `configMu` to the one who writes and to what is written. `CallsAreCoalesced` is the
safety half of `FollowersAreReleased`: every follower has a leader, one per token. The
assumption `TokenAssumption` says that there are tokens and revisions and that
the special values differ. Liveness (`FollowersAreReleased`) stays with TLC.

## 6. The WebSocket pool

`CodexWebSocketPool` (`codex_websocket.go`) follows each lease from `acquire` to
`release`. Every critical section of `pool.mu` is an action; dialling and sending
are outside of it.

| Variable | In the code |
|---|---|
| `entries`, `busy`, `generation`, `old` | the cache: which connection each key has, `entry.busy`, `entry.idleGeneration`, older than `codexWebSocketMaxAge` |
| `armed`, `fired` | idle timers that run, and those whose goroutine waits for `pool.mu` |
| `open`, `closed` | what became of each connection |
| `client` | a request: its key, connection, whether the lease has an entry (`pooled`), whether `releaseOnce` is unused (`live`) |

An entry never changes its connection, so the connection stands for it. Closing
a connection after the mutex was left is part of the step that removed it from
the pool: nobody else can reach it. When the pump, the body and the context end a
reply together, `finishOnce` lets one through: `PumpEnds` (kept or too old),
`PumpFails` (also the context) and `CloseBody` are the three winners. `Send` needs
a live lease because a context that ended makes the send an error. Not modelled:
frames, headers, and what an answer says beyond "keep".

`ExclusiveConnections` is the abstract specification: each connection has a
holder and the key it was dialled for; it is dialled, parked, taken by a request of
that key, or closed. `OneUserPerConnection` is the refinement (`Holder`, `Home`).

`WebSocketPool` (2 requests, 2 keys, 2 connections, generation up to 3) checks the
refinement and: no open connection is without a user or a timer, whoever ends the
reply first (`NoConnectionLeaks`); an entry is busy exactly when leased
and open while it is used (`BusyMeansLeased`), or the key would never be cached
again or a request lose its connection; a timer of an earlier idle period does not end
the present one (`IdlePeriodIsFull`); an idle connection is closed in the end
(`IdleIsClosed`, under fairness of timers and their goroutines). Two requests
suffice for every race of the code, which are between two dialling requests of a
key or a lease and a timer; three generations are park, take and park again,
with the first timer still waiting.

### Proofs

`CodexWebSocketPoolProofs` proves, for every set of requests, keys and connections,
`NothingLeaks` (`NoConnectionLeaks`), `BusyIsLeased` (`BusyMeansLeased`),
`IdlePeriodsAreFull` (`IdlePeriodIsFull`) and the refinement `PoolIsExclusive`
(`OneUserPerConnection`), for which each action is shown to be one step of
`ExclusiveConnections` or a stutter.

The inductive invariant is `PoolInv`. A connection in use is open and has one user
(`UsersOK`) only because entries share no connection (`EntriesOK`) and a lease has the
entry of its key or a connection outside the pool (`LeasesOK`), also after the slower of
two dialling requests found the entry taken. `TimersOK` says that a parked connection has a
timer of this very idle period, running or waiting for the mutex: the generation alone
would not tell. `PoolAssumption` says that the special values differ and that the
generation's bound is positive. Liveness (`IdleIsClosed`) stays with TLC.

## 7. Responses conversations

`ResponsesState` models `responses_state.go` together with the attempts of
`handleProxy` that use it: what a follow-up with `previous_response_id` becomes,
to which account it may go, and what is stored after the reply.

| Variable | In the code |
|---|---|
| `cache` | `responsesStateCache`: entries, the byte counter, and `order` for the sequence numbers that decide evictions |
| `req` | the goroutines in `handleProxy`: `responsesRequestState` and the body they would send; `owner`, `means`, `out` are history |
| `revision` | of the saved accounts |
| `held` | what an upstream keeps under an id it gave (external) |
| `given` | the conversations a client was given under an id (external) |

`PrepareUnknown`/`PrepareKnown` are `prepareResponsesRequest`, `Select`, `Send`
(409, `shouldReplay`, `replayBody`), `Receive` (`inspectResponsesStreamPrelude`,
`responsesStreamErrorStatus`, `aggregateCodexSSE`) the attempt, `Store` is `storeResponsesResponse`, and
`Pruned`, `Touched`, `Stored`, `Evicted` are the operations of the cache, each one
critical section. A transcript is a sequence of items of size 1; a reply is a short
sequence of events, of which the code distinguishes the progress, the completion, a
plain failure and a failure of the account, with or without output.

A reply takes one of three forms (`Forms`). It is relayed as it comes, after its
prelude has been inspected; or, for a Codex account and a client that did not ask to
stream, `codexProvider.send` reads it to the end and `aggregateCodexSSE` makes one
status of it, which `inspectErrorResponse` then classifies; or an API account tells it
in one object, of which a 2xx status is relayed unread. Which of the first two a Codex
account takes hangs on `stream` in the body, so it is the same for each of them (`form`);
an API account may take the first or the third, whatever was asked. "quota" stands for
the failures that both forms send to another account (quota, restriction, an incompatible
request); an authentication error or a rate limit told inside a stream does that in
the first form only, and is not told apart from them.

`Responses` (2 tokens, an API and a Codex account, 3 requests, 2 ids, 2 entries, 5
bytes, one save, one tick) checks:

* `ContextIsWhole`: what an upstream takes a follow-up for is a conversation its
  client means, once and whole, whether by id or by replay and after any failover;
  and an entry holds what was given to its token under its id.
* `StaleOwnerStops`: a follow-up is sent to nobody when its account was saved
  before this attempt's account was chosen. A save after that moment is not
  noticed by this attempt, which works with its copy; that is why `owner` records
  the revision at the choice.
* `EntryKeepsMeaning`: an id may lose its entry, and until that expires never change what
  it stands for.
* `AnsweredOnce`: once an account has produced output that is relayed as it comes, no
  other account is asked. The exception is deliberate in the statement and real in the code: a
  Codex stream that is read whole and fails for a reason of the account's own, after
  output or with output in it, becomes a 429 or 502 (`codex_provider.go:384-399`,
  `765-776`) and `proxy.go:691-727` asks the next account. The client sees one answer;
  the work is done twice. README.md:96 promises "never another account" only once the first
  byte was sent to the client, so this is recorded here and is no finding.
* `SizeIsExact`: the counter is the sum of the entries, the limits hold.

Three requests are a first one, its follow-up and one more that evicts, conflicts
or continues; two ids collide or not; three items exceed neither limit and four,
five do. One request is unanswered at a time (`MaxInFlight`): the cache is shared
through critical sections only and relayed requests still overlap. Not checked: that
entries survive as long as the limits allow, which the documentation does not
promise.

### Proofs

`ResponsesStateProofs` proves, for every number of clients, accounts, ids and requests,
every size of the cache and every set of streams, `FollowUpsAreWhole` (`ContextIsWhole`),
`ChangedOwnerStops` (`StaleOwnerStops`), `OneAnswer` (`AnsweredOnce`),
`MeaningIsKept` (`EntryKeepsMeaning`) and `SizesAreExact` (`SizeIsExact`).

The inductive invariant is `ConversationInv`. What is sent depends on what was prepared
several steps before, and on what somebody stored before that; so the invariant follows
a conversation around the loop: what clients were given (`WorldOK`), what an entry
stands for, and which upstream keeps just that (`CacheOK`), what a request stands for
until it is replayed and after it (`ContextOK`), at which revision its account was
known and chosen (`OwnerOK`), and what was relayed and is about to be stored
(`RelayedOK`). Its parts take the state they speak of as parameters, so that one lemma
says that they survive whatever only adds to what is kept and given (`Grows`).
That the first telling event of a stream exists rests on the minimum of a set of
numbers (`Least`), from well-founded induction (`LeastNumber` in `Sums`).

`SizeIsExact` is not inductive: what an eviction subtracts is the weight of the first
keys of `order`, which says nothing unless `order` holds each key that has an entry, once.
`Counted` adds that; its lemmas say of each operation of the cache that it keeps
`Counted`, and `Limited` adds the limits. Taking entries out subtracts a part of the sum
(`SumSplits`); a lookup moves a key to the end; a replacement takes the old entry out
before it adds the new one; and evicting stops at the first number of keys with which both
limits hold, which exists because an empty cache keeps them (`FirstFits`). The keys that are left
are at most as many as the places left in `order` (`ImageIsNoLarger`). `Rest`, the order
without some keys, is a recursive function, so that `RestFacts` can be proved by
induction. The proof needs that `None` is no entry (`CacheAssumption`).

`StreamAssumption` is about the upstreams: in a stream, nothing follows a failure.
Otherwise output might follow it, and `AnsweredOnce` would be wrong.

Every property of the run is proved.

## 8. Usage reports and balances

`UsageCache` is one Codex account's entry in `codexUsageCache`, the goroutines in
`refreshCodexUsageAccount`, and what outdates a report in flight.
`BalanceRefresh` is the balances of the other accounts: the gate, the probes and
`selectAccountWithMode`'s impatience. `Refreshers` puts both into one
specification; an account is of one type and the two share nothing, so a behaviour
is one of either (`kind`), which keeps the product of the two out of TLC's way.

| Variable | In the code |
|---|---|
| `entry`, `version`, `leader` | `cache.entries[id]`, `cache.versions[id]`, the owner of `cache.inflight[id]` |
| `credentials`, `revision`, `installing` | the saved account; `configMu` held between installing it and `Invalidate` |
| `usage`, `quota` | `runtime.CodexUsage`, and whether the cooldown's reason is "quota" |
| `caller` | the local variables of a refreshing goroutine |
| `balance`, `suspension` | `runtime.Balance` reduced to what decides its next check and its use; the account's quota block |
| `gate` | slots taken in `balanceRefreshGate` |
| `job`, `asker` | a refresh (it may outlive its request) and the goroutine that asked |

`Hit`, `Wait`, `Lead`, `Land` are the parts of `Refresh`, `Apply` the end of
`refreshCodexUsageAccount`, `Limit` is `MarkLimitReached`, `Renew` and `Replace`
with `Invalidate` a token refresh, and a login, logout or save. `Enter` is
`acquireBalanceRefresh` with `prepareBalanceRefresh`, `StartProbe`, `EndProbe`,
`StopDispatch`, `EndRefresh` are `refreshBalanceAccounts`, `Merged` and `Apply`
`mergeBalanceAttempt` and `applyBalance`, `RouteTimeout` and `Mark` the time limit
of routing and `markBalanceRouteTimeout`.

`Refreshers` (2 callers; 2 logins, 2 revisions, 3 versions; 1 balance account, 2
revisions) checks:

* `NewsIsKept`: a report asked for before an invalidation or a limit error is never
  cached, and nobody is handed a report older than what the cache holds.
* `OneCheckAtATime`: probes of different refreshes never overlap, also when a routed
  one goes on alone. So the comparison of times in `applyBalance` (balance.go:353)
  never decides anything, and the model has no times.
* `KnownBalanceSurvives`: only a failure that will not pass takes a known balance
  away, after any sequence of failures, half answers and timeouts.
* `NobodyIsStuck`: followers of a fetch are answered or look again; the gate opens
  again and who waits for it gets in or leaves.

Fairness: a fetch and a probe have time limits (`codexUsageRequestTimeout`,
`balanceRefreshTime`), critical sections end, and a Go channel serves its senders in
turn (strong fairness of `Enter`). Clients that leave, time limits of routing and
everything that outdates a report have none.

Bounds: two callers are a leader and a follower, or two refreshes; three versions
are two invalidations and one limit error around one fetch. With one account a
refresh has one probe, so the workers' limit (`balanceWorkers`) and the order of
several probes are in the model but not exercised: two accounts exceed what
TLC can explore.

Seen while modelling, and contradicting nothing the repository says: a caller with a
copy of the old login may cache a report of it after the invalidation, which
`Cached` then takes for fresh (at most five minutes); a quota block recorded between
the return of `Refresh` and the critical section that applies it loses its cooldown
(admin.go:1456); the leader's client leaving ends the fetch of its followers.

### Proofs

`RefreshersProofs` proves for every number of callers and accounts and every bound that
the types of the cache are right (`UsageTypes`), that one fetch is in flight at a time
and its owner is the leader (`FetchIsSingle`), and `NewsIsKept`, of the cache alone
(`NewsAreKept`) and in the composition (`RefreshersKeepNews`); and of the balances, in
the composition, `ChecksAreSingle` (`OneCheckAtATime`), `BalancesAreKept`
(`KnownBalanceSurvives`) and `TypeCorrect`.

The inductive invariant of the cache is `UsageInv`: `UsageTypeOK`, `OneFetch`, and three
conjuncts that `NewsIsKept` needs. `EntryIsCurrent`: what the cache holds belongs to the
present version, or a step could not compare a report with it. `ReportInHand`: a caller
takes only a report, never an error, into the last critical section.
`RoomToInvalidate`: nothing is installed that could not be invalidated within the
bound of the versions. The composition follows because a step of the balances
leaves the usage variables alone.

That of the balances is `BalanceInv`. `GateOK`: the gate is closed for exactly the one
refresh under way, which may go on without who asked for it, and nothing is probed
outside of one; `OneCheckAtATime` follows, since a refresh probes an account once.
`BalancesOK`: a balance in use has been read, without which a half answer could count as
a known balance. `mergeBalanceAttempt` is a lemma of its own (`MergeSurvives`), for
whatever was known and whatever a probe finds. Liveness (`NobodyIsStuck`) stays with TLC.

## 9. Start, statistics and the end of a process

`ProcessLife` composes three components along `run` in `main.go`:

* `ConfigFile` - `loadConfig` and the part of `newApplication` that saves: every
  older form of the file, the exclusive backup, the replacement by rename, each
  write failing before or after it took effect.
* `RequestStats` - counts, dirty flag, timer, and the goroutines in
  `flushRequestStats` (the timer's, a handler that clears, `run`'s own).
* `ServerLifecycle` - `serveWithStopLoop`: the loop (tray or headless), signals, a
  failing listener, the shutdown goroutine, handlers in flight.

`phase` follows `run`; `Crash` ends a process at any step and keeps the two files;
`Restore` is the user who goes back to the old version as README.md:212 describes.

| Variable | In the code |
|---|---|
| `file`, `backup`, `step` | `config.dat`, `config.dat.v5.bak`, where `newApplication` is |
| `counts`, `disk`, `dirty`, `timer`, `flush` | `requestStats` (summed), its file, `requestStatsDirty`, `requestStatsTimer`, the goroutines with their snapshots |
| `server`, `stopRequested`, `shutdown`, `loop`, `main`, `loopFailed`, `handlers` | the channels and locals of `serveWithStopLoop` |
| `exit` | what `run` returned |

The run `ProcessLife` (every file of versions 4 to 7, one handler, one timer, two
counts) checks:

* `NothingIsLost`: while a process runs, every count is on disk or a flush of it is
  under way or scheduled; and when `run` returns without an error and `Close` did
  not have to cut handlers off, all of them have ended and the file has every
  count. It needs that the shutdown is waited for, that a failed write marks the
  counts dirty again, and that the last flush waits for one in progress.
* `OldIsKept`: a version 5 file is replaced only beside a whole backup, and a whole
  backup stays, through crashes in the middle of it, failing writes and returns to
  the old program.
* `ShutdownEnds`: a stop, a failing listener, a failing tray, alone or together,
  end the process, even if handlers hang.

Fairness: goroutines and writes go on, `Shutdown` has five seconds, the tray returns
after the server (`systray.Quit`), and `sync.Mutex` reaches every waiter in
the end although timers keep asking for it (strong fairness of `Flush`). Handlers
have none. Deadlock is checked.

What the model shows and no document speaks against: after a crash inside the
backup every later start is refused until the part is removed by hand
(config.go:317); a listener that fails ends the process at once, so counts of
handlers still running are lost; an error of the last flush is reported only if
serving ended without one. Left out: `Shutdown` frees the port before the counts are
written, so a process started in that moment reads old counts (main.go:101, listed
as a hazard); and saves at run time, which are part of `AccountRouting`.

### Proofs

`ProcessLifeProofs` proves, for any number of handlers, timers and counts and every
file a process may find, `CountsAreWritten` (`NothingIsLost`) and `BackupIsKept`
(`OldIsKept`).

The inductive invariant is `ProcessInv`, the types with four parts. `BackupOK`: who is
about to replace a version 5 file has a whole backup. `FlushOK`: one goroutine
writes at a time, and counts that differ from the file are in its snapshot, or
marked dirty with a timer that will see to them. `DrainOK` orders the stop: the server
is done before the shutdown is, and a shutdown in time has let every handler end.
`EndOK`: what `run` returned tells what has ended. `NothingIsLost` needs all three: the
last flush is complete only if no handler counts after it.
`ProcessAssumption` keeps the value for an absent file apart from the contents of
one. Liveness (`ShutdownEnds`) stays with TLC.

## Not modelled

Parsing and conversion of messages (`codex_provider.go`, the balance parsers), TLS and
HTTP transport, the browser pages, tray, autostart, secret stores and packaging: they
are functions of one input or belong to the operating system.

Two components with state of their own are open: the browser login (`TokenRefresh`
has its outcome, `StartLogin` to `FinishLogin`) and the rotation of the log. So are administrator sessions and the login limiter, and
the conversation of a balance probe with its upstream.

`TypeOK` of `ResponsesState` documents its types and is no property of a run; those of
`AccountRouting`, `RoutingStrategies`, `CodexWebSocketPool`, `Refreshers` and
`ProcessLife` are proved instead. The rank and the loop of a strategy meet only for accounts whose
balances routing has verified (see `RoutingStrategies`).
