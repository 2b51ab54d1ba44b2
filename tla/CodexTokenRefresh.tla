------------------------- MODULE CodexTokenRefresh -------------------------
(***************************************************************************)
(* The credentials of one Codex OAuth account: concurrent refreshes of an  *)
(* expired access token (ensureCodexCredentials, refreshTokens), their     *)
(* persistence beside saves, login and logout, and restarts.               *)
(*                                                                         *)
(* Refresh tokens are numbered in the order the provider issues them.  A   *)
(* copy of the account may be found expired at any time: the lifetime of an *)
(* access token is the provider's choice, down to none (tokenExpiry).      *)
(***************************************************************************)
EXTENDS Integers, FiniteSets

CONSTANTS
    Callers,        \* goroutines that need a fresh access token
    Admin, NoOne,   \* other values of "lock"
    Environment,    \* what may happen in this instance (see Events)
    MaxToken,       \* bound of the tokens issued
    MaxRevision     \* bound of the account's revision

Events == {"keep", "failure", "lost", "gone", "save", "logout", "login",
           "write_failure", "crash"}

ASSUME TokenAssumption ==
    /\ Admin # NoOne /\ Admin \notin Callers /\ NoOne \notin Callers
    /\ Environment \subseteq Events
    /\ MaxToken \in Nat \ {0} /\ MaxRevision \in Nat \ {0}

NoToken == 0        \* logged out, or not replaced
Denied == -1        \* a 4xx reply of the token endpoint
Failed == -2        \* any other error

Tokens == 1 .. MaxToken

VARIABLES
    issued, valid,  \* the provider: tokens issued, tokens still accepted
    successor,      \* the provider: what replaced each token
    cfg,            \* application.cfg: the account's revision and token
    disk,           \* the configuration file
    lock, cand,     \* holder of configMu and the configuration it is writing
    refreshes,      \* codexAuthManager.refreshes: tokens with a call in flight
    caller,         \* the goroutines
    login,          \* the browser login in progress
    intact          \* history: no replacement was lost on its way to the disk

vars == <<issued, valid, successor, cfg, disk, lock, cand, refreshes, caller,
          login, intact>>

Config == [rev : Nat \ {0}, token : Tokens \cup {NoToken}]

\* holding: has a copy; submitting: leads a call; answered: has its result;
\* refreshed: returned from refreshTokens.
Places == {"idle", "holding", "submitting", "answered", "following",
           "refreshed", "writing"}

Idle == [pc |-> "idle", rev |-> 0, token |-> NoToken, got |-> NoToken]

Logged == [phase |-> "none", rev |-> 0, token |-> NoToken]

TypeOK ==
    /\ issued \in 0 .. MaxToken /\ valid \subseteq Tokens
    /\ successor \in [Tokens -> Tokens \cup {NoToken}]
    /\ cfg \in Config /\ disk \in Config /\ cand \in Config
    /\ lock \in Callers \cup {Admin, NoOne}
    /\ refreshes \subseteq Tokens
    /\ caller \in [Callers -> [pc : Places, rev : Nat, token : Tokens \cup {NoToken},
                               got : Tokens \cup {NoToken, Denied, Failed}]]
    /\ login \in [phase : {"none", "pending", "granted"}, rev : Nat,
                  token : Tokens \cup {NoToken}]
    /\ intact \in BOOLEAN

Init ==
    /\ issued = 1 /\ valid = {1} /\ successor = [t \in Tokens |-> NoToken]
    /\ cfg = [rev |-> 1, token |-> 1] /\ disk = cfg /\ cand = cfg
    /\ lock = NoOne /\ refreshes = {}
    /\ caller = [c \in Callers |-> Idle]
    /\ login = Logged
    /\ intact = TRUE

-----------------------------------------------------------------------------
(* Helpers.                                                                *)

provider == <<issued, valid, successor>>
stored == <<cfg, disk, lock, cand>>

At(c, places) == caller[c].pc \in places

Goto(c, place) == caller' = [caller EXCEPT ![c].pc = place]

Leave(c) == caller' = [caller EXCEPT ![c] = Idle]

\* configMu is taken and the configuration new goes to the disk.
StartWrite(holder, new) == lock = NoOne /\ lock' = holder /\ cand' = new

-----------------------------------------------------------------------------
(* A goroutine that needs a fresh access token.                            *)

\* It has chosen the account: from here on it works with a copy.
Take(c) ==
    /\ At(c, {"idle"}) /\ cfg.token # NoToken
    /\ caller' = [caller EXCEPT ![c] = [Idle EXCEPT !.pc = "holding", !.rev = cfg.rev,
                                                    !.token = cfg.token]]
    /\ UNCHANGED <<provider, stored, refreshes, login, intact>>

\* ensureCodexCredentials: the copy's access token is good for two minutes.
Fresh(c) ==
    /\ At(c, {"holding"}) /\ Leave(c)
    /\ UNCHANGED <<provider, stored, refreshes, login, intact>>

\* refreshTokens: join the call in flight for this token, or lead a new one.
Refresh(c) ==
    LET token == caller[c].token
    IN  /\ At(c, {"holding"})
        /\ Goto(c, IF token \in refreshes THEN "following" ELSE "submitting")
        /\ refreshes' = refreshes \cup {token}
        /\ UNCHANGED <<provider, stored, login, intact>>

\* A follower whose client is gone stops waiting; the leader's call goes on.
StopFollowing(c) ==
    /\ "gone" \in Environment /\ At(c, {"following"}) /\ Leave(c)
    /\ UNCHANGED <<provider, stored, refreshes, login, intact>>

\* The reply of the token endpoint, or its absence.
Answer(c, got) ==
    caller' = [caller EXCEPT ![c].pc = "answered", ![c].got = got]

\* The provider accepts a token once and issues another in its place.
Rotate(token) ==
    /\ token \in valid /\ issued < MaxToken
    /\ issued' = issued + 1
    /\ valid' = (valid \ {token}) \cup {issued + 1}
    /\ successor' = [successor EXCEPT ![token] = issued + 1]

Submit(c) ==
    LET token == caller[c].token
    IN  /\ At(c, {"submitting"})
        /\ \/ /\ Rotate(token) /\ Answer(c, issued + 1) /\ UNCHANGED intact
           \/ \* The reply is lost, or the leader's client leaves before it.
              /\ "lost" \in Environment
              /\ Rotate(token) /\ Answer(c, Failed) /\ intact' = FALSE
           \/ \* No new refresh token: the old one stays good.
              /\ "keep" \in Environment /\ token \in valid
              /\ Answer(c, token) /\ UNCHANGED <<provider, intact>>
           \/ /\ token \notin valid
              /\ Answer(c, Denied) /\ UNCHANGED <<provider, intact>>
           \/ /\ "failure" \in Environment
              /\ Answer(c, Failed) /\ UNCHANGED <<provider, intact>>
        /\ UNCHANGED <<stored, refreshes, login>>

\* Faulty: the error is not looked at.
ResumeAnyway(waiter, got) == [waiter EXCEPT !.pc = "refreshed", !.got = got]

\* What a result means to whoever waited for it: an error ends its attempt.
Resume(waiter, got) ==
    IF got \in Tokens THEN [waiter EXCEPT !.pc = "refreshed", !.got = got] ELSE Idle

\* Faulty: an error returns before the entry is removed and done is closed.
CompleteUnlessFailed(c) ==
    LET token == caller[c].token
        got == caller[c].got
        shares(d) == d = c \/ (got \in Tokens /\ At(d, {"following"})
                               /\ caller[d].token = token)
    IN  /\ At(c, {"answered"})
        /\ caller' = [d \in Callers |->
                         IF shares(d) THEN Resume(caller[d], got) ELSE caller[d]]
        /\ refreshes' = IF got \in Tokens THEN refreshes \ {token} ELSE refreshes
        /\ UNCHANGED <<provider, stored, login, intact>>

\* The entry goes and everyone who joined the call receives its result.
Complete(c) ==
    LET token == caller[c].token
        shares(d) == d = c \/ (At(d, {"following"}) /\ caller[d].token = token)
    IN  /\ At(c, {"answered"})
        /\ caller' = [d \in Callers |->
                         IF shares(d) THEN Resume(caller[d], caller[c].got)
                         ELSE caller[d]]
        /\ refreshes' = refreshes \ {token}
        /\ UNCHANGED <<provider, stored, login, intact>>

\* Faulty: whoever refreshed writes, even over a newer token.
PersistOverNewer(c) ==
    /\ At(c, {"refreshed"}) /\ lock = NoOne
    /\ IF cfg.rev # caller[c].rev THEN Leave(c) /\ UNCHANGED <<lock, cand>>
       ELSE StartWrite(c, [cfg EXCEPT !.token = caller[c].got]) /\ Goto(c, "writing")
    /\ UNCHANGED <<provider, cfg, disk, refreshes, login, intact>>

\* Faulty: a busy configMu is not waited for.
PersistUnlessBusy(c) ==
    /\ At(c, {"refreshed"})
    /\ IF lock # NoOne \/ cfg.rev # caller[c].rev \/ cfg.token # caller[c].token
       THEN Leave(c) /\ UNCHANGED <<lock, cand>>
       ELSE StartWrite(c, [cfg EXCEPT !.token = caller[c].got]) /\ Goto(c, "writing")
    /\ UNCHANGED <<provider, cfg, disk, refreshes, login, intact>>

\* persistCodexCredentials: dropped if the account has changed, and left to
\* whoever was faster if its token has.
Persist(c) ==
    /\ At(c, {"refreshed"}) /\ lock = NoOne
    /\ IF cfg.rev # caller[c].rev \/ cfg.token # caller[c].token
       THEN Leave(c) /\ UNCHANGED <<lock, cand>>
       ELSE StartWrite(c, [cfg EXCEPT !.token = caller[c].got]) /\ Goto(c, "writing")
    /\ UNCHANGED <<provider, cfg, disk, refreshes, login, intact>>

-----------------------------------------------------------------------------
(* The administrator.                                                      *)

\* A save that leaves the credentials alone.
Save ==
    /\ "save" \in Environment /\ StartWrite(Admin, cfg)
    /\ UNCHANGED <<provider, cfg, disk, refreshes, caller, login, intact>>

\* clearCodexCredentials, or a save that makes it an API-key account.
Logout ==
    /\ "logout" \in Environment /\ cfg.rev < MaxRevision
    /\ StartWrite(Admin, [rev |-> cfg.rev + 1, token |-> NoToken])
    /\ UNCHANGED <<provider, cfg, disk, refreshes, caller, login, intact>>

\* A browser login remembers the revision it was started for ...
StartLogin ==
    /\ "login" \in Environment /\ login.phase = "none"
    /\ login' = [phase |-> "pending", rev |-> cfg.rev, token |-> NoToken]
    /\ UNCHANGED <<provider, stored, refreshes, caller, intact>>

\* ... the callback exchanges the code for tokens of their own line ...
ExchangeCode ==
    /\ login.phase = "pending" /\ issued < MaxToken
    /\ issued' = issued + 1 /\ valid' = valid \cup {issued + 1}
    /\ login' = [login EXCEPT !.phase = "granted", !.token = issued + 1]
    /\ UNCHANGED <<successor, stored, refreshes, caller, intact>>

\* ... and the status poll stores them, unless the account has changed.
FinishLogin ==
    /\ login.phase = "granted" /\ lock = NoOne
    /\ IF cfg.rev = login.rev
       THEN /\ cfg.rev < MaxRevision
            /\ StartWrite(Admin, [rev |-> cfg.rev + 1, token |-> login.token])
       ELSE UNCHANGED <<lock, cand>>
    /\ login' = Logged
    /\ UNCHANGED <<provider, cfg, disk, refreshes, caller, intact>>

\* Refused by the user, failed or expired: the session is dropped.
DropLogin ==
    /\ login.phase # "none" /\ login' = Logged
    /\ UNCHANGED <<provider, stored, refreshes, caller, intact>>

-----------------------------------------------------------------------------
(* The end of a write, and of the process.                                 *)

WriterLeaves ==
    caller' = IF lock \in Callers THEN [caller EXCEPT ![lock] = Idle] ELSE caller

WriteSucceeds ==
    /\ lock # NoOne
    /\ disk' = cand /\ cfg' = cand
    /\ WriterLeaves /\ lock' = NoOne
    /\ UNCHANGED <<provider, cand, refreshes, login, intact>>

\* The caller is told; what it had refreshed is gone.
WriteFails ==
    /\ "write_failure" \in Environment
    /\ lock # NoOne
    /\ cand' = cfg
    /\ intact' = (intact /\ lock \notin Callers)
    /\ WriterLeaves /\ lock' = NoOne
    /\ UNCHANGED <<provider, cfg, disk, refreshes, login>>

Crash ==
    /\ "crash" \in Environment
    /\ cfg' = disk /\ cand' = disk /\ lock' = NoOne
    /\ refreshes' = {} /\ caller' = [c \in Callers |-> Idle] /\ login' = Logged
    /\ intact' = FALSE
    /\ UNCHANGED <<provider, disk>>

-----------------------------------------------------------------------------
Next ==
    \/ \E c \in Callers :
          \/ Take(c) \/ Fresh(c) \/ Refresh(c) \/ StopFollowing(c)
          \/ Submit(c) \/ Complete(c) \/ Persist(c)
    \/ Save \/ Logout \/ StartLogin \/ ExchangeCode \/ FinishLogin \/ DropLogin
    \/ WriteSucceeds \/ WriteFails \/ Crash

Spec == Init /\ [][Next]_vars

\* The token request has a timeout, and its leader does not wait for anyone.
FairSpec ==
    /\ Spec
    /\ \A c \in Callers : WF_vars(Submit(c)) /\ WF_vars(Complete(c))

-----------------------------------------------------------------------------
(* Properties.                                                             *)

\* Within a revision the stored token moves only to its own replacement: a
\* slow refresh never brings back a token that was since replaced, and one of
\* an earlier login never touches the next (persistCodexCredentials).
TokensMoveForward ==
    [][~Crash /\ cfg'.token # cfg.token =>
          \/ cfg'.rev > cfg.rev
          \/ cfg.token \in Tokens /\ successor[cfg.token] = cfg'.token]_vars

\* If the stored token was replaced, somebody is on the way to storing its
\* replacement, unless a reply, a write or the process was lost.
ReplacementIsKept ==
    intact /\ cfg.token # NoToken /\ cfg.token \notin valid =>
        \E c \in Callers : /\ At(c, {"answered", "refreshed", "writing"})
                           /\ caller[c].rev = cfg.rev
                           /\ caller[c].token = cfg.token
                           /\ caller[c].got = successor[cfg.token]

\* Everyone who follows a refresh is released when it ends, also when it
\* fails or the leader's own client is gone.
FollowersAreReleased ==
    \A c \in Callers : At(c, {"following"}) ~> ~At(c, {"following"})

-----------------------------------------------------------------------------
(* What a comment says and the code does not do.                           *)

\* codex_oauth.go:297: simultaneous refreshes are coalesced so that a rotating
\* refresh token is submitted only once.  A goroutine that copied the account
\* before the new token was stored and asks after the call has ended submits
\* the old one again.
SubmittedOnce ==
    \A c \in Callers :
        At(c, {"submitting"}) => successor[caller[c].token] = NoToken

=============================================================================
