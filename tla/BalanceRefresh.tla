--------------------------- MODULE BalanceRefresh ---------------------------
(* The balances of the API accounts (balance.go): refreshes asked for by the  *)
(* administration pages and by routing, one at a time behind a gate; the      *)
(* probes of their accounts by a few workers; and what routing does when a    *)
(* refresh outlasts its patience.  A balance is what decides its next check   *)
(* and its use; amounts, failure codes and the length of delays are left out. *)
(*                                                                           *)
(* applyBalance also drops a result that was begun before the stored one.    *)
(* That never happens while the gate does its work (OneCheckAtATime), so the *)
(* times are left out.                                                       *)
EXTENDS Naturals, FiniteSets

CONSTANTS
    Accounts,
    Callers,        \* goroutines that ask for a refresh
    Workers,        \* balanceWorkers
    MaxRevision     \* bound

VARIABLES
    revision,   \* revision[a] of the saved account
    balance,    \* balance[a]: runtime.Balance
    quota,      \* quota[a]: the quota suspension of its record
    gate,       \* the slots taken in balanceRefreshGate
    job,        \* job[c]: the refresh c has started, in its own goroutine or not
    asker       \* asker[c]: the goroutine that asked

vars == <<revision, balance, quota, gate, job, asker>>

\* checked: UpdatedAt is set.  waits: NextRetryAt is ahead.
NeverChecked ==
    [status |-> "", refresh |-> "", checked |-> FALSE, fresh |-> FALSE,
     retryable |-> FALSE, waits |-> FALSE]

\* accounts: those it was asked for.  forced: maxAge is 0.  route: asked for
\* by selectAccountWithMode.
Idle == [pc |-> "idle", accounts |-> {}, forced |-> FALSE, route |-> FALSE]

\* todo and running hold copies of accounts; gone: the client has left.
NoJob == [pc |-> "none", todo |-> {}, running |-> {}, gone |-> FALSE]

Init ==
    /\ revision = [a \in Accounts |-> 1]
    /\ balance = [a \in Accounts |-> NeverChecked]
    /\ quota = [a \in Accounts |-> "no"]
    /\ gate = 0
    /\ job = [c \in Callers |-> NoJob]
    /\ asker = [c \in Callers |-> Idle]

Copy(a) == [id |-> a, rev |-> revision[a]]

\* balanceRefreshDue
Due(b) == ~b.waits /\ (b.refresh \notin {"", "ok"} \/ ~b.fresh)

-----------------------------------------------------------------------------
(* Asking.                                                                   *)

\* refreshBalances for a page, or handleBalanceTest for one account: forced,
\* or for what is due.
AskByPage(c) ==
    \E accounts \in (SUBSET Accounts) \ {{}}, forced \in BOOLEAN :
        /\ asker[c].pc = "idle" /\ job[c] = NoJob
        /\ asker' = [asker EXCEPT ![c] =
               [pc |-> "gate", accounts |-> accounts, forced |-> forced, route |-> FALSE]]
        /\ UNCHANGED <<revision, balance, quota, gate, job>>

\* selectAccountWithMode: the balances its strategy compares are out of date.
AskByRoute(c) ==
    LET stale == {a \in Accounts : quota[a] = "no" /\ Due(balance[a])}
    IN  /\ asker[c].pc = "idle" /\ job[c] = NoJob
        /\ stale # {}
        /\ asker' = [asker EXCEPT ![c] =
               [pc |-> "gate", accounts |-> stale, forced |-> FALSE, route |-> TRUE]]
        /\ UNCHANGED <<revision, balance, quota, gate, job>>

Chosen(c) == {a \in asker[c].accounts : asker[c].forced \/ Due(balance[a])}

\* Faulty: with nothing left to refresh the gate stays closed.
EnterAndKeep(c) ==
    /\ asker[c].pc = "gate" /\ gate = 0 /\ gate' = 1
    /\ IF Chosen(c) = {}
       THEN asker' = [asker EXCEPT ![c] = Idle] /\ UNCHANGED job
       ELSE /\ asker' = [asker EXCEPT ![c].pc = "await"]
            /\ job' = [job EXCEPT ![c] =
                   [NoJob EXCEPT !.pc = "working", !.todo = {Copy(a) : a \in Chosen(c)}]]
    /\ UNCHANGED <<revision, balance, quota>>

\* acquireBalanceRefresh and prepareBalanceRefresh.
Enter(c) ==
    /\ asker[c].pc = "gate" /\ gate = 0
    /\ IF Chosen(c) = {}
       THEN asker' = [asker EXCEPT ![c] = Idle] /\ UNCHANGED <<gate, job>>
       ELSE /\ gate' = 1
            /\ asker' = [asker EXCEPT ![c].pc = "await"]
            /\ job' = [job EXCEPT ![c] =
                   [NoJob EXCEPT !.pc = "working", !.todo = {Copy(a) : a \in Chosen(c)}]]
    /\ UNCHANGED <<revision, balance, quota>>

\* The client leaves, or handleBalanceTest's time is up, at the gate.
Leave(c) ==
    /\ asker[c].pc = "gate"
    /\ asker' = [asker EXCEPT ![c] = Idle]
    /\ UNCHANGED <<revision, balance, quota, gate, job>>

\* The client of a page leaves during the refresh; a routed one goes on alone.
Disconnect(c) ==
    /\ asker[c].pc = "await"
    /\ IF asker[c].route
       THEN asker' = [asker EXCEPT ![c] = Idle] /\ UNCHANGED job
       ELSE job' = [job EXCEPT ![c].gone = TRUE] /\ UNCHANGED asker
    /\ UNCHANGED <<revision, balance, quota, gate>>

\* Faulty: the gate is opened although the refresh goes on.
RouteTimeoutOpens(c) ==
    /\ asker[c].pc \in {"gate", "await"} /\ asker[c].route
    /\ asker' = [asker EXCEPT ![c].pc = "mark"]
    /\ gate' = IF asker[c].pc = "await" THEN 0 ELSE gate
    /\ UNCHANGED <<revision, balance, quota, job>>

\* balanceRoutingTime is over, at the gate or during the refresh.
RouteTimeout(c) ==
    /\ asker[c].pc \in {"gate", "await"} /\ asker[c].route
    /\ asker' = [asker EXCEPT ![c].pc = "mark"]
    /\ UNCHANGED <<revision, balance, quota, gate, job>>

\* markBalanceRouteTimeout
Mark(c) ==
    /\ asker[c].pc = "mark"
    /\ balance' = [a \in Accounts |->
           LET b == balance[a]
           IN  IF a \in asker[c].accounts /\ Due(b)
               THEN [b EXCEPT !.refresh = "error", !.retryable = TRUE, !.waits = TRUE,
                              !.status = IF b.checked THEN @ ELSE "error"]
               ELSE b]
    /\ asker' = [asker EXCEPT ![c] = Idle]
    /\ UNCHANGED <<revision, quota, gate, job>>

-----------------------------------------------------------------------------
(* A refresh.                                                                *)

\* A worker takes the next account (refreshBalanceAccounts).
StartProbe(c) ==
    \E copy \in job[c].todo :
        /\ Cardinality(job[c].running) < Workers
        /\ job' = [job EXCEPT ![c].todo = @ \ {copy}, ![c].running = @ \union {copy}]
        /\ UNCHANGED <<revision, balance, quota, gate, asker>>

\* The dispatcher sees that the client has gone; the workers finish.
StopDispatch(c) ==
    /\ job[c].gone /\ job[c].todo # {}
    /\ job' = [job EXCEPT ![c].todo = {}]
    /\ UNCHANGED <<revision, balance, quota, gate, asker>>

\* What a probe finds: the balance in full; a part of it, the rest having
\* failed; or a failure, which may pass (timeout, network, 5xx, 429) or will not
\* (credentials, no such endpoint).  A failure's retry delay counts from the
\* beginning of the probe and may be over.
Attempts ==
    [status : {"ok"}, refresh : {"ok"}, checked : {TRUE}, fresh : {TRUE},
     retryable : {FALSE}, waits : {FALSE}]
    \union [status : {"ok"}, refresh : {"partial"}, checked : {TRUE}, fresh : {TRUE},
            retryable : BOOLEAN, waits : BOOLEAN]
    \union [status : {"error"}, refresh : {"error"}, checked : {FALSE}, fresh : {FALSE},
            retryable : BOOLEAN, waits : BOOLEAN]

\* Faulty: a failure takes the place of what was known.
MergedOutright(previous, attempt) == attempt

\* mergeBalanceAttempt
Merged(previous, attempt) ==
    LET kept == [previous EXCEPT !.retryable = attempt.retryable, !.waits = attempt.waits]
    IN  CASE attempt.refresh = "ok" \/ ~previous.checked -> attempt
          [] attempt.refresh = "partial" /\ previous.checked /\ previous.status = "ok" ->
                 [kept EXCEPT !.refresh = "partial",
                              !.status = IF attempt.retryable THEN "ok" ELSE "error"]
          [] attempt.refresh = "partial" /\ previous.checked /\ previous.status # "ok" ->
                 [kept EXCEPT !.refresh = IF @ \in {"", "ok"} THEN previous.status ELSE @]
          [] OTHER ->
                 [kept EXCEPT !.refresh = attempt.refresh,
                              !.status = IF attempt.retryable THEN @ ELSE attempt.status]

\* applyBalance, for a probe that ended while its client was there.  A balance
\* above zero makes the suspended account due for a half-open request.
Apply(copy, attempt, positive) ==
    LET a == copy.id
    IN  IF copy.rev = revision[a]
        THEN /\ balance' = [balance EXCEPT ![a] = Merged(@, attempt)]
             /\ quota' = IF quota[a] = "cooling" /\ attempt.status = "ok" /\ positive
                         THEN [quota EXCEPT ![a] = "due"] ELSE quota
        ELSE UNCHANGED <<balance, quota>>

EndProbe(c) ==
    \E copy \in job[c].running, attempt \in Attempts, positive \in BOOLEAN :
        /\ job' = [job EXCEPT ![c].running = @ \ {copy}]
        /\ IF job[c].gone THEN UNCHANGED <<balance, quota>>
           ELSE Apply(copy, attempt, positive)
        /\ UNCHANGED <<revision, gate, asker>>

\* All probes are over: the gate opens, and the asker, if it still waits, goes
\* on; in routing the time may be over by then.
EndRefresh(c) ==
    /\ job[c].pc = "working" /\ job[c].todo = {} /\ job[c].running = {}
    /\ gate = 1 /\ gate' = 0
    /\ job' = [job EXCEPT ![c] = NoJob]
    /\ IF asker[c].pc = "await"
       THEN \E next \in {Idle} \union
                   (IF asker[c].route THEN {[asker[c] EXCEPT !.pc = "mark"]} ELSE {}) :
                asker' = [asker EXCEPT ![c] = next]
       ELSE UNCHANGED asker
    /\ UNCHANGED <<revision, balance, quota>>

-----------------------------------------------------------------------------
(* What else touches the records.                                            *)

\* handleSave with new credentials or another balance login.
Save(a) ==
    /\ revision[a] < MaxRevision
    /\ revision' = [revision EXCEPT ![a] = @ + 1]
    /\ balance' = [balance EXCEPT ![a] = NeverChecked]
    /\ quota' = [quota EXCEPT ![a] = "no"]
    /\ UNCHANGED <<gate, job, asker>>

\* A reply without quota suspends an account, a success restores it, and
\* time makes it due (AccountRouting).
Routed(a) ==
    \E suspension \in {"no", "cooling", "due"} :
        /\ quota[a] # suspension
        /\ suspension = "due" => quota[a] = "cooling"
        /\ quota' = [quota EXCEPT ![a] = suspension]
        /\ UNCHANGED <<revision, balance, gate, job, asker>>

\* balanceTTL, or the end of a retry delay.
Age(a) ==
    /\ \/ balance[a].fresh /\ balance' = [balance EXCEPT ![a].fresh = FALSE]
       \/ balance[a].waits /\ balance' = [balance EXCEPT ![a].waits = FALSE]
    /\ UNCHANGED <<revision, quota, gate, job, asker>>

Ask(c) == AskByPage(c) \/ AskByRoute(c)

Work(c) == StartProbe(c) \/ StopDispatch(c) \/ EndProbe(c) \/ EndRefresh(c)

Next ==
    \/ \E c \in Callers :
           Ask(c) \/ Enter(c) \/ Leave(c) \/ Disconnect(c) \/ RouteTimeout(c)
               \/ Mark(c) \/ Work(c)
    \/ \E a \in Accounts : Save(a) \/ Routed(a) \/ Age(a)

\* Every probe has a time limit; a channel serves its senders in turn.
Fairness ==
    \A c \in Callers : WF_vars(Work(c)) /\ WF_vars(Mark(c)) /\ SF_vars(Enter(c))

Spec == Init /\ [][Next]_vars /\ Fairness

-----------------------------------------------------------------------------
(* Properties.                                                               *)

TypeOK ==
    /\ revision \in [Accounts -> 1..MaxRevision]
    /\ \A a \in Accounts :
           /\ balance[a].status \in {"", "ok", "error"}
           /\ balance[a].refresh \in {"", "ok", "partial", "error"}
           /\ balance[a].status = "ok" => balance[a].checked
    /\ gate \in {0, 1}
    /\ \A c \in Callers :
           asker[c].pc \in {"idle", "gate", "await", "mark"}

\* Two probes of one account never run at once, also when routing has gone on
\* without its refresh: their results cannot come in the wrong order
\* (balance.go:353), and no more than balanceWorkers accounts are probed.
OneCheckAtATime ==
    \A c, d \in Callers : job[c].running # {} /\ job[d].running # {} => c = d

\* A timeout, a lost connection or an upstream's bad moment never hides a
\* balance that is known: only a failure that will not pass does
\* (balance.go:282), whatever happened before.
KnownBalanceSurvives ==
    [][\A a \in Accounts :
           revision'[a] = revision[a] /\ balance[a].checked =>
               /\ balance'[a].checked
               /\ balance[a].status = "ok" /\ balance'[a].status # "ok"
                      => ~balance'[a].retryable]_vars

\* The gate opens again, and who waits for it gets in or leaves.
GateOpens ==
    /\ gate = 1 ~> gate = 0
    /\ \A c \in Callers : asker[c].pc = "gate" ~> asker[c].pc # "gate"
=============================================================================
