-------------------------- MODULE RoutingStrategies --------------------------
(* How selectAccountWithMode (router.go) takes one of the candidates: the six *)
(* strategies, and what they keep from one choice to the next.  Which account *)
(* is a candidate, and what is known of its balance and its reset, is the     *)
(* subject of AccountRouting and of Refreshers: here a choice may find any    *)
(* of it (view).  A choice is one critical section of application.mu.         *)
EXTENDS Integers, SequencesExt

CONSTANTS
    Accounts,       \* account IDs
    None,
    BatchSize,      \* leastUsedBatchSize, 30
    Views,          \* what a choice may find of an account
    MaxAssigned     \* bound of the assigned requests of all accounts

Strategies ==
    {"priority", "round_robin", "least_used", "quota_reset", "highest_balance",
     "lowest_balance"}
BalanceStrategies == {"highest_balance", "lowest_balance"}

\* regular: available, without a failure; recovering: available, a half-open
\* probe is due; blocked: not available, a probe is due; elsewhere: available,
\* but tried by this request, of no use to it, or being probed; out: the rest.
\* known: the balance is fresh, verified, and in everybody's unit.  A reset
\* that is over or unknown is the time 0.
View ==
    [standing : {"regular", "recovering", "blocked", "elsewhere", "out"},
     known : BOOLEAN, unlimited : BOOLEAN, amount : Nat, reset : Nat]

VARIABLES
    strategy, list,     \* cfg.Strategy and cfg.Accounts
    cursor,             \* roundRobinCursor
    batch,              \* leastUsedBatchAccount and leastUsedBatchLeft
    assigned,           \* AssignedRequests of each account
    skipped,            \* history: turns an account was passed over in a row
    ahead,              \* history: choices in a row that passed over a less
                        \* used candidate
    outdone             \* history: whom the last choice should have taken

vars == <<strategy, list, cursor, batch, assigned, skipped, ahead, outdone>>

config == <<strategy, list>>

NoBatch == [account |-> None, left |-> 0]

Zero == [a \in Accounts |-> 0]

\* A process that starts counts from zero.
Fresh ==
    /\ cursor' = 0 /\ batch' = NoBatch /\ assigned' = Zero
    /\ skipped' = Zero /\ ahead' = 0 /\ outdone' = {}

Init ==
    /\ strategy \in Strategies
    /\ \E listed \in SUBSET Accounts : list \in SetToSeqs(listed)
    /\ cursor = 0 /\ batch = NoBatch /\ assigned = Zero
    /\ skipped = Zero /\ ahead = 0 /\ outdone = {}

-----------------------------------------------------------------------------
(* What a choice finds.                                                      *)

Looks == [ToSet(list) -> Views]

Standing(view, places) == {a \in DOMAIN view : view[a].standing \in places}

\* effectiveStrategyLocked: the choice is by balance only if every available
\* account has one that can be compared, whether or not it is a candidate, and
\* falls back to least_used otherwise.
Comparable(view) ==
    \A a \in Standing(view, {"regular", "recovering", "elsewhere"}) : view[a].known

\* Without a regular account a probe is forced, and no strategy asked.
Free(view) == Standing(view, {"regular"}) # {}

Candidates(view) == Standing(view, {"regular", "recovering", "blocked"})

-----------------------------------------------------------------------------
(* The orders.                                                               *)

Position(a) == CHOOSE i \in 0..(Len(list) - 1) : list[i + 1] = a

\* How far the cursor is from a.
Distance(a) == (Position(a) - cursor + Len(list)) % Len(list)

\* Faulty: counts the place among the candidates.
NextTurnOfCandidates(a, candidates) ==
    Cardinality({b \in candidates : Position(b) <= Position(a)}) % Len(list)

NextTurn(a, candidates) == (Position(a) + 1) % Len(list)

\* Faulty: no reset counts as the earliest.
SoonerOrUnknown(l, r) == l.reset < r.reset

Sooner(l, r) == l.reset # 0 /\ (r.reset = 0 \/ l.reset < r.reset)

Richer(l, r) ==
    \/ l.unlimited /\ ~r.unlimited
    \/ l.unlimited = r.unlimited /\ l.amount > r.amount

Poorer(l, r) ==
    /\ ~l.unlimited
    /\ r.unlimited \/ l.amount < r.amount

\* The loop over the candidates, in the order of the list: the first one, until
\* another beats it.
Winner(candidates, beats) ==
    LET selected[i \in 0..Len(list)] ==
            IF i = 0 THEN None
            ELSE IF /\ list[i] \in candidates
                    /\ selected[i - 1] = None \/ <<list[i], selected[i - 1]>> \in beats
                 THEN list[i] ELSE selected[i - 1]
    IN  selected[Len(list)]

LessUsed(a, b) == assigned[a] < assigned[b]

\* The comparisons of the other loops.
Beats(a, b, view) ==
    CASE strategy = "priority" -> FALSE
      [] strategy = "quota_reset" -> Sooner(view[a], view[b])
      [] strategy = "highest_balance" ->
             \/ Richer(view[a], view[b])
             \/ ~Richer(view[b], view[a]) /\ LessUsed(a, b)
      [] strategy = "lowest_balance" -> Poorer(view[a], view[b])

Pairs(candidates) == candidates \X candidates

-----------------------------------------------------------------------------
(* The choices.                                                              *)

Assign(a) == assigned' = [assigned EXCEPT ![a] = @ + 1]

\* The account whose turn it is.
Rotate(candidates) ==
    /\ strategy = "round_robin"
    /\ \E a \in candidates :
           /\ \A b \in candidates : Distance(a) <= Distance(b)
           /\ cursor' = NextTurn(a, candidates)
           /\ Assign(a)
           /\ skipped' = [b \in Accounts |->
                  IF b \in candidates \ {a} THEN skipped[b] + 1 ELSE 0]
    /\ batch' = NoBatch /\ outdone' = {}
    /\ UNCHANGED <<config, ahead>>

\* Faulty: a batch that goes on is filled up again.
Refilled(goesOn) == BatchSize

\* What is left of the batch that goes on, or of a new one.
Filled(goesOn) == IF goesOn THEN batch.left ELSE BatchSize

\* The account of the batch, if it is a candidate; the least used one otherwise.
\* So a balance strategy chooses whose balances cannot be compared.
TakeLeastUsed(candidates) ==
    /\ strategy = "least_used" \/ strategy \in BalanceStrategies
    /\ LET goesOn == batch.left > 0 /\ batch.account \in candidates
           beats == {p \in Pairs(candidates) : LessUsed(p[1], p[2])}
           a == IF goesOn THEN batch.account ELSE Winner(candidates, beats)
       IN  /\ batch' = [account |-> a, left |-> Filled(goesOn) - 1]
           /\ Assign(a)
           /\ ahead' = IF \E b \in candidates : LessUsed(b, a) THEN ahead + 1 ELSE 0
    /\ outdone' = {}
    /\ UNCHANGED <<config, cursor, skipped>>

\* README.md:25 to 31, as numbers to compare from left to right.
Rank(a, view) ==
    LET v == view[a]
    IN  CASE strategy = "priority" -> <<Position(a)>>
          [] strategy = "quota_reset" ->
                 <<IF v.reset = 0 THEN 1 ELSE 0, v.reset, Position(a)>>
          [] strategy = "highest_balance" ->
                 <<IF v.unlimited THEN 0 ELSE 1, -v.amount, assigned[a], Position(a)>>
          [] strategy = "lowest_balance" ->
                 IF v.unlimited THEN <<1, 0, Position(a)>> ELSE <<0, v.amount, Position(a)>>

Before(s, t) ==
    \E i \in DOMAIN s : s[i] < t[i] /\ \A j \in 1..(i - 1) : s[j] = t[j]

\* The first by priority, reset or balance.
TakeFirst(view) ==
    /\ strategy \notin {"round_robin", "least_used"} /\ Free(view)
    /\ strategy \in BalanceStrategies => Comparable(view)
    /\ LET beats == {p \in Pairs(Candidates(view)) : Beats(p[1], p[2], view)}
           a == Winner(Candidates(view), beats)
           ranked == IF strategy \in BalanceStrategies
                     THEN Standing(view, {"regular", "recovering"})
                     ELSE Candidates(view)
       IN  /\ Assign(a)
           /\ outdone' =
                  {b \in ranked : a \in ranked /\ Before(Rank(b, view), Rank(a, view))}
    /\ batch' = NoBatch
    /\ UNCHANGED <<config, cursor, skipped, ahead>>

\* The account of the conversation, a regular one of the same revision, whatever
\* the strategy, which may be least used for want of balances.
Prefer ==
    /\ \E a \in ToSet(list) : Assign(a)
    /\ batch' \in CASE strategy = "least_used" -> {batch}
                    [] strategy \in BalanceStrategies -> {batch, NoBatch}
                    [] OTHER -> {NoBatch}
    /\ outdone' = {}
    /\ UNCHANGED <<config, cursor, skipped, ahead>>

\* Without a regular account: a forced probe (AccountRouting says of which one).
Force ==
    /\ \E a \in ToSet(list) : Assign(a)
    /\ batch' = NoBatch /\ outdone' = {}
    /\ UNCHANGED <<config, cursor, skipped, ahead>>

\* No candidate at all.
FindNobody ==
    /\ batch' = NoBatch /\ outdone' = {}
    /\ UNCHANGED <<config, cursor, assigned, skipped, ahead>>

-----------------------------------------------------------------------------
(* Saves and restarts.                                                       *)

\* handleSave: another strategy, another order, more or fewer accounts; an account
\* whose revision is new counts from zero.  The batch is left as it is.  (A save
\* that changes several of these does what several saves do.)
SaveStrategy ==
    /\ strategy' \in Strategies
    /\ UNCHANGED <<list, cursor, assigned, skipped>>

\* An ID is never used again: only the batch could tell.
SaveList ==
    \E listed \in SUBSET Accounts :
        /\ batch.account \notin listed \ ToSet(list)
        /\ list' \in SetToSeqs(listed)
        /\ cursor' = IF listed = {} THEN 0 ELSE cursor % Len(list')
        /\ assigned' = [a \in Accounts |-> IF a \in listed THEN assigned[a] ELSE 0]
        /\ skipped' = IF list' = list THEN skipped ELSE Zero
        /\ UNCHANGED strategy

SaveAccount ==
    \E a \in ToSet(list) :
        /\ assigned' = [assigned EXCEPT ![a] = 0]
        /\ UNCHANGED <<strategy, list, cursor, skipped>>

Save ==
    /\ SaveStrategy \/ SaveList \/ SaveAccount
    /\ outdone' = {}
    /\ UNCHANGED <<batch, ahead>>

Restart == Fresh /\ UNCHANGED config

MayAssign == FoldFunction(+, 0, assigned) < MaxAssigned

Next ==
    \/ /\ MayAssign
       /\ \/ \E some \in (SUBSET ToSet(list)) \ {{}} : Rotate(some) \/ TakeLeastUsed(some)
          \/ \E view \in Looks : TakeFirst(view)
          \/ Prefer \/ Force
    \/ FindNobody \/ Save \/ Restart

Spec == Init /\ [][Next]_vars

-----------------------------------------------------------------------------
(* Properties.                                                               *)

TypeOK ==
    /\ strategy \in Strategies
    /\ \E listed \in SUBSET Accounts : list \in SetToSeqs(listed)
    /\ cursor \in 0..Len(list)
    /\ batch \in [account : Accounts \union {None}, left : 0..BatchSize]
    /\ assigned \in [Accounts -> Nat]

\* Round robin passes an account over fewer times in a row than there are
\* accounts, however the others come and go (router.go:649): a turn that is
\* taken moves the cursor past the account taken, not past the place it had
\* among the candidates.
EveryoneGetsATurn == \A a \in ToSet(list) : skipped[a] < Len(list)

\* Least used compares after every BatchSize choices at the latest, whatever
\* saves, probes and other strategies come between (router.go:665).
UseIsCompared == ahead < BatchSize

\* What the loops choose by priority, reset or balance is the first in the
\* order that README.md gives, among accounts of which that can be said.
FirstIsTaken == outdone = {}
=============================================================================
