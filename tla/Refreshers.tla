----------------------------- MODULE Refreshers -----------------------------
(* The two refreshers that tell routing what an account has left: usage       *)
(* reports for accounts of type Codex OAuth, balances for the others.  An     *)
(* account is of one type, and the two share neither goroutines nor records:  *)
(* a behaviour is one of UsageCache or one of BalanceRefresh, as kind says.   *)
EXTENDS UsageCache

CONSTANTS
    Accounts, Workers,
    MaxAccountRevision      \* bound

ASSUME BalanceAssumption == {Workers, MaxAccountRevision} \subseteq Nat \ {0}

VARIABLES kind, saved, balance, suspension, gate, job, asker

Balance == INSTANCE BalanceRefresh
               WITH revision <- saved, quota <- suspension,
                    MaxRevision <- MaxAccountRevision

balanceVars == <<saved, balance, suspension, gate, job, asker>>

vars == <<kind, usageVars, balanceVars>>

Init == kind \in {"usage", "balance"} /\ UsageInit /\ Balance!Init

RefreshUsage == kind = "usage" /\ UsageNext /\ UNCHANGED <<kind, balanceVars>>

RefreshBalance == kind = "balance" /\ Balance!Next /\ UNCHANGED <<kind, usageVars>>

Next == RefreshUsage \/ RefreshBalance

Spec == Init /\ [][Next]_vars /\ UsageFairness /\ Balance!Fairness

-----------------------------------------------------------------------------
(* Properties.                                                               *)

TypeOK == UsageTypeOK /\ Balance!TypeOK

\* See BalanceRefresh.
OneCheckAtATime == Balance!OneCheckAtATime
KnownBalanceSurvives == Balance!KnownBalanceSurvives

\* Who waits for another's usage report is answered or looks again; the gate of
\* the balances opens again, and who waits for it gets in or leaves.
NobodyIsStuck == FollowersReturn /\ Balance!GateOpens
=============================================================================
