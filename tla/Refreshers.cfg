\* Usage reports: two callers, two tokens, two account revisions.
\* Balances: two callers, one account.
SPECIFICATION Spec
CONSTANTS
    Callers = {c1, c2}
    None = none
    MaxRevision = 2
    MaxCredentials = 2
    MaxVersion = 3
    Accounts = {b1}
    Workers = 1
    MaxAccountRevision = 2
INVARIANTS OneCheckAtATime
PROPERTIES NewsIsKept KnownBalanceSurvives NobodyIsStuck
