\* codex_oauth.go:297 against refreshTokens.
SPECIFICATION Spec
CONSTANTS
    Callers = {c1, c2}
    Admin = admin
    NoOne = none
    Environment <- NoEvents
    MaxToken = 3
    MaxRevision = 1
INVARIANTS SubmittedOnce
