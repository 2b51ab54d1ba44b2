\* Two tokens, an API account and a Codex account, every order of three requests.
SPECIFICATION Spec
CONSTANTS
    Tokens = {t1, t2}
    Accounts = {a1, c1}
    Codex = {c1}
    Requests = {r1, r2, r3}
    Ids = {i1, i2}
    None = none
    Streams <- Replies
    MaxEntries = 2
    MaxBytes = 5
    TranscriptMax = 4
    TTL = 1
    MaxRevision = 2
    MaxTime = 1
    Edited = {a1}
    MaxInFlight = 1
SYMMETRY ClientSymmetry
INVARIANTS SizeIsExact ContextIsWhole StaleOwnerStops AnsweredOnce
PROPERTIES EntryKeepsMeaning
CHECK_DEADLOCK FALSE
