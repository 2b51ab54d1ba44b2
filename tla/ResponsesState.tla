--------------------------- MODULE ResponsesState ---------------------------
(* The conversations the router remembers for POST /v1/responses            *)
(* (responses_state.go) and the attempts of handleProxy that use them: which *)
(* account a follow-up is sent to, whether it keeps its previous_response_id *)
(* or replays the whole transcript, and what is stored when the reply has    *)
(* been relayed.                                                             *)
(*                                                                           *)
(* A transcript is a sequence of items, one per input and one per reply, all *)
(* of size 1.  Accounts serve and fail nondeterministically: AccountRouting  *)
(* models which of them may be chosen, ProxyResources the bytes reserved.    *)
(* A request is sent once by its client; an upstream account never repeats a *)
(* response id while it keeps the response, but two accounts may give the    *)
(* same one.                                                                 *)
EXTENDS Naturals, FiniteSets, Sequences, FiniteSetsExt, SequencesExt

CONSTANTS
    Tokens, Accounts, Requests, Ids,
    Codex,          \* the accounts of type Codex OAuth
    None,           \* no id, no account, no entry
    Streams,        \* the replies of an upstream, as sequences of events
    MaxEntries,     \* responsesStateMaxEntries
    MaxBytes,       \* responsesStateMaxBytes
    TranscriptMax,  \* responsesTranscriptMaxBytes
    TTL,            \* responsesStateTTL
    Edited,         \* bound: the accounts a save may change
    MaxInFlight,    \* bound: requests not yet answered at once
    MaxRevision, MaxTime    \* bounds

\* "quota": a failure that is the account's own.  "quota_output": one that
\* carries what was generated before it.
Events == {"created", "delta", "completed", "failed", "quota", "quota_output"}

Items == {"in", "out"} \X Requests

Talks == Seq(Items)

EntryRec ==
    [account : Accounts, revision : 1..MaxRevision, reusable : BOOLEAN,
     input : Talks, size : Nat, expiresAt : Nat]

ASSUME CacheAssumption ==
    /\ Codex \subseteq Accounts /\ Edited \subseteq Accounts
    /\ {MaxEntries, MaxBytes, TranscriptMax, TTL, MaxRevision} \subseteq Nat \ {0}
    /\ TranscriptMax <= MaxBytes
    /\ None \notin Ids /\ None \notin EntryRec

\* The upstreams' part of the protocol: a failure is the last event of a stream.
ASSUME StreamAssumption ==
    \A stream \in Streams :
        /\ stream \in Seq(Events)
        /\ \A i \in DOMAIN stream :
               stream[i] \in {"failed", "quota", "quota_output"} => i = Len(stream)

VARIABLES
    now,
    revision,   \* revision[a] of the saved account
    cache,      \* a.responsesState
    req,        \* req[r]: a goroutine in handleProxy
    held,       \* what an upstream account keeps under an id it gave
    given       \* the conversations a client was given under an id

vars == <<now, revision, cache, req, held, given>>

Keys == Tokens \X Ids

Upstreams == Accounts \X (1..MaxRevision)

Size(items) == Len(items)

-----------------------------------------------------------------------------
(* The cache.  Each operation runs under cache.mu.  order stands for the      *)
(* sequence numbers: the keys from the one used least recently to the newest. *)

Live(c) == {k \in Keys : c.entries[k] # None}

Bytes(c, S) == SumFunction([k \in S |-> c.entries[k].size])

\* The keys of order that are not in S.
Rest(order, S) ==
    LET rest[i \in 0..Len(order)] ==
            IF i = 0 THEN <<>>
            ELSE IF order[i] \in S THEN rest[i - 1] ELSE Append(rest[i - 1], order[i])
    IN  rest[Len(order)]

Without(c, S) ==
    [entries |-> [k \in Keys |-> IF k \in S THEN None ELSE c.entries[k]],
     bytes |-> c.bytes - Bytes(c, S),
     order |-> Rest(c.order, S)]

\* Faulty: expired entries go, their bytes stay counted.
PrunedUncounted(c) ==
    [Without(c, {k \in Live(c) : now >= c.entries[k].expiresAt}) EXCEPT !.bytes = c.bytes]

\* pruneExpiredLocked
Pruned(c) == Without(c, {k \in Live(c) : now >= c.entries[k].expiresAt})

\* The end of lookup: the entry is the newest again.
Touched(c, k) ==
    [c EXCEPT !.order = Append(Rest(c.order, {k}), k),
              !.entries[k].expiresAt = now + TTL]

\* The loop over evictOldestLocked.
Evicted(c) ==
    LET Oldest(n) == {c.order[i] : i \in 1..n}
        Fits(n) == /\ Len(c.order) - n <= MaxEntries
                   /\ c.bytes - Bytes(c, Oldest(n)) <= MaxBytes
    IN  Without(c, Oldest(CHOOSE n \in 0..Len(c.order) :
                              /\ Fits(n) \/ n = Len(c.order)
                              /\ \A m \in 0..(n - 1) : ~Fits(m)))

Agree(e, f) ==
    /\ e.account = f.account /\ e.revision = f.revision
    /\ e.reusable = f.reusable /\ e.input = f.input

Replaced(c, k, e) ==
    LET room == Without(c, {k} \intersect Live(c))
    IN  [entries |-> [room.entries EXCEPT ![k] = e],
         bytes |-> room.bytes + e.size,
         order |-> Append(room.order, k)]

\* Faulty: the later response wins.
StoredOver(c, k, e) ==
    IF e.size > TranscriptMax THEN c ELSE Evicted(Replaced(Pruned(c), k, e))

\* store: too big is not stored, what contradicts the entry removes it.
Stored(c, k, e) ==
    LET p == Pruned(c)
    IN  CASE e.size > TranscriptMax -> c
          [] e.size <= TranscriptMax /\ k \in Live(p) /\ ~Agree(p.entries[k], e) ->
                 Without(p, {k})
          [] OTHER -> Evicted(Replaced(p, k, e))

-----------------------------------------------------------------------------
(* The replies of an upstream.                                               *)

\* Faulty: every failure before the first delta may be retried.
PreludeActionRetries(event) ==
    CASE event = "created" -> "continue"
      [] event \in {"failed", "quota", "quota_output"} -> "error"
      [] OTHER -> "output"

\* classifyResponsesPreludeEvent: "failed" and "quota" come without output,
\* "quota_output" is a failure that carries what was generated before it.
PreludeAction(event) ==
    CASE event = "created" -> "continue"
      [] event \in {"failed", "quota"} -> "error"
      [] OTHER -> "output"

\* inspectResponsesStreamPrelude: what the first telling event says.
Prelude(stream) ==
    LET i == SelectInSeq(stream, LAMBDA event : PreludeAction(event) # "continue")
    IN  IF i = 0 THEN "eof" ELSE PreludeAction(stream[i])

\* aggregateCodexSSE, parseCompletedResponsesObject: a completed response is
\* in the stream.
Completes(stream) == \E i \in DOMAIN stream : stream[i] = "completed"

\* An error that inspectErrorResponse classifies as the account's own.
OwnFault(stream) == \E i \in DOMAIN stream : stream[i] \in {"quota", "quota_output"}

HasOutput(stream) ==
    \E i \in DOMAIN stream : stream[i] \in {"delta", "completed", "quota_output"}

-----------------------------------------------------------------------------
(* The requests.                                                             *)

\* One that has not come yet, or is over.  form is how Codex accounts answer it,
\* which hangs on stream in its body: unread until the first of them is asked.
\* owner, means and out are kept for the properties only: the revision pref had
\* when the account was chosen, the conversations the client may mean, and
\* whether an account has produced output that was to be relayed as it came.
Blank(pc) ==
    [pc |-> pc, token |-> None, prev |-> None, items |-> <<>>,
     tracked |-> FALSE, known |-> FALSE, force |-> FALSE, keeps |-> FALSE,
     input |-> <<>>, form |-> "unread", pref |-> None, prefRev |-> 0,
     reusable |-> FALSE, account |-> None, rev |-> 0,
     owner |-> 0, attempted |-> {}, replay |-> FALSE, id |-> None, means |-> {}, out |-> FALSE]

Init ==
    /\ now = 0
    /\ revision = [a \in Accounts |-> 1]
    /\ cache = [entries |-> [k \in Keys |-> None], bytes |-> 0, order |-> <<>>]
    /\ req = [r \in Requests |-> Blank("new")]
    /\ held = [u \in Upstreams |-> [i \in Ids |-> <<>>]]
    /\ given = [k \in Keys |-> {}]

Finish(r) == req' = [req EXCEPT ![r] = Blank("done")]

\* The conversations a request of token t with this previous id and these
\* items may mean.
Meaning(t, prev, items) ==
    IF prev = None \/ Len(items) > 1
    THEN {items}
    ELSE {conversation \o items : conversation \in given[t, prev]}

\* What a client sends: its new input alone, or after a conversation it was
\* given, with or without the id of the last response.
Sends(r, t, prev, items) ==
    \E base \in {<<>>} \union UNION {given[t, i] : i \in Ids} :
        /\ items = base \o <<<<"in", r>>>>
        /\ prev # None /\ base # <<>> => given[t, prev] = {base}

MayArrive(r) ==
    /\ req[r].pc = "new"
    /\ Cardinality({x \in Requests : req[x].pc \in {"select", "check", "sent"}})
           < MaxInFlight

Arrived(t, prev, items) ==
    [Blank("select") EXCEPT !.token = t, !.prev = prev, !.items = items,
                            !.input = items,
                            !.means = Meaning(t, prev, items)]

\* prepareResponsesRequest without a previous id, or with one the cache does
\* not know: the body is passed on as it came.
PrepareUnknown(r) ==
    /\ MayArrive(r)
    /\ \E t \in Tokens, prev \in Ids \union {None} :
       \E base \in {<<>>} \union UNION {given[t, i] : i \in Ids} :
           LET items == base \o <<<<"in", r>>>>
           IN  /\ Sends(r, t, prev, items)
               /\ prev # None => <<t, prev>> \notin Live(Pruned(cache))
               /\ cache' = IF prev = None THEN cache ELSE Pruned(cache)
               /\ req' = [req EXCEPT ![r] =
                      [Arrived(t, prev, items)
                          EXCEPT !.tracked = prev = None /\ Size(items) <= TranscriptMax]]
               /\ UNCHANGED <<now, revision, held, given>>

\* The 409 that lookup's caller answers.
OwnerIsCurrent(account, rev) == revision[account] = rev

\* prepareResponsesRequest with an id the cache knows.  The account may have
\* changed (409) and the body budget may refuse the stored bytes (503).
PrepareKnown(r) ==
    /\ MayArrive(r)
    /\ \E t \in Tokens, prev \in Ids :
       \E base \in {<<>>} \union given[t, prev] :
           LET items == base \o <<<<"in", r>>>>
               found == Pruned(cache)
               entry == found.entries[t, prev]
               force == IsPrefix(entry.input, items)
           IN  /\ Sends(r, t, prev, items)
               /\ <<t, prev>> \in Live(found)
               /\ cache' = Touched(found, <<t, prev>>)
               /\ \/ /\ OwnerIsCurrent(entry.account, entry.revision)
                     /\ req' = [req EXCEPT ![r] =
                            [Arrived(t, prev, items) EXCEPT
                                !.tracked = TRUE, !.known = TRUE, !.force = force,
                                !.pref = entry.account, !.prefRev = entry.revision,
                                !.reusable = entry.reusable,
                                !.input = IF force THEN items ELSE entry.input \o items]]
                  \/ /\ OwnerIsCurrent(entry.account, entry.revision) => ~force
                     /\ Finish(r)
               /\ UNCHANGED <<now, revision, held, given>>

\* selectProxyAccountFor: any account not yet attempted, as it is saved now.
Select(r) ==
    /\ req[r].pc = "select"
    /\ \E a \in Accounts \ req[r].attempted :
           req' = [req EXCEPT
               ![r].pc = "check", ![r].account = a, ![r].rev = revision[a],
               ![r].owner = IF req[r].known THEN revision[req[r].pref] ELSE 0,
               ![r].attempted = @ \union {a}]
    /\ UNCHANGED <<now, revision, cache, held, given>>

\* Faulty: only the first attempt is checked.
MustStopOnce(q) ==
    q.known /\ q.attempted = {q.account} /\ ~OwnerIsCurrent(q.pref, q.prefRev)

\* A follow-up is checked against its account before every attempt (409).
MustStop(q) == q.known /\ ~OwnerIsCurrent(q.pref, q.prefRev)

\* Faulty: a response the upstream was told not to store is asked for by id.
ShouldReplayStored(q) ==
    q.known /\ (q.force \/ q.account \in Codex \/ q.account # q.pref)

\* shouldReplay, for the copy of the account this attempt works with.
ShouldReplay(q) ==
    /\ q.known
    /\ \/ q.force \/ q.account \in Codex
       \/ q.account # q.pref \/ q.rev # q.prefRev
       \/ ~q.reusable

\* replayBody: the transcript takes the place of the id, unless it is too big
\* (413).  A body that was replayed stays so.
Send(r) ==
    LET q == req[r]
        replays == ~q.replay /\ ShouldReplay(q)
    IN  /\ q.pc = "check"
        /\ IF MustStop(q) \/ (replays /\ Size(q.input) > TranscriptMax)
           THEN Finish(r)
           ELSE req' = [req EXCEPT ![r] =
                   IF replays
                   THEN [q EXCEPT !.pc = "sent", !.replay = TRUE, !.prev = None,
                                  !.items = q.input]
                   ELSE [q EXCEPT !.pc = "sent"]]
        /\ UNCHANGED <<now, revision, cache, held, given>>

\* How the events reach handleProxy: relayed as they come, read to their end and
\* turned into one status (codexProvider.send, for a client that does not ask to
\* stream), or told by an API account in one object.
Forms(q) ==
    IF q.account \notin Codex THEN {"stream", "object"}
    ELSE {form \in {"stream", "aggregate"} : q.form \in {"unread", form}}

\* The attempt is over and the request goes to another account.
Unanswered(q, form) ==
    [q EXCEPT !.pc = "select", !.form = IF q.account \in Codex THEN form ELSE @]

\* The attempt fails before a reply, or with a status that sends the request
\* to another account.
Fail(r) ==
    /\ req[r].pc = "sent"
    /\ \E form \in Forms(req[r]) : req' = [req EXCEPT ![r] = Unanswered(@, form)]
    /\ UNCHANGED <<now, revision, cache, held, given>>

\* What the upstream takes the request for: an id it does not keep leaves the
\* conversation out.
Understood(q) ==
    IF q.prev = None THEN q.items
    ELSE held[<<q.account, q.rev>>][q.prev] \o q.items

\* What storeResponsesResponse will need once the reply is relayed.
Relayed(q, id, keeps) ==
    [Blank("relayed") EXCEPT !.token = q.token, !.id = id, !.tracked = TRUE,
                             !.account = q.account, !.rev = q.rev,
                             !.keeps = keeps, !.input = q.input]

\* A failure turned into a status that another account may still change.  The
\* prelude of a stream ends with its output; aggregateCodexSSE looks for a
\* completed response and then for an error, whatever came before it; an object
\* of status 200 is never looked at.
AsksAnother(stream, form) ==
    /\ OwnFault(stream)
    /\ \/ form = "stream" /\ Prelude(stream) = "error"
       \/ form = "aggregate" /\ ~Completes(stream)

\* The client is given the whole response.
Answers(stream, form) ==
    Completes(stream) /\ (form = "stream" => Prelude(stream) = "output")

\* An API account keeps a response unless the body said not to store it, which
\* shows nowhere earlier.
MayKeep(q, stream) == {FALSE, Completes(stream) /\ q.account \notin Codex}

\* A reply comes, its response named by an id its account is not using.
Receive(r) ==
    \E stream \in Streams, i \in Ids :
    \E form \in Forms(req[r]), keeps \in MayKeep(req[r], stream) :
        LET q == req[r]
            u == <<q.account, q.rev>>
            conversation == Understood(q) \o <<<<"out", r>>>>
        IN  /\ q.pc = "sent"
            /\ held[u][i] = <<>>
            /\ held' = IF keeps THEN [held EXCEPT ![u][i] = conversation] ELSE held
            /\ CASE AsksAnother(stream, form) ->
                        /\ req' = [req EXCEPT ![r] =
                               [Unanswered(q, form) EXCEPT
                                   !.out = form # "aggregate" /\ HasOutput(stream)]]
                        /\ UNCHANGED given
                 [] Answers(stream, form) ->
                        /\ req' = [req EXCEPT ![r] =
                               IF q.tracked THEN Relayed(q, i, keeps) ELSE Blank("done")]
                        /\ given' = [given EXCEPT ![<<q.token, i>>] = @ \union
                               {m \o <<<<"out", r>>>> : m \in q.means}]
                 [] OTHER -> Finish(r) /\ UNCHANGED given
            /\ UNCHANGED <<now, revision, cache>>

\* storeResponsesResponse, after the client has the whole reply.
Transcript(q, r) ==
    [account |-> q.account, revision |-> q.rev,
     reusable |-> q.keeps,
     input |-> q.input \o <<<<"out", r>>>>, size |-> Size(q.input) + 1,
     expiresAt |-> now + TTL]

Store(r) ==
    /\ req[r].pc = "relayed"
    /\ cache' = Stored(cache, <<req[r].token, req[r].id>>, Transcript(req[r], r))
    /\ Finish(r)
    /\ UNCHANGED <<now, revision, held, given>>

\* No account is left, the client goes, a budget refuses, an attempt's outcome
\* is unknown, or a reply could not be captured.
Stop(r) ==
    /\ req[r].pc \in {"select", "relayed"}
    /\ Finish(r)
    /\ UNCHANGED <<now, revision, cache, held, given>>

\* handleSave: new credentials raise the revision.  An account that is deleted
\* is to the check like one that was changed, and is never selected again.
Save(a) ==
    /\ revision[a] < MaxRevision
    /\ revision' = [revision EXCEPT ![a] = @ + 1]
    /\ UNCHANGED <<now, cache, req, held, given>>

Tick ==
    /\ now < MaxTime /\ now' = now + 1
    /\ UNCHANGED <<revision, cache, req, held, given>>

Handle(r) ==
    \/ PrepareUnknown(r) \/ PrepareKnown(r) \/ Select(r) \/ Send(r)
    \/ Fail(r) \/ Receive(r) \/ Store(r) \/ Stop(r)

Next == (\E r \in Requests : Handle(r)) \/ (\E a \in Edited : Save(a)) \/ Tick

Spec == Init /\ [][Next]_vars

-----------------------------------------------------------------------------
(* Properties.                                                               *)

TypeOK ==
    /\ now \in 0..MaxTime
    /\ revision \in [Accounts -> 1..MaxRevision]
    /\ \A k \in Live(cache) :
           LET e == cache.entries[k]
           IN  /\ e.account \in Accounts /\ e.revision \in 1..MaxRevision
               /\ e.reusable => e.account \notin Codex
               /\ Size(e.input) = e.size /\ e.size <= TranscriptMax
    /\ ToSet(cache.order) = Live(cache) /\ IsInjective(cache.order)
    /\ \A r \in Requests :
           /\ req[r].pc \in {"new", "select", "check", "sent", "relayed", "done"}
           /\ req[r].known => req[r].tracked /\ req[r].prefRev \in 1..MaxRevision
           /\ req[r].replay => req[r].prev = None /\ req[r].known

\* The byte counter is what the entries weigh, and both limits hold: a counter
\* that has drifted would empty the cache or keep evictOldestLocked spinning
\* (responses_state.go:165).
SizeIsExact ==
    /\ cache.bytes = Bytes(cache, Live(cache))
    /\ cache.bytes <= MaxBytes
    /\ Cardinality(Live(cache)) <= MaxEntries

\* What an upstream takes a follow-up for is a conversation its client means,
\* whole and without repetition, whether the id is kept or the transcript is
\* replayed, after any failover; and what is stored is a conversation that
\* was given to this token under this id (shouldReplay, replayBody).
ContextIsWhole ==
    /\ \A r \in Requests :
           req[r].pc = "sent" /\ req[r].known => Understood(req[r]) \in req[r].means
    /\ \A k \in Live(cache) : cache.entries[k].input \in given[k]

\* A follow-up whose account was saved before the attempt's account was chosen
\* is not sent to anyone (README.md:39, proxy.go:512).
StaleOwnerStops ==
    \A r \in Requests :
        req[r].pc = "sent" /\ req[r].known => req[r].owner = req[r].prefRev

\* Two responses that carry one id and disagree never follow each other under
\* it: an entry may go, but until it expires it never changes what it stands for
\* (responses_state.go:139).
EntryKeepsMeaning ==
    [][\A k \in Live(cache) :
           now < cache.entries[k].expiresAt /\ cache'.entries[k] # None
               => Agree(cache.entries[k], cache'.entries[k])]_vars

\* Once an account has produced output that is relayed as it comes, no other
\* account is asked: the work would be done, and paid for, twice
\* (responses_state.go:676).  Of a reply that is read whole nothing is relayed
\* before its end, and a Codex account's own failure there does throw its output
\* away (codex_provider.go:384).
AnsweredOnce ==
    \A r \in Requests : req[r].out => req[r].pc \in {"relayed", "done"}
=============================================================================
