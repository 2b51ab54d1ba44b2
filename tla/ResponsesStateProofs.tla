------------------------ MODULE ResponsesStateProofs ------------------------
(* The requests of the conversation cache, for every number of clients,       *)
(* accounts and ids, every size of the cache and every set of streams.        *)
EXTENDS ResponsesState, Sums, SequenceTheorems

Question(r) == <<<<"in", r>>>>

Answer(r) == <<<<"out", r>>>>

RequestRec ==
    [pc : {"new", "select", "check", "sent", "relayed", "done"},
     token : Tokens \union {None}, prev : Ids \union {None}, items : Talks,
     tracked : BOOLEAN, known : BOOLEAN, force : BOOLEAN, keeps : BOOLEAN,
     input : Talks, pref : Accounts \union {None}, prefRev : 0..MaxRevision,
     reusable : BOOLEAN, account : Accounts \union {None}, rev : 0..MaxRevision,
     owner : 0..MaxRevision, attempted : SUBSET Accounts, replay : BOOLEAN,
     id : Ids \union {None}, means : SUBSET Talks, out : BOOLEAN,
     form : {"unread", "stream", "aggregate"}]

(* The parts of the invariant take the state they are about as parameters:    *)
(* revs for revision, kept for held and told for given.                       *)

\* Every conversation a client was given has a question and an answer.
WorldOK(revs, kept, told) ==
    /\ revs \in [Accounts -> 1..MaxRevision]
    /\ kept \in [Upstreams -> [Ids -> Talks]]
    /\ told \in [Keys -> SUBSET Talks]
    /\ \A k \in Keys : \A talk \in told[k] : Len(talk) >= 2

\* What an entry stands for was given to its client under its id, and the
\* upstream that may be asked for it by id keeps just that.
EntryOK(k, e, kept, told) ==
    /\ e \in EntryRec
    /\ e.input \in told[k]
    /\ e.reusable => kept[<<e.account, e.revision>>][k[2]] = e.input

CacheOK(c, kept, told) ==
    /\ c = [entries |-> c.entries, bytes |-> c.bytes, order |-> c.order]
    /\ c.entries = [k \in Keys |-> c.entries[k]]
    /\ \A k \in Keys : c.entries[k] # None => EntryOK(k, c.entries[k], kept, told)

Working(q) == q.pc \in {"select", "check", "sent"}

Chosen(q) == q.pc \in {"check", "sent"}

\* A follow-up knows its account as it was at one time, and the attempt's
\* account was chosen no earlier.
OwnerOK(q, revs) ==
    Working(q) /\ q.known =>
        /\ q.pref \in Accounts /\ q.prefRev \in 1..MaxRevision
        /\ q.prefRev <= revs[q.pref]
        /\ Chosen(q) => q.prefRev <= q.owner /\ q.owner <= revs[q.pref]
        /\ q.pc = "sent" => q.owner = q.prefRev

\* Nothing but its transcript stands for the request.
Whole(q) == q.replay \/ ~q.known

\* The transcript is one that the client may mean.  Until it is replayed, a
\* follow-up stands for it together with what the upstream keeps.
ContextOK(q, kept) ==
    Working(q) /\ q.tracked =>
        /\ q.input \in q.means
        /\ Whole(q) => q.prev = None
        /\ Whole(q) \/ q.force => q.items = q.input
        /\ ~Whole(q) /\ ~q.force /\ q.reusable =>
               /\ q.prev \in Ids
               /\ kept[<<q.pref, q.prefRev>>][q.prev] # <<>>
               /\ kept[<<q.pref, q.prefRev>>][q.prev] \o q.items = q.input
        /\ q.pc = "sent" /\ ~Whole(q) =>
               /\ ~q.force /\ q.reusable
               /\ q.account = q.pref /\ q.rev = q.prefRev

\* What is to be stored was given to the client, and perhaps kept upstream.
RelayedOK(r, q, kept, told) ==
    q.pc = "relayed" =>
        /\ q.token \in Tokens /\ q.id \in Ids
        /\ q.account \in Accounts /\ q.rev \in 1..MaxRevision
        /\ q.input \o Answer(r) \in told[<<q.token, q.id>>]
        /\ q.keeps => kept[<<q.account, q.rev>>][q.id] = q.input \o Answer(r)

\* A request at work comes from a client, and no upstream has answered it.
WorkOK(q) ==
    /\ Working(q) => /\ q.token \in Tokens /\ ~q.out
                     /\ \A talk \in q.means : Len(talk) >= 1
                     /\ q.known => q.tracked
    /\ Chosen(q) => q.account \in Accounts /\ q.rev \in 1..MaxRevision
    /\ q.out => q.pc \in {"relayed", "done"}

RequestOK(r, q, revs, kept, told) ==
    /\ q \in RequestRec /\ WorkOK(q)
    /\ OwnerOK(q, revs) /\ ContextOK(q, kept) /\ RelayedOK(r, q, kept, told)

RequestsOK ==
    /\ req = [r \in Requests |-> req[r]]
    /\ \A r \in Requests : RequestOK(r, req[r], revision, held, given)

ConversationInv ==
    /\ now \in Nat /\ WorldOK(revision, held, given)
    /\ CacheOK(cache, held, given)
    /\ RequestsOK

-----------------------------------------------------------------------------
(* The world goes on: revisions rise, and what is kept and given stays.      *)

Grows(revs, kept, told, revs2, kept2, told2) ==
    /\ \A a \in Accounts : revs[a] <= revs2[a]
    /\ \A u \in Upstreams, i \in Ids : kept[u][i] # <<>> => kept2[u][i] = kept[u][i]
    /\ \A k \in Keys : told[k] \subseteq told2[k]

LEMMA Bounds ==
    /\ {MaxEntries, MaxBytes, TranscriptMax, TTL, MaxRevision} \subseteq Nat \ {0}
    /\ None \notin Ids
  BY CacheAssumption

\* A conversation a client was given is not empty.
LEMMA GivenIsTalk ==
    ASSUME NEW revs, NEW kept, NEW told, WorldOK(revs, kept, told),
           NEW k \in Keys, NEW talk \in told[k]
    PROVE  talk \in Talks /\ Len(talk) \in Nat /\ Len(talk) >= 2 /\ talk # <<>>
  <1>1. talk \in Seq(Items) /\ Len(talk) >= 2
    BY DEF WorldOK, Talks
  <1>2. Len(talk) \in Nat /\ (talk = <<>> => Len(talk) = 0)
    BY <1>1, EmptySeq, LenProperties
  <1> QED
    BY <1>1, <1>2 DEF Talks

\* An entry stays sound.
LEMMA EntryCarries ==
    ASSUME NEW revs, NEW kept, NEW told, NEW revs2, NEW kept2, NEW told2,
           WorldOK(revs, kept, told), Grows(revs, kept, told, revs2, kept2, told2),
           NEW k \in Keys, NEW e, EntryOK(k, e, kept, told)
    PROVE  EntryOK(k, e, kept2, told2)
  <1>1. e \in EntryRec /\ e.input \in told[k] /\ e.input \in told2[k]
    BY DEF EntryOK, Grows
  <1>2. e.input # <<>>
    BY <1>1, GivenIsTalk
  <1>3. <<e.account, e.revision>> \in Upstreams /\ k[2] \in Ids
    BY <1>1 DEF EntryRec, Upstreams, Keys
  <1>4. e.reusable => kept2[<<e.account, e.revision>>][k[2]] = e.input
    BY <1>2, <1>3 DEF EntryOK, Grows
  <1> QED
    BY <1>1, <1>4 DEF EntryOK

LEMMA CacheCarries ==
    ASSUME NEW revs, NEW kept, NEW told, NEW revs2, NEW kept2, NEW told2,
           WorldOK(revs, kept, told), Grows(revs, kept, told, revs2, kept2, told2),
           NEW c, CacheOK(c, kept, told)
    PROVE  CacheOK(c, kept2, told2)
  BY EntryCarries DEF CacheOK

\* A request that nothing happens to stays sound.
LEMMA RequestCarries ==
    ASSUME NEW revs, NEW kept, NEW told, NEW revs2, NEW kept2, NEW told2,
           WorldOK(revs, kept, told), Grows(revs, kept, told, revs2, kept2, told2),
           WorldOK(revs2, kept2, told2),
           NEW r, NEW q, RequestOK(r, q, revs, kept, told)
    PROVE  RequestOK(r, q, revs2, kept2, told2)
  <1>1. q \in RequestRec /\ WorkOK(q)
    BY DEF RequestOK
  <1>2. OwnerOK(q, revs2)
    <2>1. CASE Working(q) /\ q.known
      <3>1. /\ q.pref \in Accounts /\ q.prefRev \in 1..MaxRevision
            /\ q.prefRev <= revs[q.pref]
            /\ Chosen(q) => q.prefRev <= q.owner /\ q.owner <= revs[q.pref]
            /\ q.pc = "sent" => q.owner = q.prefRev
        BY <2>1 DEF RequestOK, OwnerOK
      <3>2. /\ revs[q.pref] <= revs2[q.pref]
            /\ revs[q.pref] \in Int /\ revs2[q.pref] \in Int /\ q.prefRev \in Int
        <4>1. q.pref \in Accounts
          BY <3>1
        <4>2. revs[q.pref] \in 1..MaxRevision /\ revs2[q.pref] \in 1..MaxRevision
          BY <4>1 DEF WorldOK
        <4>3. revs[q.pref] <= revs2[q.pref]
          BY <4>1 DEF Grows
        <4>4. q.prefRev \in Int
          BY <3>1
        <4> QED
          BY <4>2, <4>3, <4>4
      <3>3. q.owner \in Int
        BY <1>1 DEF RequestRec
      <3>4. q.prefRev <= revs2[q.pref]
        BY <3>1, <3>2
      <3>5. Chosen(q) => q.owner <= revs2[q.pref]
        BY <3>1, <3>2, <3>3
      <3> QED
        BY <3>1, <3>4, <3>5 DEF OwnerOK
    <2> QED
      BY <2>1 DEF OwnerOK
  <1>3. ContextOK(q, kept2)
    <2>1. CASE Working(q) /\ q.tracked /\ ~Whole(q) /\ ~q.force /\ q.reusable
      <3>1. /\ q.prev \in Ids
            /\ kept[<<q.pref, q.prefRev>>][q.prev] # <<>>
            /\ kept[<<q.pref, q.prefRev>>][q.prev] \o q.items = q.input
        BY <2>1 DEF RequestOK, ContextOK
      <3>2. <<q.pref, q.prefRev>> \in Upstreams
        BY <2>1 DEF RequestOK, OwnerOK, Whole, Upstreams
      <3>3. kept2[<<q.pref, q.prefRev>>][q.prev] = kept[<<q.pref, q.prefRev>>][q.prev]
        BY <3>1, <3>2 DEF Grows
      <3> QED
        BY <3>1, <3>3 DEF RequestOK, ContextOK
    <2> QED
      BY <2>1 DEF RequestOK, ContextOK
  <1>4. RelayedOK(r, q, kept2, told2)
    <2>1. CASE q.pc = "relayed"
      <3>1. /\ q.token \in Tokens /\ q.id \in Ids
            /\ q.account \in Accounts /\ q.rev \in 1..MaxRevision
            /\ q.input \o Answer(r) \in told[<<q.token, q.id>>]
            /\ q.keeps => kept[<<q.account, q.rev>>][q.id] = q.input \o Answer(r)
        BY <2>1 DEF RequestOK, RelayedOK
      <3>2. <<q.token, q.id>> \in Keys /\ <<q.account, q.rev>> \in Upstreams
        BY <3>1 DEF Keys, Upstreams
      <3>3. q.input \o Answer(r) # <<>>
        BY <3>1, <3>2, GivenIsTalk
      <3>4. q.input \o Answer(r) \in told2[<<q.token, q.id>>]
        BY <3>1, <3>2 DEF Grows
      <3>5. q.keeps => kept2[<<q.account, q.rev>>][q.id] = q.input \o Answer(r)
        <4>1. ASSUME q.keeps PROVE kept[<<q.account, q.rev>>][q.id] = q.input \o Answer(r)
          BY <3>1, <4>1
        <4>2. kept[<<q.account, q.rev>>][q.id] # <<>> =>
                  kept2[<<q.account, q.rev>>][q.id] = kept[<<q.account, q.rev>>][q.id]
          BY <3>1, <3>2 DEF Grows
        <4> QED
          BY <3>3, <4>1, <4>2
      <3> QED
        BY <3>1, <3>4, <3>5 DEF RelayedOK
    <2> QED
      BY <2>1 DEF RelayedOK
  <1> QED
    BY <1>1, <1>2, <1>3, <1>4 DEF RequestOK

\* Nothing happens.
LEMMA SameGrows ==
    ASSUME NEW revs, NEW kept, NEW told, WorldOK(revs, kept, told)
    PROVE  Grows(revs, kept, told, revs, kept, told)
  <1>1. \A a \in Accounts : revs[a] \in Int
    BY DEF WorldOK
  <1> QED
    BY <1>1 DEF Grows

-----------------------------------------------------------------------------
(* The cache.                                                                *)

LEMMA WithoutParts ==
    ASSUME NEW c, NEW S
    PROVE  /\ Without(c, S) = [entries |-> Without(c, S).entries,
                               bytes |-> Without(c, S).bytes,
                               order |-> Without(c, S).order]
           /\ Without(c, S).entries =
                  [k \in Keys |-> IF k \in S THEN None ELSE c.entries[k]]
  BY DEF Without

LEMMA WithoutKeeps ==
    ASSUME NEW c, NEW S, NEW k \in Keys, Without(c, S).entries[k] # None
    PROVE  Without(c, S).entries[k] = c.entries[k]
  BY DEF Without

\* Removing entries spoils none.
LEMMA WithoutSound ==
    ASSUME NEW kept, NEW told, NEW c, CacheOK(c, kept, told), NEW S
    PROVE  CacheOK(Without(c, S), kept, told)
  <1> DEFINE d == Without(c, S)
  <1>1. /\ d = [entries |-> d.entries, bytes |-> d.bytes, order |-> d.order]
        /\ d.entries = [k \in Keys |-> IF k \in S THEN None ELSE c.entries[k]]
    BY WithoutParts
  <1> HIDE DEF d
  <1>2. \A k \in Keys : d.entries[k] # None => d.entries[k] = c.entries[k]
    BY <1>1
  <1>3. d.entries = [k \in Keys |-> d.entries[k]]
    BY <1>1
  <1>4. CacheOK(d, kept, told)
    BY <1>1, <1>2, <1>3 DEF CacheOK
  <1> QED
    BY <1>4 DEF d

LEMMA EvictedIsWithout == ASSUME NEW c PROVE \E S : Evicted(c) = Without(c, S)
  BY Zenon DEF Evicted

LEMMA PrunedSound ==
    ASSUME NEW kept, NEW told, NEW c, CacheOK(c, kept, told)
    PROVE  /\ CacheOK(Pruned(c), kept, told)
           /\ \A k \in Keys : Pruned(c).entries[k] # None
                                  => Pruned(c).entries[k] = c.entries[k]
  <1>1. PICK S : Pruned(c) = Without(c, S)
    BY DEF Pruned
  <1>2. \A k \in Keys : Without(c, S).entries[k] # None
                            => Without(c, S).entries[k] = c.entries[k]
    BY WithoutKeeps
  <1> QED
    BY <1>1, <1>2, WithoutSound

\* An entry that has not expired is not pruned.
LEMMA UnexpiredStays ==
    ASSUME ConversationInv, NEW k \in Live(cache), now < cache.entries[k].expiresAt
    PROVE  k \in Keys /\ Pruned(cache).entries[k] # None
  <1> DEFINE S == {l \in Live(cache) : now >= cache.entries[l].expiresAt}
  <1>1. k \in Keys /\ cache.entries[k] # None
    BY DEF Live
  <1>2. now \in Nat /\ cache.entries[k].expiresAt \in Nat
    BY <1>1 DEF ConversationInv, CacheOK, EntryOK, EntryRec
  <1>3. k \notin S
    BY <1>2
  <1>4. Pruned(cache).entries[k] = cache.entries[k]
    <2>1. Pruned(cache) = Without(cache, S)
      BY DEF Pruned
    <2>2. Without(cache, S).entries =
              [l \in Keys |-> IF l \in S THEN None ELSE cache.entries[l]]
      BY WithoutParts, Zenon
    <2> HIDE DEF S
    <2>3. Without(cache, S).entries[k] = cache.entries[k]
      BY <1>1, <1>3, <2>2
    <2> QED
      BY <2>1, <2>3
  <1> QED
    BY <1>1, <1>4

\* Two fields of a cache change.
LEMMA CacheExcept ==
    ASSUME NEW c, c = [entries |-> c.entries, bytes |-> c.bytes, order |-> c.order],
           c.entries = [k \in Keys |-> c.entries[k]],
           NEW k \in Keys, NEW time, NEW order, NEW d,
           d = [c EXCEPT !.order = order, !.entries[k].expiresAt = time]
    PROVE  /\ d.entries = [c.entries EXCEPT ![k] = [c.entries[k] EXCEPT !.expiresAt = time]]
           /\ d = [entries |-> d.entries, bytes |-> d.bytes, order |-> d.order]
  OBVIOUS

\* A lookup changes when the entry expires, and nothing else in it.
LEMMA TouchedSound ==
    ASSUME NEW kept, NEW told, NEW c, CacheOK(c, kept, told), now \in Nat,
           NEW k \in Keys, c.entries[k] # None
    PROVE  /\ CacheOK(Touched(c, k), kept, told)
           /\ \A l \in Keys : l # k => Touched(c, k).entries[l] = c.entries[l]
           /\ Agree(c.entries[k], Touched(c, k).entries[k])
  <1> DEFINE e == c.entries[k]
             f == [e EXCEPT !.expiresAt = now + TTL]
             d == Touched(c, k)
  <1>1. EntryOK(k, e, kept, told) /\ e \in EntryRec
    BY DEF CacheOK, EntryOK
  <1>2. now + TTL \in Nat
    BY Bounds
  <1>3. /\ f \in EntryRec /\ f.account = e.account /\ f.revision = e.revision
        /\ f.reusable = e.reusable /\ f.input = e.input
    <2> HIDE DEF e
    <2> QED
      BY <1>1, <1>2 DEF EntryRec
  <1>4. EntryOK(k, f, kept, told)
    <2> HIDE DEF e, f
    <2> QED
      BY <1>1, <1>3 DEF EntryOK
  <1>5. /\ d.entries = [c.entries EXCEPT ![k] = f]
        /\ d = [entries |-> d.entries, bytes |-> d.bytes, order |-> d.order]
    <2> DEFINE order == Append(Rest(c.order, {k}), k)
               time == now + TTL
    <2>1. d = [c EXCEPT !.order = order, !.entries[k].expiresAt = time]
      BY Zenon DEF Touched
    <2>2. /\ c = [entries |-> c.entries, bytes |-> c.bytes, order |-> c.order]
          /\ c.entries = [l \in Keys |-> c.entries[l]]
      BY DEF CacheOK
    <2>3. f = [c.entries[k] EXCEPT !.expiresAt = time]
      OBVIOUS
    <2> HIDE DEF d, f, order, time
    <2> QED
      BY <2>1, <2>2, <2>3, CacheExcept
  <1> HIDE DEF f, d
  <1>6. /\ d.entries[k] = f /\ d.entries = [l \in Keys |-> d.entries[l]]
        /\ \A l \in Keys : l # k => d.entries[l] = c.entries[l]
    BY <1>5 DEF CacheOK
  <1>7. CacheOK(d, kept, told)
    BY <1>4, <1>5, <1>6 DEF CacheOK
  <1>8. Agree(e, f)
    BY <1>3 DEF Agree
  <1> QED
    BY <1>6, <1>7, <1>8 DEF d

\* An entry takes the place of one that agrees with it, or of none.
LEMMA ReplacedSound ==
    ASSUME NEW kept, NEW told, NEW c, CacheOK(c, kept, told),
           NEW k \in Keys, NEW e, EntryOK(k, e, kept, told)
    PROVE  /\ CacheOK(Replaced(c, k, e), kept, told)
           /\ Replaced(c, k, e).entries[k] = e
           /\ \A l \in Keys : l # k => Replaced(c, k, e).entries[l] = c.entries[l]
  <1> DEFINE d == Replaced(c, k, e)
             S == {k} \intersect Live(c)
             room == Without(c, S)
  <1>1. room.entries = [l \in Keys |-> IF l \in S THEN None ELSE c.entries[l]]
    BY WithoutParts
  <1>2. /\ d.entries = [room.entries EXCEPT ![k] = e]
        /\ d = [entries |-> d.entries, bytes |-> d.bytes, order |-> d.order]
    BY DEF Replaced
  <1> HIDE DEF d, room
  <1>3. /\ d.entries[k] = e /\ d.entries = [l \in Keys |-> d.entries[l]]
        /\ \A l \in Keys : l # k => d.entries[l] = c.entries[l]
    BY <1>1, <1>2
  <1>4. CacheOK(d, kept, told)
    BY <1>2, <1>3 DEF CacheOK
  <1> QED
    BY <1>3, <1>4 DEF d

\* What store does: the entries stay sound, and what was there and is there
\* means the same.
LEMMA StoredSound ==
    ASSUME NEW kept, NEW told, CacheOK(cache, kept, told),
           NEW k \in Keys, NEW e, EntryOK(k, e, kept, told)
    PROVE  /\ CacheOK(Stored(cache, k, e), kept, told)
           /\ \A l \in Keys :
                 Pruned(cache).entries[l] # None /\ Stored(cache, k, e).entries[l] # None
                     => Agree(cache.entries[l], Stored(cache, k, e).entries[l])
  <1> DEFINE p == Pruned(cache)
             room == Replaced(p, k, e)
  <1>1. /\ CacheOK(p, kept, told)
        /\ \A l \in Keys : p.entries[l] # None => p.entries[l] = cache.entries[l]
    BY PrunedSound
  <1>2. \A x : Agree(x, x)
    BY DEF Agree
  <1>3. CASE Stored(cache, k, e) = cache
    BY <1>2, <1>3
  <1>4. CASE Stored(cache, k, e) = Without(p, {k})
    <2> HIDE DEF p
    <2>1. \A l \in Keys : Without(p, {k}).entries[l] # None
                              => Without(p, {k}).entries[l] = p.entries[l]
      BY WithoutKeeps
    <2>2. CacheOK(Without(p, {k}), kept, told)
      BY <1>1, WithoutSound
    <2> QED
      BY <1>1, <1>2, <1>4, <2>1, <2>2 DEF p
  <1>5. CASE Stored(cache, k, e) = Evicted(room) /\ (k \in Live(p) => Agree(p.entries[k], e))
    <2>1. PICK S : Evicted(room) = Without(room, S)
      BY EvictedIsWithout
    <2>2. /\ CacheOK(room, kept, told) /\ room.entries[k] = e
          /\ \A l \in Keys : l # k => room.entries[l] = p.entries[l]
      <3> HIDE DEF p
      <3> QED
        BY <1>1, ReplacedSound
    <2> HIDE DEF p, room
    <2>3. CacheOK(Without(room, S), kept, told)
      BY <2>2, WithoutSound
    <2>4. \A l \in Keys : Without(room, S).entries[l] # None
                              => Without(room, S).entries[l] = room.entries[l]
      BY WithoutKeeps
    <2>5. ASSUME NEW l \in Keys, p.entries[l] # None, Without(room, S).entries[l] # None
          PROVE  Agree(cache.entries[l], Without(room, S).entries[l])
      <3>1. CASE l = k
        BY <1>1, <1>5, <2>2, <2>4, <2>5, <3>1 DEF Live
      <3>2. CASE l # k
        BY <1>1, <1>2, <2>2, <2>4, <2>5, <3>2
      <3> QED
        BY <3>1, <3>2
    <2> QED
      BY <1>5, <2>1, <2>3, <2>5 DEF p
  <1>6. e.size \in Nat /\ TranscriptMax \in Nat
    BY Bounds DEF EntryOK, EntryRec
  <1> QED
    BY <1>3, <1>4, <1>5, <1>6 DEF Stored

-----------------------------------------------------------------------------
(* The order of the cache.                                                   *)

\* What the loop of Rest computes, up to n.
RestUpTo(s, S, n, f) ==
    f = [i \in 0..n |->
            IF i = 0 THEN <<>>
            ELSE IF s[i] \in S THEN f[i - 1] ELSE Append(f[i - 1], s[i])]

LEMMA RestIsDefined ==
    ASSUME NEW s, NEW S
    PROVE  \A n \in Nat : \E f : RestUpTo(s, S, n, f)
  <1> DEFINE N == {n \in Nat : \E f : RestUpTo(s, S, n, f)}
  <1>1. 0 \in N
    <2>1. RestUpTo(s, S, 0, [i \in 0..0 |-> <<>>])
      BY DEF RestUpTo
    <2> QED
      BY <2>1
  <1>2. ASSUME NEW n \in Nat, n \in N
        PROVE  n + 1 \in N
    <2>1. PICK f : RestUpTo(s, S, n, f)
      BY <1>2
    <2> DEFINE last == IF s[n + 1] \in S THEN f[n] ELSE Append(f[n], s[n + 1])
               g == [i \in 0..n + 1 |-> IF i = n + 1 THEN last ELSE f[i]]
    <2>2. /\ \A i \in 0..n : g[i] = f[i]
          /\ g[n + 1] = last
      OBVIOUS
    <2>3. \A i \in 0..n : f[i] = IF i = 0 THEN <<>>
                                 ELSE IF s[i] \in S THEN f[i - 1]
                                 ELSE Append(f[i - 1], s[i])
      BY <2>1 DEF RestUpTo
    <2> DEFINE h == [i \in 0..n + 1 |->
                        IF i = 0 THEN <<>>
                        ELSE IF s[i] \in S THEN g[i - 1] ELSE Append(g[i - 1], s[i])]
    <2>4. ASSUME NEW i \in 0..n + 1
          PROVE  g[i] = IF i = 0 THEN <<>>
                        ELSE IF s[i] \in S THEN g[i - 1] ELSE Append(g[i - 1], s[i])
      <3>1. CASE i = n + 1
        <4>1. g[i - 1] = f[n] /\ i # 0
          BY <2>2, <3>1
        <4> HIDE DEF g
        <4> QED
          BY <2>2, <3>1, <4>1
      <3>2. CASE i \in 0..n
        <4>1. g[i] = f[i] /\ (i # 0 => g[i - 1] = f[i - 1])
          BY <2>2, <3>2
        <4> HIDE DEF g
        <4> QED
          BY <2>3, <3>2, <4>1
      <3> QED
        BY <3>1, <3>2
    <2>5. g = h
      <3>1. g = [i \in 0..n + 1 |-> g[i]]
        OBVIOUS
      <3> HIDE DEF g
      <3> QED
        BY <2>4, <3>1
    <2>6. RestUpTo(s, S, n + 1, g)
      <3> HIDE DEF g
      <3> QED
        BY <2>5 DEF RestUpTo
    <2> QED
      BY <2>6
  <1> HIDE DEF N
  <1>3. \A n \in Nat : n \in N
    BY <1>1, <1>2, Induction
  <1> QED
    BY <1>3 DEF N

LEMMA AppendFacts ==
    ASSUME NEW T, NEW t \in Seq(T), NEW x \in T
    PROVE  /\ Append(t, x) \in Seq(T)
           /\ ToSet(Append(t, x)) = ToSet(t) \union {x}
           /\ IsInjective(t) /\ x \notin ToSet(t) => IsInjective(Append(t, x))
  <1> DEFINE u == Append(t, x)
  <1>1. /\ u \in Seq(T) /\ Len(u) = Len(t) + 1 /\ u[Len(t) + 1] = x
        /\ \A i \in 1..Len(t) : u[i] = t[i]
        /\ DOMAIN u = 1..Len(t) + 1 /\ DOMAIN t = 1..Len(t) /\ Len(t) \in Nat
    OBVIOUS
  <1> HIDE DEF u
  <1>2. ToSet(u) = ToSet(t) \union {x}
    BY <1>1 DEF ToSet
  <1>3. IsInjective(t) /\ x \notin ToSet(t) => IsInjective(u)
    <2> SUFFICES ASSUME IsInjective(t), x \notin ToSet(t),
                        NEW i \in DOMAIN u, NEW j \in DOMAIN u, u[i] = u[j]
                 PROVE  i = j
      BY DEF IsInjective
    <2>1. \A k \in 1..Len(t) : u[k] # x
      BY <1>1 DEF ToSet
    <2>2. CASE i \in 1..Len(t) /\ j \in 1..Len(t)
      BY <1>1, <2>2 DEF IsInjective
    <2>3. CASE i = Len(t) + 1 \/ j = Len(t) + 1
      BY <1>1, <2>1, <2>3
    <2> QED
      BY <1>1, <2>2, <2>3
  <1> QED
    BY <1>1, <1>2, <1>3 DEF u

LEMMA RestIs ==
    ASSUME NEW s, NEW S
    PROVE  Rest(s, S) = (CHOOSE f : RestUpTo(s, S, Len(s), f))[Len(s)]
  BY DEF Rest, RestUpTo

\* What is left of a sequence: its other elements, each as often as before.
LEMMA RestFacts ==
    ASSUME NEW T, NEW s \in Seq(T), NEW S
    PROVE  /\ Rest(s, S) \in Seq(T)
           /\ ToSet(Rest(s, S)) = ToSet(s) \ S
           /\ IsInjective(s) => IsInjective(Rest(s, S))
  <1> DEFINE f == CHOOSE g : RestUpTo(s, S, Len(s), g)
             Part(i) == {s[j] : j \in 1..i}
  <1>1. Len(s) \in Nat /\ DOMAIN s = 1..Len(s)
    OBVIOUS
  <1>2. RestUpTo(s, S, Len(s), f)
    BY <1>1, RestIsDefined
  <1> HIDE DEF f
  <1>3. \A i \in 0..Len(s) : f[i] = IF i = 0 THEN <<>>
                                    ELSE IF s[i] \in S THEN f[i - 1]
                                    ELSE Append(f[i - 1], s[i])
    BY <1>2 DEF RestUpTo
  <1> DEFINE N == {i \in Nat : i <= Len(s) =>
                      /\ f[i] \in Seq(T) /\ ToSet(f[i]) = Part(i) \ S
                      /\ IsInjective(s) => IsInjective(f[i])}
  <1>4. 0 \in N
    <2>1. f[0] = <<>>
      BY <1>1, <1>3
    <2>2. <<>> \in Seq(T) /\ DOMAIN <<>> = {} /\ Part(0) = {}
      OBVIOUS
    <2>3. ToSet(<<>>) = {} /\ IsInjective(<<>>)
      BY <2>2 DEF ToSet, IsInjective
    <2> QED
      BY <2>1, <2>2, <2>3
  <1>5. ASSUME NEW n \in Nat, n \in N
        PROVE  n + 1 \in N
    <2> SUFFICES ASSUME n + 1 <= Len(s)
                 PROVE  /\ f[n + 1] \in Seq(T) /\ ToSet(f[n + 1]) = Part(n + 1) \ S
                        /\ IsInjective(s) => IsInjective(f[n + 1])
      OBVIOUS
    <2> DEFINE t == f[n]
               x == s[n + 1]
    <2>1. /\ t \in Seq(T) /\ ToSet(t) = Part(n) \ S
          /\ IsInjective(s) => IsInjective(t)
      BY <1>1, <1>5
    <2>2. n + 1 \in 1..Len(s) /\ x \in T
      BY <1>1
    <2>3. f[n + 1] = IF x \in S THEN t ELSE Append(t, x)
      <3>1. n + 1 \in 0..Len(s) /\ n + 1 # 0 /\ (n + 1) - 1 = n
        BY <1>1
      <3> QED
        BY <1>3, <3>1
    <2>4. Part(n + 1) = Part(n) \union {x}
      <3>1. 1..n + 1 = (1..n) \union {n + 1}
        OBVIOUS
      <3> QED
        BY <3>1
    <2>5. IsInjective(s) => x \notin Part(n)
      <3>1. \A j \in 1..n : j \in DOMAIN s /\ j # n + 1
        BY <1>1
      <3> QED
        BY <1>1, <2>2, <3>1 DEF IsInjective
    <2>6. CASE x \in S
      <3> HIDE DEF t, x, Part
      <3> QED
        BY <2>1, <2>3, <2>4, <2>6
    <2>7. CASE x \notin S
      <3> HIDE DEF t, x, Part
      <3>1. /\ Append(t, x) \in Seq(T)
            /\ ToSet(Append(t, x)) = ToSet(t) \union {x}
            /\ IsInjective(t) /\ x \notin ToSet(t) => IsInjective(Append(t, x))
        BY <2>1, <2>2, AppendFacts
      <3> QED
        BY <2>1, <2>3, <2>4, <2>5, <2>7, <3>1
    <2> QED
      BY <2>6, <2>7
  <1>6. \A n \in Nat : n \in N
    <2> HIDE DEF N
    <2> QED
      BY <1>4, <1>5, Induction
  <1>7. /\ f[Len(s)] \in Seq(T) /\ ToSet(f[Len(s)]) = Part(Len(s)) \ S
        /\ IsInjective(s) => IsInjective(f[Len(s)])
    BY <1>1, <1>6
  <1>8. Part(Len(s)) = ToSet(s)
    BY <1>1 DEF ToSet
  <1>9. Rest(s, S) = f[Len(s)]
    BY RestIs DEF f
  <1> QED
    BY <1>7, <1>8, <1>9

-----------------------------------------------------------------------------
(* The sizes of the cache.                                                   *)

\* The order is that of the entries, and the counter says what they weigh.
Counted(c) ==
    /\ c.order \in Seq(Keys) /\ ToSet(c.order) = Live(c) /\ IsInjective(c.order)
    /\ \A k \in Live(c) : c.entries[k].size \in Nat
    /\ c.bytes = Bytes(c, Live(c))

Limited(c) == c.bytes <= MaxBytes /\ Cardinality(Live(c)) <= MaxEntries

Sizes(c) == [k \in Keys |-> c.entries[k].size]

\* The entries that are taken out, added up in any order.
LEMMA BytesAre ==
    ASSUME NEW c, Counted(c), NEW S \in SUBSET Live(c)
    PROVE  /\ IsFiniteSet(Live(c)) /\ IsFiniteSet(S)
           /\ Bytes(c, S) = SumFunctionOnSet(Sizes(c), S)
           /\ Bytes(c, S) \in Nat
           /\ \A k \in Live(c) : Sizes(c)[k] = c.entries[k].size /\ Sizes(c)[k] \in Nat
  <1>1. IsFiniteSet(Live(c))
    <2>1. Len(c.order) \in Nat /\ DOMAIN c.order = 1..Len(c.order)
      BY LenProperties DEF Counted
    <2>2. IsFiniteSet(1..Len(c.order))
      BY <2>1, FS_Interval
    <2>3. IsFiniteSet({c.order[i] : i \in 1..Len(c.order)})
      BY <2>2, ImageIsNoLarger
    <2>4. Live(c) = {c.order[i] : i \in 1..Len(c.order)}
      BY <2>1 DEF Counted, ToSet
    <2> QED
      BY <2>3, <2>4
  <1>2. IsFiniteSet(S)
    BY <1>1, FS_Subset
  <1>3. \A k \in Live(c) : Sizes(c)[k] = c.entries[k].size /\ Sizes(c)[k] \in Nat
    BY DEF Counted, Sizes, Live
  <1> DEFINE f == [k \in S |-> c.entries[k].size]
  <1>4. Bytes(c, S) = SumFunctionOnSet(f, S)
    BY DEF Bytes, SumFunction
  <1>5. \A k \in S : f[k] = Sizes(c)[k] /\ f[k] \in Nat
    BY <1>3
  <1> HIDE DEF f
  <1>6. SumFunctionOnSet(f, S) = SumFunctionOnSet(Sizes(c), S)
    <2>1. \A k \in S : Sizes(c)[k] \in Int /\ f[k] = Sizes(c)[k]
      BY <1>5
    <2> QED
      BY <1>2, <2>1, SumAgrees
  <1>7. SumFunctionOnSet(f, S) \in Nat
    BY <1>2, <1>5, SumOfNaturals
  <1> QED
    BY <1>1, <1>2, <1>3, <1>4, <1>6, <1>7

LEMMA WithoutCounted ==
    ASSUME NEW c, Counted(c), NEW S \in SUBSET Live(c)
    PROVE  /\ Counted(Without(c, S)) /\ Live(Without(c, S)) = Live(c) \ S
           /\ Without(c, S).bytes = c.bytes - Bytes(c, S)
           /\ Without(c, S).bytes <= c.bytes
  <1> DEFINE d == Without(c, S)
             L == Live(c)
  <1>1. /\ d.entries = [k \in Keys |-> IF k \in S THEN None ELSE c.entries[k]]
        /\ d.bytes = c.bytes - Bytes(c, S) /\ d.order = Rest(c.order, S)
    BY DEF Without
  <1> HIDE DEF d
  <1>2. Live(d) = L \ S
    BY <1>1 DEF Live
  <1>3. \A k \in L \ S : d.entries[k] = c.entries[k] /\ c.entries[k].size \in Nat
    BY <1>1 DEF Counted, Live
  <1>4. d.order \in Seq(Keys) /\ ToSet(d.order) = L \ S /\ IsInjective(d.order)
    BY <1>1, RestFacts DEF Counted
  <1>5. Bytes(d, L \ S) = Bytes(c, L \ S)
    <2>1. [k \in L \ S |-> d.entries[k].size] = [k \in L \ S |-> c.entries[k].size]
      BY <1>3
    <2> QED
      BY <2>1 DEF Bytes
  <1>6. /\ Bytes(c, L) = Bytes(c, S) + Bytes(c, L \ S)
        /\ Bytes(c, S) \in Nat /\ Bytes(c, L \ S) \in Nat /\ Bytes(c, L) \in Nat
    <2> DEFINE f == Sizes(c)
    <2>1. IsFiniteSet(L) /\ \A k \in L : f[k] \in Int
      BY BytesAre
    <2>2. L \in SUBSET L /\ S \in SUBSET L /\ L \ S \in SUBSET L
      OBVIOUS
    <2>3. /\ Bytes(c, L) = SumFunctionOnSet(f, L) /\ Bytes(c, L) \in Nat
          /\ Bytes(c, S) = SumFunctionOnSet(f, S) /\ Bytes(c, S) \in Nat
          /\ Bytes(c, L \ S) = SumFunctionOnSet(f, L \ S) /\ Bytes(c, L \ S) \in Nat
      BY <2>2, BytesAre
    <2> HIDE DEF f, L
    <2>4. SumFunctionOnSet(f, L) = SumFunctionOnSet(f, S) + SumFunctionOnSet(f, L \ S)
      BY <2>1, <2>2, SumSplits
    <2> QED
      BY <2>3, <2>4
  <1>7. c.bytes = Bytes(c, L)
    BY DEF Counted
  <1> HIDE DEF L
  <1>8. d.bytes = Bytes(d, L \ S) /\ d.bytes <= c.bytes
    BY <1>1, <1>5, <1>6, <1>7
  <1>9. Counted(d)
    BY <1>2, <1>3, <1>4, <1>8 DEF Counted
  <1> QED
    BY <1>1, <1>2, <1>8, <1>9 DEF d, L

\* The n entries used least recently, and whether the rest fits without them.
Oldest(c, n) == {c.order[i] : i \in 1..n}

Fits(c, n) ==
    /\ Len(c.order) - n <= MaxEntries
    /\ c.bytes - Bytes(c, Oldest(c, n)) <= MaxBytes

FirstFit(c) ==
    CHOOSE n \in 0..Len(c.order) :
        /\ Fits(c, n) \/ n = Len(c.order)
        /\ \A m \in 0..(n - 1) : ~Fits(c, m)

LEMMA EvictedIs == ASSUME NEW c PROVE Evicted(c) = Without(c, Oldest(c, FirstFit(c)))
  BY Zenon DEF Evicted, Oldest, Fits, FirstFit

\* Evicting ends as soon as both limits hold; without any entry they do.
LEMMA FirstFits ==
    ASSUME NEW c, Counted(c)
    PROVE  FirstFit(c) \in 0..Len(c.order) /\ Fits(c, FirstFit(c))
  <1> DEFINE len == Len(c.order)
             F == {n \in 0..len : Fits(c, n)}
  <1>1. len \in Nat /\ DOMAIN c.order = 1..len
    BY LenProperties DEF Counted
  <1>2. Fits(c, len)
    <2>1. Oldest(c, len) = Live(c)
      BY <1>1 DEF Oldest, Counted, ToSet
    <2>2. Bytes(c, Live(c)) \in Nat /\ c.bytes = Bytes(c, Live(c))
      BY BytesAre DEF Counted
    <2>3. c.bytes - Bytes(c, Oldest(c, len)) = 0 /\ len - len = 0
      BY <1>1, <2>1, <2>2
    <2>4. 0 <= MaxBytes /\ 0 <= MaxEntries
      BY Bounds
    <2> QED
      BY <2>3, <2>4 DEF Fits
  <1> HIDE DEF len
  <1>3. PICK n \in F : \A m \in F : n <= m
    <2>1. F \in SUBSET Nat
      OBVIOUS
    <2>2. len \in F
      BY <1>1, <1>2
    <2> HIDE DEF F
    <2> QED
      BY <2>1, <2>2, LeastNumber
  <1>4. n \in 0..len /\ Fits(c, n)
    OBVIOUS
  <1>5. \A m \in 0..(n - 1) : ~Fits(c, m)
    <2> TAKE m \in 0..(n - 1)
    <2>1. m \in 0..len /\ ~(n <= m)
      BY <1>1, <1>4
    <2> QED
      BY <1>3, <2>1
  <1> HIDE DEF F
  <1>6. /\ FirstFit(c) \in 0..len
        /\ Fits(c, FirstFit(c)) \/ FirstFit(c) = len
    BY <1>4, <1>5, Zenon DEF FirstFit, len
  <1> QED
    BY <1>2, <1>6 DEF len

LEMMA EvictedLimited ==
    ASSUME NEW c, Counted(c)
    PROVE  Counted(Evicted(c)) /\ Limited(Evicted(c))
  <1> DEFINE n == FirstFit(c)
             len == Len(c.order)
             S == Oldest(c, n)
             d == Without(c, S)
             later == {c.order[i] : i \in (n + 1)..len}
  <1>1. len \in Nat /\ DOMAIN c.order = 1..len /\ n \in 0..len
    BY FirstFits, LenProperties DEF Counted
  <1>2. len - n <= MaxEntries /\ c.bytes - Bytes(c, S) <= MaxBytes
    BY FirstFits DEF Fits
  <1> HIDE DEF n, len
  <1>3. ToSet(c.order) = Live(c)
    BY DEF Counted
  <1>4. S \in SUBSET Live(c)
    BY <1>1, <1>3 DEF Oldest, ToSet
  <1>5. Counted(d) /\ Live(d) = Live(c) \ S /\ d.bytes = c.bytes - Bytes(c, S)
    <2> HIDE DEF S
    <2> QED
      BY <1>4, WithoutCounted
  <1>6. Live(d) \in SUBSET later
    <2>1. ASSUME NEW k \in Live(c) \ S PROVE k \in later
      <3>1. PICK i \in 1..len : c.order[i] = k
        BY <1>1, <1>3 DEF ToSet
      <3>2. i \notin 1..n
        BY <3>1 DEF Oldest
      <3>3. i \in (n + 1)..len
        BY <1>1, <3>1, <3>2
      <3> QED
        BY <3>1, <3>3
    <2> HIDE DEF S, later
    <2> QED
      BY <1>5, <2>1
  <1>7. /\ IsFiniteSet(later) /\ Cardinality(later) \in Nat
        /\ Cardinality(later) <= len - n
    <2> DEFINE D == (n + 1)..len
    <2>1. IsFiniteSet(D) /\ Cardinality(D) = IF n + 1 > len THEN 0 ELSE len - (n + 1) + 1
      <3>1. n + 1 \in Int /\ len \in Int
        BY <1>1
      <3> QED
        BY <3>1, FS_Interval
    <2>2. Cardinality(D) = len - n
      BY <1>1, <2>1
    <2> HIDE DEF D
    <2>3. IsFiniteSet(later) /\ Cardinality(later) <= Cardinality(D)
      BY <2>1, ImageIsNoLarger DEF D
    <2> HIDE DEF later
    <2>4. Cardinality(later) \in Nat
      BY <2>3, FS_CardinalityType
    <2> QED
      BY <2>2, <2>3, <2>4
  <1> HIDE DEF later, S, d
  <1>8. Cardinality(Live(d)) <= Cardinality(later) /\ Cardinality(Live(d)) \in Nat
    BY <1>6, <1>7, FS_Subset, FS_CardinalityType
  <1>9. Cardinality(Live(d)) <= MaxEntries
    <2>1. MaxEntries \in Nat
      BY Bounds
    <2> QED
      BY <1>1, <1>2, <1>7, <1>8, <2>1
  <1>10. Limited(d)
    BY <1>2, <1>5, <1>9 DEF Limited
  <1>11. d = Evicted(c)
    BY EvictedIs DEF d, S, n
  <1> QED
    BY <1>5, <1>10, <1>11

\* An entry is not the absence of one.
LEMMA EntryIsLive == ASSUME NEW e \in EntryRec PROVE e # None
  BY CacheAssumption

\* What takes entries out of a cache within its limits leaves it there.
LEMMA WithoutLimited ==
    ASSUME NEW c, Counted(c), Limited(c), NEW S \in SUBSET Live(c)
    PROVE  Counted(Without(c, S)) /\ Limited(Without(c, S))
  <1> DEFINE d == Without(c, S)
  <1>1. Counted(d) /\ Live(d) = Live(c) \ S /\ d.bytes <= c.bytes
    BY WithoutCounted
  <1>2. c.bytes \in Nat /\ d.bytes \in Nat
    BY <1>1, BytesAre DEF Counted
  <1>3. IsFiniteSet(Live(c)) /\ Live(d) \in SUBSET Live(c)
    BY <1>1, BytesAre
  <1> HIDE DEF d
  <1>4. /\ Cardinality(Live(d)) <= Cardinality(Live(c))
        /\ Cardinality(Live(d)) \in Nat /\ Cardinality(Live(c)) \in Nat
    BY <1>3, FS_Subset, FS_CardinalityType
  <1>5. c.bytes <= MaxBytes /\ Cardinality(Live(c)) <= MaxEntries
    BY DEF Limited
  <1>6. MaxBytes \in Nat /\ MaxEntries \in Nat
    BY Bounds
  <1>7. d.bytes <= MaxBytes /\ Cardinality(Live(d)) <= MaxEntries
    BY <1>1, <1>2, <1>4, <1>5, <1>6
  <1> QED
    BY <1>1, <1>7 DEF Limited, d

LEMMA PrunedLimited ==
    ASSUME NEW c, Counted(c), Limited(c)
    PROVE  Counted(Pruned(c)) /\ Limited(Pruned(c))
  <1> DEFINE S == {k \in Live(c) : now >= c.entries[k].expiresAt}
  <1>1. S \in SUBSET Live(c) /\ Pruned(c) = Without(c, S)
    BY DEF Pruned
  <1> HIDE DEF S
  <1> QED
    BY <1>1, WithoutLimited

\* The weights of two caches that hold the same keys, each as heavy.
LEMMA SameBytes ==
    ASSUME NEW c, NEW d, NEW L, \A k \in L : d.entries[k].size = c.entries[k].size
    PROVE  Bytes(d, L) = Bytes(c, L)
  <1>1. [k \in L |-> d.entries[k].size] = [k \in L |-> c.entries[k].size]
    OBVIOUS
  <1> QED
    BY <1>1 DEF Bytes

\* A lookup moves its key to the end of the order.
LEMMA TouchedLimited ==
    ASSUME NEW kept, NEW told, NEW c, CacheOK(c, kept, told), now \in Nat,
           Counted(c), Limited(c), NEW k \in Keys, c.entries[k] # None
    PROVE  Counted(Touched(c, k)) /\ Limited(Touched(c, k))
  <1> DEFINE e == c.entries[k]
             f == [e EXCEPT !.expiresAt = now + TTL]
             order == Append(Rest(c.order, {k}), k)
             d == Touched(c, k)
  <1>1. e \in EntryRec
    BY DEF CacheOK, EntryOK
  <1>2. f \in EntryRec /\ f.size = e.size
    <2>1. now + TTL \in Nat
      BY Bounds
    <2> HIDE DEF e
    <2> QED
      BY <1>1, <2>1 DEF EntryRec
  <1>3. /\ d.entries = [c.entries EXCEPT ![k] = f]
        /\ d.order = order /\ d.bytes = c.bytes
    <2> DEFINE time == now + TTL
    <2>1. d = [c EXCEPT !.order = order, !.entries[k].expiresAt = time]
      BY Zenon DEF Touched
    <2>2. /\ c = [entries |-> c.entries, bytes |-> c.bytes, order |-> c.order]
          /\ c.entries = [l \in Keys |-> c.entries[l]]
      BY DEF CacheOK
    <2>3. f = [c.entries[k] EXCEPT !.expiresAt = time]
      OBVIOUS
    <2> HIDE DEF d, f, order, time
    <2>4. d.entries = [c.entries EXCEPT ![k] = [c.entries[k] EXCEPT !.expiresAt = time]]
      BY <2>1, <2>2, CacheExcept
    <2>5. d.order = order /\ d.bytes = c.bytes
      BY <2>1, <2>2
    <2> QED
      BY <2>3, <2>4, <2>5
  <1>4. f # None
    <2> HIDE DEF f
    <2> QED
      BY <1>2, EntryIsLive
  <1> HIDE DEF f, d
  <1>5. /\ d.entries[k] = f
        /\ \A l \in Keys : l # k => d.entries[l] = c.entries[l]
    BY <1>3 DEF CacheOK
  <1>6. Live(d) = Live(c) /\ k \in Live(c)
    BY <1>4, <1>5 DEF Live
  <1>7. order \in Seq(Keys) /\ ToSet(order) = Live(c) /\ IsInjective(order)
    <2> DEFINE t == Rest(c.order, {k})
    <2>1. t \in Seq(Keys) /\ ToSet(t) = Live(c) \ {k} /\ IsInjective(t)
      BY RestFacts DEF Counted
    <2> HIDE DEF t
    <2>2. /\ Append(t, k) \in Seq(Keys) /\ ToSet(Append(t, k)) = ToSet(t) \union {k}
          /\ IsInjective(Append(t, k))
      BY <2>1, AppendFacts
    <2> QED
      BY <1>6, <2>1, <2>2 DEF t
  <1>8. \A l \in Live(c) : d.entries[l].size = c.entries[l].size
    BY <1>2, <1>5 DEF Live
  <1>9. Bytes(d, Live(c)) = Bytes(c, Live(c))
    BY <1>8, SameBytes
  <1> HIDE DEF order, e
  <1>10. Counted(d) /\ Limited(d)
    BY <1>3, <1>6, <1>7, <1>8, <1>9 DEF Counted, Limited
  <1> QED
    BY <1>10 DEF d

\* The entry that was there is no longer counted, the new one is.
LEMMA ReplacedCounted ==
    ASSUME NEW c, Counted(c), NEW k \in Keys, NEW e \in EntryRec
    PROVE  Counted(Replaced(c, k, e))
  <1> DEFINE S == {k} \intersect Live(c)
             room == Without(c, S)
             d == Replaced(c, k, e)
             L == Live(room)
  <1>1. /\ Counted(room) /\ L = Live(c) \ S
        /\ room.entries = [l \in Keys |-> IF l \in S THEN None ELSE c.entries[l]]
    <2>1. S \in SUBSET Live(c)
      OBVIOUS
    <2>2. room.entries = [l \in Keys |-> IF l \in S THEN None ELSE c.entries[l]]
      BY WithoutParts
    <2> HIDE DEF S
    <2> QED
      BY <2>1, <2>2, WithoutCounted
  <1>2. k \notin L
    BY <1>1
  <1>3. /\ d.entries = [room.entries EXCEPT ![k] = e]
        /\ d.bytes = room.bytes + e.size /\ d.order = Append(room.order, k)
    BY DEF Replaced
  <1> HIDE DEF d, room, S
  <1>4. /\ d.entries[k] = e /\ e # None /\ e.size \in Nat
        /\ \A l \in Keys : l # k => d.entries[l] = room.entries[l]
    BY <1>1, <1>3, EntryIsLive DEF EntryRec
  <1>5. Live(d) = L \union {k}
    BY <1>4 DEF Live
  <1>6. /\ d.order \in Seq(Keys) /\ ToSet(d.order) = L \union {k}
        /\ IsInjective(d.order)
    BY <1>1, <1>2, <1>3, AppendFacts DEF Counted
  <1>7. /\ \A l \in L : d.entries[l].size = room.entries[l].size
        /\ \A l \in L \union {k} : d.entries[l].size \in Nat
    BY <1>1, <1>2, <1>4 DEF Counted, Live
  <1>8. Bytes(d, L \union {k}) = Bytes(room, L) + e.size
    <2> DEFINE M == L \union {k}
               f == [l \in M |-> d.entries[l].size]
               g == [l \in L |-> room.entries[l].size]
    <2>1. Bytes(d, M) = SumFunctionOnSet(f, M) /\ Bytes(room, L) = SumFunctionOnSet(g, L)
      BY DEF Bytes, SumFunction
    <2>2. /\ \A l \in M : f[l] = d.entries[l].size
          /\ \A l \in L : g[l] = room.entries[l].size /\ f[l] = d.entries[l].size
          /\ f[k] = e.size /\ k \in M /\ M \ {k} = L
      BY <1>2, <1>4
    <2>3. IsFiniteSet(L)
      BY <1>1, BytesAre
    <2>4. IsFiniteSet(M)
      BY <2>3, FS_AddElement
    <2> HIDE DEF f, g, M, L
    <2>5. \A l \in M : f[l] \in Int
      BY <1>7, <2>2 DEF M
    <2>6. SumFunctionOnSet(f, M) = e.size + SumFunctionOnSet(f, L)
      BY <2>2, <2>4, <2>5, SumTakes
    <2>7. \A l \in L : f[l] \in Int /\ g[l] = f[l]
      BY <1>7, <2>2
    <2>8. SumFunctionOnSet(g, L) = SumFunctionOnSet(f, L)
      BY <2>3, <2>7, SumAgrees
    <2>9. SumFunctionOnSet(f, L) \in Int
      BY <2>3, <2>7, SumTakes
    <2> QED
      BY <1>4, <2>1, <2>6, <2>8, <2>9 DEF M
  <1>9. d.bytes = Bytes(d, L \union {k})
    BY <1>1, <1>3, <1>8 DEF Counted
  <1>10. Counted(d)
    BY <1>5, <1>6, <1>7, <1>9 DEF Counted
  <1> QED
    BY <1>10 DEF d

LEMMA StoredLimited ==
    ASSUME NEW c, Counted(c), Limited(c), NEW k \in Keys, NEW e \in EntryRec
    PROVE  Counted(Stored(c, k, e)) /\ Limited(Stored(c, k, e))
  <1> DEFINE p == Pruned(c)
  <1>1. Counted(p) /\ Limited(p)
    BY PrunedLimited
  <1>2. CASE Stored(c, k, e) = c
    BY <1>2
  <1>3. CASE Stored(c, k, e) = Without(p, {k}) /\ k \in Live(p)
    <2>1. {k} \in SUBSET Live(p)
      BY <1>3
    <2> HIDE DEF p
    <2> QED
      BY <1>1, <1>3, <2>1, WithoutLimited
  <1>4. CASE Stored(c, k, e) = Evicted(Replaced(p, k, e))
    <2> DEFINE room == Replaced(p, k, e)
    <2>1. Counted(room)
      <3> HIDE DEF p
      <3> QED
        BY <1>1, ReplacedCounted
    <2> HIDE DEF room
    <2>2. Counted(Evicted(room)) /\ Limited(Evicted(room))
      BY <2>1, EvictedLimited
    <2> QED
      BY <1>4, <2>2 DEF room
  <1>5. e.size \in Nat /\ TranscriptMax \in Nat
    BY Bounds DEF EntryRec
  <1> QED
    BY <1>2, <1>3, <1>4, <1>5 DEF Stored

-----------------------------------------------------------------------------
(* Talks.                                                                    *)

LEMMA OneItem ==
    ASSUME NEW r \in Requests
    PROVE  /\ Question(r) \in Talks /\ Len(Question(r)) = 1
           /\ Answer(r) \in Talks /\ Len(Answer(r)) = 1
  <1>1. <<"in", r>> \in Items /\ <<"out", r>> \in Items
    BY DEF Items
  <1> QED
    BY <1>1 DEF Talks, Question, Answer

LEMMA Joined ==
    ASSUME NEW s \in Talks, NEW t \in Talks
    PROVE  /\ s \o t \in Talks /\ Len(s) \in Nat /\ Len(t) \in Nat
           /\ Len(s \o t) = Len(s) + Len(t)
  BY ConcatProperties, LenProperties DEF Talks

LEMMA NoTalk == <<>> \in Talks /\ Len(<<>>) = 0 /\ \A s \in Talks : s = <<>> <=> Len(s) = 0
  BY EmptySeq, LenProperties DEF Talks

LEMMA JoinedIsLonger ==
    ASSUME NEW s \in Talks, NEW t \in Talks
    PROVE  IsPrefix(s, s \o t)
  <1>1. /\ s \in Seq(Items) /\ t \in Seq(Items) /\ s \o t \in Seq(Items)
        /\ Len(s) \in Nat /\ Len(t) \in Nat /\ Len(s \o t) = Len(s) + Len(t)
        /\ \A i \in 1..Len(s) : (s \o t)[i] = s[i]
    BY ConcatProperties, LenProperties DEF Talks
  <1> DEFINE n == Len(s)
             u == SubSeq(s, 1, n)
             v == SubSeq(s \o t, 1, n)
  <1>2. /\ \A i \in 1..n : s[i] \in Items
        /\ \A i \in 1..n : (s \o t)[i] \in Items
    BY <1>1, ElementOfSeq
  <1>3. u \in Seq(Items) /\ Len(u) = n /\ \A i \in 1..n : u[i] = s[i]
    BY <1>1, <1>2, SubSeqProperties
  <1>4. v \in Seq(Items) /\ Len(v) = n /\ \A i \in 1..n : v[i] = (s \o t)[i]
    BY <1>1, <1>2, SubSeqProperties
  <1> HIDE DEF u, v
  <1>5. u = v
    BY <1>1, <1>3, <1>4, SeqEqual
  <1> QED
    BY <1>1, <1>5 DEF IsPrefix, u, v

-----------------------------------------------------------------------------
(* A request that comes.                                                     *)

LEMMA BlankRec ==
    ASSUME NEW pc \in {"new", "select", "relayed", "done"}
    PROVE  /\ Blank(pc) \in RequestRec /\ Blank(pc).pc = pc
           /\ ~Blank(pc).known /\ ~Blank(pc).out /\ ~Blank(pc).replay
           /\ ~Blank(pc).tracked
  <1>1. 0 \in 0..MaxRevision
    BY Bounds
  <1> QED
    BY <1>1, NoTalk DEF Blank, RequestRec

\* One that has not come, or is over.
LEMMA BlankOK ==
    ASSUME NEW r, NEW revs, NEW kept, NEW told, NEW pc \in {"new", "done"}
    PROVE  RequestOK(r, Blank(pc), revs, kept, told)
  BY BlankRec DEF RequestOK, WorkOK, OwnerOK, ContextOK, RelayedOK, Working, Chosen

LEMMA ArrivedRec ==
    ASSUME NEW t \in Tokens, NEW prev \in Ids \union {None}, NEW items \in Talks,
           Meaning(t, prev, items) \subseteq Talks
    PROVE  LET q == Arrived(t, prev, items)
           IN  /\ q \in RequestRec /\ q.pc = "select" /\ q.token = t /\ q.prev = prev
               /\ q.items = items /\ q.input = items /\ q.means = Meaning(t, prev, items)
               /\ ~q.tracked /\ ~q.known /\ ~q.force /\ ~q.out /\ ~q.replay
  <1> DEFINE b == Blank("select")
             m == Meaning(t, prev, items)
             q == [b EXCEPT !.token = t, !.prev = prev, !.items = items,
                            !.input = items, !.means = m]
  <1>1. b \in RequestRec /\ b.pc = "select"
    BY BlankRec
  <1>2. ~b.known /\ ~b.out /\ ~b.replay /\ ~b.tracked /\ ~b.force
    BY DEF Blank
  <1>3. m \in SUBSET Talks
    OBVIOUS
  <1>4. Arrived(t, prev, items) = q
    BY DEF Arrived
  <1> HIDE DEF b, m
  <1>5. q \in RequestRec
    BY <1>1, <1>3 DEF RequestRec
  <1>6. /\ q.pc = "select" /\ q.token = t /\ q.prev = prev
        /\ q.items = items /\ q.input = items /\ q.means = m
        /\ ~q.tracked /\ ~q.known /\ ~q.force /\ ~q.out /\ ~q.replay
    BY <1>1, <1>2 DEF RequestRec
  <1> QED
    BY <1>4, <1>5, <1>6 DEF m

\* What a client may repeat in a new request.
Bases(t) == {<<>>} \union UNION {given[<<t, i>>] : i \in Ids}

\* What a client sends, and what it may mean by it.
LEMMA SentItems ==
    ASSUME WorldOK(revision, held, given), NEW r \in Requests, NEW t \in Tokens,
           NEW prev \in Ids \union {None}, NEW base, NEW items,
           base \in Bases(t),
           items = base \o Question(r)
    PROVE  /\ base \in Talks /\ items \in Talks /\ Len(items) = Len(base) + 1
           /\ Len(items) \in Nat /\ Len(items) >= 1 /\ (base = <<>> <=> ~(Len(items) > 1))
           /\ Meaning(t, prev, items) \subseteq Talks
           /\ \A talk \in Meaning(t, prev, items) : Len(talk) >= 1
           /\ (prev = None \/ Len(items) > 1 => items \in Meaning(t, prev, items))
  <1>1. \A i \in Ids : <<t, i>> \in Keys
    BY DEF Keys
  <1>2. \A i \in Ids : \A talk \in given[<<t, i>>] : talk \in Talks
    BY <1>1, GivenIsTalk
  <1>3. base \in Talks
    BY <1>2, NoTalk DEF Bases
  <1>4. /\ items \in Talks /\ Len(items) = Len(base) + 1 /\ Len(base) \in Nat
        /\ Len(items) \in Nat /\ Len(items) >= 1
    <2>1. Question(r) \in Talks /\ Len(Question(r)) = 1
      BY OneItem
    <2>2. /\ items \in Talks /\ Len(base) \in Nat /\ Len(items) = Len(base) + 1
      BY <1>3, <2>1, Joined
    <2> QED
      BY <2>2
  <1>5. base = <<>> <=> ~(Len(items) > 1)
    BY <1>3, <1>4, NoTalk
  <1>6. CASE prev = None \/ Len(items) > 1
    <2>1. Meaning(t, prev, items) = {items}
      BY <1>6 DEF Meaning
    <2> QED
      BY <1>3, <1>4, <1>5, <2>1
  <1>7. CASE ~(prev = None \/ Len(items) > 1)
    <2>1. Meaning(t, prev, items) = {talk \o items : talk \in given[<<t, prev>>]}
      BY <1>7 DEF Meaning
    <2>2. ASSUME NEW talk \in given[<<t, prev>>]
          PROVE  talk \o items \in Talks /\ Len(talk \o items) >= 1
      <3>1. talk \in Talks
        BY <1>2, <1>7
      <3>2. /\ talk \o items \in Talks /\ Len(talk) \in Nat
            /\ Len(talk \o items) = Len(talk) + Len(items)
        BY <1>4, <3>1, Joined
      <3> QED
        BY <1>4, <3>2
    <2> QED
      BY <1>3, <1>4, <1>5, <1>7, <2>1, <2>2
  <1> QED
    BY <1>6, <1>7

\* The transcript of a follow-up is a conversation its client may mean.
LEMMA FollowUpIsMeant ==
    ASSUME WorldOK(revision, held, given), NEW r \in Requests, NEW t \in Tokens,
           NEW prev \in Ids, NEW base, NEW items, NEW talk,
           base \in Bases(t),
           items = base \o Question(r),
           base # <<>> => given[<<t, prev>>] = {base},
           talk \in given[<<t, prev>>]
    PROVE  /\ IsPrefix(talk, items) => items \in Meaning(t, prev, items)
           /\ ~IsPrefix(talk, items) => talk \o items \in Meaning(t, prev, items)
           /\ talk \o items \in Talks
  <1>1. /\ base \in Talks /\ items \in Talks /\ Len(items) \in Nat
        /\ (base = <<>> <=> ~(Len(items) > 1))
        /\ (Len(items) > 1 => items \in Meaning(t, prev, items))
    <2>1. prev \in Ids \union {None}
      OBVIOUS
    <2>2. /\ base \in Talks /\ items \in Talks /\ Len(items) = Len(base) + 1
          /\ Len(items) \in Nat /\ Len(items) >= 1 /\ (base = <<>> <=> ~(Len(items) > 1))
          /\ (prev = None \/ Len(items) > 1 => items \in Meaning(t, prev, items))
      BY <2>1, SentItems
    <2> QED
      BY <2>2
  <1>2. <<t, prev>> \in Keys
    BY DEF Keys
  <1>3. talk \in Talks /\ Len(talk) \in Nat /\ Len(talk) >= 2
    BY <1>2, GivenIsTalk
  <1>4. IsPrefix(talk, items) => items \in Meaning(t, prev, items)
    BY <1>1, <1>3 DEF IsPrefix
  <1>5. ASSUME ~IsPrefix(talk, items) PROVE talk \o items \in Meaning(t, prev, items)
    <2>1. CASE base = <<>>
      <3>1. Meaning(t, prev, items) = {c \o items : c \in given[<<t, prev>>]}
        BY <1>1, <2>1, Bounds DEF Meaning
      <3> QED
        BY <3>1
    <2>2. CASE base # <<>>
      <3>1. talk = base
        BY <2>2
      <3>2. IsPrefix(talk, talk \o Question(r))
        BY <1>3, OneItem, JoinedIsLonger
      <3> QED
        BY <1>5, <3>1, <3>2
    <2> QED
      BY <2>1, <2>2
  <1>6. talk \o items \in Talks
    BY <1>1, <1>3, Joined
  <1> QED
    BY <1>4, <1>5, <1>6

-----------------------------------------------------------------------------
(* The steps of a request.                                                   *)

\* A request goes on, and the world with it.
LEMMA RequestGoesOn ==
    ASSUME ConversationInv, NEW r \in Requests, NEW x, req' = [req EXCEPT ![r] = x],
           RequestOK(r, x, revision', held', given'), now' \in Nat,
           WorldOK(revision', held', given'), CacheOK(cache', held', given'),
           Grows(revision, held, given, revision', held', given')
    PROVE  ConversationInv'
  <1>1. /\ req' = [p \in Requests |-> req'[p]] /\ req'[r] = x
        /\ \A p \in Requests : p # r => req'[p] = req[p]
    BY DEF ConversationInv, RequestsOK
  <1>2. \A p \in Requests : RequestOK(p, req[p], revision', held', given')
    BY RequestCarries DEF ConversationInv, RequestsOK
  <1>3. \A p \in Requests : RequestOK(p, req'[p], revision', held', given')
    BY <1>1, <1>2
  <1> QED
    BY <1>1, <1>3 DEF ConversationInv, RequestsOK

\* The same where the request alone, or the cache with it, changes.
LEMMA RequestStep ==
    ASSUME ConversationInv, NEW r \in Requests, NEW x, req' = [req EXCEPT ![r] = x],
           RequestOK(r, x, revision, held, given), CacheOK(cache', held, given),
           UNCHANGED <<now, revision, held, given>>
    PROVE  ConversationInv'
  <1>1. Grows(revision, held, given, revision', held', given')
    BY SameGrows DEF ConversationInv
  <1> QED
    BY <1>1, RequestGoesOn DEF ConversationInv

\* The requests stand still and the world goes on.
LEMMA WorldStep ==
    ASSUME ConversationInv, now' \in Nat, WorldOK(revision', held', given'),
           Grows(revision, held, given, revision', held', given'),
           UNCHANGED <<cache, req>>
    PROVE  ConversationInv'
  <1>1. \A p \in Requests : RequestOK(p, req[p], revision', held', given')
    BY RequestCarries DEF ConversationInv, RequestsOK
  <1>2. CacheOK(cache, held', given')
    BY CacheCarries DEF ConversationInv
  <1> QED
    BY <1>1, <1>2 DEF ConversationInv, RequestsOK

\* A request ends.
LEMMA FinishKeeps ==
    ASSUME ConversationInv, NEW r \in Requests, Finish(r),
           CacheOK(cache', held, given), UNCHANGED <<now, revision, held, given>>
    PROVE  ConversationInv'
  <1>1. req' = [req EXCEPT ![r] = Blank("done")]
    BY DEF Finish
  <1>2. RequestOK(r, Blank("done"), revision, held, given)
    BY BlankOK
  <1> QED
    BY <1>1, <1>2, RequestStep

LEMMA PrepareUnknownKeeps ==
    ASSUME ConversationInv, NEW r \in Requests, PrepareUnknown(r)
    PROVE  ConversationInv'
  <1>1. PICK t \in Tokens, prev \in Ids \union {None} :
           \E base \in Bases(t) :
               LET items == base \o Question(r)
               IN  /\ cache' = IF prev = None THEN cache ELSE Pruned(cache)
                   /\ req' = [req EXCEPT ![r] =
                          [Arrived(t, prev, items)
                              EXCEPT !.tracked = prev = None /\ Size(items) <= TranscriptMax]]
                   /\ UNCHANGED <<now, revision, held, given>>
    BY Zenon DEF PrepareUnknown, Bases, Question
  <1>2. PICK base \in Bases(t) :
           LET items == base \o Question(r)
           IN  /\ cache' = IF prev = None THEN cache ELSE Pruned(cache)
               /\ req' = [req EXCEPT ![r] =
                      [Arrived(t, prev, items)
                          EXCEPT !.tracked = prev = None /\ Size(items) <= TranscriptMax]]
               /\ UNCHANGED <<now, revision, held, given>>
    BY <1>1
  <1> DEFINE items == base \o Question(r)
             q == Arrived(t, prev, items)
             tracked == prev = None /\ Size(items) <= TranscriptMax
             x == [q EXCEPT !.tracked = tracked]
  <1>3. WorldOK(revision, held, given) /\ CacheOK(cache, held, given)
    BY DEF ConversationInv
  <1>4. CacheOK(cache', held, given)
    BY <1>2, <1>3, PrunedSound
  <1>5. /\ items \in Talks /\ Meaning(t, prev, items) \subseteq Talks
        /\ \A talk \in Meaning(t, prev, items) : Len(talk) >= 1
        /\ prev = None => items \in Meaning(t, prev, items)
    BY <1>3, SentItems
  <1>6. /\ q \in RequestRec /\ q.pc = "select" /\ q.token = t /\ q.prev = prev
        /\ q.items = items /\ q.input = items /\ q.means = Meaning(t, prev, items)
        /\ ~q.tracked /\ ~q.known /\ ~q.force /\ ~q.out /\ ~q.replay
    BY <1>5, ArrivedRec
  <1>7. tracked \in BOOLEAN /\ (tracked => prev = None)
    OBVIOUS
  <1>8. req' = [req EXCEPT ![r] = x]
    BY <1>2
  <1> HIDE DEF items, q, tracked
  <1>9. /\ x \in RequestRec /\ x.pc = "select" /\ x.token = t /\ x.prev = prev
        /\ x.items = items /\ x.input = items /\ x.means = Meaning(t, prev, items)
        /\ ~x.known /\ ~x.out /\ x.tracked = tracked
    BY <1>6, <1>7 DEF RequestRec
  <1> HIDE DEF x
  <1>10. WorkOK(x) /\ OwnerOK(x, revision) /\ RelayedOK(r, x, held, given)
    BY <1>5, <1>9 DEF WorkOK, OwnerOK, RelayedOK, Working, Chosen
  <1>11. ContextOK(x, held)
    BY <1>5, <1>7, <1>9 DEF ContextOK, Whole
  <1> QED
    BY <1>2, <1>4, <1>8, <1>9, <1>10, <1>11, RequestStep DEF RequestOK

LEMMA PrepareKnownKeeps ==
    ASSUME ConversationInv, NEW r \in Requests, PrepareKnown(r)
    PROVE  ConversationInv'
  <1> DEFINE found == Pruned(cache)
  <1>0. PICK t \in Tokens, prev \in Ids : \E items :
           LET entry == found.entries[<<t, prev>>]
               force == IsPrefix(entry.input, items)
           IN  /\ \E base \in Bases(t) :
                     items = base \o Question(r)
                     /\ (base # <<>> => given[<<t, prev>>] = {base})
               /\ found.entries[<<t, prev>>] # None
               /\ cache' = Touched(found, <<t, prev>>)
               /\ \/ /\ OwnerIsCurrent(entry.account, entry.revision)
                     /\ req' = [req EXCEPT ![r] =
                            [Arrived(t, prev, items) EXCEPT
                                !.tracked = TRUE, !.known = TRUE, !.force = force,
                                !.pref = entry.account, !.prefRev = entry.revision,
                                !.reusable = entry.reusable,
                                !.input = IF force THEN items ELSE entry.input \o items]]
                  \/ Finish(r)
               /\ UNCHANGED <<now, revision, held, given>>
    <2>1. PICK t \in Tokens, prev \in Ids :
             \E base \in {<<>>} \union given[t, prev] :
                 LET items == base \o <<<<"in", r>>>>
                     fresh == Pruned(cache)
                     entry == fresh.entries[t, prev]
                     force == IsPrefix(entry.input, items)
                 IN  /\ Sends(r, t, prev, items)
                     /\ <<t, prev>> \in Live(fresh)
                     /\ cache' = Touched(fresh, <<t, prev>>)
                     /\ \/ /\ OwnerIsCurrent(entry.account, entry.revision)
                           /\ req' = [req EXCEPT ![r] =
                                  [Arrived(t, prev, items) EXCEPT
                                      !.tracked = TRUE, !.known = TRUE, !.force = force,
                                      !.pref = entry.account, !.prefRev = entry.revision,
                                      !.reusable = entry.reusable,
                                      !.input = IF force THEN items
                                                ELSE entry.input \o items]]
                        \/ /\ OwnerIsCurrent(entry.account, entry.revision) => ~force
                           /\ Finish(r)
                     /\ UNCHANGED <<now, revision, held, given>>
      BY Zenon DEF PrepareKnown
    <2>2. PICK items :
             LET entry == found.entries[<<t, prev>>]
                 force == IsPrefix(entry.input, items)
             IN  /\ Sends(r, t, prev, items)
                 /\ <<t, prev>> \in Live(found)
                 /\ cache' = Touched(found, <<t, prev>>)
                 /\ \/ /\ OwnerIsCurrent(entry.account, entry.revision)
                       /\ req' = [req EXCEPT ![r] =
                              [Arrived(t, prev, items) EXCEPT
                                  !.tracked = TRUE, !.known = TRUE, !.force = force,
                                  !.pref = entry.account, !.prefRev = entry.revision,
                                  !.reusable = entry.reusable,
                                  !.input = IF force THEN items ELSE entry.input \o items]]
                    \/ Finish(r)
                 /\ UNCHANGED <<now, revision, held, given>>
      BY <2>1
    <2>3. prev # None
      BY Bounds
    <2>4. \E base \in Bases(t) :
             items = base \o Question(r) /\ (base # <<>> => given[<<t, prev>>] = {base})
      BY <2>2, <2>3 DEF Sends, Bases, Question
    <2>5. found.entries[<<t, prev>>] # None
      BY <2>2 DEF Live
    <2> HIDE DEF found
    <2> QED
      BY <2>2, <2>4, <2>5
  <1>1. PICK items :
           LET entry == found.entries[<<t, prev>>]
               force == IsPrefix(entry.input, items)
           IN  /\ \E base \in Bases(t) :
                     items = base \o Question(r)
                     /\ (base # <<>> => given[<<t, prev>>] = {base})
               /\ found.entries[<<t, prev>>] # None
               /\ cache' = Touched(found, <<t, prev>>)
               /\ \/ /\ OwnerIsCurrent(entry.account, entry.revision)
                     /\ req' = [req EXCEPT ![r] =
                            [Arrived(t, prev, items) EXCEPT
                                !.tracked = TRUE, !.known = TRUE, !.force = force,
                                !.pref = entry.account, !.prefRev = entry.revision,
                                !.reusable = entry.reusable,
                                !.input = IF force THEN items ELSE entry.input \o items]]
                  \/ Finish(r)
               /\ UNCHANGED <<now, revision, held, given>>
    BY <1>0
  <1> DEFINE k == <<t, prev>>
             entry == found.entries[k]
             force == IsPrefix(entry.input, items)
             input == IF force THEN items ELSE entry.input \o items
             q == Arrived(t, prev, items)
             x == [q EXCEPT !.tracked = TRUE, !.known = TRUE, !.force = force,
                            !.pref = entry.account, !.prefRev = entry.revision,
                            !.reusable = entry.reusable, !.input = input]
  <1>2. WorldOK(revision, held, given) /\ CacheOK(cache, held, given) /\ now \in Nat
    BY DEF ConversationInv
  <1>3. CacheOK(found, held, given) /\ k \in Keys /\ entry # None
    BY <1>1, <1>2, PrunedSound DEF Keys
  <1>4. cache' = Touched(found, k) /\ UNCHANGED <<now, revision, held, given>>
    BY <1>1
  <1>5. CacheOK(cache', held, given)
    <2> HIDE DEF found, k
    <2> QED
      BY <1>2, <1>3, <1>4, TouchedSound
  <1>6. CASE Finish(r)
    BY <1>4, <1>5, <1>6, FinishKeeps
  <1>7. CASE OwnerIsCurrent(entry.account, entry.revision) /\ req' = [req EXCEPT ![r] = x]
    <2>1. PICK base \in Bases(t) :
             items = base \o Question(r) /\ (base # <<>> => given[k] = {base})
      BY <1>1
    <2>2. EntryOK(k, entry, held, given)
      BY <1>3 DEF CacheOK
    <2>3. /\ entry.account \in Accounts /\ entry.revision \in 1..MaxRevision
          /\ entry.reusable \in BOOLEAN /\ entry.input \in given[k]
          /\ entry.reusable => held[<<entry.account, entry.revision>>][prev] = entry.input
      BY <2>2 DEF EntryOK, EntryRec
    <2>4. revision[entry.account] = entry.revision
      BY <1>7 DEF OwnerIsCurrent
    <2>5. entry.input \in Talks /\ entry.input # <<>>
      BY <1>2, <1>3, <2>3, GivenIsTalk
    <2> HIDE DEF entry
    <2>6. /\ items \in Talks /\ Meaning(t, prev, items) \subseteq Talks
          /\ \A talk \in Meaning(t, prev, items) : Len(talk) >= 1
      BY <1>2, <2>1, SentItems
    <2>7. /\ force => items \in Meaning(t, prev, items)
          /\ ~force => entry.input \o items \in Meaning(t, prev, items)
          /\ entry.input \o items \in Talks
      BY <1>2, <2>1, <2>3, FollowUpIsMeant
    <2>8. /\ q \in RequestRec /\ q.pc = "select" /\ q.token = t /\ q.prev = prev
          /\ q.items = items /\ q.means = Meaning(t, prev, items)
          /\ ~q.out /\ ~q.replay
      BY <2>6, ArrivedRec
    <2>9. force \in BOOLEAN
      BY DEF IsPrefix
    <2>10. input \in Talks /\ input \in Meaning(t, prev, items)
      BY <2>6, <2>7
    <2>11. (force => input = items) /\ (~force => input = entry.input \o items)
      OBVIOUS
    <2>12. entry.revision \in 0..MaxRevision
      BY <2>3
    <2> HIDE DEF force, input, q
    <2>13. x \in RequestRec
      BY <2>3, <2>8, <2>9, <2>10, <2>12 DEF RequestRec
    <2>14. /\ x.pc = "select" /\ x.token = t /\ x.prev = prev
           /\ x.items = items /\ x.means = Meaning(t, prev, items) /\ x.input = input
           /\ ~x.out /\ ~x.replay /\ x.tracked /\ x.known /\ x.force = force
           /\ x.pref = entry.account /\ x.prefRev = entry.revision
           /\ x.reusable = entry.reusable
      BY <2>8 DEF RequestRec
    <2> HIDE DEF x
    <2>15. WorkOK(x) /\ RelayedOK(r, x, held, given)
      BY <2>6, <2>14 DEF WorkOK, RelayedOK, Working, Chosen
    <2>16. OwnerOK(x, revision)
      BY <2>3, <2>4, <2>14 DEF OwnerOK, Chosen
    <2>17. ContextOK(x, held)
      BY <2>3, <2>5, <2>10, <2>11, <2>14 DEF ContextOK, Whole
    <2> QED
      BY <1>4, <1>5, <1>7, <2>13, <2>15, <2>16, <2>17, RequestStep DEF RequestOK
  <1> QED
    BY <1>1, <1>6, <1>7

\* A request that is at work, as the invariant describes it.
LEMMA AtWork ==
    ASSUME ConversationInv, NEW r \in Requests
    PROVE  /\ req[r] \in RequestRec /\ WorkOK(req[r]) /\ OwnerOK(req[r], revision)
           /\ ContextOK(req[r], held) /\ RelayedOK(r, req[r], held, given)
           /\ CacheOK(cache, held, given) /\ WorldOK(revision, held, given)
  BY DEF ConversationInv, RequestsOK, RequestOK

LEMMA SelectKeeps ==
    ASSUME ConversationInv, NEW r \in Requests, Select(r)
    PROVE  ConversationInv'
  <1>1. PICK a \in Accounts \ req[r].attempted :
           req' = [req EXCEPT
               ![r].pc = "check", ![r].account = a, ![r].rev = revision[a],
               ![r].owner = IF req[r].known THEN revision[req[r].pref] ELSE 0,
               ![r].attempted = @ \union {a}]
    BY DEF Select
  <1> DEFINE q == req[r]
             rev == revision[a]
             owner == IF q.known THEN revision[q.pref] ELSE 0
             attempted == q.attempted \union {a}
             x == [q EXCEPT !.pc = "check", !.account = a, !.rev = rev, !.owner = owner,
                            !.attempted = attempted]
  <1>2. q.pc = "select" /\ UNCHANGED <<now, revision, cache, held, given>>
    BY DEF Select
  <1>3. /\ q \in RequestRec /\ WorkOK(q) /\ OwnerOK(q, revision)
        /\ ContextOK(q, held) /\ CacheOK(cache, held, given)
        /\ WorldOK(revision, held, given)
    BY AtWork
  <1>4. req = [p \in Requests |-> req[p]]
    BY DEF ConversationInv, RequestsOK
  <1>5. req' = [req EXCEPT ![r] = x]
    BY <1>1, <1>4
  <1>6. /\ q.known => q.pref \in Accounts /\ q.prefRev \in 1..MaxRevision
                      /\ q.prefRev <= revision[q.pref]
        /\ q.known => q.tracked
    BY <1>2, <1>3 DEF OwnerOK, Working, WorkOK
  <1>7. \A b \in Accounts : revision[b] \in 1..MaxRevision
    BY <1>3 DEF WorldOK
  <1>8. rev \in 1..MaxRevision /\ (q.known => owner = revision[q.pref])
        /\ (q.known => revision[q.pref] \in Int)
    BY <1>6, <1>7
  <1>9. rev \in 0..MaxRevision /\ owner \in 0..MaxRevision /\ attempted \in SUBSET Accounts
    <2>1. 0 \in 0..MaxRevision
      BY Bounds
    <2>2. \A b \in Accounts : revision[b] \in 0..MaxRevision
      BY <1>7
    <2>3. attempted \in SUBSET Accounts
      BY <1>3 DEF RequestRec
    <2> QED
      BY <1>6, <2>1, <2>2, <2>3
  <1> HIDE DEF q, rev, owner, attempted
  <1>10. /\ x \in RequestRec /\ x.pc = "check" /\ x.token = q.token /\ x.prev = q.prev
         /\ x.items = q.items /\ x.means = q.means /\ x.input = q.input
         /\ x.out = q.out /\ x.replay = q.replay /\ x.tracked = q.tracked
         /\ x.known = q.known /\ x.force = q.force /\ x.reusable = q.reusable
         /\ x.pref = q.pref /\ x.prefRev = q.prefRev
         /\ x.account = a /\ x.rev = rev /\ x.owner = owner
    BY <1>3, <1>9 DEF RequestRec
  <1> HIDE DEF x
  <1>11. WorkOK(x) /\ RelayedOK(r, x, held, given)
    BY <1>2, <1>3, <1>8, <1>10 DEF WorkOK, RelayedOK, Working, Chosen
  <1>12. OwnerOK(x, revision)
    BY <1>6, <1>8, <1>10 DEF OwnerOK
  <1>13. ContextOK(x, held)
    BY <1>2, <1>3, <1>10 DEF ContextOK, Working, Whole
  <1> QED
    BY <1>2, <1>3, <1>5, <1>10, <1>11, <1>12, <1>13, RequestStep DEF RequestOK

\* The attempt goes out, as it came or with the transcript.
LEMMA SendKeeps ==
    ASSUME ConversationInv, NEW r \in Requests, Send(r)
    PROVE  ConversationInv'
  <1> DEFINE q == req[r]
             replays == ~q.replay /\ ShouldReplay(q)
             x == [q EXCEPT !.pc = "sent", !.replay = TRUE, !.prev = None,
                            !.items = q.input]
             y == [q EXCEPT !.pc = "sent"]
  <1>1. q.pc = "check" /\ UNCHANGED <<now, revision, cache, held, given>>
    BY DEF Send
  <1>2. /\ q \in RequestRec /\ WorkOK(q) /\ OwnerOK(q, revision)
        /\ ContextOK(q, held) /\ CacheOK(cache, held, given)
    BY AtWork
  <1>3. \/ Finish(r)
        \/ ~MustStop(q) /\ replays /\ req' = [req EXCEPT ![r] = x]
        \/ ~MustStop(q) /\ ~replays /\ req' = [req EXCEPT ![r] = y]
    BY DEF Send
  <1>4. ASSUME ~MustStop(q), q.known PROVE q.owner = q.prefRev
    <2>1. /\ q.pref \in Accounts /\ q.prefRev \in 1..MaxRevision
          /\ q.prefRev <= q.owner /\ q.owner <= revision[q.pref]
      BY <1>1, <1>2, <1>4 DEF OwnerOK, Working, Chosen
    <2>2. revision[q.pref] = q.prefRev
      BY <1>4 DEF MustStop, OwnerIsCurrent
    <2>3. q.owner \in Int /\ q.prefRev \in Int
      BY <1>2 DEF RequestRec
    <2> QED
      BY <2>1, <2>2, <2>3
  <1>5. CASE Finish(r)
    BY <1>1, <1>2, <1>5, FinishKeeps
  <1>6. CASE ~MustStop(q) /\ replays /\ req' = [req EXCEPT ![r] = x]
    <2>1. q.known
      BY <1>6 DEF ShouldReplay
    <2> HIDE DEF q
    <2>2. /\ x \in RequestRec /\ x.pc = "sent" /\ x.token = q.token /\ x.prev = None
          /\ x.items = q.input /\ x.means = q.means /\ x.input = q.input
          /\ x.out = q.out /\ x.replay /\ x.tracked = q.tracked
          /\ x.known = q.known /\ x.force = q.force /\ x.reusable = q.reusable
          /\ x.pref = q.pref /\ x.prefRev = q.prefRev
          /\ x.account = q.account /\ x.rev = q.rev /\ x.owner = q.owner
      BY <1>2 DEF RequestRec
    <2> HIDE DEF x
    <2>3. WorkOK(x) /\ RelayedOK(r, x, held, given)
      BY <1>1, <1>2, <2>2 DEF WorkOK, RelayedOK, Working, Chosen
    <2>4. OwnerOK(x, revision)
      BY <1>1, <1>2, <1>4, <1>6, <2>1, <2>2 DEF OwnerOK, Working, Chosen
    <2>5. ContextOK(x, held)
      BY <1>1, <1>2, <2>2 DEF ContextOK, Working, Whole
    <2> QED
      BY <1>1, <1>2, <1>6, <2>2, <2>3, <2>4, <2>5, RequestStep DEF RequestOK
  <1>7. CASE ~MustStop(q) /\ ~replays /\ req' = [req EXCEPT ![r] = y]
    <2>1. ~Whole(q) => ~q.force /\ q.reusable /\ q.account = q.pref /\ q.rev = q.prefRev
      BY <1>7 DEF Whole, ShouldReplay
    <2> HIDE DEF q
    <2>2. /\ y \in RequestRec /\ y.pc = "sent" /\ y.token = q.token /\ y.prev = q.prev
          /\ y.items = q.items /\ y.means = q.means /\ y.input = q.input
          /\ y.out = q.out /\ y.replay = q.replay /\ y.tracked = q.tracked
          /\ y.known = q.known /\ y.force = q.force /\ y.reusable = q.reusable
          /\ y.pref = q.pref /\ y.prefRev = q.prefRev
          /\ y.account = q.account /\ y.rev = q.rev /\ y.owner = q.owner
      BY <1>2 DEF RequestRec
    <2> HIDE DEF y
    <2>3. WorkOK(y) /\ RelayedOK(r, y, held, given)
      BY <1>1, <1>2, <2>2 DEF WorkOK, RelayedOK, Working, Chosen
    <2>4. OwnerOK(y, revision)
      BY <1>1, <1>2, <1>4, <1>7, <2>2 DEF OwnerOK, Working, Chosen
    <2>5. ContextOK(y, held)
      BY <1>1, <1>2, <2>1, <2>2 DEF ContextOK, Working, Whole
    <2> QED
      BY <1>1, <1>2, <1>7, <2>2, <2>3, <2>4, <2>5, RequestStep DEF RequestOK
  <1> QED
    BY <1>3, <1>5, <1>6, <1>7

\* The request goes to another account, perhaps: an answer may be thrown away.
LEMMA ReturnsToSelection ==
    ASSUME NEW q \in RequestRec, q.pc = "sent", WorkOK(q), OwnerOK(q, revision),
           ContextOK(q, held), NEW r, NEW form \in Forms(q)
    PROVE  RequestOK(r, Unanswered(q, form), revision, held, given)
  <1> DEFINE read == IF q.account \in Codex THEN form ELSE q.form
             x == [q EXCEPT !.pc = "select", !.form = read]
  <1>1. Unanswered(q, form) = x
    BY DEF Unanswered
  <1>2. read \in {"unread", "stream", "aggregate"}
    <2>1. q.form \in {"unread", "stream", "aggregate"}
      BY DEF RequestRec
    <2>2. q.account \in Codex => form \in {"stream", "aggregate"}
      BY DEF Forms
    <2> QED
      BY <2>1, <2>2
  <1> HIDE DEF read
  <1>3. /\ x \in RequestRec /\ x.pc = "select" /\ x.token = q.token /\ x.prev = q.prev
        /\ x.items = q.items /\ x.means = q.means /\ x.input = q.input
        /\ x.out = q.out /\ x.replay = q.replay /\ x.tracked = q.tracked
        /\ x.known = q.known /\ x.force = q.force /\ x.reusable = q.reusable
        /\ x.pref = q.pref /\ x.prefRev = q.prefRev
    BY <1>2 DEF RequestRec
  <1> HIDE DEF x
  <1>4. WorkOK(x) /\ RelayedOK(r, x, held, given)
    BY <1>3 DEF WorkOK, RelayedOK, Working, Chosen
  <1>5. OwnerOK(x, revision)
    BY <1>3 DEF OwnerOK, Working, Chosen
  <1>6. ContextOK(x, held)
    BY <1>3 DEF ContextOK, Working, Whole
  <1>7. RequestOK(r, x, revision, held, given)
    BY <1>3, <1>4, <1>5, <1>6 DEF RequestOK
  <1> QED
    BY <1>1, <1>7

LEMMA FailKeeps ==
    ASSUME ConversationInv, NEW r \in Requests, Fail(r)
    PROVE  ConversationInv'
  <1> DEFINE q == req[r]
  <1>1. PICK form \in Forms(q) : req' = [req EXCEPT ![r] = Unanswered(@, form)]
    BY DEF Fail
  <1>2. q.pc = "sent" /\ UNCHANGED <<now, revision, cache, held, given>>
    BY DEF Fail
  <1>3. /\ q \in RequestRec /\ WorkOK(q) /\ OwnerOK(q, revision)
        /\ ContextOK(q, held) /\ CacheOK(cache, held, given)
    BY AtWork
  <1> DEFINE x == Unanswered(q, form)
  <1>4. req' = [req EXCEPT ![r] = x]
    BY <1>1
  <1>5. RequestOK(r, x, revision, held, given)
    <2> HIDE DEF q
    <2> QED
      BY <1>2, <1>3, ReturnsToSelection
  <1> HIDE DEF x
  <1> QED
    BY <1>2, <1>3, <1>4, <1>5, RequestStep

-----------------------------------------------------------------------------
(* A reply.                                                                  *)

LEMMA Least ==
    ASSUME NEW S \in SUBSET Nat, S # {}
    PROVE  Min(S) \in S /\ \A n \in S : Min(S) <= n
  <1>1. PICK m \in S : \A n \in S : m <= n
    BY LeastNumber
  <1> QED
    BY <1>1 DEF Min

\* An error before any output is the whole stream.
LEMMA ErrorIsAlone ==
    ASSUME NEW stream \in Streams, Prelude(stream) = "error"
    PROVE  HasOutput(stream) = FALSE
  <1> DEFINE I == {i \in 1..Len(stream) : PreludeAction(stream[i]) # "continue"}
             i == IF I # {} THEN Min(I) ELSE 0
  <1>1. Prelude(stream) = IF i = 0 THEN "eof" ELSE PreludeAction(stream[i])
    BY DEF Prelude, SelectInSeq
  <1>2. /\ stream \in Seq(Events) /\ Len(stream) \in Nat /\ DOMAIN stream = 1..Len(stream)
        /\ \A j \in DOMAIN stream :
               stream[j] \in {"failed", "quota", "quota_output"} => j = Len(stream)
    BY StreamAssumption, LenProperties
  <1>3. I # {} /\ i = Min(I) /\ PreludeAction(stream[i]) = "error"
    BY <1>1
  <1>4. I \in SUBSET Nat
    BY <1>2
  <1> HIDE DEF I
  <1>5. Min(I) \in I /\ \A n \in I : Min(I) <= n
    BY <1>3, <1>4, Least
  <1> HIDE DEF i
  <1>6. i \in 1..Len(stream) /\ \A n \in I : i <= n
    BY <1>3, <1>5 DEF I
  <1>7. stream[i] \in {"failed", "quota"}
    BY <1>3 DEF PreludeAction
  <1>8. i = Len(stream)
    BY <1>2, <1>6, <1>7
  <1>9. ASSUME NEW j \in DOMAIN stream, j # i PROVE PreludeAction(stream[j]) = "continue"
    <2>1. j \in 1..Len(stream) /\ j < i
      BY <1>2, <1>8, <1>9
    <2>2. j \notin I
      BY <1>6, <2>1
    <2> QED
      BY <2>1, <2>2 DEF I
  <1>10. \A j \in DOMAIN stream : stream[j] \notin {"delta", "completed", "quota_output"}
    <2> TAKE j \in DOMAIN stream
    <2>1. CASE j = i
      BY <1>7, <2>1
    <2>2. CASE j # i
      BY <1>9, <2>2 DEF PreludeAction
    <2> QED
      BY <2>1, <2>2
  <1> QED
    BY <1>10 DEF HasOutput

\* An upstream takes a request whose transcript is remembered for just that.
LEMMA UnderstoodIsInput ==
    ASSUME NEW q \in RequestRec, q.pc = "sent", WorkOK(q), ContextOK(q, held), q.tracked
    PROVE  Understood(q) = q.input /\ q.input \in q.means
  <1>1. CASE Whole(q)
    BY <1>1 DEF ContextOK, Understood, Working
  <1>2. CASE ~Whole(q)
    <2>1. /\ ~q.force /\ q.reusable /\ q.account = q.pref /\ q.rev = q.prefRev
          /\ q.prev \in Ids /\ q.input \in q.means
          /\ held[<<q.pref, q.prefRev>>][q.prev] \o q.items = q.input
      BY <1>2 DEF ContextOK, Working
    <2>2. q.prev # None
      BY <2>1, Bounds
    <2> QED
      BY <2>1, <2>2 DEF Understood
  <1> QED
    BY <1>1, <1>2

\* What an upstream takes a request for is a conversation.
LEMMA UnderstoodIsTalk ==
    ASSUME NEW q \in RequestRec, Chosen(q), WorkOK(q), WorldOK(revision, held, given)
    PROVE  Understood(q) \in Talks
  <1>1. q.items \in Talks /\ q.prev \in Ids \union {None}
    BY DEF RequestRec
  <1>2. <<q.account, q.rev>> \in Upstreams
    BY DEF WorkOK, Upstreams
  <1>3. ASSUME q.prev # None PROVE held[<<q.account, q.rev>>][q.prev] \o q.items \in Talks
    <2>1. held[<<q.account, q.rev>>][q.prev] \in Talks
      BY <1>1, <1>2, <1>3 DEF WorldOK
    <2> QED
      BY <1>1, <2>1, Joined
  <1> QED
    BY <1>1, <1>3 DEF Understood

\* An upstream keeps one response more, or nothing new.
LEMMA HeldGrows ==
    ASSUME WorldOK(revision, held, given), NEW u \in Upstreams, NEW id \in Ids,
           held[u][id] = <<>>, NEW talk \in Talks,
           held' = [held EXCEPT ![u][id] = talk] \/ UNCHANGED held
    PROVE  /\ held' \in [Upstreams -> [Ids -> Talks]]
           /\ \A v \in Upstreams, j \in Ids : held[v][j] # <<>> => held'[v][j] = held[v][j]
  <1>1. held \in [Upstreams -> [Ids -> Talks]]
    BY DEF WorldOK
  <1>2. CASE held' = [held EXCEPT ![u][id] = talk]
    <2> DEFINE f == [held[u] EXCEPT ![id] = talk]
    <2>1. held' = [held EXCEPT ![u] = f]
      BY <1>2
    <2>2. f \in [Ids -> Talks] /\ \A j \in Ids : j # id => f[j] = held[u][j]
      BY <1>1
    <2> HIDE DEF f
    <2>3. held' \in [Upstreams -> [Ids -> Talks]]
      BY <1>1, <2>1, <2>2
    <2>4. held'[u] = f /\ \A v \in Upstreams : v # u => held'[v] = held[v]
      BY <1>1, <2>1
    <2> QED
      BY <2>2, <2>3, <2>4
  <1>3. CASE UNCHANGED held
    BY <1>1, <1>3
  <1> QED
    BY <1>2, <1>3

\* A client is given the conversations it may mean, and the answer.
LEMMA GivenGrows ==
    ASSUME WorldOK(revision, held, given), NEW r \in Requests, NEW k \in Keys,
           NEW means \in SUBSET Talks, \A talk \in means : Len(talk) >= 1,
           given' = [given EXCEPT ![k] = @ \union {m \o Answer(r) : m \in means}]
    PROVE  /\ given' \in [Keys -> SUBSET Talks]
           /\ \A l \in Keys : \A talk \in given'[l] : Len(talk) >= 2
           /\ \A l \in Keys : given[l] \subseteq given'[l]
           /\ \A m \in means : m \o Answer(r) \in given'[k]
  <1> DEFINE new == {m \o Answer(r) : m \in means}
             told == given[k] \union new
  <1>1. /\ given \in [Keys -> SUBSET Talks]
        /\ \A l \in Keys : \A talk \in given[l] : Len(talk) >= 2
    BY DEF WorldOK
  <1>2. \A talk \in new : talk \in Talks /\ Len(talk) >= 2
    <2>1. ASSUME NEW m \in means
          PROVE  m \o Answer(r) \in Talks /\ Len(m \o Answer(r)) >= 2
      <3>1. m \in Talks /\ Len(m) >= 1
        OBVIOUS
      <3>2. /\ m \o Answer(r) \in Talks /\ Len(m) \in Nat
            /\ Len(m \o Answer(r)) = Len(m) + 1
        <4>1. Answer(r) \in Talks /\ Len(Answer(r)) = 1
          BY OneItem
        <4>2. /\ m \o Answer(r) \in Talks /\ Len(m) \in Nat
              /\ Len(m \o Answer(r)) = Len(m) + Len(Answer(r))
          BY <3>1, <4>1, Joined
        <4> QED
          BY <4>1, <4>2
      <3> QED
        BY <3>1, <3>2
    <2> QED
      BY <2>1
  <1>3. given' = [given EXCEPT ![k] = told]
    OBVIOUS
  <1>4. \A m \in means : m \o Answer(r) \in told
    OBVIOUS
  <1>5. told \in SUBSET Talks /\ given[k] \subseteq told
        /\ \A talk \in told : Len(talk) >= 2
    BY <1>1, <1>2
  <1> HIDE DEF told
  <1>6. /\ given' \in [Keys -> SUBSET Talks] /\ given'[k] = told
        /\ \A l \in Keys : l # k => given'[l] = given[l]
    BY <1>1, <1>3, <1>5
  <1> QED
    BY <1>1, <1>4, <1>5, <1>6

\* What is thrown away was not to be relayed, or holds no output.
LEMMA ThrownAway ==
    ASSUME NEW stream \in Streams, NEW form, AsksAnother(stream, form)
    PROVE  (form # "aggregate" /\ HasOutput(stream)) = FALSE
  <1>1. form = "aggregate" \/ Prelude(stream) = "error"
    BY DEF AsksAnother
  <1> QED
    BY <1>1, ErrorIsAlone

LEMMA ReceiveKeeps ==
    ASSUME ConversationInv, NEW r \in Requests, Receive(r)
    PROVE  ConversationInv'
  <1> DEFINE q == req[r]
             u == <<q.account, q.rev>>
             talk == Understood(q) \o Answer(r)
             shown(stream, form) == form # "aggregate" /\ HasOutput(stream)
             Reply(stream, i, form, keeps) ==
                 /\ q.pc = "sent" /\ held[u][i] = <<>>
                 /\ held' = IF keeps THEN [held EXCEPT ![u][i] = talk] ELSE held
                 /\ \/ /\ AsksAnother(stream, form)
                       /\ req' = [req EXCEPT ![r] =
                              [Unanswered(q, form) EXCEPT !.out = shown(stream, form)]]
                       /\ UNCHANGED given
                    \/ /\ req' = [req EXCEPT ![r] =
                              IF q.tracked THEN Relayed(q, i, keeps) ELSE Blank("done")]
                       /\ given' = [given EXCEPT ![<<q.token, i>>] = @ \union
                              {m \o Answer(r) : m \in q.means}]
                    \/ Finish(r) /\ UNCHANGED given
                 /\ UNCHANGED <<now, revision, cache>>
  <1>0. PICK stream \in Streams, i \in Ids :
           \E form \in Forms(q), keeps \in MayKeep(q, stream) : Reply(stream, i, form, keeps)
    BY DEF Receive, Answer
  <1>1. PICK form \in Forms(q), keeps \in MayKeep(q, stream) : Reply(stream, i, form, keeps)
    BY <1>0, Zenon
  <1>2. /\ q \in RequestRec /\ WorkOK(q) /\ OwnerOK(q, revision)
        /\ ContextOK(q, held) /\ CacheOK(cache, held, given)
        /\ WorldOK(revision, held, given) /\ now \in Nat
    BY AtWork DEF ConversationInv
  <1>3. q.pc = "sent" /\ held[u][i] = <<>> /\ UNCHANGED <<now, revision, cache>>
    BY <1>1
  <1>4. /\ u \in Upstreams /\ q.token \in Tokens /\ q.means \in SUBSET Talks
        /\ q.account \in Accounts /\ q.rev \in 1..MaxRevision
        /\ \A m \in q.means : Len(m) >= 1
    BY <1>2, <1>3 DEF WorkOK, Working, Chosen, Upstreams, RequestRec
  <1>5. talk \in Talks
    <2>1. Understood(q) \in Talks
      BY <1>2, <1>3, UnderstoodIsTalk DEF Chosen
    <2> QED
      BY <2>1, OneItem, Joined
  <1>6. /\ held' = [held EXCEPT ![u][i] = talk] \/ UNCHANGED held
        /\ keeps => held' = [held EXCEPT ![u][i] = talk]
    BY <1>1
  <1>7. /\ held' \in [Upstreams -> [Ids -> Talks]]
        /\ \A v \in Upstreams, j \in Ids : held[v][j] # <<>> => held'[v][j] = held[v][j]
    <2> HIDE DEF q, u, talk
    <2> QED
      BY <1>2, <1>3, <1>4, <1>5, <1>6, HeldGrows
  <1>8. keeps => held'[u][i] = talk
    <2>1. held \in [Upstreams -> [Ids -> Talks]]
      BY <1>2 DEF WorldOK
    <2> HIDE DEF u, talk
    <2> QED
      BY <1>4, <1>6, <2>1
  <1>9. revision \in [Accounts -> 1..MaxRevision] /\ revision' = revision
        /\ \A a \in Accounts : revision[a] <= revision'[a]
    <2>1. revision \in [Accounts -> 1..MaxRevision] /\ revision' = revision
      BY <1>2, <1>3 DEF WorldOK
    <2>2. \A a \in Accounts : revision[a] \in Int
      BY <2>1
    <2> QED
      BY <2>1, <2>2
  <1>10. ASSUME UNCHANGED given
         PROVE  /\ WorldOK(revision', held', given')
                /\ Grows(revision, held, given, revision', held', given')
    BY <1>2, <1>7, <1>9, <1>10 DEF WorldOK, Grows
  <1>11. CASE /\ AsksAnother(stream, form) /\ UNCHANGED given
              /\ req' = [req EXCEPT ![r] =
                     [Unanswered(q, form) EXCEPT !.out = shown(stream, form)]]
    <2> DEFINE x == Unanswered(q, form)
    <2>1. shown(stream, form) = FALSE
      BY <1>11, ThrownAway
    <2>2. req' = [req EXCEPT ![r] = x]
      <3> DEFINE z == [x EXCEPT !.out = FALSE]
      <3>1. req' = [req EXCEPT ![r] = z]
        BY <1>11, <2>1
      <3>2. z = x
        <4>1. q.out = FALSE
          BY <1>2, <1>3 DEF WorkOK, Working, RequestRec
        <4> HIDE DEF q
        <4> QED
          BY <1>2, <4>1 DEF RequestRec, Unanswered
      <3> HIDE DEF z, x
      <3> QED
        BY <3>1, <3>2
    <2>3. RequestOK(r, x, revision, held, given)
      BY <1>2, <1>3, ReturnsToSelection
    <2> HIDE DEF x, q
    <2>4. /\ WorldOK(revision', held', given')
          /\ Grows(revision, held, given, revision', held', given')
      BY <1>10, <1>11
    <2>5. RequestOK(r, x, revision', held', given')
      BY <1>2, <2>3, <2>4, RequestCarries
    <2>6. CacheOK(cache', held', given')
      BY <1>2, <1>3, <2>4, CacheCarries
    <2> QED
      BY <1>2, <1>3, <2>2, <2>4, <2>5, <2>6, RequestGoesOn
  <1>12. CASE Finish(r) /\ UNCHANGED given
    <2>1. /\ WorldOK(revision', held', given')
          /\ Grows(revision, held, given, revision', held', given')
      BY <1>10, <1>12
    <2>2. RequestOK(r, Blank("done"), revision', held', given')
      BY BlankOK
    <2>3. req' = [req EXCEPT ![r] = Blank("done")]
      BY <1>12 DEF Finish
    <2>4. CacheOK(cache', held', given')
      BY <1>2, <1>3, <2>1, CacheCarries
    <2> QED
      BY <1>2, <1>3, <2>1, <2>2, <2>3, <2>4, RequestGoesOn
  <1>13. CASE /\ given' = [given EXCEPT ![<<q.token, i>>] = @ \union
                     {m \o Answer(r) : m \in q.means}]
              /\ req' = [req EXCEPT ![r] =
                     IF q.tracked THEN Relayed(q, i, keeps) ELSE Blank("done")]
    <2> DEFINE k == <<q.token, i>>
               means == q.means
               x == IF q.tracked THEN Relayed(q, i, keeps) ELSE Blank("done")
    <2>1. k \in Keys
      BY <1>4 DEF Keys
    <2>2. /\ given' \in [Keys -> SUBSET Talks]
          /\ \A l \in Keys : \A m \in given'[l] : Len(m) >= 2
          /\ \A l \in Keys : given[l] \subseteq given'[l]
          /\ \A m \in means : m \o Answer(r) \in given'[k]
      <3>1. given' = [given EXCEPT ![k] = @ \union {m \o Answer(r) : m \in means}]
        BY <1>13
      <3>2. means \in SUBSET Talks /\ \A m \in means : Len(m) >= 1
        BY <1>4
      <3> HIDE DEF k, means
      <3> QED
        BY <1>2, <2>1, <3>1, <3>2, GivenGrows
    <2>3. /\ WorldOK(revision', held', given')
          /\ Grows(revision, held, given, revision', held', given')
      BY <1>7, <1>9, <2>2 DEF WorldOK, Grows
    <2>4. CacheOK(cache', held', given')
      BY <1>2, <1>3, <2>3, CacheCarries
    <2>5. RequestOK(r, x, revision', held', given')
      <3>1. CASE ~q.tracked
        BY <3>1, BlankOK
      <3>2. CASE q.tracked
        <4> DEFINE b == Blank("relayed")
                   y == [b EXCEPT !.token = q.token, !.id = i, !.tracked = TRUE,
                                  !.account = q.account, !.rev = q.rev,
                                  !.keeps = keeps, !.input = q.input]
        <4>1. x = y
          BY <3>2 DEF Relayed
        <4>2. b \in RequestRec /\ b.pc = "relayed" /\ ~b.out
          BY BlankRec
        <4>3. /\ q.token \in Tokens \union {None} /\ q.account \in Accounts
              /\ q.rev \in 0..MaxRevision /\ q.input \in Talks
          BY <1>2, <1>4 DEF RequestRec
        <4>4. keeps \in BOOLEAN
          BY DEF MayKeep, Completes
        <4>5. Understood(q) = q.input /\ q.input \in q.means
          BY <1>2, <1>3, <3>2, UnderstoodIsInput
        <4>6. q.input \o Answer(r) \in given'[k]
          BY <2>2, <4>5
        <4>7. keeps => held'[u][i] = q.input \o Answer(r)
          BY <1>8, <4>5
        <4> HIDE DEF b, x
        <4>8. /\ y \in RequestRec /\ y.pc = "relayed" /\ y.token = q.token /\ y.id = i
              /\ y.account = q.account /\ y.rev = q.rev /\ y.keeps = keeps
              /\ y.input = q.input /\ ~y.out
          <5> HIDE DEF q
          <5> QED
            BY <4>2, <4>3, <4>4 DEF RequestRec
        <4> HIDE DEF y
        <4>9. RelayedOK(r, y, held', given')
          BY <1>4, <4>6, <4>7, <4>8 DEF RelayedOK
        <4>10. WorkOK(y) /\ OwnerOK(y, revision') /\ ContextOK(y, held')
          BY <4>8 DEF WorkOK, OwnerOK, ContextOK, Working, Chosen
        <4> QED
          BY <4>1, <4>8, <4>9, <4>10 DEF RequestOK
      <3> QED
        BY <3>1, <3>2
    <2>6. req' = [req EXCEPT ![r] = x]
      BY <1>13
    <2> HIDE DEF x
    <2> QED
      BY <1>2, <1>3, <2>3, <2>4, <2>5, <2>6, RequestGoesOn
  <1> QED
    BY <1>1, <1>11, <1>12, <1>13

\* What storeResponsesResponse stores is sound.
LEMMA TranscriptOK ==
    ASSUME ConversationInv, NEW r \in Requests, req[r].pc = "relayed"
    PROVE  /\ <<req[r].token, req[r].id>> \in Keys
           /\ EntryOK(<<req[r].token, req[r].id>>, Transcript(req[r], r), held, given)
  <1> DEFINE q == req[r]
             k == <<q.token, q.id>>
             input == q.input \o Answer(r)
             size == Size(q.input) + 1
             time == now + TTL
             e == [account |-> q.account, revision |-> q.rev, reusable |-> q.keeps,
                   input |-> input, size |-> size, expiresAt |-> time]
  <1>1. q \in RequestRec /\ RelayedOK(r, q, held, given) /\ now \in Nat
    BY AtWork DEF ConversationInv
  <1>2. /\ q.token \in Tokens /\ q.id \in Ids
        /\ q.account \in Accounts /\ q.rev \in 1..MaxRevision /\ q.keeps \in BOOLEAN
        /\ input \in given[k]
        /\ q.keeps => held[<<q.account, q.rev>>][q.id] = input
    BY <1>1 DEF RelayedOK, RequestRec
  <1>3. k \in Keys /\ k[2] = q.id
    BY <1>2 DEF Keys
  <1>4. input \in Talks /\ size \in Nat /\ time \in Nat
    <2>1. q.input \in Talks
      BY <1>1 DEF RequestRec
    <2>2. input \in Talks /\ Len(q.input) \in Nat
      BY <2>1, OneItem, Joined
    <2> QED
      BY <1>1, <2>2, Bounds DEF Size
  <1>5. Transcript(q, r) = e
    BY DEF Transcript, Answer
  <1> HIDE DEF input, size, time
  <1>6. /\ e \in EntryRec /\ e.input = input /\ e.reusable = q.keeps
        /\ e.account = q.account /\ e.revision = q.rev
    <2> HIDE DEF q
    <2> QED
      BY <1>2, <1>4 DEF EntryRec
  <1> HIDE DEF e, k
  <1>7. EntryOK(k, e, held, given)
    BY <1>2, <1>3, <1>6 DEF EntryOK
  <1> QED
    BY <1>3, <1>5, <1>7 DEF k

LEMMA StoreKeeps ==
    ASSUME ConversationInv, NEW r \in Requests, Store(r)
    PROVE  ConversationInv'
  <1> DEFINE k == <<req[r].token, req[r].id>>
             e == Transcript(req[r], r)
  <1>1. k \in Keys /\ EntryOK(k, e, held, given)
    BY TranscriptOK DEF Store
  <1>2. /\ cache' = Stored(cache, k, e) /\ Finish(r)
        /\ UNCHANGED <<now, revision, held, given>>
    BY DEF Store
  <1>3. CacheOK(cache, held, given)
    BY DEF ConversationInv
  <1> HIDE DEF k, e
  <1>4. CacheOK(cache', held, given)
    BY <1>1, <1>2, <1>3, StoredSound
  <1> QED
    BY <1>2, <1>4, FinishKeeps

LEMMA StopKeeps ==
    ASSUME ConversationInv, NEW r \in Requests, Stop(r)
    PROVE  ConversationInv'
  <1>1. Finish(r) /\ UNCHANGED <<now, revision, cache, held, given>>
    BY DEF Stop
  <1>2. CacheOK(cache', held, given)
    BY <1>1 DEF ConversationInv
  <1> QED
    BY <1>1, <1>2, FinishKeeps

LEMMA SaveKeeps ==
    ASSUME ConversationInv, NEW a \in Edited, Save(a)
    PROVE  ConversationInv'
  <1>1. a \in Accounts
    BY CacheAssumption
  <1>2. /\ revision \in [Accounts -> 1..MaxRevision] /\ now \in Nat
        /\ WorldOK(revision, held, given)
    BY DEF ConversationInv, WorldOK
  <1> DEFINE next == revision[a] + 1
  <1>3. /\ revision' = [revision EXCEPT ![a] = next] /\ revision[a] < MaxRevision
        /\ UNCHANGED <<now, cache, req, held, given>>
    BY DEF Save
  <1>4. MaxRevision \in Nat /\ \A b \in Accounts : revision[b] \in 1..MaxRevision
    BY <1>2, Bounds
  <1>5. next \in 1..MaxRevision /\ revision[a] <= next
    BY <1>1, <1>3, <1>4
  <1> HIDE DEF next
  <1>6. /\ revision' \in [Accounts -> 1..MaxRevision] /\ revision'[a] = next
        /\ \A b \in Accounts : b # a => revision'[b] = revision[b]
    BY <1>1, <1>2, <1>3, <1>5
  <1>7. \A b \in Accounts : revision[b] <= revision'[b]
    BY <1>4, <1>5, <1>6
  <1>8. WorldOK(revision', held', given') /\ now' \in Nat
    BY <1>2, <1>3, <1>6 DEF WorldOK
  <1>9. Grows(revision, held, given, revision', held', given')
    BY <1>3, <1>7 DEF Grows
  <1> QED
    BY <1>3, <1>8, <1>9, WorldStep

LEMMA TickKeeps ==
    ASSUME ConversationInv, Tick \/ UNCHANGED vars
    PROVE  ConversationInv'
  <1>1. now' \in Nat /\ UNCHANGED <<revision, cache, req, held, given>>
    BY DEF ConversationInv, Tick, vars
  <1>2. Grows(revision, held, given, revision', held', given')
        /\ WorldOK(revision', held', given')
    BY <1>1, SameGrows DEF ConversationInv
  <1> QED
    BY <1>1, <1>2, WorldStep

LEMMA NextKeeps == ASSUME ConversationInv, [Next]_vars PROVE ConversationInv'
  <1>1. ASSUME NEW r \in Requests, Handle(r) PROVE ConversationInv'
    BY <1>1, PrepareUnknownKeeps, PrepareKnownKeeps, SelectKeeps, SendKeeps, FailKeeps,
       ReceiveKeeps, StoreKeeps, StopKeeps DEF Handle
  <1>2. ASSUME NEW a \in Edited, Save(a) PROVE ConversationInv'
    BY <1>2, SaveKeeps
  <1>3. CASE Tick \/ UNCHANGED vars
    BY <1>3, TickKeeps
  <1> QED
    BY <1>1, <1>2, <1>3 DEF Next

\* Each step leaves the cache, prunes it, looks one entry up or stores one.
LEMMA CacheSteps ==
    ASSUME ConversationInv, Next
    PROVE  \/ UNCHANGED cache
           \/ cache' = Pruned(cache)
           \/ \E k \in Keys : /\ Pruned(cache).entries[k] # None
                              /\ cache' = Touched(Pruned(cache), k)
           \/ \E k \in Keys : \E e \in EntryRec :
                  EntryOK(k, e, held, given) /\ cache' = Stored(cache, k, e)
  <1>1. \A k : k \in Live(Pruned(cache)) <=> k \in Keys /\ Pruned(cache).entries[k] # None
    BY DEF Live
  <1>2. ASSUME NEW r \in Requests, Store(r)
        PROVE  \E k \in Keys : \E e \in EntryRec :
                  EntryOK(k, e, held, given) /\ cache' = Stored(cache, k, e)
    <2> DEFINE k == <<req[r].token, req[r].id>>
               e == Transcript(req[r], r)
    <2>1. k \in Keys /\ EntryOK(k, e, held, given)
      BY <1>2, TranscriptOK DEF Store
    <2>2. cache' = Stored(cache, k, e)
      BY <1>2 DEF Store
    <2> HIDE DEF k, e
    <2> QED
      BY <2>1, <2>2 DEF EntryOK
  <1>3. ASSUME NEW r \in Requests, PrepareUnknown(r)
        PROVE  UNCHANGED cache \/ cache' = Pruned(cache)
    BY <1>3 DEF PrepareUnknown
  <1>4. ASSUME NEW r \in Requests, PrepareKnown(r)
        PROVE  \E k \in Keys : /\ Pruned(cache).entries[k] # None
                               /\ cache' = Touched(Pruned(cache), k)
    <2>1. PICK t \in Tokens, prev \in Ids :
             /\ <<t, prev>> \in Live(Pruned(cache))
             /\ cache' = Touched(Pruned(cache), <<t, prev>>)
      BY <1>4, Zenon DEF PrepareKnown
    <2> QED
      BY <1>1, <2>1
  <1>5. ASSUME NEW r \in Requests,
               Select(r) \/ Send(r) \/ Fail(r) \/ Receive(r) \/ Stop(r)
        PROVE  UNCHANGED cache
    BY <1>5 DEF Select, Send, Fail, Receive, Stop
  <1>6. CASE Tick \/ \E a \in Edited : Save(a)
    BY <1>6 DEF Tick, Save
  <1> QED
    BY <1>2, <1>3, <1>4, <1>5, <1>6 DEF Next, Handle

\* So the entries stay counted, and within the limits.
LEMMA SizesStep ==
    ASSUME ConversationInv, Next, Counted(cache), Limited(cache)
    PROVE  Counted(cache') /\ Limited(cache')
  <1> DEFINE p == Pruned(cache)
  <1>1. Counted(p) /\ Limited(p)
    BY PrunedLimited
  <1>2. CacheOK(p, held, given) /\ now \in Nat
    BY PrunedSound DEF ConversationInv
  <1>3. CASE UNCHANGED cache
    BY <1>3
  <1>4. CASE cache' = p
    BY <1>1, <1>4
  <1>5. ASSUME NEW k \in Keys, p.entries[k] # None, cache' = Touched(p, k)
        PROVE  Counted(cache') /\ Limited(cache')
    <2> HIDE DEF p
    <2>1. Counted(Touched(p, k)) /\ Limited(Touched(p, k))
      BY <1>1, <1>2, <1>5, TouchedLimited
    <2> QED
      BY <1>5, <2>1
  <1>6. ASSUME NEW k \in Keys, NEW e \in EntryRec, cache' = Stored(cache, k, e)
        PROVE  Counted(cache') /\ Limited(cache')
    <2>1. Counted(Stored(cache, k, e)) /\ Limited(Stored(cache, k, e))
      BY StoredLimited
    <2> QED
      BY <1>6, <2>1
  <1> HIDE DEF p
  <1>7. \/ UNCHANGED cache
        \/ cache' = p
        \/ \E k \in Keys : p.entries[k] # None /\ cache' = Touched(p, k)
        \/ \E k \in Keys : \E e \in EntryRec : cache' = Stored(cache, k, e)
    BY CacheSteps DEF p
  <1> QED
    BY <1>3, <1>4, <1>5, <1>6, <1>7

LEMMA InitSizes == ASSUME Init PROVE Counted(cache) /\ Limited(cache)
  <1>1. cache = [entries |-> [k \in Keys |-> None], bytes |-> 0, order |-> <<>>]
    BY DEF Init
  <1>2. Live(cache) = {}
    BY <1>1 DEF Live
  <1>3. cache.order = <<>> /\ cache.bytes = 0
    BY <1>1
  <1>4. <<>> \in Seq(Keys) /\ ToSet(<<>>) = {} /\ IsInjective(<<>>)
    <2>1. <<>> \in Seq(Keys) /\ DOMAIN <<>> = {}
      BY EmptySeq
    <2> QED
      BY <2>1 DEF ToSet, IsInjective
  <1>5. Bytes(cache, {}) = 0
    <2> DEFINE f == [k \in {} |-> cache.entries[k].size]
    <2>1. Bytes(cache, {}) = SumFunctionOnSet(f, {})
      BY DEF Bytes, SumFunction
    <2> HIDE DEF f
    <2> QED
      BY <2>1, SumOfNothing
  <1>6. Cardinality({}) = 0 /\ 0 <= MaxBytes /\ 0 <= MaxEntries
    BY Bounds, FS_EmptySet
  <1> QED
    BY <1>2, <1>3, <1>4, <1>5, <1>6 DEF Counted, Limited

\* Nothing has been asked.
LEMMA InitConversation == ASSUME Init PROVE ConversationInv
  <1>1. 1 \in 1..MaxRevision
    BY Bounds
  <1>2. now \in Nat
    BY DEF Init
  <1>3. WorldOK(revision, held, given)
    <2>1. revision \in [Accounts -> 1..MaxRevision]
      BY <1>1 DEF Init
    <2>2. held \in [Upstreams -> [Ids -> Talks]]
      BY NoTalk DEF Init
    <2>3. given = [k \in Keys |-> {}]
      BY DEF Init
    <2> QED
      BY <2>1, <2>2, <2>3 DEF WorldOK
  <1>4. CacheOK(cache, held, given)
    <2> DEFINE entries == [k \in Keys |-> None]
    <2>1. cache = [entries |-> entries, bytes |-> 0, order |-> <<>>]
      BY DEF Init
    <2>2. \A k \in Keys : entries[k] = None
      OBVIOUS
    <2>3. entries = [k \in Keys |-> entries[k]]
      OBVIOUS
    <2> HIDE DEF entries
    <2>4. cache.entries = entries
      BY <2>1
    <2> QED
      BY <2>1, <2>2, <2>3, <2>4 DEF CacheOK
  <1>5. RequestsOK
    <2>1. req = [r \in Requests |-> Blank("new")]
      BY DEF Init
    <2>2. \A r \in Requests : RequestOK(r, Blank("new"), revision, held, given)
      BY BlankOK
    <2> QED
      BY <2>1, <2>2 DEF RequestsOK
  <1> QED
    BY <1>2, <1>3, <1>4, <1>5 DEF ConversationInv

-----------------------------------------------------------------------------
(* The theorems.                                                             *)

\* The invariant of the conversations.
THEOREM ConversationInvariant == Spec => []ConversationInv
  <1>1. ConversationInv /\ [Next]_vars => ConversationInv'
    BY NextKeeps
  <1> QED
    BY <1>1, InitConversation, PTL DEF Spec

\* A follow-up reaches an upstream with the whole conversation its client may
\* mean, by id or by transcript, after any failover; and what is stored under
\* an id is what its client was given under it (responses_state.go,
\* shouldReplay and replayBody).
THEOREM FollowUpsAreWhole == Spec => []ContextIsWhole
  <1>1. ASSUME ConversationInv PROVE ContextIsWhole
    <2>1. ASSUME NEW r \in Requests, req[r].pc = "sent", req[r].known
          PROVE  Understood(req[r]) \in req[r].means
      <3>1. req[r] \in RequestRec /\ WorkOK(req[r]) /\ ContextOK(req[r], held)
        BY <1>1, AtWork
      <3>2. req[r].tracked
        BY <2>1, <3>1 DEF WorkOK, Working
      <3> QED
        BY <2>1, <3>1, <3>2, UnderstoodIsInput
    <2>2. \A k \in Live(cache) : cache.entries[k].input \in given[k]
      BY <1>1 DEF ConversationInv, CacheOK, EntryOK, Live
    <2> QED
      BY <2>1, <2>2 DEF ContextIsWhole
  <1> QED
    BY <1>1, ConversationInvariant, PTL

\* A follow-up whose account was saved before the attempt's account was chosen
\* is sent to nobody (proxy.go, handleProxy).
THEOREM ChangedOwnerStops == Spec => []StaleOwnerStops
  <1>1. ASSUME ConversationInv PROVE StaleOwnerStops
    <2>1. ASSUME NEW r \in Requests, req[r].pc = "sent", req[r].known
          PROVE  req[r].owner = req[r].prefRev
      BY <1>1, <2>1, AtWork DEF OwnerOK, Working
    <2> QED
      BY <2>1 DEF StaleOwnerStops
  <1> QED
    BY <1>1, ConversationInvariant, PTL

\* Nobody else is asked once an account has produced output that is relayed as
\* it comes, provided that a failure ends its stream (responses_state.go,
\* inspectResponsesStreamPrelude).  A stream that is read whole is outside this:
\* a Codex account's own failure is passed on whatever came before it.
THEOREM OneAnswer == Spec => []AnsweredOnce
  <1>1. ASSUME ConversationInv PROVE AnsweredOnce
    BY <1>1, AtWork DEF WorkOK, AnsweredOnce
  <1> QED
    BY <1>1, ConversationInvariant, PTL

\* What an id stands for may be forgotten, and does not change before it expires
\* (responses_state.go, store).
THEOREM MeaningIsKept == Spec => EntryKeepsMeaning
  <1> DEFINE Kept ==
          \A k \in Live(cache) :
              now < cache.entries[k].expiresAt /\ cache'.entries[k] # None
                  => Agree(cache.entries[k], cache'.entries[k])
  <1>1. ASSUME ConversationInv, Next PROVE Kept
    <2>1. \A x : Agree(x, x)
      BY DEF Agree
    <2>2. /\ CacheOK(cache, held, given) /\ CacheOK(Pruned(cache), held, given)
          /\ \A k \in Keys : Pruned(cache).entries[k] # None
                                 => Pruned(cache).entries[k] = cache.entries[k]
      BY <1>1, PrunedSound DEF ConversationInv
    <2>3. \A k \in Live(cache) : now < cache.entries[k].expiresAt
                                    => k \in Keys /\ Pruned(cache).entries[k] # None
      BY <1>1, UnexpiredStays
    <2>4. CASE UNCHANGED cache
      BY <2>1, <2>4
    <2>5. CASE cache' = Pruned(cache)
      BY <2>1, <2>2, <2>3, <2>5
    <2>6. ASSUME NEW k \in Keys, Pruned(cache).entries[k] # None,
                 cache' = Touched(Pruned(cache), k)
          PROVE  Kept
      <3> DEFINE p == Pruned(cache)
      <3>1. /\ \A l \in Keys : l # k => Touched(p, k).entries[l] = p.entries[l]
            /\ Agree(p.entries[k], Touched(p, k).entries[k])
        <4>1. now \in Nat
          BY <1>1 DEF ConversationInv
        <4> HIDE DEF p
        <4>2. CacheOK(p, held, given) /\ p.entries[k] # None
          BY <2>2, <2>6 DEF p
        <4> QED
          BY <2>6, <4>1, <4>2, TouchedSound
      <3> QED
        BY <2>1, <2>2, <2>3, <2>6, <3>1
    <2>7. ASSUME NEW k \in Keys, NEW e \in EntryRec, EntryOK(k, e, held, given),
                 cache' = Stored(cache, k, e)
          PROVE  Kept
      BY <2>2, <2>3, <2>7, StoredSound
    <2> HIDE DEF Kept
    <2> QED
      BY <1>1, <2>4, <2>5, <2>6, <2>7, CacheSteps
  <1>2. ConversationInv /\ [Next]_vars => [Kept]_vars
    BY <1>1
  <1> QED
    BY <1>2, ConversationInvariant, PTL DEF Spec, EntryKeepsMeaning

\* The counter of the cache is what its entries weigh, and both limits hold
\* after every operation (responses_state.go, store, lookup,
\* pruneExpiredLocked and evictOldestLocked).
THEOREM SizesAreExact == Spec => []SizeIsExact
  <1> DEFINE Inv == ConversationInv /\ Counted(cache) /\ Limited(cache)
  <1>1. Init => Inv
    BY InitConversation, InitSizes
  <1>2. Inv /\ [Next]_vars => Inv'
    <2>1. ASSUME Inv, Next PROVE Counted(cache') /\ Limited(cache')
      BY <2>1, SizesStep
    <2>2. ASSUME Inv, UNCHANGED vars PROVE Counted(cache') /\ Limited(cache')
      <3>1. cache' = cache
        BY <2>2 DEF vars
      <3> QED
        BY <2>2, <3>1
    <2>3. ASSUME Inv, [Next]_vars PROVE ConversationInv'
      BY <2>3, NextKeeps
    <2>4. /\ Counted(cache') => Counted(cache)'
          /\ Limited(cache') => Limited(cache)'
      BY DEF Counted, Limited, Live, Bytes, SumFunction
    <2> QED
      BY <2>1, <2>2, <2>3, <2>4
  <1>3. Inv => SizeIsExact
    BY DEF Counted, Limited, SizeIsExact
  <1> QED
    BY <1>1, <1>2, <1>3, PTL DEF Spec
=============================================================================
