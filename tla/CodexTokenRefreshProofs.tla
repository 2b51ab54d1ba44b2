---------------------- MODULE CodexTokenRefreshProofs ----------------------
(* CodexTokenRefresh for any number of goroutines, tokens and revisions:   *)
(* what the provider, the goroutines and the writer have at any time, one  *)
(* lemma for each way in which an action changes it, then the theorems.    *)
EXTENDS CodexTokenRefresh, TLAPS

USE TokenAssumption DEF Tokens, NoToken, Denied, Failed

CallerRec == [pc : Places, rev : Nat, token : Tokens \cup {NoToken},
              got : Tokens \cup {NoToken, Denied, Failed}]

LoginRec == [phase : {"none", "pending", "granted"}, rev : Nat,
             token : Tokens \cup {NoToken}]

\* The provider: a token that was issued is accepted, or was replaced by a
\* later one.
ProviderOK ==
    \A t \in Tokens :
        /\ t > issued => t \notin valid /\ successor[t] = NoToken
        /\ t <= issued /\ t \in valid => successor[t] = NoToken
        /\ t <= issued /\ t \notin valid => successor[t] \in Tokens /\ successor[t] > t

\* Nobody has a token that was not issued.
OnlyIssued ==
    /\ cfg.token <= issued /\ cand.token <= issued /\ login.token <= issued
    /\ \A c \in Callers : caller[c].token <= issued /\ caller[c].got <= issued

\* What a goroutine has where.
Shape(r) ==
    /\ r.pc = "idle" => r = Idle
    /\ r.pc # "idle" => r.token \in Tokens
    /\ r.pc \in {"holding", "submitting", "following"} => r.got = NoToken
    /\ r.pc \in {"refreshed", "writing"} => r.got \in Tokens

CallersOK == \A c \in Callers : Shape(caller[c])

\* A copy with the stored token was made in this revision.
CopiesOK ==
    \A c \in Callers :
        caller[c].token \in Tokens /\ caller[c].token = cfg.token
            => caller[c].rev = cfg.rev

\* A replacement of the stored token that somebody brings is the provider's,
\* still accepted, and in nobody's copy.
ReplacementsOK ==
    \A c \in Callers :
        /\ caller[c].token = cfg.token
        /\ caller[c].got \in Tokens /\ caller[c].got # cfg.token
        => /\ caller[c].got \in valid /\ caller[c].got = successor[cfg.token]
           /\ \A d \in Callers : caller[d].token # caller[c].got

Unheld(t) == \A c \in Callers : caller[c].token # t /\ caller[c].got # t

\* The token of a login that is not stored yet is nobody else's.
LoginOK ==
    login.phase = "granted" =>
        /\ login.token \in valid /\ login.token \in Tokens
        /\ login.token # cfg.token /\ login.token # cand.token
        /\ Unheld(login.token)

\* What the administrator writes: what there is, or a new revision, with a
\* token of its own if it has one.
AdminWrites ==
    \/ cand = cfg
    \/ /\ cand.rev > cfg.rev
       /\ cand.token # NoToken =>
             /\ cand.token # cfg.token /\ cand.token \in valid
             /\ Unheld(cand.token)

\* A goroutine that writes holds configMu, and writes what it got for the
\* stored token.
WriterOK ==
    /\ lock = Admin => AdminWrites
    /\ \A c \in Callers :
          /\ At(c, {"writing"}) <=> lock = c
          /\ At(c, {"writing"}) =>
                /\ caller[c].token = cfg.token
                /\ cand = [cfg EXCEPT !.token = caller[c].got]

\* The inductive invariant behind ReplacementIsKept and TokensMoveForward.
TokenInv ==
    /\ TypeOK /\ ProviderOK /\ OnlyIssued /\ CallersOK
    /\ CopiesOK /\ ReplacementsOK /\ LoginOK /\ WriterOK
    /\ disk = cfg /\ ReplacementIsKept

-----------------------------------------------------------------------------
(* Records.                                                                *)

LEMMA IdleRec == /\ Idle \in CallerRec /\ Shape(Idle) /\ Idle.pc = "idle" /\ Idle.rev = 0
                 /\ Idle.token = NoToken /\ Idle.got = NoToken
  BY DEF Idle, CallerRec, Places, Shape

LEMMA LoggedRec == /\ Logged \in LoginRec /\ Logged.phase = "none" /\ Logged.token = NoToken
  BY DEF Logged, LoginRec

\* The fields of a caller's record after a step that changes some of them.
LEMMA AtPlace ==
    ASSUME NEW r \in CallerRec, NEW place \in Places
    PROVE  /\ [r EXCEPT !.pc = place] \in CallerRec
           /\ [r EXCEPT !.pc = place].pc = place
           /\ [r EXCEPT !.pc = place].rev = r.rev
           /\ [r EXCEPT !.pc = place].token = r.token
           /\ [r EXCEPT !.pc = place].got = r.got
  BY DEF CallerRec

LEMMA Replaced ==
    ASSUME NEW x \in Config, NEW t \in Tokens \cup {NoToken}
    PROVE  LET y == [x EXCEPT !.token = t]
           IN  y \in Config /\ y.rev = x.rev /\ y.token = t
  BY DEF Config

\* One goroutine moves.
LEMMA OneCaller ==
    ASSUME caller \in [Callers -> CallerRec], NEW c \in Callers, NEW r \in CallerRec,
           caller' = [caller EXCEPT ![c] = r]
    PROVE  /\ caller' \in [Callers -> CallerRec] /\ caller'[c] = r
           /\ \A d \in Callers : d # c => caller'[d] = caller[d]
  OBVIOUS

LEMMA Typed ==
    TypeOK <=> /\ issued \in 0 .. MaxToken /\ valid \subseteq Tokens
               /\ successor \in [Tokens -> Tokens \cup {NoToken}]
               /\ cfg \in Config /\ disk \in Config /\ cand \in Config
               /\ lock \in Callers \cup {Admin, NoOne}
               /\ refreshes \subseteq Tokens
               /\ caller \in [Callers -> CallerRec]
               /\ login \in LoginRec /\ intact \in BOOLEAN
  BY DEF TypeOK, CallerRec, LoginRec

-----------------------------------------------------------------------------
(* Goroutines that move without writing and without a new token: a copy is  *)
(* made of what is stored, a result is shared or dropped.  A replacement of *)
(* the stored token is not dropped.                                        *)

Moves(r, o) ==
    /\ r.pc # "writing" /\ o.pc # "writing" /\ Shape(r)
    /\ \/ r.token = NoToken
       \/ r.token = o.token /\ r.rev = o.rev
       \/ r.token = cfg.token /\ r.rev = cfg.rev
    /\ r.got \in Tokens =>
          \/ r.got = r.token
          \/ \E e \in Callers : caller[e].token = r.token /\ caller[e].got = r.got
    /\ /\ o.pc \in {"answered", "refreshed"} /\ o.got \in Tokens
       /\ o.token = cfg.token /\ o.rev = cfg.rev
       => /\ r.pc \in {"answered", "refreshed"}
          /\ r.rev = o.rev /\ r.token = o.token /\ r.got = o.got

LEMMA CallersMove ==
    ASSUME TokenInv, caller' \in [Callers -> CallerRec], refreshes' \subseteq Tokens,
           UNCHANGED <<provider, stored, login, intact>>,
           \A d \in Callers : caller'[d] = caller[d] \/ Moves(caller'[d], caller[d])
    PROVE  TokenInv'
  <1> USE DEF provider, stored
  <1>1. /\ caller \in [Callers -> CallerRec] /\ cfg \in Config /\ cand \in Config
        /\ login \in LoginRec /\ issued \in 0 .. MaxToken
    BY Typed DEF TokenInv
  <1>2. TypeOK'
    BY Typed DEF TokenInv, TypeOK, CallerRec
  <1>3. ProviderOK'
    BY DEF TokenInv, ProviderOK
  <1>4. OnlyIssued'
    BY <1>1 DEF TokenInv, OnlyIssued, Moves, CallerRec, Config
  <1>5. CallersOK'
    BY DEF TokenInv, CallersOK, Moves
  <1>6. CopiesOK'
    BY DEF TokenInv, CopiesOK, Moves
  <1>7. ReplacementsOK'
    <2> SUFFICES ASSUME NEW c \in Callers, caller'[c].token = cfg.token,
                        caller'[c].got \in Tokens, caller'[c].got # cfg.token
                 PROVE  /\ caller'[c].got \in valid /\ caller'[c].got = successor[cfg.token]
                        /\ \A d \in Callers : caller'[d].token # caller'[c].got
      BY DEF ReplacementsOK
    <2>1. PICK e \in Callers : caller[e].token = cfg.token /\ caller[e].got = caller'[c].got
      BY DEF Moves
    <2>2. /\ caller[e].got \in valid /\ caller[e].got = successor[cfg.token]
          /\ \A d \in Callers : caller[d].token # caller[e].got
      BY <2>1 DEF TokenInv, ReplacementsOK
    <2>3. ASSUME NEW d \in Callers PROVE caller'[d].token # caller'[c].got
      BY <2>1, <2>2 DEF Moves
    <2> QED
      BY <2>1, <2>2, <2>3
  <1>8. ASSUME NEW t \in Tokens, Unheld(t), t # cfg.token
        PROVE  Unheld(t)'
    BY <1>8 DEF Unheld, Moves
  <1>9. LoginOK'
    BY <1>8 DEF TokenInv, LoginOK
  <1>10. WriterOK'
    <2>1. ASSUME lock = Admin PROVE AdminWrites'
      BY <1>1, <1>8, <2>1 DEF TokenInv, WriterOK, AdminWrites, Config
    <2>2. ASSUME NEW c \in Callers
          PROVE  /\ At(c, {"writing"})' <=> lock = c
                 /\ At(c, {"writing"})' =>
                       /\ caller'[c].token = cfg.token
                       /\ cand = [cfg EXCEPT !.token = caller'[c].got]
      BY DEF TokenInv, WriterOK, At, Moves
    <2> QED
      BY <2>1, <2>2 DEF WriterOK, At
  <1>11. ReplacementIsKept'
    <2> SUFFICES ASSUME intact, cfg.token # NoToken, cfg.token \notin valid
                 PROVE  \E c \in Callers : /\ At(c, {"answered", "refreshed", "writing"})'
                                           /\ caller'[c].rev = cfg.rev
                                           /\ caller'[c].token = cfg.token
                                           /\ caller'[c].got = successor[cfg.token]
      BY DEF ReplacementIsKept, At
    <2>1. PICK c \in Callers : /\ caller[c].pc \in {"answered", "refreshed", "writing"}
                               /\ caller[c].rev = cfg.rev
                               /\ caller[c].token = cfg.token
                               /\ caller[c].got = successor[cfg.token]
      BY DEF TokenInv, ReplacementIsKept, At
    <2>2. cfg.token \in Tokens /\ successor[cfg.token] \in Tokens
      BY <1>1 DEF TokenInv, ProviderOK, OnlyIssued, Config
    <2> QED
      BY <2>1, <2>2 DEF At, Moves
  <1> QED
    BY <1>2, <1>3, <1>4, <1>5, <1>6, <1>7, <1>9, <1>10, <1>11 DEF TokenInv

-----------------------------------------------------------------------------
(* The provider replaces a token: its reply reaches the leader, or is lost. *)

LEMMA Rotated ==
    ASSUME TokenInv, NEW c \in Callers, At(c, {"submitting"}),
           Rotate(caller[c].token), NEW got \in {issued + 1, Failed},
           Answer(c, got), UNCHANGED <<stored, refreshes, login>>,
           IF got = Failed THEN intact' = FALSE ELSE UNCHANGED intact
    PROVE  TokenInv'
  <1> USE DEF stored
  <1> DEFINE token == caller[c].token
             s == [caller[c] EXCEPT !.pc = "answered", !.got = got]
  <1>1. /\ caller \in [Callers -> CallerRec] /\ cfg \in Config /\ cand \in Config
        /\ login \in LoginRec /\ issued \in 0 .. MaxToken /\ valid \subseteq Tokens
        /\ successor \in [Tokens -> Tokens \cup {NoToken}] /\ intact \in BOOLEAN
    BY Typed DEF TokenInv
  <1>2. /\ caller[c] \in CallerRec /\ Shape(caller[c]) /\ caller[c].pc = "submitting"
        /\ token \in Tokens /\ caller[c].got = NoToken
    BY <1>1 DEF TokenInv, CallersOK, Shape, At
  <1>3. /\ token \in valid /\ issued + 1 \in Tokens /\ issued' = issued + 1
        /\ valid' = (valid \ {token}) \cup {issued + 1}
        /\ successor' = [successor EXCEPT ![token] = issued + 1]
        /\ issued + 1 \notin valid /\ issued \in Nat
    BY <1>1, <1>2 DEF Rotate, TokenInv, ProviderOK
  <1>4. /\ s \in CallerRec /\ s.pc = "answered" /\ s.rev = caller[c].rev
        /\ s.token = token /\ s.got = got
    <2>1. "answered" \in Places /\ got \in Tokens \cup {NoToken, Denied, Failed}
      BY <1>3 DEF Places
    <2> QED
      BY <1>2, <2>1 DEF CallerRec
  <1>5. /\ caller' \in [Callers -> CallerRec] /\ caller'[c] = s
        /\ \A d \in Callers : d # c => caller'[d] = caller[d]
    <2>1. caller' = [caller EXCEPT ![c] = s]
      BY DEF Answer
    <2> HIDE DEF s
    <2> QED
      BY <1>1, <1>4, <2>1, OneCaller
  <1> HIDE DEF token, s
  <1>6. TypeOK'
    <2>1. /\ issued' \in 0 .. MaxToken /\ valid' \subseteq Tokens
          /\ successor' \in [Tokens -> Tokens \cup {NoToken}]
      BY <1>1, <1>2, <1>3
    <2>2. intact' \in BOOLEAN
      BY <1>1, Zenon
    <2> QED
      BY <1>5, <2>1, <2>2 DEF TokenInv, TypeOK, CallerRec
  <1>7. ProviderOK'
    BY <1>1, <1>2, <1>3 DEF TokenInv, ProviderOK
  <1>8. OnlyIssued'
    <2>1. ASSUME NEW x \in Int, x <= issued PROVE x <= issued'
      BY <1>3, <2>1
    <2>2. ASSUME NEW d \in Callers PROVE caller'[d].token <= issued' /\ caller'[d].got <= issued'
      <3>1. /\ caller[d].token <= issued /\ caller[d].got <= issued
            /\ caller[d].token \in Int /\ caller[d].got \in Int
        BY <1>1 DEF TokenInv, OnlyIssued, CallerRec
      <3>2. got <= issued'
        BY <1>3
      <3> QED
        BY <1>4, <1>5, <2>1, <3>1, <3>2 DEF token
    <2>3. cfg.token \in Int /\ cand.token \in Int /\ login.token \in Int
      BY <1>1 DEF Config, LoginRec
    <2> QED
      BY <2>1, <2>2, <2>3 DEF TokenInv, OnlyIssued
  <1>9. CallersOK'
    BY <1>2, <1>4, <1>5 DEF TokenInv, CallersOK, Shape
  <1>10. CopiesOK'
    BY <1>4, <1>5 DEF TokenInv, CopiesOK, token
  <1>11. \A d \in Callers : caller[d].token # issued + 1 /\ caller'[d].token # issued + 1
    <2>1. ASSUME NEW d \in Callers PROVE caller[d].token # issued + 1
      <3>1. caller[d].token \in Int /\ caller[d].token <= issued
        BY <1>1 DEF TokenInv, OnlyIssued, CallerRec
      <3> QED
        BY <1>3, <3>1
    <2> QED
      BY <1>4, <1>5, <2>1 DEF token
  <1>12. ReplacementsOK'
    <2> SUFFICES ASSUME NEW d \in Callers, caller'[d].token = cfg.token,
                        caller'[d].got \in Tokens, caller'[d].got # cfg.token
                 PROVE  /\ caller'[d].got \in valid' /\ caller'[d].got = successor'[cfg.token]
                        /\ \A e \in Callers : caller'[e].token # caller'[d].got
      BY DEF ReplacementsOK
    <2>1. CASE d = c
      BY <1>1, <1>2, <1>3, <1>4, <1>5, <1>11, <2>1
    <2>2. CASE d # c
      <3>1. /\ caller[d].got \in valid /\ caller[d].got = successor[cfg.token]
            /\ \A e \in Callers : caller[e].token # caller[d].got
        BY <1>5, <2>2 DEF TokenInv, ReplacementsOK
      <3>2. cfg.token # token
        BY <1>1, <1>2, <1>3, <1>5, <2>2, <3>1 DEF TokenInv, ProviderOK
      <3>3. caller[d].got # token
        BY <1>2, <3>1 DEF token
      <3>4. \A e \in Callers : caller'[e].token = caller[e].token
        BY <1>4, <1>5 DEF token
      <3>5. successor'[cfg.token] = successor[cfg.token]
        BY <1>1, <1>3, <3>2
      <3> QED
        BY <1>3, <1>5, <2>2, <3>1, <3>3, <3>4, <3>5
    <2> QED
      BY <2>1, <2>2
  <1>13. ASSUME NEW t \in Tokens, Unheld(t), t \in valid
         PROVE  Unheld(t)' /\ t \in valid'
    BY <1>2, <1>3, <1>4, <1>5, <1>13 DEF Unheld, token
  <1>14. LoginOK'
    BY <1>13 DEF TokenInv, LoginOK
  <1>15. WriterOK'
    <2>1. ASSUME lock = Admin PROVE AdminWrites'
      BY <1>1, <1>13, <2>1 DEF TokenInv, WriterOK, AdminWrites, Config
    <2>2. ASSUME NEW d \in Callers
          PROVE  /\ At(d, {"writing"})' <=> lock = d
                 /\ At(d, {"writing"})' =>
                       /\ caller'[d].token = cfg.token
                       /\ cand = [cfg EXCEPT !.token = caller'[d].got]
      BY <1>2, <1>4, <1>5 DEF TokenInv, WriterOK, At
    <2> QED
      BY <2>1, <2>2 DEF WriterOK, At
  <1>16. ReplacementIsKept'
    <2> SUFFICES ASSUME intact', cfg.token # NoToken, cfg.token \notin valid'
                 PROVE  \E d \in Callers : /\ caller'[d].pc \in {"answered", "refreshed", "writing"}
                                           /\ caller'[d].rev = cfg.rev
                                           /\ caller'[d].token = cfg.token
                                           /\ caller'[d].got = successor'[cfg.token]
      BY DEF ReplacementIsKept, At
    <2>1. got = issued + 1 /\ intact
      BY <1>1
    <2>2. CASE cfg.token = token
      <3>1. caller[c].rev = cfg.rev
        BY <1>2, <2>2 DEF TokenInv, CopiesOK, token
      <3> QED
        BY <1>1, <1>2, <1>3, <1>4, <1>5, <2>1, <2>2, <3>1
    <2>3. CASE cfg.token # token
      <3>1. PICK d \in Callers : /\ caller[d].pc \in {"answered", "refreshed", "writing"}
                                 /\ caller[d].rev = cfg.rev
                                 /\ caller[d].token = cfg.token
                                 /\ caller[d].got = successor[cfg.token]
        BY <1>3, <2>1, <2>3 DEF TokenInv, ReplacementIsKept, At
      <3>2. d # c /\ cfg.token \in Tokens
        BY <1>1, <1>2, <3>1 DEF Config
      <3> QED
        BY <1>1, <1>2, <1>3, <1>5, <2>3, <3>1, <3>2
    <2> QED
      BY <2>2, <2>3
  <1> QED
    BY <1>6, <1>7, <1>8, <1>9, <1>10, <1>12, <1>14, <1>15, <1>16 DEF TokenInv

-----------------------------------------------------------------------------
(* configMu is taken.                                                      *)

LEMMA AdminStarts ==
    ASSUME TokenInv, NEW new \in Config, StartWrite(Admin, new),
           UNCHANGED <<provider, cfg, disk, refreshes, caller, intact>>,
           \/ new = cfg
           \/ /\ new.rev > cfg.rev
              /\ new.token # NoToken =>
                    new.token # cfg.token /\ new.token \in valid /\ Unheld(new.token),
           \/ login' = Logged
           \/ login' = login /\ (login.phase = "granted" => new.token # login.token)
    PROVE  TokenInv'
  <1> USE DEF provider
  <1>1. /\ cfg \in Config /\ login \in LoginRec /\ issued \in 0 .. MaxToken
        /\ cand' = new /\ lock = NoOne /\ lock' = Admin /\ login' \in LoginRec
    BY Typed, LoggedRec DEF TokenInv, StartWrite
  <1>2. TypeOK'
    BY <1>1 DEF TokenInv, TypeOK, LoginRec
  <1>3. new.token <= issued
    BY <1>1 DEF TokenInv, OnlyIssued, ProviderOK, Config
  <1>4. ProviderOK' /\ CallersOK' /\ CopiesOK' /\ ReplacementsOK'
    BY DEF TokenInv, ProviderOK, CallersOK, CopiesOK, ReplacementsOK
  <1>5. OnlyIssued'
    BY <1>1, <1>3, LoggedRec DEF TokenInv, OnlyIssued
  <1>6. LoginOK'
    BY <1>1, LoggedRec DEF TokenInv, LoginOK, Unheld
  <1>7. WriterOK'
    BY <1>1 DEF TokenInv, WriterOK, AdminWrites, Unheld, At
  <1>8. ReplacementIsKept'
    BY DEF TokenInv, ReplacementIsKept, At
  <1> QED
    BY <1>2, <1>4, <1>5, <1>6, <1>7, <1>8 DEF TokenInv

LEMMA PersistWrites ==
    ASSUME TokenInv, NEW c \in Callers, At(c, {"refreshed"}),
           cfg.rev = caller[c].rev, cfg.token = caller[c].token,
           StartWrite(c, [cfg EXCEPT !.token = caller[c].got]), Goto(c, "writing"),
           UNCHANGED <<provider, cfg, disk, refreshes, login, intact>>
    PROVE  TokenInv'
  <1> USE DEF provider
  <1> DEFINE s == [caller[c] EXCEPT !.pc = "writing"]
  <1>1. /\ caller \in [Callers -> CallerRec] /\ cfg \in Config
        /\ login \in LoginRec /\ issued \in 0 .. MaxToken
        /\ lock = NoOne /\ lock' = c
    BY Typed DEF TokenInv, StartWrite
  <1>2. /\ caller[c] \in CallerRec /\ Shape(caller[c]) /\ caller[c].pc = "refreshed"
        /\ caller[c].token \in Tokens /\ caller[c].got \in Tokens
    BY <1>1 DEF TokenInv, CallersOK, Shape, At
  <1>3. /\ s \in CallerRec /\ s.pc = "writing" /\ s.rev = caller[c].rev
        /\ s.token = caller[c].token /\ s.got = caller[c].got
    <2>1. "writing" \in Places
      BY DEF Places
    <2> QED
      BY <1>2, <2>1, AtPlace
  <1>4. /\ caller' \in [Callers -> CallerRec] /\ caller'[c] = s
        /\ \A d \in Callers : d # c => caller'[d] = caller[d]
    <2>1. caller' = [caller EXCEPT ![c] = s]
      BY DEF Goto
    <2> HIDE DEF s
    <2> QED
      BY <1>1, <1>3, <2>1, OneCaller
  <1> HIDE DEF s
  <1>5. /\ cand' \in Config /\ cand'.rev = cfg.rev /\ cand'.token = caller[c].got
        /\ cand' = [cfg EXCEPT !.token = caller'[c].got]
    <2>1. cand' = [cfg EXCEPT !.token = caller[c].got]
      BY DEF StartWrite
    <2>2. /\ [cfg EXCEPT !.token = caller[c].got] \in Config
          /\ [cfg EXCEPT !.token = caller[c].got].rev = cfg.rev
          /\ [cfg EXCEPT !.token = caller[c].got].token = caller[c].got
      BY <1>1, <1>2, Replaced
    <2> QED
      BY <1>3, <1>4, <2>1, <2>2, Zenon
  <1>6. \A d \in Callers : /\ caller'[d].rev = caller[d].rev
                           /\ caller'[d].token = caller[d].token
                           /\ caller'[d].got = caller[d].got
    BY <1>3, <1>4
  <1>7. TypeOK'
    BY <1>1, <1>4, <1>5 DEF TokenInv, TypeOK, CallerRec
  <1>8. ProviderOK' /\ CopiesOK' /\ ReplacementsOK'
    BY <1>6 DEF TokenInv, ProviderOK, CopiesOK, ReplacementsOK
  <1>9. OnlyIssued'
    BY <1>5, <1>6 DEF TokenInv, OnlyIssued
  <1>10. CallersOK'
    BY <1>2, <1>3, <1>4 DEF TokenInv, CallersOK, Shape
  <1>11. LoginOK'
    BY <1>5, <1>6 DEF TokenInv, LoginOK, Unheld
  <1>12. WriterOK'
    <2>1. ASSUME NEW d \in Callers
          PROVE  caller'[d].pc = "writing" <=> lock' = d
      BY <1>1, <1>2, <1>3, <1>4 DEF TokenInv, WriterOK, At
    <2>2. /\ caller'[c].token = cfg.token
          /\ cand' = [cfg EXCEPT !.token = caller'[c].got]
      BY <1>5, <1>6
    <2>3. ASSUME NEW d \in Callers, caller'[d].pc = "writing"
          PROVE  /\ caller'[d].token = cfg'.token
                 /\ cand' = [cfg' EXCEPT !.token = caller'[d].got]
      <3>1. d = c /\ cfg' = cfg
        BY <1>1, <2>1, <2>3
      <3> QED
        BY <2>2, <3>1, Zenon
    <2> QED
      BY <1>1, <2>1, <2>3 DEF WriterOK, At
  <1>13. ReplacementIsKept'
    BY <1>2, <1>3, <1>4, <1>6 DEF TokenInv, ReplacementIsKept, At
  <1> QED
    BY <1>7, <1>8, <1>9, <1>10, <1>11, <1>12, <1>13 DEF TokenInv

-----------------------------------------------------------------------------
(* A browser login.                                                        *)

LEMMA LoginMoves ==
    ASSUME TokenInv, login' \in LoginRec, login'.phase # "granted",
           login'.token = NoToken,
           UNCHANGED <<provider, stored, refreshes, caller, intact>>
    PROVE  TokenInv'
  <1> USE DEF provider, stored
  <1>1. TypeOK'
    BY DEF TokenInv, TypeOK, LoginRec
  <1>2. ProviderOK' /\ CallersOK' /\ CopiesOK' /\ ReplacementsOK'
    BY DEF TokenInv, ProviderOK, CallersOK, CopiesOK, ReplacementsOK
  <1>3. OnlyIssued'
    <2>1. issued \in Nat
      BY Typed DEF TokenInv
    <2> QED
      BY <2>1 DEF TokenInv, OnlyIssued
  <1>4. LoginOK'
    BY DEF LoginOK
  <1>5. WriterOK' /\ ReplacementIsKept'
    BY DEF TokenInv, WriterOK, AdminWrites, Unheld, ReplacementIsKept, At
  <1> QED
    BY <1>1, <1>2, <1>3, <1>4, <1>5 DEF TokenInv

LEMMA Exchanged ==
    ASSUME TokenInv, ExchangeCode
    PROVE  TokenInv'
  <1> USE DEF stored
  <1> DEFINE new == [login EXCEPT !.phase = "granted", !.token = issued + 1]
  <1>1. /\ caller \in [Callers -> CallerRec] /\ cfg \in Config /\ cand \in Config
        /\ login \in LoginRec /\ issued \in 0 .. MaxToken /\ valid \subseteq Tokens
        /\ successor \in [Tokens -> Tokens \cup {NoToken}] /\ disk = cfg
        /\ issued \in Nat
    BY Typed DEF TokenInv
  <1>2. /\ issued + 1 \in Tokens /\ issued' = issued + 1
        /\ valid' = valid \cup {issued + 1} /\ login' = new
        /\ UNCHANGED <<successor, cfg, disk, lock, cand, refreshes, caller, intact>>
    BY <1>1 DEF ExchangeCode
  <1>3. new \in LoginRec /\ new.phase = "granted" /\ new.token = issued + 1
    BY <1>1, <1>2 DEF LoginRec
  <1> HIDE DEF new
  <1>4. ASSUME NEW x \in Int, x <= issued
        PROVE  x <= issued' /\ x # issued + 1
    BY <1>1, <1>2, <1>4
  <1>5. \A d \in Callers : /\ caller[d].token \in Int /\ caller[d].got \in Int
                           /\ caller[d].token <= issued /\ caller[d].got <= issued
    BY <1>1 DEF TokenInv, OnlyIssued, CallerRec
  <1>6. /\ cfg.token \in Int /\ cand.token \in Int
        /\ cfg.token <= issued /\ cand.token <= issued
    BY <1>1 DEF TokenInv, OnlyIssued, Config
  <1>7. TypeOK'
    BY <1>1, <1>2, <1>3 DEF TokenInv, TypeOK, LoginRec
  <1>8. ProviderOK'
    BY <1>1, <1>2 DEF TokenInv, ProviderOK
  <1>9. OnlyIssued'
    BY <1>1, <1>2, <1>3, <1>4, <1>5, <1>6 DEF OnlyIssued
  <1>10. CallersOK' /\ CopiesOK' /\ ReplacementsOK'
    BY <1>2 DEF TokenInv, CallersOK, CopiesOK, ReplacementsOK
  <1>11. LoginOK'
    BY <1>2, <1>3, <1>4, <1>5, <1>6 DEF LoginOK, Unheld
  <1>12. WriterOK'
    BY <1>2 DEF TokenInv, WriterOK, AdminWrites, Unheld, At
  <1>13. ReplacementIsKept'
    BY <1>2 DEF TokenInv, ReplacementIsKept, At
  <1> QED
    BY <1>1, <1>2, <1>7, <1>8, <1>9, <1>10, <1>11, <1>12, <1>13 DEF TokenInv

-----------------------------------------------------------------------------
(* The end of a write, and of the process.                                 *)

\* Only a goroutine that holds configMu leaves with it.
LEMMA WriterGone ==
    ASSUME TokenInv, lock # NoOne, WriterLeaves, lock' = NoOne
    PROVE  /\ caller' \in [Callers -> CallerRec]
           /\ \A d \in Callers : caller'[d] = IF d = lock THEN Idle ELSE caller[d]
           /\ \A d \in Callers : caller'[d].pc # "writing"
  <1>1. caller \in [Callers -> CallerRec] /\ Idle \in CallerRec /\ Idle.pc = "idle"
    BY Typed, IdleRec DEF TokenInv
  <1>2. /\ caller' \in [Callers -> CallerRec]
        /\ \A d \in Callers : caller'[d] = IF d = lock THEN Idle ELSE caller[d]
    BY <1>1 DEF WriterLeaves
  <1> QED
    BY <1>1, <1>2 DEF TokenInv, WriterOK, At

\* What holds of the goroutines whatever becomes of the configuration.
LEMMA WriterGoneOK ==
    ASSUME TokenInv, lock # NoOne, WriterLeaves, lock' = NoOne,
           cfg' \in Config, cand' \in Config, disk' = cfg', intact' \in BOOLEAN,
           cfg'.token <= issued, cand'.token <= issued,
           UNCHANGED <<provider, refreshes, login>>,
           login.phase = "granted" =>
               cfg'.token # login.token /\ cand'.token # login.token
    PROVE  /\ TypeOK' /\ ProviderOK' /\ OnlyIssued' /\ CallersOK' /\ LoginOK' /\ WriterOK'
  <1> USE DEF provider
  <1>1. /\ caller' \in [Callers -> CallerRec]
        /\ \A d \in Callers : caller'[d] = IF d = lock THEN Idle ELSE caller[d]
        /\ \A d \in Callers : caller'[d].pc # "writing"
    BY WriterGone
  <1>2. issued \in Nat
    BY Typed DEF TokenInv
  <1>3. TypeOK'
    BY <1>1 DEF TokenInv, TypeOK, CallerRec
  <1>4. ProviderOK'
    BY DEF TokenInv, ProviderOK
  <1>5. OnlyIssued'
    BY <1>1, <1>2, IdleRec DEF TokenInv, OnlyIssued
  <1>6. CallersOK'
    BY <1>1, IdleRec DEF TokenInv, CallersOK
  <1>7. LoginOK'
    BY <1>1, IdleRec DEF TokenInv, LoginOK, Unheld
  <1>8. WriterOK'
    BY <1>1 DEF WriterOK, At
  <1> QED
    BY <1>3, <1>4, <1>5, <1>6, <1>7, <1>8

LEMMA Written ==
    ASSUME TokenInv, WriteSucceeds
    PROVE  TokenInv'
  <1> USE DEF provider
  <1>1. /\ lock # NoOne /\ WriterLeaves /\ lock' = NoOne
        /\ cfg' = cand /\ disk' = cand /\ cand' = cand
        /\ UNCHANGED <<issued, valid, successor, refreshes, login, intact>>
    BY DEF WriteSucceeds
  <1>2. /\ cfg \in Config /\ cand \in Config /\ lock \in Callers \cup {Admin, NoOne}
        /\ intact \in BOOLEAN /\ caller \in [Callers -> CallerRec] /\ valid \subseteq Tokens
    BY Typed DEF TokenInv
  <1>3. /\ caller' \in [Callers -> CallerRec]
        /\ \A d \in Callers : caller'[d] = IF d = lock THEN Idle ELSE caller[d]
        /\ \A d \in Callers : caller'[d].pc # "writing"
    BY <1>1, WriterGone
  <1>4. /\ TypeOK' /\ ProviderOK' /\ OnlyIssued' /\ CallersOK' /\ LoginOK' /\ WriterOK'
    BY <1>1, <1>2, WriterGoneOK DEF TokenInv, OnlyIssued, LoginOK
  <1>5. CASE cand = cfg /\ lock = Admin
    <2>1. \A d \in Callers : caller'[d] = caller[d]
      BY <1>3, <1>5
    <2>2. CopiesOK' /\ ReplacementsOK' /\ ReplacementIsKept'
      BY <1>1, <1>5, <2>1 DEF TokenInv, CopiesOK, ReplacementsOK, ReplacementIsKept, At
    <2> QED
      BY <1>1, <1>4, <2>2 DEF TokenInv
  <1>6. CASE cand # cfg /\ lock = Admin
    <2>1. cand.token # NoToken => cand.token \in valid /\ Unheld(cand.token)
      BY <1>6 DEF TokenInv, WriterOK, AdminWrites
    <2>2. \A d \in Callers : caller'[d] = caller[d]
      BY <1>3, <1>6
    <2>3. CopiesOK'
      BY <1>1, <2>1, <2>2 DEF CopiesOK, Unheld
    <2>4. ReplacementsOK'
      BY <1>1, <1>2, <2>1, <2>2 DEF TokenInv, CallersOK, Shape, Idle, ReplacementsOK, Unheld
    <2>5. ReplacementIsKept'
      BY <1>1, <2>1 DEF ReplacementIsKept
    <2> QED
      BY <1>1, <1>4, <2>3, <2>4, <2>5 DEF TokenInv
  <1>7. CASE lock \in Callers
    <2>1. /\ caller[lock].pc = "writing" /\ caller[lock].token = cfg.token
          /\ cand = [cfg EXCEPT !.token = caller[lock].got]
      BY <1>7 DEF TokenInv, WriterOK, At
    <2>2. /\ caller[lock].got \in Tokens /\ caller[lock].token \in Tokens
      BY <1>7, <2>1 DEF TokenInv, CallersOK, Shape
    <2>3. cand.rev = cfg.rev /\ cand.token = caller[lock].got
      BY <1>2, <2>1, <2>2, Replaced
    <2>4. CASE cand.token = cfg.token
      <3>1. CopiesOK'
        BY <1>1, <1>3, <2>3, <2>4, IdleRec DEF TokenInv, CopiesOK
      <3>2. ReplacementsOK'
        BY <1>1, <1>3, <2>3, <2>4, IdleRec DEF TokenInv, ReplacementsOK
      <3>3. ReplacementIsKept'
        <4> SUFFICES ASSUME intact, cfg.token \notin valid
                     PROVE  \E d \in Callers :
                                /\ caller'[d].pc \in {"answered", "refreshed", "writing"}
                                /\ caller'[d].rev = cfg.rev
                                /\ caller'[d].token = cfg.token
                                /\ caller'[d].got = successor[cfg.token]
          BY <1>1, <2>3, <2>4 DEF ReplacementIsKept, At
        <4>1. PICK d \in Callers : /\ caller[d].pc \in {"answered", "refreshed", "writing"}
                                   /\ caller[d].rev = cfg.rev
                                   /\ caller[d].token = cfg.token
                                   /\ caller[d].got = successor[cfg.token]
          BY <2>1, <2>2 DEF TokenInv, ReplacementIsKept, At
        <4>2. successor[cfg.token] # cfg.token
          BY <2>1, <2>2 DEF TokenInv, ProviderOK, OnlyIssued
        <4>3. d # lock
          BY <2>3, <2>4, <4>1, <4>2
        <4> QED
          BY <1>3, <4>1, <4>3
      <3> QED
        BY <1>1, <1>4, <3>1, <3>2, <3>3 DEF TokenInv
    <2>5. CASE cand.token # cfg.token
      <3>1. /\ cand.token \in valid /\ cand.token = successor[cfg.token]
            /\ \A d \in Callers : caller[d].token # cand.token
        BY <1>7, <2>1, <2>2, <2>3, <2>5 DEF TokenInv, ReplacementsOK
      <3>2. \A d \in Callers : caller'[d].token # cand.token
        BY <1>3, <2>2, <2>3, <3>1, IdleRec
      <3>3. CopiesOK' /\ ReplacementsOK'
        BY <1>1, <3>2 DEF CopiesOK, ReplacementsOK
      <3>4. ReplacementIsKept'
        BY <1>1, <3>1 DEF ReplacementIsKept
      <3> QED
        BY <1>1, <1>4, <3>3, <3>4 DEF TokenInv
    <2> QED
      BY <2>4, <2>5
  <1> QED
    BY <1>1, <1>2, <1>5, <1>6, <1>7

LEMMA NotWritten ==
    ASSUME TokenInv, WriteFails
    PROVE  TokenInv'
  <1> USE DEF provider
  <1>1. /\ lock # NoOne /\ WriterLeaves /\ lock' = NoOne /\ cand' = cfg
        /\ intact' = (intact /\ lock \notin Callers)
        /\ UNCHANGED <<issued, valid, successor, cfg, disk, refreshes, login>>
    BY DEF WriteFails
  <1>2. cfg \in Config /\ intact \in BOOLEAN
    BY Typed DEF TokenInv
  <1>3. /\ caller' \in [Callers -> CallerRec]
        /\ \A d \in Callers : caller'[d] = IF d = lock THEN Idle ELSE caller[d]
    BY <1>1, WriterGone
  <1>4. /\ TypeOK' /\ ProviderOK' /\ OnlyIssued' /\ CallersOK' /\ LoginOK' /\ WriterOK'
    <2>1. intact' \in BOOLEAN
      BY <1>1, <1>2, Zenon
    <2> QED
      BY <1>1, <1>2, <2>1, WriterGoneOK DEF TokenInv, OnlyIssued, LoginOK
  <1>5. CopiesOK' /\ ReplacementsOK'
    BY <1>1, <1>3, IdleRec DEF TokenInv, CopiesOK, ReplacementsOK
  <1>6. ReplacementIsKept'
    <2>1. CASE lock \in Callers
      BY <1>1, <2>1 DEF ReplacementIsKept
    <2>2. CASE lock \notin Callers
      <3>1. \A d \in Callers : caller'[d] = caller[d]
        BY <1>3, <2>2
      <3> QED
        BY <1>1, <3>1 DEF TokenInv, ReplacementIsKept, At
    <2> QED
      BY <2>1, <2>2
  <1> QED
    BY <1>1, <1>4, <1>5, <1>6 DEF TokenInv

LEMMA Crashed ==
    ASSUME TokenInv, Crash
    PROVE  TokenInv'
  <1> USE DEF provider
  <1>1. /\ cfg' = cfg /\ disk' = cfg /\ cand' = cfg /\ lock' = NoOne /\ refreshes' = {}
        /\ caller' = [c \in Callers |-> Idle] /\ login' = Logged /\ intact' = FALSE
        /\ UNCHANGED <<issued, valid, successor>>
    BY DEF Crash, TokenInv
  <1>2. cfg \in Config /\ issued \in Nat
    BY Typed DEF TokenInv
  <1>3. /\ caller' \in [Callers -> CallerRec]
        /\ \A d \in Callers : caller'[d] = Idle
    BY <1>1, IdleRec
  <1>4. TypeOK'
    BY <1>1, <1>2, <1>3, LoggedRec DEF TokenInv, TypeOK, CallerRec, LoginRec
  <1>5. ProviderOK'
    BY <1>1 DEF TokenInv, ProviderOK
  <1>6. OnlyIssued' /\ LoginOK'
    BY <1>1, <1>2, <1>3, IdleRec, LoggedRec DEF TokenInv, OnlyIssued, LoginOK
  <1>7. CallersOK' /\ CopiesOK' /\ ReplacementsOK'
    BY <1>3, IdleRec DEF CallersOK, CopiesOK, ReplacementsOK
  <1>8. WriterOK' /\ ReplacementIsKept'
    BY <1>1, <1>3, IdleRec DEF WriterOK, ReplacementIsKept, At
  <1> QED
    BY <1>1, <1>4, <1>5, <1>6, <1>7, <1>8 DEF TokenInv

-----------------------------------------------------------------------------
(* The steps of a goroutine.                                               *)

\* One goroutine moves, everything else but the calls in flight stays.
LEMMA CallerMoves ==
    ASSUME TokenInv, NEW c \in Callers, NEW r \in CallerRec, Moves(r, caller[c]),
           caller' = [caller EXCEPT ![c] = r], refreshes' \subseteq Tokens,
           UNCHANGED <<provider, stored, login, intact>>
    PROVE  TokenInv'
  <1>1. caller \in [Callers -> CallerRec]
    BY Typed DEF TokenInv
  <1>2. /\ caller' \in [Callers -> CallerRec] /\ caller'[c] = r
        /\ \A d \in Callers : d # c => caller'[d] = caller[d]
    BY <1>1, OneCaller
  <1>3. \A d \in Callers : caller'[d] = caller[d] \/ Moves(caller'[d], caller[d])
    BY <1>2
  <1> QED
    BY <1>2, <1>3, CallersMove

\* A goroutine that brings no replacement of the stored token may leave.
LEMMA Leaves ==
    ASSUME TokenInv, NEW c \in Callers, Leave(c), ~At(c, {"writing"}),
           At(c, {"answered", "refreshed"}) =>
               caller[c].token # cfg.token \/ caller[c].rev # cfg.rev,
           refreshes' \subseteq Tokens, UNCHANGED <<provider, stored, login, intact>>
    PROVE  TokenInv'
  <1>1. Moves(Idle, caller[c])
    BY IdleRec DEF Moves, At
  <1> QED
    BY <1>1, IdleRec, CallerMoves DEF Leave

LEMMA CallerSteps ==
    ASSUME TokenInv, NEW c \in Callers,
           \/ Take(c) \/ Fresh(c) \/ Refresh(c) \/ StopFollowing(c)
           \/ Submit(c) \/ Complete(c) \/ Persist(c)
    PROVE  TokenInv'
  <1>1. /\ caller \in [Callers -> CallerRec] /\ cfg \in Config /\ refreshes \subseteq Tokens
        /\ caller[c] \in CallerRec /\ Shape(caller[c])
    BY Typed DEF TokenInv, CallersOK
  <1>2. CASE Take(c)
    <2> DEFINE r == [Idle EXCEPT !.pc = "holding", !.rev = cfg.rev, !.token = cfg.token]
    <2>1. caller[c].pc = "idle" /\ cfg.token \in Tokens
      BY <1>1, <1>2 DEF Take, At, Config
    <2>2. /\ r \in CallerRec /\ r.pc = "holding" /\ r.rev = cfg.rev
          /\ r.token = cfg.token /\ r.got = NoToken
      BY <1>1, <2>1 DEF Idle, CallerRec, Places, Config
    <2>3. caller' = [caller EXCEPT ![c] = r]
      BY <1>2 DEF Take
    <2> HIDE DEF r
    <2>4. Moves(r, caller[c])
      BY <1>1, <2>1, <2>2 DEF Moves, Shape
    <2> QED
      BY <1>1, <1>2, <2>2, <2>3, <2>4, CallerMoves DEF Take
  <1>3. CASE Fresh(c)
    BY <1>1, <1>3, Leaves DEF Fresh, At
  <1>4. CASE Refresh(c)
    <2> DEFINE place == IF caller[c].token \in refreshes THEN "following" ELSE "submitting"
               r == [caller[c] EXCEPT !.pc = place]
    <2>1. /\ caller[c].pc = "holding" /\ caller[c].token \in Tokens
          /\ caller[c].got = NoToken
      BY <1>1, <1>4 DEF Refresh, At, Shape
    <2>2. /\ r \in CallerRec /\ r.pc = place /\ r.rev = caller[c].rev
          /\ r.token = caller[c].token /\ r.got = caller[c].got
      <3>1. place \in Places
        BY DEF Places
      <3> HIDE DEF place
      <3> QED
        BY <1>1, <3>1, AtPlace
    <2>3. caller' = [caller EXCEPT ![c] = r]
      BY <1>4 DEF Refresh, Goto
    <2> HIDE DEF r
    <2>4. Moves(r, caller[c])
      BY <1>1, <2>1, <2>2 DEF Moves, Shape
    <2>5. refreshes' \subseteq Tokens
      BY <1>1, <1>4, <2>1 DEF Refresh
    <2> QED
      BY <1>4, <2>2, <2>3, <2>4, <2>5, CallerMoves DEF Refresh
  <1>5. CASE StopFollowing(c)
    BY <1>1, <1>5, Leaves DEF StopFollowing, At
  <1>6. CASE Submit(c)
    <2>1. /\ caller[c].pc = "submitting" /\ caller[c].token \in Tokens
          /\ At(c, {"submitting"}) /\ UNCHANGED <<stored, refreshes, login>>
      BY <1>1, <1>6 DEF Submit, At, Shape
    <2>2. CASE Rotate(caller[c].token) /\ Answer(c, issued + 1) /\ UNCHANGED intact
      <3>1. issued + 1 # Failed
        BY Typed DEF TokenInv
      <3> QED
        BY <2>1, <2>2, <3>1, Rotated
    <2>3. CASE Rotate(caller[c].token) /\ Answer(c, Failed) /\ intact' = FALSE
      BY <2>1, <2>3, Rotated
    <2>4. ASSUME NEW got \in {caller[c].token, Denied, Failed}, Answer(c, got),
                 UNCHANGED <<provider, intact>>
          PROVE  TokenInv'
      <3> DEFINE r == [caller[c] EXCEPT !.pc = "answered", !.got = got]
      <3>1. /\ r \in CallerRec /\ r.pc = "answered" /\ r.rev = caller[c].rev
            /\ r.token = caller[c].token /\ r.got = got
        <4>1. "answered" \in Places /\ got \in Tokens \cup {NoToken, Denied, Failed}
          BY <2>1 DEF Places
        <4> QED
          BY <1>1, <4>1 DEF CallerRec
      <3>2. caller' = [caller EXCEPT ![c] = r]
        BY <2>4 DEF Answer
      <3> HIDE DEF r
      <3>3. Moves(r, caller[c])
        BY <2>1, <3>1 DEF Moves, Shape
      <3> QED
        BY <1>1, <2>1, <2>4, <3>1, <3>2, <3>3, CallerMoves
    <2> QED
      BY <1>6, <2>2, <2>3, <2>4 DEF Submit
  <1>7. CASE Complete(c)
    <2> DEFINE token == caller[c].token
               got == caller[c].got
               shares(d) == d = c \/ (At(d, {"following"}) /\ caller[d].token = token)
    <2>1. /\ caller[c].pc = "answered" /\ refreshes' = refreshes \ {token}
          /\ caller' = [d \in Callers |-> IF shares(d) THEN Resume(caller[d], got)
                                          ELSE caller[d]]
          /\ UNCHANGED <<provider, stored, login, intact>>
      BY <1>7 DEF Complete, At
    <2>2. ASSUME NEW d \in Callers, shares(d)
          PROVE  /\ Resume(caller[d], got) \in CallerRec
                 /\ Moves(Resume(caller[d], got), caller[d])
      <3>1. /\ caller[d] \in CallerRec /\ caller[d].pc \in {"answered", "following"}
            /\ caller[d].token = token /\ token \in Tokens
            /\ caller[d].pc = "answered" => d = c
        BY <1>1, <2>1, <2>2 DEF At, Shape
      <3>2. CASE got \in Tokens
        <4> DEFINE r == [caller[d] EXCEPT !.pc = "refreshed", !.got = got]
        <4>1. Resume(caller[d], got) = r
          BY <3>2 DEF Resume
        <4>2. /\ r \in CallerRec /\ r.pc = "refreshed" /\ r.rev = caller[d].rev
              /\ r.token = token /\ r.got = got
          BY <3>1, <3>2 DEF CallerRec, Places
        <4> HIDE DEF r
        <4>3. Moves(r, caller[d])
          BY <3>1, <3>2, <4>2 DEF Moves, Shape
        <4> QED
          BY <4>1, <4>2, <4>3
      <3>3. CASE got \notin Tokens
        <4>1. Resume(caller[d], got) = Idle
          BY <3>3 DEF Resume
        <4>2. Moves(Idle, caller[d])
          BY <3>1, <3>3, IdleRec DEF Moves
        <4> QED
          BY <4>1, <4>2, IdleRec
      <3> QED
        BY <3>2, <3>3
    <2> HIDE DEF token, got
    <2>3. /\ caller' \in [Callers -> CallerRec]
          /\ \A d \in Callers : caller'[d] = caller[d] \/ Moves(caller'[d], caller[d])
      BY <1>1, <2>1, <2>2
    <2> QED
      BY <1>1, <2>1, <2>3, CallersMove
  <1>8. CASE Persist(c)
    <2>1. CASE cfg.rev # caller[c].rev \/ cfg.token # caller[c].token
      BY <1>1, <1>8, <2>1, Leaves DEF Persist, At, stored
    <2>2. CASE cfg.rev = caller[c].rev /\ cfg.token = caller[c].token
      BY <1>8, <2>2, PersistWrites DEF Persist
    <2> QED
      BY <2>1, <2>2
  <1> QED
    BY <1>2, <1>3, <1>4, <1>5, <1>6, <1>7, <1>8

-----------------------------------------------------------------------------
(* The invariant.                                                          *)

LEMMA InitOK == Init => TokenInv
  <1> SUFFICES ASSUME Init PROVE TokenInv
    OBVIOUS
  <1>1. /\ issued = 1 /\ valid = {1} /\ successor = [t \in Tokens |-> NoToken]
        /\ cfg = [rev |-> 1, token |-> 1] /\ disk = cfg /\ cand = cfg
        /\ lock = NoOne /\ refreshes = {} /\ login = Logged /\ intact = TRUE
        /\ 1 \in Tokens /\ cfg.token = 1 /\ cand.token = 1
    BY DEF Init
  <1>2. /\ caller \in [Callers -> CallerRec] /\ \A c \in Callers : caller[c] = Idle
    BY IdleRec DEF Init
  <1>3. TypeOK
    BY <1>1, <1>2, LoggedRec DEF TypeOK, CallerRec, LoginRec, Config
  <1>4. ProviderOK
    BY <1>1 DEF ProviderOK
  <1>5. OnlyIssued /\ LoginOK
    BY <1>1, <1>2, IdleRec, LoggedRec DEF OnlyIssued, LoginOK
  <1>6. CallersOK /\ CopiesOK /\ ReplacementsOK
    BY <1>2, IdleRec DEF CallersOK, CopiesOK, ReplacementsOK
  <1>7. WriterOK /\ ReplacementIsKept
    BY <1>1, <1>2, IdleRec DEF WriterOK, ReplacementIsKept, At
  <1> QED
    BY <1>1, <1>3, <1>4, <1>5, <1>6, <1>7 DEF TokenInv

LEMMA AdminSteps ==
    ASSUME TokenInv,
           \/ Save \/ Logout \/ StartLogin \/ ExchangeCode \/ FinishLogin \/ DropLogin
    PROVE  TokenInv'
  <1>1. cfg \in Config /\ login \in LoginRec /\ cfg.rev \in Nat \ {0}
    BY Typed DEF TokenInv, Config
  <1>2. CASE Save
    BY <1>1, <1>2, AdminStarts DEF Save, TokenInv, LoginOK
  <1>3. CASE Logout
    <2> DEFINE new == [rev |-> cfg.rev + 1, token |-> NoToken]
    <2>1. new \in Config /\ new.rev > cfg.rev /\ new.token = NoToken
      BY <1>1 DEF Config
    <2>2. /\ StartWrite(Admin, new)
          /\ UNCHANGED <<provider, cfg, disk, refreshes, caller, login, intact>>
      BY <1>3 DEF Logout
    <2> HIDE DEF new
    <2> QED
      BY <1>1, <2>1, <2>2, AdminStarts DEF TokenInv, LoginOK
  <1>4. CASE StartLogin
    <2>1. login' \in LoginRec /\ login'.phase = "pending" /\ login'.token = NoToken
      BY <1>1, <1>4 DEF StartLogin, LoginRec
    <2> QED
      BY <1>4, <2>1, LoginMoves DEF StartLogin
  <1>5. CASE ExchangeCode
    BY <1>5, Exchanged
  <1>6. CASE FinishLogin
    <2>1. CASE cfg.rev = login.rev
      <3> DEFINE new == [rev |-> cfg.rev + 1, token |-> login.token]
      <3>1. /\ login.token \in valid /\ login.token \in Tokens
            /\ login.token # cfg.token /\ Unheld(login.token)
        BY <1>6 DEF FinishLogin, TokenInv, LoginOK
      <3>2. new \in Config /\ new.rev > cfg.rev /\ new.token = login.token
        BY <1>1, <3>1 DEF Config
      <3>3. /\ StartWrite(Admin, new) /\ login' = Logged
            /\ UNCHANGED <<provider, cfg, disk, refreshes, caller, intact>>
        BY <1>6, <2>1 DEF FinishLogin
      <3> HIDE DEF new
      <3> QED
        BY <3>1, <3>2, <3>3, AdminStarts
    <2>2. CASE cfg.rev # login.rev
      BY <1>6, <2>2, LoggedRec, LoginMoves DEF FinishLogin, stored
    <2> QED
      BY <2>1, <2>2
  <1>7. CASE DropLogin
    BY <1>7, LoggedRec, LoginMoves DEF DropLogin
  <1> QED
    BY <1>2, <1>3, <1>4, <1>5, <1>6, <1>7

LEMMA NextOK == TokenInv /\ [Next]_vars => TokenInv'
  <1> SUFFICES ASSUME TokenInv, [Next]_vars PROVE TokenInv'
    OBVIOUS
  <1>1. ASSUME UNCHANGED vars PROVE TokenInv'
    <2>1. /\ UNCHANGED <<provider, stored, login, intact, caller>> /\ refreshes' = refreshes
      BY <1>1 DEF vars, provider, stored
    <2> QED
      BY <2>1, Typed, CallersMove DEF TokenInv
  <1>2. ASSUME NEW c \in Callers,
               \/ Take(c) \/ Fresh(c) \/ Refresh(c) \/ StopFollowing(c)
               \/ Submit(c) \/ Complete(c) \/ Persist(c)
        PROVE  TokenInv'
    BY <1>2, CallerSteps
  <1>3. ASSUME \/ Save \/ Logout \/ StartLogin \/ ExchangeCode \/ FinishLogin \/ DropLogin
        PROVE  TokenInv'
    BY <1>3, AdminSteps
  <1>4. ASSUME WriteSucceeds \/ WriteFails \/ Crash PROVE TokenInv'
    BY <1>4, Written, NotWritten, Crashed
  <1> QED
    BY <1>1, <1>2, <1>3, <1>4 DEF Next

LEMMA Invariance == Spec => []TokenInv
  <1> QED
    BY InitOK, NextOK, PTL DEF Spec

\* The types of the provider, the account, the file and the goroutines.
THEOREM TypeCorrect == Spec => []TypeOK
  <1>1. TokenInv => TypeOK
    BY DEF TokenInv
  <1> QED
    BY <1>1, Invariance, PTL

\* A replacement of the stored token is on its way to the disk as long as no
\* reply, write or process was lost, however refreshes, saves, logout and login
\* interleave (refreshTokens, persistCodexCredentials).
THEOREM ReplacementIsNotDropped == Spec => []ReplacementIsKept
  <1>1. TokenInv => ReplacementIsKept
    BY DEF TokenInv
  <1> QED
    BY <1>1, Invariance, PTL

\* The stored token moves only to its own replacement or with the revision: a
\* late writer never restores a token that was replaced, and never touches the
\* next login's (persistCodexCredentials).
THEOREM StoredTokenMovesForward == Spec => TokensMoveForward
  <1>1. TokenInv /\ [Next]_vars =>
            [~Crash /\ cfg'.token # cfg.token =>
                \/ cfg'.rev > cfg.rev
                \/ cfg.token \in Tokens /\ successor[cfg.token] = cfg'.token]_vars
    <2> SUFFICES ASSUME TokenInv, [Next]_vars, ~Crash, cfg'.token # cfg.token
                 PROVE  \/ cfg'.rev > cfg.rev
                        \/ cfg.token \in Tokens /\ successor[cfg.token] = cfg'.token
      OBVIOUS
    <2>1. WriteSucceeds
      BY DEF Next, vars, stored, Take, Fresh, Refresh, StopFollowing, Submit, Complete,
             Persist, Save, Logout, StartLogin, ExchangeCode, FinishLogin, DropLogin,
             WriteFails
    <2>2. /\ cfg' = cand /\ lock # NoOne /\ cfg \in Config
          /\ lock \in Callers \cup {Admin, NoOne}
      BY <2>1, Typed DEF WriteSucceeds, TokenInv
    <2>3. CASE lock = Admin
      BY <2>2, <2>3 DEF TokenInv, WriterOK, AdminWrites
    <2>4. CASE lock \in Callers
      <3>1. /\ caller[lock].pc = "writing" /\ caller[lock].token = cfg.token
            /\ cand = [cfg EXCEPT !.token = caller[lock].got]
        BY <2>4 DEF TokenInv, WriterOK, At
      <3>2. caller[lock].got \in Tokens /\ caller[lock].token \in Tokens
        BY <2>4, <3>1 DEF TokenInv, CallersOK, Shape
      <3>3. cand.token = caller[lock].got
        BY <2>2, <3>1, <3>2, Replaced
      <3> QED
        BY <2>2, <2>4, <3>1, <3>2, <3>3 DEF TokenInv, ReplacementsOK
    <2> QED
      BY <2>2, <2>3, <2>4
  <1> QED
    BY <1>1, Invariance, PTL DEF Spec, TokensMoveForward

-----------------------------------------------------------------------------
(* Calls in flight.                                                        *)

Leads(c) == At(c, {"submitting", "answered"})

\* Each entry of refreshes has one goroutine that leads the call, and whoever
\* follows one follows an entry.
CallsOK ==
    /\ \A t \in refreshes : \E c \in Callers : Leads(c) /\ caller[c].token = t
    /\ \A c \in Callers :
          Leads(c) \/ At(c, {"following"}) => caller[c].token \in refreshes
    /\ \A c, d \in Callers :
          Leads(c) /\ Leads(d) /\ caller[c].token = caller[d].token => c = d

\* What refreshTokens promises its callers: at no time do two goroutines submit
\* the same token, and nobody waits for a call that has no leader.
CoalescedCalls ==
    /\ \A c, d \in Callers :
          /\ At(c, {"submitting"}) /\ At(d, {"submitting"})
          /\ caller[c].token = caller[d].token
          => c = d
    /\ \A c \in Callers : At(c, {"following"}) =>
          \E d \in Callers : Leads(d) /\ caller[d].token = caller[c].token

\* Leaders stay what they are and nobody begins to follow.
LEMMA LeadersStay ==
    ASSUME CallsOK, UNCHANGED refreshes,
           \A d \in Callers :
               /\ Leads(d)' <=> Leads(d)
               /\ At(d, {"following"})' => At(d, {"following"})
               /\ Leads(d) \/ At(d, {"following"})' => caller'[d].token = caller[d].token
    PROVE  CallsOK'
  BY DEF CallsOK

\* One goroutine moves, neither from nor to the lead of a call.
LEMMA OneStays ==
    ASSUME TokenInv, CallsOK, UNCHANGED refreshes, NEW c \in Callers, NEW r \in CallerRec,
           caller' = [caller EXCEPT ![c] = r],
           r.pc # "following",
           \/ r.pc \notin {"submitting", "answered"} /\ ~Leads(c)
           \/ r.pc \in {"submitting", "answered"} /\ Leads(c) /\ r.token = caller[c].token
    PROVE  CallsOK'
  <1>1. /\ caller' \in [Callers -> CallerRec] /\ caller'[c] = r
        /\ \A d \in Callers : d # c => caller'[d] = caller[d]
    BY Typed, OneCaller DEF TokenInv
  <1> QED
    BY <1>1, LeadersStay DEF Leads, At

LEMMA CallsInit == Init => CallsOK
  BY IdleRec DEF Init, CallsOK, Leads, At

LEMMA CallsNext ==
    ASSUME TokenInv, CallsOK, [Next]_vars
    PROVE  CallsOK'
  <1>1. /\ caller \in [Callers -> CallerRec]
        /\ \A c \in Callers : caller[c] \in CallerRec
        /\ lock \in Callers \cup {Admin, NoOne} /\ cfg \in Config
    BY Typed DEF TokenInv
  <1>2. CASE UNCHANGED <<caller, refreshes>>
    BY <1>2 DEF CallsOK, Leads, At
  <1>3. ASSUME NEW c \in Callers, Take(c) PROVE CallsOK'
    <2> DEFINE r == [Idle EXCEPT !.pc = "holding", !.rev = cfg.rev, !.token = cfg.token]
    <2>1. r \in CallerRec /\ r.pc = "holding"
      BY <1>1 DEF Idle, CallerRec, Places, Config
    <2>2. caller' = [caller EXCEPT ![c] = r] /\ refreshes' = refreshes /\ ~Leads(c)
      BY <1>3 DEF Take, Leads, At
    <2> HIDE DEF r
    <2> QED
      BY <2>1, <2>2, OneStays
  <1>4. ASSUME NEW c \in Callers, Leave(c), ~Leads(c), refreshes' = refreshes
        PROVE  CallsOK'
    BY <1>4, IdleRec, OneStays DEF Leave
  <1>5. ASSUME NEW c \in Callers, Refresh(c) PROVE CallsOK'
    <2> DEFINE place == IF caller[c].token \in refreshes THEN "following" ELSE "submitting"
               r == [caller[c] EXCEPT !.pc = place]
    <2>1. r \in CallerRec /\ r.pc = place /\ r.token = caller[c].token
      <3>1. place \in Places
        BY DEF Places
      <3> HIDE DEF place
      <3> QED
        BY <1>1, <3>1, AtPlace
    <2>2. /\ caller' = [caller EXCEPT ![c] = r] /\ caller[c].pc = "holding"
          /\ refreshes' = refreshes \cup {caller[c].token}
      BY <1>5 DEF Refresh, Goto, At
    <2> HIDE DEF r
    <2>3. /\ caller'[c] = r
          /\ \A d \in Callers : d # c => caller'[d] = caller[d]
      BY <1>1, <2>1, <2>2, OneCaller
    <2>4. CASE caller[c].token \in refreshes
      BY <2>1, <2>2, <2>3, <2>4 DEF CallsOK, Leads, At
    <2>5. CASE caller[c].token \notin refreshes
      <3>1. /\ caller'[c].pc = "submitting" /\ caller'[c].token = caller[c].token
            /\ \A d \in Callers : Leads(d) => caller[d].token # caller[c].token
        BY <2>1, <2>3, <2>5 DEF CallsOK
      <3> QED
        BY <2>2, <2>3, <3>1 DEF CallsOK, Leads, At
    <2> QED
      BY <2>4, <2>5
  <1>6. ASSUME NEW c \in Callers, Submit(c) PROVE CallsOK'
    <2>1. At(c, {"submitting"}) /\ caller[c].token \in Tokens /\ refreshes' = refreshes
      BY <1>6 DEF Submit, TokenInv, CallersOK, Shape, At
    <2>2. PICK got \in {issued + 1, Failed, caller[c].token, Denied} : Answer(c, got)
      BY <1>6 DEF Submit
    <2> DEFINE r == [caller[c] EXCEPT !.pc = "answered", !.got = got]
    <2>3. /\ r.pc = "answered" /\ r.token = caller[c].token
          /\ \A d \in Callers : caller'[d] = IF d = c THEN r ELSE caller[d]
      BY <1>1, <2>2 DEF Answer, CallerRec
    <2> HIDE DEF r
    <2> QED
      BY <2>1, <2>3, LeadersStay DEF Leads, At
  <1>7. ASSUME NEW c \in Callers, Complete(c) PROVE CallsOK'
    <2> DEFINE token == caller[c].token
               shares(d) == d = c \/ (At(d, {"following"}) /\ caller[d].token = token)
    <2>1. /\ caller[c].pc = "answered" /\ refreshes' = refreshes \ {token}
          /\ \A d \in Callers : caller'[d] = IF shares(d) THEN Resume(caller[d], caller[c].got)
                                             ELSE caller[d]
      BY <1>7 DEF Complete, At
    <2>2. ASSUME NEW d \in Callers
          PROVE  Resume(caller[d], caller[c].got).pc \in {"refreshed", "idle"}
      BY <1>1, IdleRec DEF Resume, CallerRec
    <2>3. ASSUME NEW d \in Callers, Leads(d)' \/ At(d, {"following"})'
          PROVE  /\ caller'[d] = caller[d] /\ caller[d].token # token
                 /\ Leads(d) \/ At(d, {"following"})
      BY <2>1, <2>2, <2>3 DEF CallsOK, Leads, At
    <2>4. ASSUME NEW t \in refreshes'
          PROVE  \E d \in Callers : Leads(d)' /\ caller'[d].token = t
      <3>1. PICK d \in Callers : Leads(d) /\ caller[d].token = t
        BY <2>1, <2>4 DEF CallsOK
      <3>2. ~shares(d)
        BY <2>1, <3>1 DEF Leads, At
      <3> QED
        BY <2>1, <3>1, <3>2 DEF Leads, At
    <2>5. \A d \in Callers : Leads(d)' => Leads(d)
      BY <2>1, <2>2 DEF Leads, At
    <2> HIDE DEF token, shares
    <2> QED
      BY <2>1, <2>3, <2>4, <2>5 DEF CallsOK
  <1>8. ASSUME NEW c \in Callers, Persist(c) PROVE CallsOK'
    <2>1. refreshes' = refreshes /\ caller[c].pc = "refreshed" /\ (Leave(c) \/ Goto(c, "writing"))
      BY <1>8 DEF Persist, At
    <2>2. CASE Leave(c)
      BY <1>4, <2>1, <2>2 DEF Leads, At
    <2>3. CASE Goto(c, "writing")
      <3> DEFINE r == [caller[c] EXCEPT !.pc = "writing"]
      <3>1. r \in CallerRec /\ r.pc = "writing"
        <4>1. "writing" \in Places
          BY DEF Places
        <4> QED
          BY <1>1, <4>1, AtPlace
      <3>2. caller' = [caller EXCEPT ![c] = r]
        BY <2>3 DEF Goto
      <3> HIDE DEF r
      <3> QED
        BY <2>1, <3>1, <3>2, OneStays DEF Leads, At
    <2> QED
      BY <2>1, <2>2, <2>3
  <1>9. CASE WriteSucceeds \/ WriteFails
    <2>1. /\ lock # NoOne /\ WriterLeaves /\ lock' = NoOne /\ refreshes' = refreshes
      BY <1>9 DEF WriteSucceeds, WriteFails
    <2>2. \A d \in Callers : caller'[d] = IF d = lock THEN Idle ELSE caller[d]
      BY <2>1, WriterGone
    <2>3. \A d \in Callers : d = lock => caller[d].pc = "writing"
      BY DEF TokenInv, WriterOK, At
    <2> QED
      BY <2>1, <2>2, <2>3, IdleRec, LeadersStay DEF Leads, At
  <1>10. CASE Crash
    BY <1>10, IdleRec DEF Crash, CallsOK, Leads, At
  <1> QED
    BY <1>2, <1>3, <1>4, <1>5, <1>6, <1>7, <1>8, <1>9, <1>10
       DEF Next, vars, Fresh, StopFollowing, Save, Logout, StartLogin, ExchangeCode,
           FinishLogin, DropLogin, Leads, At

\* Calls are coalesced while they are in flight: nobody submits a token that
\* another goroutine is submitting, and every follower has a leader that will
\* answer (refreshTokens; the safety half of FollowersAreReleased).
THEOREM CallsAreCoalesced == Spec => []CoalescedCalls
  <1>1. TokenInv /\ CallsOK /\ [Next]_vars => CallsOK'
    BY CallsNext
  <1>2. CallsOK => CoalescedCalls
    BY DEF CallsOK, CoalescedCalls, Leads, At
  <1> QED
    BY <1>1, <1>2, CallsInit, Invariance, PTL DEF Spec

=============================================================================
