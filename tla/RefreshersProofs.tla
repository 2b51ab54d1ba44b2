------------------------- MODULE RefreshersProofs -------------------------
(* Usage reports: one fetch at a time, and no outdated report is cached or    *)
(* handed out.  Balances: one refresh at a time, and no known balance is      *)
(* lost.  For every number of callers, accounts, logins, revisions and        *)
(* invalidations.                                                             *)
EXTENDS Refreshers, TLAPS

CallerRec ==
    [pc : {"idle", "ask", "wait", "fetch", "apply"},
     rev : 0..MaxRevision, cred : 0..MaxCredentials,
     asked : 0..MaxVersion, report : {None} \union Reports]

EntryRec == [cred : 0..MaxCredentials, report : Reports, fresh : BOOLEAN]

\* What the cache holds was asked for under the present version.
EntryIsCurrent == entry # None => entry.report.asked = version

\* A caller takes nothing but a report into the last critical section.
ReportInHand == \A c \in Callers : At(c, {"apply"}) => caller[c].report \in Reports

\* Nothing is installed that could not be invalidated within the bound.
RoomToInvalidate == installing => version < MaxVersion

UsageInv ==
    /\ UsageTypeOK /\ OneFetch
    /\ EntryIsCurrent /\ ReportInHand /\ RoomToInvalidate

-----------------------------------------------------------------------------
(* Records.                                                                  *)

\* The special value is nothing a caller could be, and there is a bound above zero.
LEMMA Bounds ==
    /\ MaxRevision \in Nat \ {0} /\ MaxCredentials \in Nat \ {0} /\ MaxVersion \in Nat \ {0}
    /\ 0 \in 0..MaxRevision /\ 1 \in 1..MaxRevision
    /\ 0 \in 0..MaxCredentials /\ 1 \in 1..MaxCredentials
    /\ 0 \in 0..MaxVersion
  <1>1. MaxRevision \in Nat \ {0} /\ MaxCredentials \in Nat \ {0} /\ MaxVersion \in Nat \ {0}
    BY UsageAssumption
  <1> QED
    BY <1>1

\* A caller that is given a report.
LEMMA CallerIsServed ==
    ASSUME NEW r \in CallerRec, NEW report \in {None} \union Reports
    PROVE  LET q == [r EXCEPT !.pc = "apply", !.asked = 0, !.report = report]
           IN  q \in CallerRec /\ q.pc = "apply" /\ q.report = report
  BY Bounds, Zenon DEF CallerRec

\* The same for what Wait and Lead change, and what Hit does.
LEMMA CallerGoes ==
    ASSUME NEW r \in CallerRec, NEW pc \in {"idle", "ask", "wait", "fetch", "apply"}
    PROVE  [r EXCEPT !.pc = pc] \in CallerRec /\ [r EXCEPT !.pc = pc].pc = pc
  BY Zenon DEF CallerRec

\* A caller that begins a fetch.
LEMMA CallerAsks ==
    ASSUME NEW r \in CallerRec, NEW asked \in 0..MaxVersion
    PROVE  LET q == [r EXCEPT !.pc = "fetch", !.asked = asked]
           IN  q \in CallerRec /\ q.pc = "fetch"
  BY Zenon DEF CallerRec

\* A caller that found a report.
LEMMA CallerFinds ==
    ASSUME NEW r \in CallerRec, NEW report \in {None} \union Reports
    PROVE  LET q == [r EXCEPT !.pc = "apply", !.report = report]
           IN  q \in CallerRec /\ q.pc = "apply" /\ q.report = report
  BY Zenon DEF CallerRec

\* A caller that has not begun, or is done.
LEMMA IdleIsCaller ==
    /\ Idle \in CallerRec /\ Idle.pc = "idle"
    /\ \A rev \in 0..MaxRevision, cred \in 0..MaxCredentials :
           LET r == [Idle EXCEPT !.pc = "ask", !.rev = rev, !.cred = cred]
           IN  r \in CallerRec /\ r.pc = "ask"
  <1>1. Idle \in CallerRec /\ Idle.pc = "idle"
    BY Bounds DEF Idle, CallerRec
  <1>2. ASSUME NEW rev \in 0..MaxRevision, NEW cred \in 0..MaxCredentials
        PROVE  /\ [Idle EXCEPT !.pc = "ask", !.rev = rev, !.cred = cred] \in CallerRec
               /\ [Idle EXCEPT !.pc = "ask", !.rev = rev, !.cred = cred].pc = "ask"
    BY <1>1, Zenon DEF CallerRec
  <1> QED
    BY <1>1, <1>2

\* One caller changes.
LEMMA OneCaller ==
    ASSUME NEW f \in [Callers -> CallerRec], NEW c \in Callers, NEW r \in CallerRec
    PROVE  /\ [f EXCEPT ![c] = r] \in [Callers -> CallerRec]
           /\ [f EXCEPT ![c] = r][c] = r
           /\ \A d \in Callers \ {c} : [f EXCEPT ![c] = r][d] = f[d]
  OBVIOUS

-----------------------------------------------------------------------------
(* Steps.                                                                    *)

\* The cache and the shared variables, apart from callers.
SharedOK ==
    /\ revision \in 1..MaxRevision /\ credentials \in 1..MaxCredentials
    /\ installing \in BOOLEAN /\ version \in 0..MaxVersion
    /\ entry \in {None} \union EntryRec
    /\ leader \in {None} \union Callers
    /\ usage \in {None} \union Reports /\ quota \in BOOLEAN
    /\ RoomToInvalidate

\* The type invariant, in two parts.
LEMMA TypeParts ==
    UsageTypeOK /\ RoomToInvalidate <=> SharedOK /\ caller \in [Callers -> CallerRec]
  BY DEF UsageTypeOK, SharedOK, CallerRec, EntryRec

\* The first state.
LEMMA InitInv == UsageInit => UsageInv
  <1> SUFFICES ASSUME UsageInit PROVE UsageInv
    OBVIOUS
  <1>1. SharedOK
    BY Bounds DEF UsageInit, SharedOK, RoomToInvalidate
  <1>2. caller \in [Callers -> CallerRec] /\ \A c \in Callers : caller[c].pc = "idle"
    BY IdleIsCaller DEF UsageInit
  <1>3. OneFetch
    BY <1>2, UsageAssumption DEF UsageInit, OneFetch, At
  <1>4. EntryIsCurrent
    BY DEF UsageInit, EntryIsCurrent
  <1>5. ReportInHand
    BY <1>2 DEF ReportInHand, At
  <1> QED
    BY <1>1, <1>2, <1>3, <1>4, <1>5, TypeParts DEF UsageInv

\* What a step promises.
Kept ==
    /\ UsageInv'
    /\ \A c \in Callers :
           ~At(c, {"apply"}) /\ At(c, {"apply"})' /\ entry # None
               => caller'[c].report.asked = version

\* A step of one caller that leaves the cache and the leader alone: it may go
\* anywhere but to a fetch, to an account of nobody, or on with an old report.
LEMMA CallerStep ==
    ASSUME UsageInv, NEW c \in Callers, NEW r \in CallerRec,
           caller' = [caller EXCEPT ![c] = r],
           UNCHANGED <<entry, version, leader>>, SharedOK',
           caller[c].pc # "fetch", r.pc # "fetch",
           r.pc = "wait" => leader # None,
           r.pc = "apply" => r.report \in Reports,
           r.pc = "apply" /\ entry # None => r.report.asked = version
    PROVE  Kept
  <1>1. caller \in [Callers -> CallerRec]
    BY TypeParts DEF UsageInv
  <1>2. /\ caller' \in [Callers -> CallerRec] /\ caller'[c] = r
        /\ \A d \in Callers \ {c} : caller'[d] = caller[d]
    BY <1>1, OneCaller
  <1>3. UsageTypeOK' /\ RoomToInvalidate'
    <2>1. (UsageTypeOK /\ RoomToInvalidate <=> SharedOK /\ caller \in [Callers -> CallerRec])'
      BY TypeParts, PTL
    <2> QED
      BY <1>2, <2>1
  <1>4. OneFetch'
    BY <1>2 DEF UsageInv, OneFetch, At
  <1>5. EntryIsCurrent'
    BY DEF UsageInv, EntryIsCurrent
  <1>6. \A d \in Callers :
            ~At(d, {"apply"}) /\ At(d, {"apply"})' /\ entry # None
                => caller'[d].report.asked = version
    BY <1>2 DEF At
  <1>7. ReportInHand'
    BY <1>2 DEF UsageInv, ReportInHand, At
  <1> QED
    BY <1>3, <1>4, <1>5, <1>6, <1>7 DEF Kept, UsageInv

\* A step beside the callers leaves the cache empty or up to date.
LEMMA CacheStep ==
    ASSUME UsageInv, UNCHANGED <<leader, caller>>, SharedOK', EntryIsCurrent'
    PROVE  Kept
  <1>1. caller' \in [Callers -> CallerRec]
    BY TypeParts DEF UsageInv
  <1>2. UsageTypeOK' /\ RoomToInvalidate'
    <2>1. (UsageTypeOK /\ RoomToInvalidate <=> SharedOK /\ caller \in [Callers -> CallerRec])'
      BY TypeParts, PTL
    <2> QED
      BY <1>1, <2>1
  <1>3. OneFetch'
    BY DEF UsageInv, OneFetch, At
  <1>4. ReportInHand'
    BY DEF UsageInv, ReportInHand, At
  <1> QED
    BY <1>2, <1>3, <1>4 DEF Kept, UsageInv, At
-----------------------------------------------------------------------------
(* The actions.                                                              *)

\* A caller copies the account.
LEMMA StartKeeps == ASSUME UsageInv, NEW c \in Callers, Start(c) PROVE Kept
  <1> DEFINE r == [Idle EXCEPT !.pc = "ask", !.rev = revision, !.cred = credentials]
  <1>1. SharedOK
    BY TypeParts DEF UsageInv
  <1>2. revision \in 0..MaxRevision /\ credentials \in 0..MaxCredentials
    BY <1>1, Bounds DEF SharedOK, RoomToInvalidate
  <1>3. r \in CallerRec /\ r.pc = "ask"
    BY <1>2, IdleIsCaller
  <1>4. caller[c].pc = "idle" /\ caller' = [caller EXCEPT ![c] = r]
    BY DEF Start, At
  <1>5. SharedOK' /\ UNCHANGED <<entry, version, leader>>
    BY <1>1 DEF Start, account, runtime, SharedOK, RoomToInvalidate
  <1> HIDE DEF r
  <1> QED
    BY <1>3, <1>4, <1>5, CallerStep

\* A fresh report is there.
LEMMA HitKeeps == ASSUME UsageInv, NEW c \in Callers, Hit(c) PROVE Kept
  <1> DEFINE r == [caller[c] EXCEPT !.pc = "apply", !.report = entry.report]
  <1>1. SharedOK /\ caller \in [Callers -> CallerRec]
    BY TypeParts DEF UsageInv
  <1>2. entry # None /\ entry \in EntryRec /\ entry.report \in Reports
    BY <1>1 DEF Hit, Hits, SharedOK, RoomToInvalidate, EntryRec
  <1>3. r \in CallerRec /\ r.pc = "apply" /\ r.report = entry.report
    BY <1>1, <1>2, CallerFinds
  <1>4. caller[c].pc = "ask" /\ caller' = [caller EXCEPT ![c] = r]
    BY <1>1 DEF Hit, At
  <1>5. SharedOK' /\ UNCHANGED <<entry, version, leader>>
    BY <1>1 DEF Hit, account, runtime, SharedOK, RoomToInvalidate
  <1>6. entry.report.asked = version
    BY <1>2 DEF UsageInv, EntryIsCurrent
  <1> HIDE DEF r
  <1> QED
    BY <1>2, <1>3, <1>4, <1>5, <1>6, CallerStep

\* Somebody fetches already.
LEMMA WaitKeeps == ASSUME UsageInv, NEW c \in Callers, Wait(c) PROVE Kept
  <1> DEFINE r == [caller[c] EXCEPT !.pc = "wait"]
  <1>1. SharedOK /\ caller \in [Callers -> CallerRec]
    BY TypeParts DEF UsageInv
  <1>2. r \in CallerRec /\ r.pc = "wait"
    BY <1>1, CallerGoes
  <1>3. caller[c].pc = "ask" /\ leader # None /\ caller' = [caller EXCEPT ![c] = r]
    BY <1>1 DEF Wait, At
  <1>4. SharedOK' /\ UNCHANGED <<entry, version, leader>>
    BY <1>1 DEF Wait, account, runtime, SharedOK, RoomToInvalidate
  <1> HIDE DEF r
  <1> QED
    BY <1>2, <1>3, <1>4, CallerStep

\* The caller that leads is the only one that fetches.
LEMMA LeadKeeps == ASSUME UsageInv, NEW c \in Callers, Lead(c) PROVE Kept
  <1> DEFINE r == [caller[c] EXCEPT !.pc = "fetch", !.asked = version]
  <1>1. SharedOK /\ caller \in [Callers -> CallerRec]
    BY TypeParts DEF UsageInv
  <1>2. version \in 0..MaxVersion
    BY <1>1 DEF SharedOK, RoomToInvalidate
  <1>3. r \in CallerRec /\ r.pc = "fetch"
    BY <1>1, <1>2, CallerAsks
  <1>4. /\ caller[c].pc = "ask" /\ leader = None /\ leader' = c
        /\ caller' = [caller EXCEPT ![c] = r]
    BY <1>1 DEF Lead, At
  <1>5. SharedOK' /\ UNCHANGED <<entry, version>>
    BY <1>1, <1>4 DEF Lead, account, runtime, SharedOK, RoomToInvalidate
  <1> HIDE DEF r
  <1>6. /\ caller' \in [Callers -> CallerRec] /\ caller'[c] = r
        /\ \A d \in Callers \ {c} : caller'[d] = caller[d]
    BY <1>1, <1>3, <1>4, OneCaller
  <1>7. UsageTypeOK' /\ RoomToInvalidate'
    <2>1. (UsageTypeOK /\ RoomToInvalidate <=> SharedOK /\ caller \in [Callers -> CallerRec])'
      BY TypeParts, PTL
    <2> QED
      BY <1>5, <1>6, <2>1
  <1>8. OneFetch'
    <2>1. None \notin Callers
      BY UsageAssumption
    <2>2. \A d \in Callers : caller[d].pc # "fetch"
      BY <1>4, <2>1 DEF UsageInv, OneFetch, At
    <2> QED
      BY <1>3, <1>4, <1>6, <2>1, <2>2 DEF OneFetch, At
  <1>9. EntryIsCurrent'
    BY <1>5 DEF UsageInv, EntryIsCurrent
  <1>10. ReportInHand'
    BY <1>3, <1>6 DEF UsageInv, ReportInHand, At
  <1> QED
    BY <1>3, <1>6, <1>7, <1>8, <1>9, <1>10 DEF Kept, UsageInv, At

\* Everybody who waited is somewhere else, and a report that is handed out is
\* the one given.
LEMMA AnsweredCallers ==
    ASSUME UsageInv, NEW c \in Callers, At(c, {"fetch"}), NEW report \in {None} \union Reports
    PROVE  /\ Answered(c, report) \in [Callers -> CallerRec]
           /\ \A d \in Callers :
                  /\ Answered(c, report)[d].pc \notin {"fetch", "wait"}
                  /\ caller[d].pc # "apply" /\ Answered(c, report)[d].pc = "apply"
                         => report # None /\ Answered(c, report)[d].report = report
                  /\ caller[d].pc = "apply" => Answered(c, report)[d] = caller[d]
  <1> DEFINE served(d) == [caller[d] EXCEPT !.pc = "apply", !.asked = 0, !.report = report]
             again(d) == [caller[d] EXCEPT !.pc = "ask"]
  <1>1. caller \in [Callers -> CallerRec]
    BY TypeParts DEF UsageInv
  <1>2. \A d \in Callers :
            /\ served(d) \in CallerRec /\ served(d).pc = "apply" /\ served(d).report = report
            /\ again(d) \in CallerRec /\ again(d).pc = "ask"
    <2> TAKE d \in Callers
    <2>1. caller[d] \in CallerRec /\ 0 \in 0..MaxVersion
      BY <1>1, Bounds
    <2>2. served(d) \in CallerRec /\ served(d).pc = "apply" /\ served(d).report = report
      BY <2>1, CallerIsServed
    <2>3. again(d) \in CallerRec /\ again(d).pc = "ask"
      BY <2>1, CallerGoes
    <2> QED
      BY <2>2, <2>3
  <1>3. \A d \in Callers \ {c} : caller[d].pc # "fetch"
    BY DEF UsageInv, OneFetch, At
  <1>4. \A d \in Callers :
            \/ /\ Answered(c, report)[d] = IF report = None THEN Idle ELSE served(d)
               /\ caller[d].pc # "apply"
            \/ Answered(c, report)[d] = again(d) /\ caller[d].pc # "apply"
            \/ /\ d # c /\ caller[d].pc # "wait"
               /\ Answered(c, report)[d] = caller[d]
    BY DEF Answered, At
  <1> HIDE DEF served, again
  <1>5. Idle \in CallerRec /\ Idle.pc = "idle"
    BY IdleIsCaller
  <1>6. ASSUME NEW d \in Callers
        PROVE  /\ Answered(c, report)[d] \in CallerRec
               /\ Answered(c, report)[d].pc \notin {"fetch", "wait"}
               /\ caller[d].pc # "apply" /\ Answered(c, report)[d].pc = "apply"
                      => report # None /\ Answered(c, report)[d].report = report
               /\ caller[d].pc = "apply" => Answered(c, report)[d] = caller[d]
    <2>1. CASE /\ Answered(c, report)[d] = IF report = None THEN Idle ELSE served(d)
               /\ caller[d].pc # "apply"
      BY <2>1, <1>2, <1>5
    <2>2. CASE Answered(c, report)[d] = again(d) /\ caller[d].pc # "apply"
      BY <2>2, <1>2
    <2>3. CASE /\ d # c /\ caller[d].pc # "wait"
               /\ Answered(c, report)[d] = caller[d]
      BY <2>3, <1>1, <1>3
    <2> QED
      BY <2>1, <2>2, <2>3, <1>4
  <1>7. Answered(c, report) = [d \in Callers |-> Answered(c, report)[d]]
    BY DEF Answered
  <1> QED
    BY <1>6, <1>7

\* The reply: stored only if the version has not changed.
LEMMA LandKeeps == ASSUME UsageInv, NEW c \in Callers, Land(c) PROVE Kept
  <1>1. SharedOK /\ caller \in [Callers -> CallerRec] /\ caller[c] \in CallerRec
    BY TypeParts DEF UsageInv
  <1>2. At(c, {"fetch"})
    BY DEF Land
  <1> DEFINE stored(report) == [cred |-> caller[c].cred, report |-> report, fresh |-> TRUE]
  <1>3. PICK report \in {None} \union [asked : {caller[c].asked}, limit : BOOLEAN] :
            LET outdated == version # caller[c].asked
            IN  /\ entry' = IF outdated \/ report = None THEN entry ELSE stored(report)
                /\ caller' = Answered(c, IF outdated /\ entry # None
                                         THEN entry.report ELSE report)
                /\ leader' = None
                /\ UNCHANGED <<account, version, runtime>>
    BY DEF Land
  <1> DEFINE got == IF version # caller[c].asked /\ entry # None THEN entry.report ELSE report
  <1>4. report \in {None} \union Reports
    <2>1. caller[c].asked \in 0..MaxVersion
      BY <1>1 DEF CallerRec
    <2> QED
      BY <2>1 DEF Reports
  <1>5. got \in {None} \union Reports
    BY <1>1, <1>4 DEF SharedOK, RoomToInvalidate, EntryRec
  <1>6. caller' = Answered(c, got)
    BY <1>3
  <1>7. got # None /\ entry # None => got.asked = version
    BY <1>3 DEF UsageInv, EntryIsCurrent
  <1>8. entry' \in {None} \union EntryRec /\ EntryIsCurrent'
    <2>1. CASE version # caller[c].asked \/ report = None
      <3>1. entry' = entry /\ version' = version
        BY <2>1, <1>3
      <3> QED
        BY <3>1, <1>1 DEF SharedOK, RoomToInvalidate, UsageInv, EntryIsCurrent
    <2>2. CASE ~(version # caller[c].asked \/ report = None)
      <3>1. entry' = stored(report) /\ version' = version
        BY <2>2, <1>3
      <3>2. report \in Reports /\ report.asked = version /\ caller[c].cred \in 0..MaxCredentials
        BY <2>2, <1>1, <1>3, <1>4 DEF CallerRec
      <3>3. stored(report) \in EntryRec /\ stored(report).report = report
        BY <3>2 DEF EntryRec
      <3> QED
        BY <3>1, <3>2, <3>3 DEF EntryIsCurrent
    <2> QED
      BY <2>1, <2>2
  <1>9. SharedOK'
    BY <1>1, <1>3, <1>8 DEF SharedOK, RoomToInvalidate, account, runtime
  <1> HIDE DEF got, stored
  <1>10. /\ caller' \in [Callers -> CallerRec]
         /\ \A d \in Callers :
                /\ caller'[d].pc \notin {"fetch", "wait"}
                /\ caller[d].pc # "apply" /\ caller'[d].pc = "apply"
                       => got # None /\ caller'[d].report = got
                /\ caller[d].pc = "apply" /\ caller'[d].pc = "apply"
                       => caller'[d].report = caller[d].report
    BY <1>2, <1>5, <1>6, AnsweredCallers
  <1>11. UsageTypeOK' /\ RoomToInvalidate'
    <2>1. (UsageTypeOK /\ RoomToInvalidate <=> SharedOK /\ caller \in [Callers -> CallerRec])'
      BY TypeParts, PTL
    <2> QED
      BY <1>9, <1>10, <2>1
  <1>12. OneFetch'
    <2>1. leader' = None /\ None \notin Callers
      BY <1>3, UsageAssumption
    <2> QED
      BY <2>1, <1>10 DEF OneFetch, At
  <1>13. ReportInHand'
    <2>1. got # None => got \in Reports
      BY <1>5
    <2>2. \A d \in Callers :
              caller'[d].pc = "apply" => caller'[d].report \in Reports
      BY <2>1, <1>10 DEF UsageInv, ReportInHand, At
    <2> QED
      BY <2>2 DEF ReportInHand, At
  <1> QED
    BY <1>7, <1>8, <1>10, <1>11, <1>12, <1>13 DEF Kept, UsageInv, At

\* A follower leaves.
LEMMA GiveUpKeeps == ASSUME UsageInv, NEW c \in Callers, GiveUp(c) PROVE Kept
  <1>1. SharedOK
    BY TypeParts DEF UsageInv
  <1>2. caller[c].pc = "wait" /\ caller' = [caller EXCEPT ![c] = Idle]
    BY DEF GiveUp, At
  <1>3. SharedOK' /\ UNCHANGED <<entry, version, leader>>
    BY <1>1 DEF GiveUp, account, runtime, SharedOK, RoomToInvalidate
  <1> QED
    BY <1>2, <1>3, IdleIsCaller, CallerStep

\* The last critical section: what the runtime takes is a report.
LEMMA ApplyKeeps == ASSUME UsageInv, NEW c \in Callers, Apply(c) PROVE Kept
  <1>1. SharedOK
    BY TypeParts DEF UsageInv
  <1>2. caller[c].pc = "apply" /\ caller' = [caller EXCEPT ![c] = Idle]
    BY DEF Apply, At
  <1>3. UNCHANGED <<revision, credentials, installing, entry, version, leader>>
    BY DEF Apply, account
  <1>4. usage' \in {None} \union Reports /\ quota' \in BOOLEAN
    <2>1. caller[c].report \in Reports /\ caller[c].report.limit \in BOOLEAN
      BY <1>2 DEF UsageInv, ReportInHand, At, Reports
    <2> QED
      BY <1>1, <2>1 DEF Apply, SharedOK, RoomToInvalidate, runtime
  <1>5. SharedOK'
    BY <1>1, <1>3, <1>4 DEF SharedOK, RoomToInvalidate
  <1> QED
    BY <1>2, <1>3, <1>5, IdleIsCaller, CallerStep

\* A quota error.
LEMMA LimitKeeps == ASSUME UsageInv, Limit PROVE Kept
  <1> DEFINE limited == [asked |-> version + 1, limit |-> TRUE]
             cred == IF entry = None THEN 0 ELSE entry.cred
  <1>1. SharedOK
    BY TypeParts DEF UsageInv
  <1>2. version + 1 \in 0..MaxVersion
    BY <1>1, Bounds DEF Limit, SharedOK, RoomToInvalidate
  <1>3. limited \in Reports /\ limited.asked = version + 1
    BY <1>2 DEF Reports
  <1>4. cred \in 0..MaxCredentials
    BY <1>1, Bounds DEF SharedOK, RoomToInvalidate, EntryRec
  <1>5. /\ ~installing /\ version' = version + 1 /\ usage' = limited /\ quota' = TRUE
        /\ entry' = [cred |-> cred, report |-> limited, fresh |-> TRUE]
        /\ UNCHANGED <<revision, credentials, installing, leader, caller>>
    BY DEF Limit, account
  <1> HIDE DEF limited, cred
  <1>6. entry' \in EntryRec /\ entry'.report = limited
    BY <1>3, <1>4, <1>5 DEF EntryRec
  <1>7. SharedOK'
    BY <1>1, <1>2, <1>3, <1>5, <1>6 DEF SharedOK, RoomToInvalidate
  <1>8. EntryIsCurrent'
    BY <1>3, <1>5, <1>6 DEF EntryIsCurrent
  <1> QED
    BY <1>5, <1>7, <1>8, CacheStep

\* A token refresh.
LEMMA RenewKeeps == ASSUME UsageInv, Renew PROVE Kept
  <1>1. SharedOK
    BY TypeParts DEF UsageInv
  <1>2. credentials + 1 \in 1..MaxCredentials
    BY <1>1, Bounds DEF Renew, SharedOK, RoomToInvalidate
  <1>3. SharedOK'
    BY <1>1, <1>2 DEF Renew, SharedOK, RoomToInvalidate, runtime
  <1>4. EntryIsCurrent'
    BY DEF Renew, UsageInv, EntryIsCurrent
  <1>5. UNCHANGED <<leader, caller>>
    BY DEF Renew
  <1> QED
    BY <1>3, <1>4, <1>5, CacheStep

\* A login, a logout or a save.
LEMMA ReplaceKeeps == ASSUME UsageInv, Replace PROVE Kept
  <1>1. SharedOK
    BY TypeParts DEF UsageInv
  <1>2. credentials + 1 \in 1..MaxCredentials /\ revision + 1 \in 1..MaxRevision
    BY <1>1, Bounds DEF Replace, SharedOK, RoomToInvalidate
  <1>3. SharedOK'
    BY <1>1, <1>2 DEF Replace, SharedOK, RoomToInvalidate
  <1>4. EntryIsCurrent'
    BY DEF Replace, UsageInv, EntryIsCurrent
  <1>5. UNCHANGED <<leader, caller>>
    BY DEF Replace
  <1> QED
    BY <1>3, <1>4, <1>5, CacheStep

\* The cache is dropped, under a new version.
LEMMA InvalidateKeeps == ASSUME UsageInv, Invalidate PROVE Kept
  <1>1. SharedOK
    BY TypeParts DEF UsageInv
  <1>2. version + 1 \in 0..MaxVersion
    BY <1>1, Bounds DEF Invalidate, SharedOK, RoomToInvalidate
  <1>3. SharedOK'
    BY <1>1, <1>2 DEF Invalidate, SharedOK, RoomToInvalidate, runtime
  <1>4. EntryIsCurrent'
    BY DEF Invalidate, EntryIsCurrent
  <1>5. UNCHANGED <<leader, caller>>
    BY DEF Invalidate
  <1> QED
    BY <1>3, <1>4, <1>5, CacheStep

\* A report grows old.
LEMMA ExpireKeeps == ASSUME UsageInv, Expire PROVE Kept
  <1>1. SharedOK
    BY TypeParts DEF UsageInv
  <1>2. entry \in EntryRec /\ entry' = [entry EXCEPT !.fresh = FALSE]
    BY <1>1 DEF Expire, SharedOK
  <1>3. entry' \in EntryRec /\ entry'.report = entry.report
    BY <1>2 DEF EntryRec
  <1>4. /\ UNCHANGED <<revision, credentials, installing, version>>
        /\ UNCHANGED <<leader, usage, quota, caller>>
    BY DEF Expire, account, runtime
  <1>5. SharedOK'
    BY <1>1, <1>3, <1>4 DEF SharedOK, RoomToInvalidate
  <1>6. EntryIsCurrent'
    BY <1>3, <1>4 DEF Expire, UsageInv, EntryIsCurrent
  <1> QED
    BY <1>4, <1>5, <1>6, CacheStep

\* Every step.
LEMMA NextKeeps == ASSUME UsageInv, [UsageNext]_usageVars PROVE Kept
  <1>1. ASSUME NEW c \in Callers, Refresh(c) PROVE Kept
    BY <1>1, StartKeeps, HitKeeps, WaitKeeps, LeadKeeps, LandKeeps, GiveUpKeeps,
       ApplyKeeps DEF Refresh
  <1>2. CASE Limit \/ Renew \/ Replace \/ Invalidate \/ Expire
    BY <1>2, LimitKeeps, RenewKeeps, ReplaceKeeps, InvalidateKeeps, ExpireKeeps
  <1>3. CASE UNCHANGED usageVars
    <2>1. UNCHANGED <<revision, credentials, installing, entry, version>>
      BY <1>3 DEF usageVars
    <2>2. UNCHANGED <<leader, usage, quota, caller>>
      BY <1>3 DEF usageVars
    <2>3. SharedOK' /\ EntryIsCurrent'
      BY <2>1, <2>2, TypeParts DEF UsageInv, SharedOK, RoomToInvalidate, EntryIsCurrent
    <2> QED
      BY <2>2, <2>3, CacheStep
  <1> QED
    BY <1>1, <1>2, <1>3 DEF UsageNext

-----------------------------------------------------------------------------
(* The theorems.                                                             *)

\* The invariant of the cache.
THEOREM UsageInvariant == UsageSpec => []UsageInv
  <1>1. UsageInv /\ [UsageNext]_usageVars => UsageInv'
    BY NextKeeps DEF Kept
  <1> QED
    BY <1>1, InitInv, PTL DEF UsageSpec

\* Accounts, reports and callers are what the declarations say, for every
\* number of goroutines (codex_usage.go, type codexUsageCache).
THEOREM UsageTypes == UsageSpec => []UsageTypeOK
  <1>1. UsageInv => UsageTypeOK
    BY DEF UsageInv
  <1> QED
    BY <1>1, UsageInvariant, PTL

\* There is never more than one request for one account, and who waits, waits
\* for one that is under way (codex_usage.go, Refresh).
THEOREM FetchIsSingle == UsageSpec => []OneFetch
  <1>1. UsageInv => OneFetch
    BY DEF UsageInv
  <1> QED
    BY <1>1, UsageInvariant, PTL

\* A report asked for before an invalidation or a quota error is never cached,
\* and never handed out while the cache holds a later one.
THEOREM NewsAreKept == UsageSpec => NewsIsKept
  <1>1. UsageInv /\ [UsageNext]_usageVars
            => [/\ entry' # None => entry'.report.asked = version'
                /\ \A c \in Callers :
                       ~At(c, {"apply"}) /\ At(c, {"apply"})' /\ entry # None
                           => caller'[c].report.asked = version]_usageVars
    BY NextKeeps DEF Kept, UsageInv, EntryIsCurrent
  <1> QED
    BY <1>1, UsageInvariant, PTL DEF UsageSpec, NewsIsKept

\* In the composition with the balances: a step there leaves the usage reports
\* alone.
LEMMA UsageBehaviours == Spec => UsageSpec
  <1>1. Init => UsageInit
    BY DEF Init
  <1>2. [Next]_vars => [UsageNext]_usageVars
    BY DEF Next, vars, RefreshUsage, RefreshBalance
  <1> QED
    BY <1>1, <1>2, PTL DEF Spec, UsageSpec

\* Nothing asked for before the news is kept, or handed out, after them.
THEOREM RefreshersKeepNews == Spec => NewsIsKept
  BY UsageBehaviours, NewsAreKept, PTL

-----------------------------------------------------------------------------
(* The balances.                                                             *)

Copies == [id : Accounts, rev : Nat]

JobRec == [pc : {"none", "working"}, todo : SUBSET Copies, running : SUBSET Copies,
           gone : BOOLEAN]

InProgress(c) == job[c].pc = "working"

\* balanceRefreshGate is closed exactly while a refresh is under way, and
\* nothing is left to probe, or being probed, outside one.
GateOK ==
    /\ job \in [Callers -> JobRec]
    /\ saved \in [Accounts -> Nat]
    /\ \A c \in Callers : InProgress(c) => gate = 1
    /\ \A c, d \in Callers : InProgress(c) /\ InProgress(d) => c = d
    /\ \A c \in Callers : ~InProgress(c) => job[c].todo = {} /\ job[c].running = {}

\* A goroutine goes on with its refresh, or does nothing.
LEMMA JobGoesOn ==
    ASSUME GateOK, NEW c \in Callers, NEW j \in JobRec, job' = [job EXCEPT ![c] = j],
           j.pc = "working" => InProgress(c),
           j.pc # "working" => j.todo = {} /\ j.running = {},
           UNCHANGED <<saved, gate>>
    PROVE  GateOK'
  <1>1. job' \in [Callers -> JobRec]
    BY DEF GateOK
  <1>2. job'[c] = j /\ \A d \in Callers \ {c} : job'[d] = job[d]
    BY DEF GateOK
  <1>3. \A d \in Callers : InProgress(d)' => InProgress(d)
    BY <1>2 DEF InProgress
  <1>4. \A d \in Callers : ~InProgress(d)' => job'[d].todo = {} /\ job'[d].running = {}
    BY <1>2 DEF GateOK, InProgress
  <1> QED
    BY <1>1, <1>3, <1>4 DEF GateOK

\* The parts of a goroutine's refresh that its steps change.
LEMMA JobParts ==
    ASSUME NEW j \in JobRec
    PROVE  /\ j.pc \in {"none", "working"}
           /\ \A copies \in SUBSET Copies :
                 /\ [j EXCEPT !.todo = copies] \in JobRec
                 /\ [j EXCEPT !.todo = copies].pc = j.pc
                 /\ [j EXCEPT !.running = copies] \in JobRec
                 /\ [j EXCEPT !.running = copies].pc = j.pc
           /\ \A todo, running \in SUBSET Copies :
                 /\ [j EXCEPT !.todo = todo, !.running = running] \in JobRec
                 /\ [j EXCEPT !.todo = todo, !.running = running].pc = j.pc
           /\ [j EXCEPT !.gone = TRUE] \in JobRec
           /\ [j EXCEPT !.gone = TRUE].pc = j.pc
           /\ [j EXCEPT !.gone = TRUE].todo = j.todo
           /\ [j EXCEPT !.gone = TRUE].running = j.running
  BY DEF JobRec

LEMMA FreshJob == Balance!NoJob \in JobRec /\ Balance!NoJob.pc = "none"
                  /\ Balance!NoJob.todo = {} /\ Balance!NoJob.running = {}
  BY DEF Balance!NoJob, JobRec

\* Who gets through the gate is alone behind it.
LEMMA EnterKeeps ==
    ASSUME GateOK, NEW c \in Callers, Balance!Enter(c),
           Balance!Chosen(c) \subseteq Accounts
    PROVE  GateOK'
  <1>1. gate = 0 /\ \A d \in Callers : ~InProgress(d)
    BY DEF GateOK, Balance!Enter
  <1>2. CASE Balance!Chosen(c) = {}
    BY <1>2 DEF Balance!Enter, GateOK, InProgress
  <1>3. CASE Balance!Chosen(c) # {}
    <2> DEFINE todo == {Balance!Copy(a) : a \in Balance!Chosen(c)}
               j == [Balance!NoJob EXCEPT !.pc = "working", !.todo = todo]
    <2>1. todo \in SUBSET Copies
      BY DEF Balance!Copy, Copies, GateOK
    <2>2. gate' = 1 /\ job' = [job EXCEPT ![c] = j] /\ UNCHANGED saved
      BY <1>3 DEF Balance!Enter
    <2> HIDE DEF todo
    <2>3. j \in JobRec /\ j.pc = "working"
      BY <2>1 DEF Balance!NoJob, JobRec
    <2> HIDE DEF j
    <2>4. /\ job' \in [Callers -> JobRec] /\ job'[c] = j
          /\ \A d \in Callers \ {c} : job'[d] = job[d]
      BY <2>2, <2>3 DEF GateOK
    <2> QED
      BY <1>1, <2>2, <2>3, <2>4 DEF GateOK, InProgress
  <1> QED
    BY <1>2, <1>3

\* The dispatcher and the workers of one refresh.
LEMMA WorkKeeps ==
    ASSUME GateOK, NEW c \in Callers, Balance!Work(c)
    PROVE  GateOK'
  <1>1. job[c] \in JobRec /\ (~InProgress(c) => job[c].todo = {} /\ job[c].running = {})
    BY DEF GateOK
  <1>2. CASE Balance!StartProbe(c)
    <2>1. PICK copy \in job[c].todo :
             job' = [job EXCEPT ![c].todo = @ \ {copy}, ![c].running = @ \union {copy}]
      BY <1>2 DEF Balance!StartProbe
    <2> DEFINE todo == job[c].todo \ {copy}
               running == job[c].running \union {copy}
               j == [job[c] EXCEPT !.todo = todo, !.running = running]
    <2>2. todo \in SUBSET Copies /\ running \in SUBSET Copies
      BY <1>1 DEF JobRec
    <2>3. job' = [job EXCEPT ![c] = j]
      BY <2>1
    <2>4. InProgress(c) /\ UNCHANGED <<saved, gate>>
      BY <1>1, <1>2 DEF Balance!StartProbe
    <2> HIDE DEF todo, running
    <2>5. j \in JobRec /\ j.pc = job[c].pc
      BY <1>1, <2>2, JobParts
    <2> HIDE DEF j
    <2> QED
      BY <2>3, <2>4, <2>5, JobGoesOn DEF InProgress
  <1>3. CASE Balance!StopDispatch(c)
    <2> DEFINE j == [job[c] EXCEPT !.todo = {}]
    <2>1. job' = [job EXCEPT ![c] = j] /\ UNCHANGED <<saved, gate>> /\ InProgress(c)
      BY <1>1, <1>3 DEF Balance!StopDispatch
    <2>2. j \in JobRec /\ j.pc = job[c].pc
      BY <1>1, JobParts
    <2> HIDE DEF j
    <2> QED
      BY <2>1, <2>2, JobGoesOn DEF InProgress
  <1>4. CASE Balance!EndProbe(c)
    <2>1. PICK copy \in job[c].running : job' = [job EXCEPT ![c].running = @ \ {copy}]
      BY <1>4 DEF Balance!EndProbe
    <2> DEFINE running == job[c].running \ {copy}
               j == [job[c] EXCEPT !.running = running]
    <2>2. running \in SUBSET Copies
      BY <1>1 DEF JobRec
    <2>3. job' = [job EXCEPT ![c] = j] /\ UNCHANGED <<saved, gate>> /\ InProgress(c)
      BY <1>1, <1>4, <2>1 DEF Balance!EndProbe
    <2> HIDE DEF running
    <2>4. j \in JobRec /\ j.pc = job[c].pc
      BY <1>1, <2>2, JobParts
    <2> HIDE DEF j
    <2> QED
      BY <2>3, <2>4, JobGoesOn DEF InProgress
  <1>5. CASE Balance!EndRefresh(c)
    <2>1. /\ InProgress(c) /\ gate' = 0 /\ UNCHANGED saved
          /\ job' = [job EXCEPT ![c] = Balance!NoJob]
      BY <1>5 DEF Balance!EndRefresh, InProgress
    <2>2. /\ job' \in [Callers -> JobRec] /\ job'[c] = Balance!NoJob
          /\ \A d \in Callers \ {c} : job'[d] = job[d]
      BY <2>1, FreshJob DEF GateOK
    <2>3. \A d \in Callers : ~InProgress(d)'
      BY <2>1, <2>2, FreshJob DEF GateOK, InProgress
    <2>4. \A d \in Callers : job'[d].todo = {} /\ job'[d].running = {}
      BY <2>1, <2>2, FreshJob DEF GateOK, InProgress
    <2> QED
      BY <2>1, <2>2, <2>3, <2>4 DEF GateOK
  <1> QED
    BY <1>2, <1>3, <1>4, <1>5 DEF Balance!Work

AskerRec == [pc : {"idle", "gate", "await", "mark"}, accounts : SUBSET Accounts,
             forced : BOOLEAN, route : BOOLEAN]

\* A page asks for accounts there are, and so does routing.
AskersOK == asker \in [Callers -> AskerRec]

BalanceRec ==
    [status : {"", "ok", "error"}, refresh : {"", "ok", "partial", "error"},
     checked : BOOLEAN, fresh : BOOLEAN, retryable : BOOLEAN, waits : BOOLEAN]

\* A balance in use has been read at some time.
BalanceOK(b) == b \in BalanceRec /\ (b.status = "ok" => b.checked)

BalancesOK ==
    /\ balance \in [Accounts -> BalanceRec]
    /\ \A a \in Accounts : BalanceOK(balance[a])

\* A known balance is kept, and given up only for a failure that will not pass.
Survives(b, x) ==
    b.checked => x.checked /\ (b.status = "ok" /\ x.status # "ok" => ~x.retryable)

BalanceInv ==
    GateOK /\ AskersOK /\ BalancesOK /\ gate \in {0, 1}
    /\ saved \in [Accounts -> 1..MaxAccountRevision]

\* mergeBalanceAttempt, whatever was known and whatever the probe found.
LEMMA MergeSurvives ==
    ASSUME NEW b, BalanceOK(b), NEW attempt \in Balance!Attempts
    PROVE  BalanceOK(Balance!Merged(b, attempt)) /\ Survives(b, Balance!Merged(b, attempt))
  <1>1. attempt \in BalanceRec /\ (attempt.status = "ok" <=> attempt.checked)
        /\ (attempt.refresh = "ok" => attempt.status = "ok")
    BY DEF Balance!Attempts, BalanceRec
  <1> DEFINE kept == [b EXCEPT !.retryable = attempt.retryable, !.waits = attempt.waits]
  <1>2. /\ kept \in BalanceRec /\ kept.checked = b.checked /\ kept.status = b.status
        /\ kept.refresh = b.refresh /\ kept.retryable = attempt.retryable
    BY <1>1 DEF BalanceOK, BalanceRec
  <1>4. ASSUME NEW refresh \in {"", "ok", "partial", "error"}
        PROVE  LET x == [kept EXCEPT !.refresh = refresh]
               IN  /\ x \in BalanceRec /\ x.checked = b.checked /\ x.status = b.status
    <2> HIDE DEF kept
    <2> QED
      BY <1>2 DEF BalanceRec
  <1>5. CASE attempt.refresh = "ok" \/ ~b.checked
    <2>1. Balance!Merged(b, attempt) = attempt
      BY <1>5 DEF Balance!Merged
    <2> QED
      BY <1>1, <1>5, <2>1 DEF BalanceOK, Survives
  <1>6. CASE attempt.refresh = "partial" /\ b.checked /\ b.status = "ok"
    <2> DEFINE status == IF attempt.retryable THEN "ok" ELSE "error"
               x == [kept EXCEPT !.refresh = "partial", !.status = status]
    <2>1. Balance!Merged(b, attempt) = x
      BY <1>6 DEF Balance!Merged
    <2>2. /\ x \in BalanceRec /\ x.checked = b.checked /\ x.status = status
          /\ x.retryable = attempt.retryable
      <3>1. status \in {"", "ok", "error"}
        OBVIOUS
      <3>2. x = [kept EXCEPT !.refresh = "partial", !.status = status]
        OBVIOUS
      <3> HIDE DEF x, status, kept
      <3>3. x \in BalanceRec /\ x.checked = kept.checked /\ x.status = status
            /\ x.retryable = kept.retryable
        BY <1>2, <3>1, <3>2 DEF BalanceRec
      <3> QED
        BY <1>2, <3>3
    <2> HIDE DEF x
    <2> QED
      BY <1>6, <2>1, <2>2 DEF BalanceOK, Survives
  <1>7. CASE attempt.refresh = "partial" /\ b.checked /\ b.status # "ok"
    <2> DEFINE refresh == IF b.refresh \in {"", "ok"} THEN b.status ELSE b.refresh
               x == [kept EXCEPT !.refresh = refresh]
    <2>1. Balance!Merged(b, attempt) = x
      BY <1>2, <1>7 DEF Balance!Merged
    <2>2. refresh \in {"", "ok", "partial", "error"}
      BY DEF BalanceOK, BalanceRec
    <2>3. x \in BalanceRec /\ x.checked = b.checked /\ x.status = b.status
      <3> HIDE DEF refresh, kept
      <3> QED
        BY <1>4, <2>2
    <2> HIDE DEF x
    <2> QED
      BY <1>7, <2>1, <2>3 DEF BalanceOK, Survives
  <1>8. CASE b.checked /\ attempt.refresh \notin {"ok", "partial"}
    <2> DEFINE status == IF attempt.retryable THEN b.status ELSE attempt.status
               refresh == attempt.refresh
               x == [kept EXCEPT !.refresh = refresh, !.status = status]
    <2>1. Balance!Merged(b, attempt) = x
      BY <1>2, <1>8 DEF Balance!Merged
    <2>2. status \in {"", "ok", "error"}
      BY <1>1 DEF BalanceOK, BalanceRec
    <2>3. refresh \in {"", "ok", "partial", "error"}
      BY <1>1 DEF BalanceRec
    <2>4. /\ x \in BalanceRec /\ x.checked = b.checked /\ x.status = status
          /\ x.retryable = attempt.retryable
      <3>1. x = [kept EXCEPT !.refresh = refresh, !.status = status]
        OBVIOUS
      <3> HIDE DEF x, status, refresh, kept
      <3>2. x \in BalanceRec /\ x.checked = kept.checked /\ x.status = status
            /\ x.retryable = kept.retryable
        BY <1>2, <2>2, <2>3, <3>1 DEF BalanceRec
      <3> QED
        BY <1>2, <3>2
    <2> HIDE DEF x
    <2> QED
      BY <1>1, <1>8, <2>1, <2>4 DEF BalanceOK, Survives
  <1> QED
    BY <1>5, <1>6, <1>7, <1>8

\* What a step does to the balances of the accounts that are not saved anew.
BalancesSurvive ==
    \A a \in Accounts : saved'[a] = saved[a] => Survives(balance[a], balance'[a])

\* The balance of one account changes.
LEMMA OneBalance ==
    ASSUME BalancesOK, NEW a, NEW x, BalanceOK(x), balance' = [balance EXCEPT ![a] = x],
           a \in Accounts /\ saved'[a] = saved[a] => Survives(balance[a], x)
    PROVE  BalancesOK' /\ BalancesSurvive
  <1>1. \A b \in Accounts : balance'[b] = IF b = a THEN x ELSE balance[b]
    BY DEF BalancesOK
  <1>2. \A b \in Accounts : BalanceOK(balance[b]) /\ Survives(balance[b], balance[b])
    BY DEF BalancesOK, Survives
  <1>3. balance' \in [Accounts -> BalanceRec]
    BY DEF BalancesOK, BalanceOK
  <1> QED
    BY <1>1, <1>2, <1>3 DEF BalancesOK, BalancesSurvive

LEMMA SameBalances ==
    ASSUME BalancesOK, UNCHANGED balance
    PROVE  BalancesOK' /\ BalancesSurvive
  BY DEF BalancesOK, BalancesSurvive, Survives

\* Every step of the balances' goroutines leaves the balances sound.
LEMMA BalancesStep ==
    ASSUME BalanceInv, Balance!Next
    PROVE  BalancesOK' /\ BalancesSurvive
  <1> USE DEF BalanceInv
  <1>1. ASSUME NEW c \in Callers,
               \/ Balance!Ask(c) \/ Balance!Enter(c) \/ Balance!Leave(c)
               \/ Balance!Disconnect(c) \/ Balance!RouteTimeout(c)
               \/ Balance!StartProbe(c) \/ Balance!StopDispatch(c) \/ Balance!EndRefresh(c)
        PROVE  BalancesOK' /\ BalancesSurvive
    BY <1>1, SameBalances DEF Balance!Ask, Balance!AskByPage, Balance!AskByRoute,
         Balance!Enter, Balance!Leave, Balance!Disconnect, Balance!RouteTimeout,
         Balance!StartProbe, Balance!StopDispatch, Balance!EndRefresh
  <1>2. ASSUME NEW c \in Callers, Balance!Mark(c)
        PROVE  BalancesOK' /\ BalancesSurvive
    <2> DEFINE status(b) == IF b.checked THEN b.status ELSE "error"
               marked(b) == [b EXCEPT !.refresh = "error", !.retryable = TRUE,
                                      !.waits = TRUE, !.status = status(b)]
    <2>1. ASSUME NEW b, BalanceOK(b)
          PROVE  BalanceOK(marked(b)) /\ Survives(b, marked(b))
      BY <2>1 DEF BalanceOK, BalanceRec, Survives
    <2>2. /\ balance' = [a \in Accounts |-> balance'[a]]
          /\ \A a \in Accounts :
                balance'[a] = balance[a] \/ balance'[a] = marked(balance[a])
      BY <1>2 DEF Balance!Mark, BalancesOK, BalanceOK, BalanceRec
    <2>3. \A a \in Accounts : BalanceOK(balance[a]) /\ Survives(balance[a], balance[a])
      BY DEF BalancesOK, Survives
    <2> HIDE DEF marked
    <2>4. \A a \in Accounts : BalanceOK(balance'[a]) /\ Survives(balance[a], balance'[a])
      <3> TAKE a \in Accounts
      <3>1. CASE balance'[a] = balance[a]
        BY <2>3, <3>1
      <3>2. CASE balance'[a] = marked(balance[a])
        BY <2>1, <2>3, <3>2
      <3> QED
        BY <2>2, <3>1, <3>2
    <2>5. balance' \in [Accounts -> BalanceRec]
      BY <2>2, <2>4 DEF BalanceOK
    <2> QED
      BY <2>4, <2>5 DEF BalancesOK, BalancesSurvive
  <1>3. ASSUME NEW c \in Callers, Balance!EndProbe(c)
        PROVE  BalancesOK' /\ BalancesSurvive
    <2>1. CASE UNCHANGED balance
      BY <2>1, SameBalances
    <2>2. CASE ~UNCHANGED balance
      <3>1. PICK copy \in job[c].running, attempt \in Balance!Attempts, positive \in BOOLEAN :
               Balance!Apply(copy, attempt, positive)
        BY <1>3, <2>2 DEF Balance!EndProbe
      <3> DEFINE a == copy.id
                 x == Balance!Merged(balance[a], attempt)
      <3>2. balance' = [balance EXCEPT ![a] = x]
        BY <2>2, <3>1 DEF Balance!Apply
      <3>3. a \in Accounts
        BY DEF GateOK, JobRec, Copies
      <3>4. BalanceOK(x) /\ Survives(balance[a], x)
        BY <3>3, MergeSurvives DEF BalancesOK
      <3> HIDE DEF x
      <3> QED
        BY <3>2, <3>4, OneBalance
    <2> QED
      BY <2>1, <2>2
  <1>4. ASSUME NEW a \in Accounts, Balance!Save(a)
        PROVE  BalancesOK' /\ BalancesSurvive
    <2>1. balance' = [balance EXCEPT ![a] = Balance!NeverChecked]
      BY <1>4 DEF Balance!Save
    <2>2. saved'[a] # saved[a]
      BY <1>4 DEF Balance!Save
    <2>3. BalanceOK(Balance!NeverChecked)
      BY DEF Balance!NeverChecked, BalanceOK, BalanceRec
    <2> QED
      BY <2>1, <2>2, <2>3, OneBalance
  <1>5. ASSUME NEW a \in Accounts, Balance!Routed(a)
        PROVE  BalancesOK' /\ BalancesSurvive
    BY <1>5, SameBalances DEF Balance!Routed
  <1>6. ASSUME NEW a \in Accounts, Balance!Age(a)
        PROVE  BalancesOK' /\ BalancesSurvive
    <2>1. BalanceOK(balance[a])
      BY DEF BalancesOK
    <2> DEFINE x == [balance[a] EXCEPT !.fresh = FALSE]
               y == [balance[a] EXCEPT !.waits = FALSE]
    <2>2. BalanceOK(x) /\ Survives(balance[a], x) /\ BalanceOK(y) /\ Survives(balance[a], y)
      BY <2>1 DEF BalanceOK, BalanceRec, Survives
    <2>3. balance' = [balance EXCEPT ![a] = x] \/ balance' = [balance EXCEPT ![a] = y]
      BY <1>6 DEF Balance!Age
    <2> HIDE DEF x, y
    <2> QED
      BY <2>2, <2>3, OneBalance
  <1> QED
    BY <1>1, <1>2, <1>3, <1>4, <1>5, <1>6 DEF Balance!Next, Balance!Work

\* Who asks, asks for accounts there are.
LEMMA AskersStep ==
    ASSUME BalanceInv, Balance!Next
    PROVE  AskersOK'
  <1>1. \A c \in Callers : asker[c] \in AskerRec
    BY DEF BalanceInv, AskersOK
  <1>2. Balance!Idle \in AskerRec
    BY DEF Balance!Idle, AskerRec
  <1>3. ASSUME NEW r \in AskerRec, NEW pc \in {"idle", "gate", "await", "mark"}
        PROVE  [r EXCEPT !.pc = pc] \in AskerRec
    BY DEF AskerRec
  <1>4. ASSUME NEW c \in Callers, NEW r \in AskerRec, asker' = [asker EXCEPT ![c] = r]
        PROVE  AskersOK'
    BY <1>4 DEF BalanceInv, AskersOK
  <1>5. ASSUME UNCHANGED asker PROVE AskersOK'
    BY <1>5 DEF BalanceInv, AskersOK
  <1>6. ASSUME NEW c \in Callers, NEW pc \in {"idle", "gate", "await", "mark"},
               asker' = [asker EXCEPT ![c].pc = pc]
        PROVE  AskersOK'
    <2> DEFINE r == [asker[c] EXCEPT !.pc = pc]
    <2>1. asker' = [asker EXCEPT ![c] = r]
      BY <1>6
    <2>2. r \in AskerRec
      BY <1>1, <1>3
    <2> HIDE DEF r
    <2> QED
      BY <1>4, <2>1, <2>2
  <1>7. ASSUME NEW c \in Callers, Balance!Ask(c) PROVE AskersOK'
    <2>1. ASSUME NEW accounts \in SUBSET Accounts, NEW forced \in BOOLEAN,
                 NEW route \in BOOLEAN
          PROVE  [pc |-> "gate", accounts |-> accounts, forced |-> forced, route |-> route]
                     \in AskerRec
      BY DEF AskerRec
    <2>2. CASE Balance!AskByPage(c)
      <3>1. PICK accounts \in SUBSET Accounts, forced \in BOOLEAN :
               asker' = [asker EXCEPT ![c] =
                   [pc |-> "gate", accounts |-> accounts, forced |-> forced,
                    route |-> FALSE]]
        BY <2>2 DEF Balance!AskByPage
      <3> DEFINE r == [pc |-> "gate", accounts |-> accounts, forced |-> forced,
                       route |-> FALSE]
      <3>2. r \in AskerRec
        BY <2>1
      <3>3. asker' = [asker EXCEPT ![c] = r]
        BY <3>1
      <3> HIDE DEF r
      <3> QED
        BY <1>4, <3>2, <3>3
    <2>3. CASE Balance!AskByRoute(c)
      <3> DEFINE stale == {a \in Accounts : suspension[a] = "no" /\ Balance!Due(balance[a])}
                 r == [pc |-> "gate", accounts |-> stale, forced |-> FALSE, route |-> TRUE]
      <3>1. asker' = [asker EXCEPT ![c] = r]
        BY <2>3 DEF Balance!AskByRoute
      <3>2. stale \in SUBSET Accounts
        OBVIOUS
      <3>3. r \in AskerRec
        <4> HIDE DEF stale
        <4> QED
          BY <2>1, <3>2
      <3> HIDE DEF r
      <3> QED
        BY <1>4, <3>1, <3>3
    <2> QED
      BY <1>7, <2>2, <2>3 DEF Balance!Ask
  <1>8. ASSUME NEW c \in Callers,
               Balance!Enter(c) \/ Balance!Leave(c) \/ Balance!Disconnect(c)
                   \/ Balance!RouteTimeout(c) \/ Balance!Mark(c)
        PROVE  AskersOK'
    <2>1. \/ UNCHANGED asker
          \/ asker' = [asker EXCEPT ![c] = Balance!Idle]
          \/ asker' = [asker EXCEPT ![c].pc = "await"]
          \/ asker' = [asker EXCEPT ![c].pc = "mark"]
      BY <1>8 DEF Balance!Enter, Balance!Leave, Balance!Disconnect, Balance!RouteTimeout,
           Balance!Mark
    <2> QED
      BY <1>2, <1>4, <1>5, <1>6, <2>1
  <1>9. ASSUME NEW c \in Callers, Balance!EndRefresh(c) PROVE AskersOK'
    <2>1. CASE UNCHANGED asker
      BY <1>5, <2>1
    <2>2. CASE ~UNCHANGED asker
      <3> DEFINE marking == [asker[c] EXCEPT !.pc = "mark"]
      <3>1. asker' = [asker EXCEPT ![c] = Balance!Idle] \/ asker' = [asker EXCEPT ![c] = marking]
        BY <1>9, <2>2 DEF Balance!EndRefresh
      <3>2. marking \in AskerRec
        BY <1>1, <1>3
      <3> HIDE DEF marking
      <3> QED
        BY <1>2, <1>4, <3>1, <3>2
    <2> QED
      BY <2>1, <2>2
  <1>10. ASSUME NEW c \in Callers,
                Balance!StartProbe(c) \/ Balance!StopDispatch(c) \/ Balance!EndProbe(c)
         PROVE  AskersOK'
    BY <1>5, <1>10 DEF Balance!StartProbe, Balance!StopDispatch, Balance!EndProbe
  <1>11. ASSUME NEW a \in Accounts, Balance!Save(a) \/ Balance!Routed(a) \/ Balance!Age(a)
         PROVE  AskersOK'
    BY <1>5, <1>11 DEF Balance!Save, Balance!Routed, Balance!Age
  <1> QED
    BY <1>7, <1>8, <1>9, <1>10, <1>11 DEF Balance!Next, Balance!Work

\* Neither the gate nor a refresh is touched.
LEMMA SameGate == ASSUME GateOK, UNCHANGED <<saved, gate, job>> PROVE GateOK'
  BY DEF GateOK, InProgress

\* The gate, and who is behind it.
LEMMA GateStep ==
    ASSUME BalanceInv, Balance!Next
    PROVE  GateOK' /\ gate' \in {0, 1} /\ saved' \in [Accounts -> 1..MaxAccountRevision]
  <1> USE DEF BalanceInv
  <1>1. ASSUME NEW c \in Callers,
               Balance!Ask(c) \/ Balance!Leave(c) \/ Balance!RouteTimeout(c) \/ Balance!Mark(c)
        PROVE  UNCHANGED <<saved, gate, job>>
    BY <1>1 DEF Balance!Ask, Balance!AskByPage, Balance!AskByRoute, Balance!Leave,
         Balance!RouteTimeout, Balance!Mark
  <1>2. ASSUME NEW c \in Callers, Balance!Disconnect(c)
        PROVE  GateOK' /\ UNCHANGED <<saved, gate>>
    <2>1. CASE UNCHANGED job
      BY <1>2, <2>1, SameGate DEF Balance!Disconnect
    <2>2. CASE ~UNCHANGED job
      <3> DEFINE j == [job[c] EXCEPT !.gone = TRUE]
      <3>1. job' = [job EXCEPT ![c] = j] /\ UNCHANGED <<saved, gate>>
        BY <1>2, <2>2 DEF Balance!Disconnect
      <3>2. job[c] \in JobRec
        BY DEF GateOK
      <3>3. j \in JobRec /\ j.pc = job[c].pc /\ j.todo = job[c].todo
            /\ j.running = job[c].running
        BY <3>2, JobParts
      <3> HIDE DEF j
      <3>4. ~InProgress(c) => j.todo = {} /\ j.running = {}
        BY <3>3 DEF GateOK
      <3> QED
        BY <3>1, <3>3, <3>4, JobGoesOn DEF InProgress
    <2> QED
      BY <2>1, <2>2
  <1>3. ASSUME NEW c \in Callers, Balance!Enter(c)
        PROVE  GateOK' /\ gate' \in {0, 1} /\ UNCHANGED saved
    <2>1. Balance!Chosen(c) \subseteq Accounts
      BY DEF Balance!Chosen, AskersOK, AskerRec
    <2>2. gate' \in {0, 1} /\ UNCHANGED saved
      BY <1>3 DEF Balance!Enter
    <2> QED
      BY <1>3, <2>1, <2>2, EnterKeeps
  <1>4. ASSUME NEW c \in Callers, Balance!Work(c)
        PROVE  GateOK' /\ gate' \in {0, 1} /\ UNCHANGED saved
    BY <1>4, WorkKeeps DEF Balance!Work, Balance!StartProbe, Balance!StopDispatch,
         Balance!EndProbe, Balance!EndRefresh
  <1>5. ASSUME NEW a \in Accounts, Balance!Save(a)
        PROVE  GateOK' /\ UNCHANGED gate /\ saved' \in [Accounts -> 1..MaxAccountRevision]
    <2>1. MaxAccountRevision \in Nat
      BY BalanceAssumption
    <2>2. saved[a] + 1 \in 1..MaxAccountRevision /\ saved[a] + 1 \in Nat
      BY <1>5, <2>1 DEF Balance!Save
    <2> DEFINE next == saved[a] + 1
    <2>3. saved' = [saved EXCEPT ![a] = next] /\ UNCHANGED <<gate, job>>
      BY <1>5 DEF Balance!Save
    <2> HIDE DEF next
    <2>4. saved' \in [Accounts -> 1..MaxAccountRevision] /\ saved' \in [Accounts -> Nat]
      BY <2>2, <2>3 DEF GateOK, next
    <2> QED
      BY <2>3, <2>4 DEF GateOK, InProgress
  <1>6. ASSUME NEW a \in Accounts, Balance!Routed(a) \/ Balance!Age(a)
        PROVE  UNCHANGED <<saved, gate, job>>
    BY <1>6 DEF Balance!Routed, Balance!Age
  <1> QED
    BY <1>1, <1>2, <1>3, <1>4, <1>5, <1>6, SameGate DEF Balance!Next

\* The balances' own steps, and the usage reports'.
LEMMA BalanceStep ==
    ASSUME BalanceInv, [Next]_vars
    PROVE  BalanceInv' /\ BalancesSurvive
  <1>1. CASE RefreshBalance
    BY <1>1, BalancesStep, AskersStep, GateStep DEF RefreshBalance, BalanceInv
  <1>2. CASE UNCHANGED balanceVars
    <2>1. UNCHANGED <<saved, gate, job>> /\ UNCHANGED balance /\ UNCHANGED asker
      BY <1>2 DEF balanceVars
    <2> QED
      BY <2>1, SameGate, SameBalances DEF BalanceInv, AskersOK
  <1> QED
    BY <1>1, <1>2 DEF Next, vars, RefreshUsage

\* Nothing is known and nobody asks.
LEMMA BalanceInit == ASSUME Balance!Init PROVE BalanceInv
  <1>1. 1 \in 1..MaxAccountRevision
    BY BalanceAssumption
  <1>2. saved \in [Accounts -> 1..MaxAccountRevision] /\ saved \in [Accounts -> Nat]
    BY <1>1 DEF Balance!Init
  <1>3. BalanceOK(Balance!NeverChecked)
    BY DEF Balance!NeverChecked, BalanceOK, BalanceRec
  <1>4. BalancesOK
    BY <1>3 DEF Balance!Init, BalancesOK, BalanceOK
  <1>5. Balance!Idle \in AskerRec
    BY DEF Balance!Idle, AskerRec
  <1>6. AskersOK
    BY <1>5 DEF Balance!Init, AskersOK
  <1>7. GateOK /\ gate \in {0, 1}
    BY <1>2, FreshJob DEF Balance!Init, GateOK, InProgress
  <1> QED
    BY <1>2, <1>4, <1>6, <1>7 DEF BalanceInv

\* The invariant of the balances: the gate is closed for one refresh and for
\* nothing else, and what a balance says is consistent (balance.go,
\* acquireBalanceRefresh and applyBalance).
THEOREM BalanceInvariant == Spec => []BalanceInv
  <1>1. Init => BalanceInv
    BY BalanceInit DEF Init
  <1>2. BalanceInv /\ [Next]_vars => BalanceInv'
    BY BalanceStep
  <1> QED
    BY <1>1, <1>2, PTL DEF Spec

\* Two probes of one account never run at once, however many goroutines ask for
\* refreshes and give up waiting for them (balance.go, refreshBalanceAccounts).
THEOREM ChecksAreSingle == Spec => []OneCheckAtATime
  <1>1. BalanceInv => OneCheckAtATime
    BY DEF BalanceInv, GateOK, InProgress, OneCheckAtATime, Balance!OneCheckAtATime
  <1> QED
    BY <1>1, BalanceInvariant, PTL

\* No timeout, lost connection or bad moment of an upstream hides a balance
\* that is known (balance.go, mergeBalanceAttempt and markBalanceRouteTimeout).
THEOREM BalancesAreKept == Spec => KnownBalanceSurvives
  <1>1. BalanceInv /\ [Next]_vars
            => [\A a \in Accounts :
                   saved'[a] = saved[a] /\ balance[a].checked =>
                       /\ balance'[a].checked
                       /\ balance[a].status = "ok" /\ balance'[a].status # "ok"
                              => ~balance'[a].retryable]_(Balance!vars)
    BY BalanceStep DEF BalancesSurvive, Survives
  <1> QED
    BY <1>1, BalanceInvariant, PTL
       DEF Spec, KnownBalanceSurvives, Balance!KnownBalanceSurvives

\* Accounts, reports, balances and who asks are what the declarations say
\* (codex_usage.go and balance.go).
THEOREM TypeCorrect == Spec => []TypeOK
  <1>1. BalanceInv => Balance!TypeOK
    BY DEF BalanceInv, BalancesOK, BalanceOK, BalanceRec, AskersOK, AskerRec, Balance!TypeOK
  <1>2. UsageTypeOK /\ Balance!TypeOK => TypeOK
    BY DEF TypeOK
  <1> QED
    BY <1>1, <1>2, UsageBehaviours, UsageTypes, BalanceInvariant, PTL
=============================================================================
