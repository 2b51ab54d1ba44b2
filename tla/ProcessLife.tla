----------------------------- MODULE ProcessLife -----------------------------
(* The life of a process, and of those that start after it (main.go run): the *)
(* configuration is loaded and perhaps upgraded, the counts are read, requests *)
(* are served and counted, the process is stopped, the counts are written one  *)
(* last time; a crash may come at any moment.  listenAddress is bound first,   *)
(* and here a process starts only when the one before has ended: that a new    *)
(* one may bind it while the old one still drains and writes is left out.      *)
EXTENDS Naturals

CONSTANTS Timers, Requests, Main, None, MaxCount

ASSUME ProcessAssumption ==
    /\ MaxCount \in Nat \ {0}
    /\ Timers \intersect Requests = {} /\ Main \notin Timers \union Requests
    /\ None \notin {"part", "v5"}

VARIABLES
    phase,      \* "off", "starting", "serving", "flushing"
    exit,       \* how the last process ended: "none", "ok", "error", "crash"
    file, backup, step,                                             \* ConfigFile
    counts, disk, dirty, timer, flush,                            \* RequestStats
    server, stopRequested, shutdown, loop, main, loopFailed, handlers
                                                               \* ServerLifecycle

Config == INSTANCE ConfigFile
Stats == INSTANCE RequestStats
Life == INSTANCE ServerLifecycle

configVars == <<file, backup, step>>
statsVars == <<counts, disk, dirty, timer, flush>>
lifeVars == <<server, stopRequested, shutdown, loop, main, loopFailed, handlers>>
vars == <<phase, exit, configVars, statsVars, lifeVars>>

Init ==
    /\ phase = "off" /\ exit = "none"
    /\ Config!Init /\ Stats!Init /\ Life!Init

\* The memory of a process is gone; the next one's begins with what
\* loadRequestStats finds.
Fresh == Stats!Reload /\ Life!Reset

Launch ==
    /\ phase = "off" /\ phase' = "starting" /\ exit' = "none"
    /\ Fresh
    /\ UNCHANGED configVars

\* newApplication
Starting ==
    /\ phase = "starting" /\ Config!Start
    /\ UNCHANGED <<phase, exit, statsVars, lifeVars>>

Refused ==
    /\ phase = "starting" /\ step = "refused"
    /\ phase' = "off" /\ exit' = "error" /\ step' = "idle"
    /\ UNCHANGED <<file, backup, statsVars, lifeVars>>

Serve ==
    /\ phase = "starting" /\ step = "loaded"
    /\ phase' = "serving" /\ step' = "idle"
    /\ UNCHANGED <<exit, file, backup, statsVars, lifeVars>>

\* Up to the moment it ends a process runs its handlers and its timers.
Running == phase \in {"serving", "flushing"}

Control ==
    /\ Running /\ Life!LifeNext
    /\ UNCHANGED <<phase, exit, configVars, statsVars>>

\* A handler counts its request, removes an account, clears its counts, or ends.
Handle(r) ==
    /\ Running /\ r \in handlers /\ flush[r].pc = "away"
    /\ \/ (Stats!Count \/ Stats!Prune \/ Stats!Clear(r)) /\ UNCHANGED lifeVars
       \/ Life!Finish(r) /\ UNCHANGED statsVars
    /\ UNCHANGED <<phase, exit, configVars>>

Fire(g) ==
    /\ Running /\ Stats!Fire(g)
    /\ UNCHANGED <<phase, exit, configVars, lifeVars>>

Flush(g) ==
    /\ Running /\ Stats!Work(g)
    /\ UNCHANGED <<phase, exit, configVars, lifeVars>>

\* serve has returned.
LastFlush ==
    /\ phase = "serving" /\ Life!Returned
    /\ phase' = "flushing" /\ Stats!Enter(Main)
    /\ UNCHANGED <<exit, configVars, counts, disk, dirty, timer, lifeVars>>

Exit ==
    /\ phase = "flushing" /\ flush[Main].pc \in {"done", "failed"}
    /\ phase' = "off"
    /\ exit' = IF main = "ok" /\ flush[Main].pc = "done" THEN "ok" ELSE "error"
    /\ UNCHANGED <<configVars, statsVars, lifeVars>>

Crash ==
    /\ phase # "off" /\ phase' = "off" /\ exit' = "crash" /\ step' = "idle"
    /\ Fresh
    /\ UNCHANGED <<file, backup>>

Restore ==
    /\ phase = "off" /\ Config!Restore
    /\ UNCHANGED <<phase, exit, statsVars, lifeVars>>

Next ==
    \/ Launch \/ Starting \/ Refused \/ Serve
    \/ Control \/ LastFlush \/ Exit \/ Crash \/ Restore
    \/ \E r \in Requests : Handle(r)
    \/ \E g \in Timers : Fire(g)
    \/ \E g \in Stats!Flushers : Flush(g)

\* Writes and goroutines go on, and a waiting goroutine gets a sync.Mutex in the
\* end, however often others ask for it; Shutdown has a time limit, and the tray
\* returns after the server.  Handlers may take for ever.
Fairness ==
    /\ WF_vars(Control /\ Life!StopWork)
    /\ WF_vars(LastFlush) /\ WF_vars(Exit)
    /\ \A g \in Stats!Flushers : SF_vars(Flush(g))

Spec == Init /\ [][Next]_vars /\ Fairness

-----------------------------------------------------------------------------
(* Properties.                                                               *)

TypeOK ==
    /\ phase \in {"off", "starting", "serving", "flushing"}
    /\ exit \in {"none", "ok", "error", "crash"}
    /\ Config!ConfigTypeOK /\ Stats!StatsTypeOK /\ Life!LifeTypeOK

\* While a process runs every count is on disk or on its way there
\* (CountsReachDisk); and one that ends well, its handlers not cut off, has
\* written every count it ever made (main.go:101, server_lifecycle.go:90).
NothingIsLost ==
    /\ Running => Stats!CountsReachDisk
    /\ exit = "ok" /\ shutdown # "cut" => handlers = {} /\ disk = counts

\* See ConfigFile.
OldIsKept == Config!OldIsKept

\* However a stop, a failing listener and a failing tray meet, the process ends:
\* nobody waits for a channel that nobody closes (server_lifecycle.go:42).
ShutdownEnds == Running /\ Life!MustEnd ~> phase = "off"
=============================================================================
