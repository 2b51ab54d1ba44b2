---------------------------- MODULE RequestStats ----------------------------
(* The request counts and the goroutines that write them to disk              *)
(* (request_stats.go): the timer's, a handler that clears an account's counts, *)
(* and run before it returns.  The counts of all accounts are one number.     *)
EXTENDS Naturals

CONSTANTS
    Timers,     \* goroutines a timer starts
    Requests,   \* goroutines of handlers
    Main,       \* the goroutine of run
    MaxCount    \* bound

VARIABLES
    counts,     \* application.requestStats
    disk,       \* request-stats.dat
    dirty,      \* requestStatsDirty
    timer,      \* requestStatsTimer: "none", "armed", "fired"
    flush       \* flush[g]: where g is in flushRequestStats, and its snapshot

statsVars == <<counts, disk, dirty, timer, flush>>

Flushers == Timers \union Requests \union {Main}

Away == [pc |-> "away", snapshot |-> 0]

\* newApplication, after loadRequestStats.
Loaded(saved) ==
    /\ counts = saved /\ dirty = FALSE /\ timer = "none"
    /\ flush = [g \in Flushers |-> Away]

Init == disk = 0 /\ Loaded(disk)

\* The same for a process that starts again.
Reload ==
    /\ counts' = disk /\ dirty' = FALSE /\ timer' = "none"
    /\ flush' = [g \in Flushers |-> Away]
    /\ UNCHANGED disk

\* markRequestStatsDirtyLocked
MarkDirty ==
    /\ dirty' = TRUE
    /\ timer' = IF timer = "none" THEN "armed" ELSE timer

\* recordAccountRequest
Count ==
    /\ counts < MaxCount /\ counts' = counts + 1
    /\ MarkDirty
    /\ UNCHANGED <<disk, flush>>

\* pruneRequestStatsLocked, for an account that a save removes.
Prune ==
    /\ counts > 0 /\ counts' = 0
    /\ MarkDirty
    /\ UNCHANGED <<disk, flush>>

Enter(g) == flush[g].pc = "away" /\ flush' = [flush EXCEPT ![g].pc = "wait"]

\* handleAccountStatisticsClear
Clear(g) == counts' = 0 /\ MarkDirty /\ Enter(g) /\ UNCHANGED disk

\* The timer's second is over.
Fire(g) ==
    /\ timer = "armed" /\ timer' = "fired"
    /\ Enter(g)
    /\ UNCHANGED <<counts, disk, dirty>>

\* requestStatsWriteMu is free; what happens under application.mu.
Snapshot(g) ==
    /\ flush[g].pc = "wait" /\ \A h \in Flushers : flush[h].pc # "write"
    /\ timer' = "none" /\ dirty' = FALSE
    /\ flush' = [flush EXCEPT ![g] =
           IF dirty THEN [pc |-> "write", snapshot |-> counts]
           ELSE [Away EXCEPT !.pc = "done"]]
    /\ UNCHANGED <<counts, disk>>

\* Faulty: what could not be written is forgotten.
WriteForgetting(g) ==
    /\ flush[g].pc = "write"
    /\ \/ disk' = flush[g].snapshot /\ flush' = [flush EXCEPT ![g].pc = "done"]
       \/ disk' = disk /\ flush' = [flush EXCEPT ![g].pc = "failed"]
    /\ UNCHANGED <<counts, dirty, timer>>

\* The write, application.mu free.  saveProtectedJSON may fail before or after
\* the file is replaced.
Write(g) ==
    /\ flush[g].pc = "write"
    /\ \/ /\ disk' = flush[g].snapshot
          /\ flush' = [flush EXCEPT ![g].pc = "done"]
          /\ UNCHANGED <<dirty, timer>>
       \/ /\ disk' \in {disk, flush[g].snapshot}
          /\ flush' = [flush EXCEPT ![g].pc = "failed"]
          /\ MarkDirty
    /\ UNCHANGED counts

\* flushRequestStats has returned to a timer or to a handler.
Leave(g) ==
    /\ g # Main /\ flush[g].pc \in {"done", "failed"}
    /\ flush' = [flush EXCEPT ![g] = Away]
    /\ UNCHANGED <<counts, disk, dirty, timer>>

Work(g) == Snapshot(g) \/ Write(g) \/ Leave(g)

-----------------------------------------------------------------------------
(* Properties.                                                               *)

StatsTypeOK ==
    /\ {counts, disk} \subseteq 0..MaxCount
    /\ dirty \in BOOLEAN /\ timer \in {"none", "armed", "fired"}
    /\ flush \in [Flushers -> [pc : {"away", "wait", "write", "done", "failed"},
                               snapshot : 0..MaxCount]]

Writing(g) == flush[g].pc = "write"

\* What is on disk differs from the counts only while a flush is under way, or
\* a timer or a goroutine is going to begin one (request_stats.go:119).
CountsReachDisk ==
    /\ disk = counts \/ dirty \/ \E g \in Flushers : Writing(g)
    /\ dirty => timer = "armed" \/ \E g \in Flushers : flush[g].pc = "wait"
=============================================================================
