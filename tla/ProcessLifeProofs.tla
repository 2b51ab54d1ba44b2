-------------------------- MODULE ProcessLifeProofs --------------------------
(* ProcessLife for any number of handlers and timers and any bound of the     *)
(* counts.  Each component keeps its part of the invariant by itself; the      *)
(* last part is about the process as a whole: what the final flush has seen.   *)
EXTENDS ProcessLife, TLAPS

USE ProcessAssumption

\* An older configuration is about to be replaced only with a whole copy of it
\* at the backup's path, and a copy is written only where there was none.
BackupOK ==
    /\ phase # "starting" => step = "idle"
    /\ step = "save" /\ Config!Found => file.version # 5 \/ backup = "v5"
    /\ step = "copy" => backup = "part"

\* One goroutine writes; what it writes is what is counted, or a later count has
\* set dirty again; and a timer that has fired has a goroutine that will look.
FlushOK ==
    /\ \A g, h \in Stats!Flushers : Stats!Writing(g) /\ Stats!Writing(h) => g = h
    /\ \A g \in Stats!Flushers : Stats!Writing(g) => flush[g].snapshot = counts \/ dirty
    /\ disk = counts \/ dirty \/ \E g \in Stats!Flushers : Stats!Writing(g)
    /\ timer = "fired" => \E g \in Stats!Flushers : flush[g].pc = "wait"
    /\ dirty => timer # "none"

\* Shutdown runs once; when it has drained the handlers none can come.
DrainOK ==
    /\ shutdown # "none" => stopRequested
    /\ shutdown \in {"draining", "done", "cut"} => Life!ServerDone
    /\ shutdown = "done" => handlers = {}
    /\ main = "ok" => Life!ShutdownDone

\* The last flush of a process that ends well, its handlers drained: from its
\* snapshot on nothing is dirty, and when it is done no other goroutine writes.
FlushedOK ==
    main = "ok" /\ shutdown # "cut" =>
        /\ Stats!Writing(Main) => ~dirty /\ flush[Main].snapshot = counts
        /\ flush[Main].pc = "done" =>
              ~dirty /\ disk = counts /\ \A g \in Stats!Flushers : ~Stats!Writing(g)

EndOK ==
    /\ exit # "none" => phase = "off"
    /\ exit = "ok" /\ shutdown # "cut" => handlers = {} /\ disk = counts
    /\ phase = "flushing" => Life!Returned /\ FlushedOK

ProcessInv == TypeOK /\ BackupOK /\ FlushOK /\ DrainOK /\ EndOK
-----------------------------------------------------------------------------
(* The configuration and its backup.                                          *)

\* newApplication takes one step.
LEMMA ConfigStep ==
    ASSUME Config!ConfigTypeOK, BackupOK, phase = "starting", Config!Start,
           phase' = phase
    PROVE  Config!ConfigTypeOK' /\ BackupOK'
  <1> USE DEF Config!Start, Config!Found, Config!Upgrade, Config!TwoChannels, BackupOK
  <1>1. Config!Current \in Config!Files /\ Config!Current.version # 5
    BY DEF Config!Current, Config!Files, Config!configVersion
  <1>2. Config!Upgrade \in {"backup", "save"}
        /\ (Config!Upgrade = "save" /\ Config!Found => file.version # 5)
    OBVIOUS
  <1>3. CASE Config!Load
    BY <1>2, <1>3 DEF Config!Load, Config!ConfigTypeOK
  <1>4. CASE Config!LoadStats
    BY <1>2, <1>4 DEF Config!LoadStats, Config!ConfigTypeOK
  <1>5. CASE Config!Backup
    BY <1>5 DEF Config!Backup, Config!ConfigTypeOK
  <1>6. CASE Config!Copy
    BY <1>6 DEF Config!Copy, Config!ConfigTypeOK
  <1>7. CASE Config!Save
    BY <1>1, <1>7 DEF Config!Save, Config!ConfigTypeOK
  <1> QED
    BY <1>3, <1>4, <1>5, <1>6, <1>7

\* No step of newApplication, and no return to the old program, loses the only
\* copy of a configuration of version 5.
LEMMA CopyStays ==
    ASSUME Config!ConfigTypeOK, BackupOK, Config!Start \/ Config!Restore
    PROVE  /\ Config!Found /\ file.version = 5 /\ file' # file => backup' = "v5"
           /\ backup = "v5" => backup' = "v5"
  BY DEF Config!ConfigTypeOK, BackupOK, Config!Start, Config!Restore, Config!Load,
       Config!LoadStats, Config!Backup, Config!Copy, Config!Save, Config!Found

-----------------------------------------------------------------------------
(* The counts.                                                                *)

\* What one goroutine is doing.
Flushing == [pc : {"away", "wait", "write", "done", "failed"}, snapshot : 0..MaxCount]

LEMMA FlushTypes ==
    ASSUME Stats!StatsTypeOK
    PROVE  /\ counts \in 0..MaxCount /\ disk \in 0..MaxCount
           /\ dirty \in BOOLEAN /\ timer \in {"none", "armed", "fired"}
           /\ flush \in [Stats!Flushers -> Flushing]
  BY DEF Stats!StatsTypeOK, Flushing

\* recordAccountRequest and pruneRequestStatsLocked: the counts change, and
\* something will write them.
LEMMA CountKeepsFlush ==
    ASSUME Stats!StatsTypeOK, FlushOK, counts' \in 0..MaxCount, Stats!MarkDirty,
           UNCHANGED disk,
           \/ UNCHANGED flush
           \/ \E g \in Stats!Flushers : Stats!Enter(g)
    PROVE  Stats!StatsTypeOK' /\ FlushOK'
  <1> USE FlushTypes
  <1>1. dirty' /\ timer' \in {"armed", "fired"} /\ (timer' = "fired" => timer = "fired")
    BY DEF Stats!MarkDirty
  <1>2. /\ flush' \in [Stats!Flushers -> Flushing]
        /\ \A g \in Stats!Flushers :
              \/ flush'[g] = flush[g]
              \/ flush[g].pc = "away" /\ flush'[g].pc = "wait"
    BY DEF Stats!Enter, Flushing
  <1>3. Stats!StatsTypeOK'
    BY <1>1, <1>2 DEF Stats!StatsTypeOK, Flushing, Stats!MarkDirty
  <1>4. \A g \in Stats!Flushers : Stats!Writing(g)' <=> Stats!Writing(g)
    BY <1>2 DEF Stats!Writing
  <1> QED
    BY <1>1, <1>2, <1>3, <1>4 DEF FlushOK

\* The timer's goroutine takes over from the timer.
LEMMA FireKeepsFlush ==
    ASSUME Stats!StatsTypeOK, FlushOK, NEW g \in Stats!Flushers,
           Stats!Enter(g), UNCHANGED <<counts, disk, dirty>>,
           timer' = timer \/ (timer = "armed" /\ timer' = "fired")
    PROVE  Stats!StatsTypeOK' /\ FlushOK'
  <1> USE FlushTypes
  <1>1. /\ flush' \in [Stats!Flushers -> Flushing] /\ flush'[g].pc = "wait"
        /\ \A h \in Stats!Flushers :
              \/ flush'[h] = flush[h]
              \/ flush[h].pc = "away" /\ flush'[h].pc = "wait"
    BY DEF Stats!Enter, Flushing
  <1>2. Stats!StatsTypeOK'
    BY <1>1 DEF Stats!StatsTypeOK, Flushing
  <1>3. \A h \in Stats!Flushers : Stats!Writing(h)' <=> Stats!Writing(h)
    BY <1>1 DEF Stats!Writing
  <1>4. \A h \in Stats!Flushers : Stats!Writing(h)' => flush'[h] = flush[h]
    BY <1>1 DEF Stats!Writing
  <1> QED
    BY <1>1, <1>2, <1>3, <1>4 DEF FlushOK

\* flushRequestStats: the snapshot, the write, the return.
LEMMA WorkKeepsFlush ==
    ASSUME Stats!StatsTypeOK, FlushOK, NEW g \in Stats!Flushers, Stats!Work(g)
    PROVE  Stats!StatsTypeOK' /\ FlushOK'
  <1> USE FlushTypes
  <1>1. \A v \in Flushing :
           flush' = [flush EXCEPT ![g] = v] =>
              /\ flush' \in [Stats!Flushers -> Flushing] /\ flush'[g] = v
              /\ \A h \in Stats!Flushers \ {g} : flush'[h] = flush[h]
    OBVIOUS
  <1>2. CASE Stats!Snapshot(g)
    <2>1. /\ \A h \in Stats!Flushers : ~Stats!Writing(h)
          /\ timer' = "none" /\ dirty' = FALSE /\ UNCHANGED <<counts, disk>>
      BY <1>2 DEF Stats!Snapshot, Stats!Writing
    <2> DEFINE v == IF dirty THEN [pc |-> "write", snapshot |-> counts]
                    ELSE [Stats!Away EXCEPT !.pc = "done"]
    <2>2. /\ v \in Flushing /\ (v.pc = "write" => dirty /\ v.snapshot = counts)
          /\ v.pc = "write" \/ ~dirty
      BY DEF Flushing, Stats!Away
    <2>3. flush' = [flush EXCEPT ![g] = v]
      BY <1>2 DEF Stats!Snapshot
    <2> HIDE DEF v
    <2>4. /\ flush' \in [Stats!Flushers -> Flushing] /\ flush'[g] = v
          /\ \A h \in Stats!Flushers \ {g} : flush'[h] = flush[h]
      BY <1>1, <2>2, <2>3
    <2>5. Stats!StatsTypeOK'
      BY <2>1, <2>4 DEF Stats!StatsTypeOK, Flushing
    <2>6. \A h \in Stats!Flushers : Stats!Writing(h)' => h = g /\ v.pc = "write"
      BY <2>1, <2>4 DEF Stats!Writing
    <2>7. v.pc = "write" => Stats!Writing(g)'
      BY <2>4 DEF Stats!Writing
    <2> QED
      BY <2>1, <2>2, <2>4, <2>5, <2>6, <2>7 DEF FlushOK
  <1>3. CASE Stats!Write(g)
    <2>1. Stats!Writing(g) /\ UNCHANGED counts /\ flush[g] \in Flushing
      BY <1>3 DEF Stats!Write, Stats!Writing
    <2>2. PICK place \in {"done", "failed"} : flush' = [flush EXCEPT ![g].pc = place]
      BY <1>3 DEF Stats!Write
    <2> DEFINE v == [flush[g] EXCEPT !.pc = place]
    <2>3. v \in Flushing /\ v.pc = place
      BY <2>1 DEF Flushing
    <2>4. flush' = [flush EXCEPT ![g] = v]
      BY <2>2
    <2> HIDE DEF v
    <2>5. /\ flush' \in [Stats!Flushers -> Flushing] /\ flush'[g].pc = place
          /\ \A h \in Stats!Flushers \ {g} : flush'[h] = flush[h]
      BY <1>1, <2>3, <2>4
    <2>6. \A h \in Stats!Flushers : ~Stats!Writing(h)'
      BY <2>1, <2>5 DEF FlushOK, Stats!Writing
    <2>7. \A h \in Stats!Flushers : flush[h].pc = "wait" => flush'[h].pc = "wait"
      BY <2>1, <2>5 DEF Stats!Writing
    <2>8. \/ disk' = flush[g].snapshot /\ UNCHANGED <<dirty, timer>>
          \/ disk' \in {disk, flush[g].snapshot} /\ Stats!MarkDirty
      BY <1>3 DEF Stats!Write
    <2>9. flush[g].snapshot \in 0..MaxCount
      BY <2>1 DEF Flushing
    <2>10. Stats!StatsTypeOK'
      BY <2>1, <2>5, <2>8, <2>9 DEF Stats!StatsTypeOK, Flushing, Stats!MarkDirty
    <2>11. disk' = counts' \/ dirty'
      BY <2>1, <2>8 DEF FlushOK, Stats!MarkDirty
    <2>12. /\ timer' = "fired" => timer = "fired"
           /\ dirty' => timer' # "none"
      BY <2>8 DEF FlushOK, Stats!MarkDirty
    <2> QED
      BY <2>6, <2>7, <2>10, <2>11, <2>12 DEF FlushOK
  <1>4. CASE Stats!Leave(g)
    <2>1. /\ flush[g].pc \in {"done", "failed"} /\ UNCHANGED <<counts, disk, dirty, timer>>
          /\ flush' = [flush EXCEPT ![g] = Stats!Away]
      BY <1>4 DEF Stats!Leave
    <2>2. Stats!Away \in Flushing /\ Stats!Away.pc = "away"
      BY DEF Stats!Away, Flushing
    <2>3. /\ flush' \in [Stats!Flushers -> Flushing] /\ flush'[g].pc = "away"
          /\ \A h \in Stats!Flushers \ {g} : flush'[h] = flush[h]
      BY <1>1, <2>1, <2>2
    <2>4. Stats!StatsTypeOK'
      BY <2>1, <2>3 DEF Stats!StatsTypeOK, Flushing
    <2>5. \A h \in Stats!Flushers : Stats!Writing(h)' <=> Stats!Writing(h)
      BY <2>1, <2>3 DEF Stats!Writing
    <2>6. \A h \in Stats!Flushers : Stats!Writing(h)' => flush'[h] = flush[h]
      BY <2>1, <2>3 DEF Stats!Writing
    <2>7. \A h \in Stats!Flushers : flush[h].pc = "wait" => flush'[h].pc = "wait"
      BY <2>1, <2>3
    <2> QED
      BY <2>1, <2>4, <2>5, <2>6, <2>7 DEF FlushOK
  <1> QED
    BY <1>2, <1>3, <1>4 DEF Stats!Work

\* A process that starts counts from what is on disk.
LEMMA ReloadKeepsFlush ==
    ASSUME disk \in 0..MaxCount, Stats!Reload
    PROVE  Stats!StatsTypeOK' /\ FlushOK'
  <1>1. /\ flush' = [g \in Stats!Flushers |-> Stats!Away]
        /\ counts' = disk /\ disk' = disk /\ dirty' = FALSE /\ timer' = "none"
    BY DEF Stats!Reload
  <1>2. \A g \in Stats!Flushers : flush'[g].pc = "away" /\ flush'[g].snapshot = 0
    BY <1>1 DEF Stats!Away
  <1>3. Stats!StatsTypeOK'
    <2>1. Stats!Away \in Flushing
      BY DEF Stats!Away, Flushing
    <2>2. flush' \in [Stats!Flushers -> Flushing]
      BY <1>1, <2>1
    <2> QED
      BY <1>1, <2>2 DEF Stats!StatsTypeOK, Flushing
  <1> QED
    BY <1>1, <1>2, <1>3 DEF FlushOK, Stats!Writing

LEMMA SameFlush ==
    ASSUME Stats!StatsTypeOK, FlushOK, UNCHANGED statsVars
    PROVE  Stats!StatsTypeOK' /\ FlushOK'
  BY DEF statsVars, Stats!StatsTypeOK, FlushOK, Stats!Writing

-----------------------------------------------------------------------------
(* The end of a process.                                                      *)

\* serveWithStopLoop, its goroutines and the handlers.
LEMMA LifeStep ==
    ASSUME Life!LifeTypeOK, DrainOK,
           \/ Life!LifeNext \/ Life!Reset \/ UNCHANGED lifeVars
           \/ \E r \in Requests : Life!Finish(r)
    PROVE  Life!LifeTypeOK' /\ DrainOK'
  <1> USE DEF DrainOK, Life!ServerDone, Life!ShutdownDone, Life!LifeTypeOK
  <1>1. ASSUME NEW r \in Requests, Life!Arrive(r) \/ Life!Finish(r)
        PROVE  Life!LifeTypeOK' /\ DrainOK'
    BY <1>1 DEF Life!Arrive, Life!Finish
  <1>2. CASE Life!ListenerFails \/ Life!LoopReturns \/ Life!CloseListener
    BY <1>2 DEF Life!ListenerFails, Life!LoopReturns, Life!CloseListener
  <1>3. CASE Life!Quit
    BY <1>3 DEF Life!Quit, Life!RequestStop
  <1>4. CASE Life!Drained \/ Life!Cut
    BY <1>4 DEF Life!Drained, Life!Cut
  <1>5. CASE Life!AfterLoop
    BY <1>5 DEF Life!AfterLoop, Life!RequestStop
  <1>6. CASE Life!AfterServer \/ Life!AfterShutdown
    BY <1>6 DEF Life!AfterServer, Life!AfterShutdown
  <1>7. CASE Life!Reset \/ UNCHANGED lifeVars
    BY <1>7 DEF Life!Reset, lifeVars
  <1> QED
    BY <1>1, <1>2, <1>3, <1>4, <1>5, <1>6, <1>7 DEF Life!LifeNext

\* Once serveWithStopLoop has returned its result stands, and when that is "ok"
\* the shutdown's does too.
LEMMA ReturnStands ==
    ASSUME Life!LifeTypeOK, DrainOK, Life!Returned, Life!LifeNext
    PROVE  /\ main' = main
           /\ main = "ok" => shutdown' = shutdown
  BY DEF DrainOK, Life!ShutdownDone, Life!Returned, Life!LifeNext, Life!Arrive,
       Life!ListenerFails, Life!Quit, Life!LoopReturns, Life!CloseListener,
       Life!Drained, Life!Cut, Life!AfterLoop, Life!AfterServer, Life!AfterShutdown,
       Life!RequestStop

\* What the last flush has seen stays true: no handler is left to count, and
\* whoever writes after it writes nothing new.
LEMMA FlushedStays ==
    ASSUME Stats!StatsTypeOK, FlushOK, FlushedOK, UNCHANGED <<main, shutdown>>,
           \/ UNCHANGED statsVars
           \/ \E g \in Timers : Stats!Fire(g)
           \/ \E g \in Stats!Flushers : Stats!Work(g)
    PROVE  FlushedOK'
  <1> USE FlushTypes
  <1>0. SUFFICES ASSUME main = "ok", shutdown # "cut"
                 PROVE  /\ Stats!Writing(Main)' => ~dirty' /\ flush'[Main].snapshot = counts'
                        /\ flush'[Main].pc = "done" =>
                              /\ ~dirty' /\ disk' = counts'
                              /\ \A g \in Stats!Flushers : ~Stats!Writing(g)'
    BY DEF FlushedOK
  <1>1. Main \in Stats!Flushers
    BY DEF Stats!Flushers
  <1>2. CASE UNCHANGED statsVars
    BY <1>0, <1>2 DEF statsVars, FlushedOK, Stats!Writing
  <1>3. ASSUME NEW g \in Timers, Stats!Fire(g) PROVE FlushedOK'
    <2>1. UNCHANGED <<counts, disk, dirty>> /\ Stats!Enter(g) /\ g # Main
          /\ g \in Stats!Flushers
      BY <1>3 DEF Stats!Fire, Stats!Flushers
    <2>2. /\ flush'[Main] = flush[Main]
          /\ \A h \in Stats!Flushers : Stats!Writing(h)' <=> Stats!Writing(h)
      BY <1>1, <2>1 DEF Stats!Enter, Stats!Writing, Flushing
    <2> QED
      BY <1>1, <2>1, <2>2 DEF FlushedOK
  <1>4. ASSUME NEW g \in Stats!Flushers, Stats!Work(g) PROVE FlushedOK'
    <2>1. \A h \in Stats!Flushers \ {g} : flush'[h] = flush[h]
      BY <1>4 DEF Stats!Work, Stats!Snapshot, Stats!Write, Stats!Leave
    <2>2. CASE Stats!Snapshot(g)
      <3>1. /\ \A h \in Stats!Flushers : ~Stats!Writing(h)
            /\ dirty' = FALSE /\ UNCHANGED <<counts, disk>>
        BY <2>2 DEF Stats!Snapshot, Stats!Writing
      <3>2. CASE dirty
        <4>1. flush'[g].pc = "write" /\ flush'[g].snapshot = counts
          BY <2>2, <3>2 DEF Stats!Snapshot
        <4>2. g # Main => flush[Main].pc # "done"
          BY <1>0, <1>1, <3>2 DEF FlushedOK
        <4> QED
          BY <1>1, <2>1, <3>1, <4>1, <4>2 DEF FlushedOK, Stats!Writing
      <3>3. CASE ~dirty
        <4>1. flush'[g].pc = "done"
          BY <2>2, <3>3 DEF Stats!Snapshot, Stats!Away
        <4>2. \A h \in Stats!Flushers : ~Stats!Writing(h)'
          BY <2>1, <3>1, <4>1 DEF Stats!Writing
        <4>3. disk = counts
          BY <3>1, <3>3 DEF FlushOK
        <4> QED
          BY <1>1, <3>1, <4>2, <4>3 DEF FlushedOK
      <3> QED
        BY <3>2, <3>3
    <2>3. CASE Stats!Write(g)
      <3>1. Stats!Writing(g) /\ UNCHANGED counts
        BY <2>3 DEF Stats!Write, Stats!Writing
      <3>2. g # Main => flush[Main].pc # "done" /\ ~Stats!Writing(Main)
        BY <1>0, <1>1, <3>1 DEF FlushedOK, FlushOK
      <3>3. /\ flush'[g].pc \in {"done", "failed"}
            /\ flush'[g].pc = "done" =>
                  disk' = flush[g].snapshot /\ UNCHANGED dirty
        <4>1. /\ \A place : [flush[g] EXCEPT !.pc = place].pc = place
              /\ \A v : flush' = [flush EXCEPT ![g] = v] => flush'[g] = v
          BY FlushTypes DEF Flushing
        <4>2. \/ /\ disk' = flush[g].snapshot /\ UNCHANGED dirty
                 /\ flush' = [flush EXCEPT ![g] = [flush[g] EXCEPT !.pc = "done"]]
              \/ flush' = [flush EXCEPT ![g] = [flush[g] EXCEPT !.pc = "failed"]]
          BY <2>3 DEF Stats!Write
        <4> QED
          BY <4>1, <4>2
      <3>4. \A h \in Stats!Flushers : ~Stats!Writing(h)'
        BY <2>1, <3>1, <3>3 DEF FlushOK, Stats!Writing
      <3>5. CASE g # Main
        BY <1>1, <2>1, <3>2, <3>4, <3>5 DEF FlushedOK, Stats!Writing
      <3>6. CASE g = Main
        <4>1. ~dirty /\ flush[Main].snapshot = counts
          BY <1>0, <3>1, <3>6 DEF FlushedOK
        <4>2. flush'[Main].pc = "done" => disk' = flush[Main].snapshot /\ dirty' = dirty
          BY <3>3, <3>6
        <4> QED
          BY <1>1, <3>1, <3>4, <4>1, <4>2 DEF FlushedOK
      <3> QED
        BY <3>5, <3>6
    <2>4. CASE Stats!Leave(g)
      <3>1. g # Main /\ UNCHANGED <<counts, disk, dirty>> /\ flush'[g].pc = "away"
        BY <2>4 DEF Stats!Leave, Stats!Away
      <3>2. \A h \in Stats!Flushers : Stats!Writing(h)' => Stats!Writing(h)
        BY <2>1, <3>1 DEF Stats!Writing
      <3> QED
        BY <1>1, <2>1, <3>1, <3>2 DEF FlushedOK
    <2> QED
      BY <1>4, <2>2, <2>3, <2>4 DEF Stats!Work
  <1>5. main' = "ok" /\ shutdown' # "cut"
    BY <1>0
  <1>6. CASE FlushedOK'
    BY <1>5, <1>6 DEF FlushedOK
  <1> QED
    BY <1>2, <1>3, <1>4, <1>6

-----------------------------------------------------------------------------
(* The process.                                                               *)

LEMMA InitInv == Init => ProcessInv
  <1> SUFFICES ASSUME Init PROVE ProcessInv
    OBVIOUS
  <1>1. Config!ConfigTypeOK /\ BackupOK
    BY DEF Init, Config!Init, Config!ConfigTypeOK, BackupOK
  <1>2. /\ disk = 0 /\ counts = 0 /\ dirty = FALSE /\ timer = "none"
        /\ flush = [g \in Stats!Flushers |-> Stats!Away]
    BY DEF Init, Stats!Init, Stats!Loaded
  <1>3. Stats!StatsTypeOK /\ FlushOK
    <2>1. Stats!Away \in Flushing /\ Stats!Away.pc = "away"
      BY DEF Stats!Away, Flushing
    <2>2. flush \in [Stats!Flushers -> Flushing]
      BY <1>2, <2>1
    <2>3. \A g \in Stats!Flushers : ~Stats!Writing(g)
      BY <1>2, <2>1 DEF Stats!Writing
    <2>4. Stats!StatsTypeOK
      <3>1. {counts, disk} \subseteq 0..MaxCount
        BY <1>2
      <3>2. dirty \in BOOLEAN /\ timer \in {"none", "armed", "fired"}
        BY <1>2
      <3> QED
        BY <2>2, <3>1, <3>2 DEF Stats!StatsTypeOK, Flushing
    <2>5. FlushOK
      BY <1>2, <2>3 DEF FlushOK
    <2> QED
      BY <2>4, <2>5
  <1>4. Life!LifeTypeOK /\ DrainOK
    BY DEF Init, Life!Init, Life!LifeTypeOK, DrainOK
  <1>5. phase = "off" /\ exit = "none"
    BY DEF Init
  <1> QED
    BY <1>1, <1>3, <1>4, <1>5 DEF ProcessInv, TypeOK, EndOK

\* Every step of the process, and every crash, keeps the invariant.
LEMMA StepInv ==
    ASSUME ProcessInv, [Next]_vars
    PROVE  ProcessInv'
  <1> USE DEF ProcessInv
  <1>1. /\ phase \in {"off", "starting", "serving", "flushing"}
        /\ exit \in {"none", "ok", "error", "crash"}
        /\ Config!ConfigTypeOK /\ Stats!StatsTypeOK /\ Life!LifeTypeOK
        /\ BackupOK /\ FlushOK /\ DrainOK /\ EndOK
    BY DEF TypeOK
  <1>2. ASSUME phase' \in {"off", "starting", "serving", "flushing"},
               exit' \in {"none", "ok", "error", "crash"},
               Config!ConfigTypeOK', Stats!StatsTypeOK', Life!LifeTypeOK',
               BackupOK', FlushOK', DrainOK', EndOK'
        PROVE  ProcessInv'
    BY <1>2 DEF TypeOK
  <1>3. ASSUME UNCHANGED configVars, step = "idle" \/ phase' = phase
        PROVE  Config!ConfigTypeOK' /\ BackupOK'
    BY <1>1, <1>3 DEF configVars, Config!ConfigTypeOK, BackupOK, Config!Found
  <1>4. ASSUME UNCHANGED statsVars PROVE Stats!StatsTypeOK' /\ FlushOK'
    BY <1>1, <1>4, SameFlush
  <1>5. ASSUME UNCHANGED lifeVars PROVE Life!LifeTypeOK' /\ DrainOK'
    BY <1>1, <1>5, LifeStep
  <1>6. CASE Launch \/ Crash
    <2>1. /\ phase' \in {"off", "starting"} /\ exit' \in {"none", "crash"}
          /\ exit' # "none" => phase' = "off"
          /\ Stats!Reload /\ Life!Reset
      BY <1>6 DEF Launch, Crash, Fresh
    <2>2. Stats!StatsTypeOK' /\ FlushOK'
      BY <1>1, <2>1, ReloadKeepsFlush DEF Stats!StatsTypeOK
    <2>3. Life!LifeTypeOK' /\ DrainOK'
      BY <1>1, <2>1, LifeStep
    <2>4. Config!ConfigTypeOK' /\ BackupOK'
      <3>1. CASE Launch
        BY <1>1, <1>3, <3>1 DEF Launch, BackupOK
      <3>2. CASE Crash
        BY <1>1, <3>2 DEF Crash, Config!ConfigTypeOK, BackupOK
      <3> QED
        BY <1>6, <3>1, <3>2
    <2>5. EndOK'
      BY <2>1 DEF EndOK
    <2> QED
      BY <1>2, <2>1, <2>2, <2>3, <2>4, <2>5
  <1>7. CASE Starting
    <2>1. Config!ConfigTypeOK' /\ BackupOK'
      BY <1>1, <1>7, ConfigStep DEF Starting
    <2>2. EndOK'
      BY <1>1, <1>7 DEF Starting, EndOK
    <2> QED
      BY <1>1, <1>2, <1>4, <1>5, <1>7, <2>1, <2>2 DEF Starting
  <1>8. CASE Refused \/ Serve
    <2>1. /\ phase = "starting" /\ phase' \in {"off", "serving"} /\ step' = "idle"
          /\ exit' \in {exit, "error"} /\ (exit' # exit => phase' = "off")
          /\ UNCHANGED <<file, backup, statsVars, lifeVars>>
      BY <1>8 DEF Refused, Serve
    <2>2. Config!ConfigTypeOK' /\ BackupOK'
      BY <1>1, <2>1 DEF Config!ConfigTypeOK, BackupOK
    <2>3. EndOK'
      BY <1>1, <2>1 DEF EndOK
    <2> QED
      BY <1>1, <1>2, <1>4, <1>5, <2>1, <2>2, <2>3
  <1>9. CASE Control
    <2>1. Running /\ Life!LifeNext /\ UNCHANGED <<phase, exit, configVars, statsVars>>
      BY <1>9 DEF Control
    <2>2. Life!LifeTypeOK' /\ DrainOK'
      BY <1>1, <2>1, LifeStep
    <2>3. EndOK'
      <3>1. exit = "none"
        BY <1>1, <2>1 DEF EndOK, Running
      <3>2. ASSUME phase = "flushing" PROVE Life!Returned' /\ FlushedOK'
        <4>1. main' = main /\ (main = "ok" => shutdown' = shutdown)
          BY <1>1, <2>1, <3>2, ReturnStands DEF EndOK
        <4> QED
          BY <1>1, <2>1, <3>2, <4>1 DEF EndOK, FlushedOK, Life!Returned, statsVars,
               Stats!Writing
      <3> QED
        BY <2>1, <3>1, <3>2 DEF EndOK
    <2> QED
      BY <1>1, <1>2, <1>3, <1>4, <2>1, <2>2, <2>3
  <1>10. ASSUME NEW r \in Requests, Handle(r) PROVE ProcessInv'
    <2>1. Running /\ r \in handlers /\ UNCHANGED <<phase, exit, configVars>>
      BY <1>10 DEF Handle
    <2>2. exit = "none"
      BY <1>1, <2>1 DEF EndOK, Running
    <2>3. ~(main = "ok" /\ shutdown # "cut")
      BY <1>1, <2>1 DEF DrainOK, Life!ShutdownDone
    <2>4. CASE (Stats!Count \/ Stats!Prune \/ Stats!Clear(r)) /\ UNCHANGED lifeVars
      <3>1. r \in Stats!Flushers
        BY DEF Stats!Flushers
      <3>2. /\ counts' \in 0..MaxCount /\ Stats!MarkDirty /\ UNCHANGED disk
            /\ UNCHANGED flush \/ Stats!Enter(r)
        BY <1>1, <2>4, FlushTypes DEF Stats!Count, Stats!Prune, Stats!Clear
      <3>3. Stats!StatsTypeOK' /\ FlushOK'
        BY <1>1, <3>1, <3>2, CountKeepsFlush
      <3>4. EndOK'
        BY <1>1, <2>1, <2>2, <2>3, <2>4 DEF EndOK, FlushedOK, lifeVars, Life!Returned
      <3> QED
        BY <1>1, <1>2, <1>3, <1>5, <2>1, <2>4, <3>3, <3>4
    <2>5. CASE Life!Finish(r) /\ UNCHANGED statsVars
      <3>1. Life!LifeTypeOK' /\ DrainOK'
        BY <1>1, <2>5, LifeStep
      <3>2. EndOK'
        BY <1>1, <2>1, <2>2, <2>3, <2>5 DEF EndOK, FlushedOK, Life!Returned, Life!Finish
      <3> QED
        BY <1>1, <1>2, <1>3, <1>4, <2>1, <2>5, <3>1, <3>2
    <2> QED
      BY <1>10, <2>4, <2>5 DEF Handle
  <1>11. ASSUME \/ \E g \in Timers : Fire(g)
                \/ \E g \in Stats!Flushers : Flush(g)
         PROVE  ProcessInv'
    <2>1. /\ Running /\ UNCHANGED <<phase, exit, configVars, lifeVars>>
          /\ \/ \E g \in Timers : Stats!Fire(g)
             \/ \E g \in Stats!Flushers : Stats!Work(g)
      BY <1>11 DEF Fire, Flush
    <2>2. Stats!StatsTypeOK' /\ FlushOK'
      <3>1. ASSUME NEW g \in Timers, Stats!Fire(g) PROVE Stats!StatsTypeOK' /\ FlushOK'
        <4>1. g \in Stats!Flushers
          BY DEF Stats!Flushers
        <4>2. /\ Stats!Enter(g) /\ UNCHANGED <<counts, disk, dirty>>
              /\ timer = "armed" /\ timer' = "fired"
          BY <3>1 DEF Stats!Fire
        <4> QED
          BY <1>1, <4>1, <4>2, FireKeepsFlush
      <3> QED
        BY <1>1, <2>1, <3>1, WorkKeepsFlush
    <2>3. exit = "none"
      BY <1>1, <2>1 DEF EndOK, Running
    <2>4. phase = "flushing" => Life!Returned' /\ FlushedOK'
      BY <1>1, <2>1, FlushedStays DEF EndOK, lifeVars, Life!Returned
    <2>5. EndOK'
      BY <2>1, <2>3, <2>4 DEF EndOK
    <2> QED
      BY <1>1, <1>2, <1>3, <1>5, <2>1, <2>2, <2>5
  <1>12. CASE LastFlush
    <2>1. /\ phase = "serving" /\ Life!Returned /\ phase' = "flushing"
          /\ Stats!Enter(Main)
          /\ UNCHANGED <<exit, configVars, counts, disk, dirty, timer, lifeVars>>
      BY <1>12 DEF LastFlush
    <2>2. Main \in Stats!Flushers
      BY DEF Stats!Flushers
    <2>3. Stats!StatsTypeOK' /\ FlushOK'
      BY <1>1, <2>1, <2>2, FireKeepsFlush
    <2>4. flush'[Main].pc = "wait"
      BY <1>1, <2>1, <2>2, FlushTypes DEF Stats!Enter, Flushing
    <2>5. EndOK'
      BY <1>1, <2>1, <2>4 DEF EndOK, FlushedOK, Stats!Writing, lifeVars, Life!Returned
    <2>6. Config!ConfigTypeOK' /\ BackupOK'
      BY <1>1, <1>3, <2>1 DEF BackupOK
    <2> QED
      BY <1>1, <1>2, <1>5, <2>1, <2>3, <2>5, <2>6
  <1>13. CASE Exit
    <2>1. /\ phase = "flushing" /\ phase' = "off"
          /\ exit' = IF main = "ok" /\ flush[Main].pc = "done" THEN "ok" ELSE "error"
          /\ UNCHANGED <<configVars, statsVars, lifeVars>>
      BY <1>13 DEF Exit
    <2>2. exit' = "ok" /\ shutdown # "cut" => handlers = {} /\ disk = counts
      BY <1>1, <2>1 DEF EndOK, FlushedOK, DrainOK, Life!ShutdownDone
    <2>3. EndOK'
      BY <2>1, <2>2 DEF EndOK, lifeVars, statsVars
    <2>4. Config!ConfigTypeOK' /\ BackupOK'
      BY <1>1, <1>3, <2>1 DEF BackupOK
    <2> QED
      BY <1>2, <1>4, <1>5, <2>1, <2>3, <2>4
  <1>14. CASE Restore
    <2>1. /\ phase = "off" /\ Config!Restore
          /\ UNCHANGED <<phase, exit, statsVars, lifeVars>>
      BY <1>14 DEF Restore
    <2>2. Config!ConfigTypeOK' /\ BackupOK'
      BY <1>1, <2>1 DEF Config!Restore, Config!ConfigTypeOK, Config!Files, BackupOK
    <2>3. EndOK'
      BY <1>1, <2>1 DEF EndOK, statsVars, lifeVars
    <2> QED
      BY <1>1, <1>2, <1>4, <1>5, <2>1, <2>2, <2>3
  <1>15. CASE UNCHANGED vars
    <2>1. UNCHANGED <<phase, exit, configVars, statsVars, lifeVars>>
      BY <1>15 DEF vars
    <2>2. EndOK'
      BY <1>1, <2>1 DEF EndOK, FlushedOK, Life!Returned, statsVars, lifeVars,
           Stats!Writing
    <2> QED
      BY <1>1, <1>2, <1>3, <1>4, <1>5, <2>1, <2>2
  <1> QED
    BY <1>6, <1>7, <1>8, <1>9, <1>10, <1>11, <1>12, <1>13, <1>14, <1>15 DEF Next

\* The invariant of a process, from the reading of its file to its exit.
THEOREM Invariance == Spec => []ProcessInv
  <1>1. Init => ProcessInv
    BY InitInv
  <1>2. ProcessInv /\ [Next]_vars => ProcessInv'
    BY StepInv
  <1> QED
    BY <1>1, <1>2, PTL DEF Spec

\* Files, counts, goroutines and the server keep their types.
THEOREM TypeCorrect == Spec => []TypeOK
  <1>1. ProcessInv => TypeOK
    BY DEF ProcessInv
  <1> QED
    BY <1>1, Invariance, PTL

\* A count is on disk or on its way there as long as a process runs, and one
\* that ends well has written all of them.
THEOREM CountsAreWritten == Spec => []NothingIsLost
  <1>1. ProcessInv => NothingIsLost
    BY FlushTypes DEF ProcessInv, TypeOK, FlushOK, EndOK, NothingIsLost,
         Stats!CountsReachDisk
  <1> QED
    BY <1>1, Invariance, PTL

\* Through crashes, failing writes and returns to the old program a whole copy
\* of the old configuration is kept.
THEOREM BackupIsKept == Spec => OldIsKept
  <1>1. ASSUME ProcessInv, [Next]_vars
        PROVE  [/\ Config!Found /\ file.version = 5 /\ file' # file => backup' = "v5"
                /\ backup = "v5" => backup' = "v5"]_configVars
    <2>1. CASE Starting \/ Restore
      BY <1>1, <2>1, CopyStays DEF ProcessInv, TypeOK, Starting, Restore
    <2>2. CASE ~(Starting \/ Restore)
      <3>1. UNCHANGED <<file, backup>>
        BY <1>1, <2>2 DEF Next, Launch, Refused, Serve, Control, LastFlush, Exit, Crash,
             Handle, Fire, Flush, configVars, vars
      <3> QED
        BY <3>1
    <2> QED
      BY <2>1, <2>2
  <1> QED
    BY <1>1, Invariance, PTL DEF Spec, OldIsKept, Config!OldIsKept, configVars,
         Config!configVars

=============================================================================
