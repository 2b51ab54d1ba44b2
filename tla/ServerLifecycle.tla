--------------------------- MODULE ServerLifecycle ---------------------------
(* How a serving process ends (server_lifecycle.go serveWithStopLoop): the    *)
(* tray or the headless loop, a signal and a failing listener, in any order;  *)
(* the goroutine that shuts the server down; and the handlers in flight.      *)
(* http.Server is external: Shutdown closes the listener and waits for the    *)
(* handlers, Close does not wait.                                             *)

CONSTANT Requests       \* goroutines of handlers

VARIABLES
    server,         \* Serve is "accepting", or has returned "closed" or "failed"
    stopRequested,  \* the channel is closed
    shutdown,       \* the goroutine of requestStop; "cut" once Close was called
    loop,           \* "running", or what it returned: "ok", "error"
    main,           \* where serveWithStopLoop is, in the end what it returns
    loopFailed,
    handlers        \* requests in flight

lifeVars == <<server, stopRequested, shutdown, loop, main, loopFailed, handlers>>

Init ==
    /\ server = "accepting" /\ stopRequested = FALSE /\ shutdown = "none"
    /\ loop = "running" /\ main = "loop" /\ loopFailed = FALSE
    /\ handlers = {}

\* The same for a process that starts again.
Reset ==
    /\ server' = "accepting" /\ stopRequested' = FALSE /\ shutdown' = "none"
    /\ loop' = "running" /\ main' = "loop" /\ loopFailed' = FALSE
    /\ handlers' = {}

ServerDone == server # "accepting"

ShutdownDone == shutdown \in {"done", "cut"}

\* A connection that is open brings requests when its listener is closed, too.
Arrive(r) ==
    /\ ~ShutdownDone /\ r \notin handlers
    /\ handlers' = handlers \union {r}
    /\ UNCHANGED <<server, stopRequested, shutdown, loop, main, loopFailed>>

Finish(r) ==
    /\ r \in handlers /\ handlers' = handlers \ {r}
    /\ UNCHANGED <<server, stopRequested, shutdown, loop, main, loopFailed>>

\* Accept returns an error that is not temporary.
ListenerFails ==
    /\ server = "accepting" /\ server' = "failed"
    /\ UNCHANGED <<stopRequested, shutdown, loop, main, loopFailed, handlers>>

\* requestStop: once; contexts of requests are canceled, then Shutdown.
RequestStop ==
    /\ stopRequested' = TRUE
    /\ shutdown' = IF stopRequested THEN shutdown ELSE "begun"

\* The tray's menu or a signal; their goroutines may notice it even when the
\* server has just ended by itself.
Quit ==
    /\ ~stopRequested /\ RequestStop
    /\ UNCHANGED <<server, loop, main, loopFailed, handlers>>

\* Shutdown closes the listener, and Serve returns ErrServerClosed.
CloseListener ==
    /\ shutdown = "begun" /\ shutdown' = "draining"
    /\ server' = IF ServerDone THEN server ELSE "closed"
    /\ UNCHANGED <<stopRequested, loop, main, loopFailed, handlers>>

Drained ==
    /\ shutdown = "draining" /\ handlers = {} /\ shutdown' = "done"
    /\ UNCHANGED <<server, stopRequested, loop, main, loopFailed, handlers>>

\* trayShutdownTimeout is over.
Cut ==
    /\ shutdown = "draining" /\ handlers # {} /\ shutdown' = "cut"
    /\ UNCHANGED <<server, stopRequested, loop, main, loopFailed, handlers>>

\* runHeadless, and runSystemTray once the tray has quit, return when the server
\* is done; the tray may end before, or panic.
LoopReturns ==
    /\ loop = "running"
    /\ loop' \in (IF ServerDone THEN {"ok", "error"} ELSE {"error"})
    /\ UNCHANGED <<server, stopRequested, shutdown, main, loopFailed, handlers>>

\* What follows the loop: unless it was asked to stop, the loop has failed.
AfterLoop ==
    /\ main = "loop" /\ loop # "running"
    /\ loopFailed' = (loop = "error" /\ ~stopRequested)
    /\ IF loopFailed' \/ ~ServerDone THEN RequestStop
       ELSE UNCHANGED <<stopRequested, shutdown>>
    /\ main' = "server"
    /\ UNCHANGED <<server, loop, handlers>>

\* Faulty: the shutdown is always waited for.
AfterServerWaits ==
    /\ main = "server" /\ ServerDone
    /\ main' = "shutdown"
    /\ UNCHANGED <<server, stopRequested, shutdown, loop, loopFailed, handlers>>

\* After <-serverDone: an error of the listener is returned at once, anything
\* else, and a failed loop, when the shutdown is over.
AfterServer ==
    /\ main = "server" /\ ServerDone
    /\ main' = IF server = "failed" /\ ~loopFailed THEN "error" ELSE "shutdown"
    /\ UNCHANGED <<server, stopRequested, shutdown, loop, loopFailed, handlers>>

AfterShutdown ==
    /\ main = "shutdown" /\ ShutdownDone
    /\ main' = IF server = "failed" \/ loopFailed THEN "error" ELSE "ok"
    /\ UNCHANGED <<server, stopRequested, shutdown, loop, loopFailed, handlers>>

Returned == main \in {"ok", "error"}

StopWork ==
    \/ CloseListener \/ Drained \/ Cut
    \/ AfterLoop \/ AfterServer \/ AfterShutdown
    \/ ServerDone /\ LoopReturns

LifeNext ==
    \/ \E r \in Requests : Arrive(r)
    \/ ListenerFails \/ Quit \/ LoopReturns
    \/ CloseListener \/ Drained \/ Cut
    \/ AfterLoop \/ AfterServer \/ AfterShutdown

-----------------------------------------------------------------------------
(* Properties.                                                               *)

LifeTypeOK ==
    /\ server \in {"accepting", "closed", "failed"} /\ stopRequested \in BOOLEAN
    /\ shutdown \in {"none", "begun", "draining", "done", "cut"}
    /\ loop \in {"running", "ok", "error"} /\ loopFailed \in BOOLEAN
    /\ main \in {"loop", "server", "shutdown", "ok", "error"}
    /\ handlers \subseteq Requests

\* The process was asked to stop, or cannot go on.
MustEnd == stopRequested \/ ServerDone \/ loop # "running"
=============================================================================
