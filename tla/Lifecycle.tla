----------------------------- MODULE Lifecycle -----------------------------
(***************************************************************************)
(* Start and stop of the two servers.  The control plane                   *)
(* (cmd/xisnove-server/serve.go) opens its database, starts the loops of   *)
(* the scheduler and of staleness, and listens.  When told to stop, or     *)
(* when it cannot listen, its deferred calls end the loops and then close  *)
(* the database.  In the UI server (ui/cmd/server/main.go) a goroutine     *)
(* waits for the signal, which may come before the server listens.         *)
(* net/http is external: Shutdown closes the listeners, waits for the      *)
(* handlers until its deadline, and makes every later Serve return.        *)
(***************************************************************************)
EXTENDS Integers

CONSTANT Handler     \* requests in progress at once

Loop == {"scheduler", "staleness"}

VARIABLES
  signalled,     \* SIGINT or SIGTERM has come
  command,       \* how far serveCommand is
  database,      \* "closed" or "open"
  loops,         \* the state of each loop
  server,        \* http.Server: "new", "listening", "failed" or "shut"
  running,       \* the handlers that run
  overdue,       \* did the 10 s of Shutdown pass?
  lifecycle,     \* the UI's: 0, 1 when it is ready, 2 when it stops
  run,           \* how far run is
  stopper,       \* how far its goroutine is
  uiServer       \* its http.Server

controlPlaneVars == <<command, database, loops, server, running, overdue>>
uiVars == <<lifecycle, run, stopper, uiServer>>
lifecycleVars == <<signalled, controlPlaneVars, uiVars>>

LifecycleInit ==
  /\ signalled = FALSE
  /\ command = "open" /\ database = "closed" /\ loops = [l \in Loop |-> "none"]
  /\ server = "new" /\ running = {} /\ overdue = FALSE
  /\ lifecycle = 0 /\ run = "listen" /\ stopper = "wait" /\ uiServer = "new"

Signal ==
  /\ ~ signalled /\ signalled' = TRUE
  /\ UNCHANGED <<controlPlaneVars, uiVars>>
-----------------------------------------------------------------------------
(* serveCommand                                                            *)

\* A command line that is refused, or a database that cannot be opened, ends it.
OpenDatabase ==
  /\ command = "open"
  /\ \/ database' = "open" /\ command' = "ready"
     \/ command' = "ended" /\ UNCHANGED database
  /\ UNCHANGED <<signalled, loops, server, running, overdue, uiVars>>

\* Not the exact schema version: only the database is deferred.
CheckReady ==
  /\ command = "ready"
  /\ command' \in {"start", "close"}
  /\ UNCHANGED <<signalled, database, loops, server, running, overdue, uiVars>>

StartLoops ==
  /\ command = "start" /\ command' = "serve"
  /\ loops' = [l \in Loop |-> "tick"]
  /\ UNCHANGED <<signalled, database, server, running, overdue, uiVars>>

ListenAndServe ==
  /\ command \in {"serve", "shutdown"} /\ server = "new"
  /\ server' \in {"listening", "failed"}
  /\ UNCHANGED <<signalled, command, database, loops, running, overdue, uiVars>>

\* The select: the signal, or the error of ListenAndServe.
StopServing ==
  /\ command = "serve"
  /\ \/ signalled /\ command' = "shutdown"
     \/ server = "failed" /\ command' = "wait"
  /\ UNCHANGED <<signalled, database, loops, server, running, overdue, uiVars>>

\* Shutdown: no new request; those that run have 10 s.
Shutdown ==
  /\ command = "shutdown" /\ server # "shut" /\ server' = "shut"
  /\ UNCHANGED <<signalled, command, database, loops, running, overdue, uiVars>>

ShutdownReturns ==
  /\ command = "shutdown" /\ server = "shut" /\ command' = "wait"
  /\ overdue' = (running # {})
  /\ UNCHANGED <<signalled, database, loops, server, running, uiVars>>

\* loops.Wait
LoopsEnded == \A l \in Loop : loops[l] = "ended"

WaitForLoops ==
  /\ command = "wait" /\ LoopsEnded
  /\ command' = "close"
  /\ UNCHANGED <<signalled, database, loops, server, running, overdue, uiVars>>

CloseDatabase ==
  /\ command = "close" /\ command' = "ended"
  /\ database' = "closed"
  /\ UNCHANGED <<signalled, loops, server, running, overdue, uiVars>>

\* Is the context of the loops done?
Stopped == signalled \/ command = "wait"

\* runScheduler and runStaleness: after a tick wait for the next or for the
\* end; with both there, either.
RunLoop(l) ==
  /\ \/ loops[l] = "tick" /\ loops' = [loops EXCEPT ![l] = "wait"]
     \/ loops[l] = "wait" /\ loops' = [loops EXCEPT ![l] = "tick"]
     \/ loops[l] = "wait" /\ Stopped /\ loops' = [loops EXCEPT ![l] = "ended"]
  /\ UNCHANGED <<signalled, command, database, server, running, overdue, uiVars>>

Handle(h) ==
  /\ \/ server = "listening" /\ h \notin running /\ running' = running \cup {h}
     \/ h \in running /\ running' = running \ {h}
  /\ command # "ended"
  /\ UNCHANGED <<signalled, command, database, loops, server, overdue, uiVars>>
-----------------------------------------------------------------------------
(* The UI server                                                           *)

Listen ==
  /\ run = "listen"
  /\ run' \in {"claim", "failed"}
  /\ UNCHANGED <<signalled, controlPlaneVars, lifecycle, stopper, uiServer>>

\* Mutant: the state is stored whatever it was.
StoreReady == lifecycle' = 1 /\ run' = "serve"

\* lifecycle.CompareAndSwap(0, 1)
SwapReady ==
  IF lifecycle = 0 THEN lifecycle' = 1 /\ run' = "serve"
                   ELSE UNCHANGED lifecycle /\ run' = "wait"

ClaimReady ==
  /\ run = "claim"
  /\ SwapReady
  /\ UNCHANGED <<signalled, controlPlaneVars, stopper, uiServer>>

ServeUI ==
  /\ run = "serve"
  /\ \/ uiServer = "new" /\ uiServer' = "listening" /\ UNCHANGED run
     \/ uiServer = "shut" /\ run' = "wait" /\ UNCHANGED uiServer      \* ErrServerClosed
     \/ uiServer = "listening" /\ run' = "failed" /\ UNCHANGED uiServer
  /\ UNCHANGED <<signalled, controlPlaneVars, lifecycle, stopper>>

\* The goroutine: withdraw readiness, shut down, close shutdownDone.
StopUI ==
  /\ run # "failed"
  /\ \/ stopper = "wait" /\ signalled /\ stopper' = "withdrawn" /\ lifecycle' = 2 /\ UNCHANGED uiServer
     \/ stopper = "withdrawn" /\ stopper' = "draining" /\ uiServer' = "shut" /\ UNCHANGED lifecycle
     \/ stopper = "draining" /\ stopper' = "done" /\ UNCHANGED <<lifecycle, uiServer>>
  /\ UNCHANGED <<signalled, controlPlaneVars, run>>

EndUI ==
  /\ run = "wait" /\ stopper = "done" /\ run' = "ended"
  /\ UNCHANGED <<signalled, controlPlaneVars, lifecycle, stopper, uiServer>>

LifecycleNext ==
  \/ Signal
  \/ OpenDatabase \/ CheckReady \/ StartLoops \/ ListenAndServe
  \/ StopServing \/ Shutdown \/ ShutdownReturns \/ WaitForLoops \/ CloseDatabase
  \/ \E l \in Loop : RunLoop(l)
  \/ \E h \in Handler : Handle(h)
  \/ Listen \/ ClaimReady \/ ServeUI \/ StopUI \/ EndUI

LifecycleSpec == LifecycleInit /\ [][LifecycleNext]_lifecycleVars
-----------------------------------------------------------------------------
(***************************************************************************)
(* Properties.                                                             *)
(***************************************************************************)
\* Whatever ends a server and whenever the signal comes: no tick of a loop
\* meets a closed database, a handler does only when its 10 s have passed, and
\* the UI, once it has withdrawn its readiness, never says again that it is
\* ready and returns only when it has shut down (the deferred calls of
\* serveCommand; CompareAndSwap and shutdownDone in run).
StopsInOrder ==
  [][/\ \A l \in Loop : loops[l] = "tick" => database = "open"
     /\ database = "open" /\ database' = "closed" => running = {} \/ overdue
     /\ lifecycle = 2 => lifecycle' = 2
     /\ run = "wait" /\ run' = "ended" => uiServer = "shut"]_lifecycleVars
=============================================================================
