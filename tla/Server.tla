------------------------------- MODULE Server -------------------------------
(***************************************************************************)
(* A server around its revisionWatcher: the lite-settings process, which   *)
(* connects, migrates and calls Server.Run, or another program that calls  *)
(* Start and mounts Handler in its own HTTP stack.  Run starts the poller, *)
(* listens, and stops both on a signal or when the listener fails.         *)
(***************************************************************************)
EXTENDS RevisionWatcher

CONSTANT Main   \* the goroutine of Run

ASSUME ServerAssumption == Main \in Stoppers

VARIABLES
    proc,      \* "embedded", or how far run and Server.Run have come
    failed,    \* net.Listen or Serve returned an error
    signalled  \* the context of signal.NotifyContext is done

process == <<proc, failed, signalled>>
svars   == <<vars, process>>

SInit ==
    /\ Init
    /\ proc \in {"embedded", "connect"}
    /\ failed = FALSE
    /\ signalled = FALSE

\* Start has been called.
Started == proc \notin {"connect", "migrate", "aborted"}

-----------------------------------------------------------------------------
\* run, before the server exists.

\* PingContext answers; --migrate is a flag.
Connect ==
    /\ proc = "connect"
    /\ proc' \in {"migrate", "listen"}
    /\ UNCHANGED <<vars, failed, signalled>>

MigrateSchema ==
    /\ proc = "migrate"
    /\ proc' = "listen"
    /\ UNCHANGED <<vars, failed, signalled>>

\* The database does not answer in time, or the signal cancels the dial; the
\* deferred stop ends the context.
Abort ==
    /\ proc \in {"connect", "migrate"}
    /\ proc' = "aborted"
    /\ ctxDone' = TRUE
    /\ UNCHANGED <<db, fields, poller, waiters, stop, failed, signalled>>

\* SIGINT or SIGTERM ends the contexts of run, of Run, of the poller and of every
\* request.
Signal ==
    /\ proc \notin {"embedded", "aborted", "returned"}
    /\ ~signalled
    /\ signalled' = TRUE
    /\ ctxDone' = TRUE
    /\ UNCHANGED <<db, fields, poller, waiters, stop, proc, failed>>

-----------------------------------------------------------------------------
\* Run.

Listen ==
    /\ proc = "listen"
    /\ proc' = "serve"
    /\ UNCHANGED <<vars, failed, signalled>>

\* Fault: Run returns the error of net.Listen and leaves the poller behind.
ListenFailsBare ==
    /\ proc = "listen"
    /\ proc' = "returned"
    /\ failed' = TRUE
    /\ UNCHANGED <<vars, signalled>>

ListenFails ==
    /\ proc = "listen"
    /\ proc' = "stopping"
    /\ failed' = TRUE
    /\ UNCHANGED <<vars, signalled>>

\* Fault: Run waits for its context only.
ServeFailsUnseen ==
    /\ proc = "serve"
    /\ ~failed
    /\ failed' = TRUE
    /\ UNCHANGED <<vars, proc, signalled>>

\* <-errCh
ServeFails ==
    /\ proc = "serve"
    /\ proc' = "stopping"
    /\ failed' = TRUE
    /\ UNCHANGED <<vars, signalled>>

\* <-ctx.Done()
ServeEnds ==
    /\ proc = "serve"
    /\ signalled
    /\ proc' = "stopping"
    /\ UNCHANGED <<vars, failed, signalled>>

\* stopWatcher, called by Run.
StopWatcher ==
    /\ proc = "stopping"
    /\ Stop(Main)
    /\ proc' = IF spc'[Main] # "stopped" THEN proc
               ELSE IF failed THEN "returned" ELSE "shutdown"
    /\ UNCHANGED <<failed, signalled>>

\* hs.Shutdown: the listener is closed and the last request is over ...
Shutdown ==
    /\ proc = "shutdown"
    /\ \A w \in Waiters : wpc[w] = "idle"
    /\ proc' = "returned"
    /\ UNCHANGED <<vars, failed, signalled>>

\* ... or ten seconds have passed.
ShutdownTimesOut ==
    /\ proc = "shutdown"
    /\ proc' = "returned"
    /\ UNCHANGED <<vars, failed, signalled>>

Startup == Connect \/ MigrateSchema \/ Abort

Run ==
    \/ Listen \/ ListenFails \/ ServeFails \/ ServeEnds
    \/ StopWatcher \/ Shutdown \/ ShutdownTimesOut

\* The listener accepts requests until Serve fails or Shutdown closes it.
Accepting == proc \in {"embedded", "serve", "stopping"} /\ ~failed

\* Another HTTP stack: the host ends its context or calls stop, twice perhaps.
Host == proc = "embedded" /\ (ParentDone \/ \E s \in Stoppers : Stop(s))

Requests(w) == Wait(w) \/ (Accepting /\ \E s \in -1 .. MaxRev : WaitEnter(w, s))

SNext ==
    \/ Startup \/ Signal \/ Run
    \/ DbMove /\ UNCHANGED process
    \/ Started /\ (Poll \/ Host \/ \E w \in Waiters : Requests(w)) /\ UNCHANGED process

SSpec == SInit /\ [][SNext]_svars

\* As in RevisionWatcher, for goroutines that Start has started; and run takes its
\* own steps, since Ping and Migrate have their own deadlines.  Neither the long
\* poll's timeout nor Shutdown's is assumed, but a request notices that its context
\* is done.
SFairness ==
    /\ WF_svars(Started /\ Poll /\ UNCHANGED process)
    /\ SF_svars(Started /\ PollAnswer /\ UNCHANGED process)
    /\ SF_svars(Started /\ PollExit /\ UNCHANGED process)
    /\ \A w \in Waiters :
          /\ WF_svars(WakeChanged(w) /\ UNCHANGED process)
          /\ WF_svars(WakeStopped(w) /\ UNCHANGED process)
          /\ WF_svars(signalled /\ WakeTimeout(w) /\ UNCHANGED process)
          /\ WF_svars(WaitReturn(w) /\ UNCHANGED process)
    /\ \A s \in Stoppers :
          /\ WF_svars(proc = "embedded" /\ StopCancel(s) /\ UNCHANGED process)
          /\ WF_svars(proc = "embedded" /\ StopReturn(s) /\ UNCHANGED process)
    /\ WF_svars(Startup)
    /\ WF_svars(Listen \/ ListenFails)
    /\ WF_svars(ServeEnds)
    /\ WF_svars(StopWatcher)
    /\ WF_svars(Shutdown)

SFairSpec == SSpec /\ SFairness

-----------------------------------------------------------------------------
\* Properties.

\* Run takes its poller with it on every way out, the errors of net.Listen and
\* Serve included: main closes the database next (main.go, the deferred Close), and
\* nobody queries it then.
ReturnedIsQuiet == proc = "returned" => ppc = "done"

\* A signal, whenever it arrives, or the failure of the listener brings the
\* process to its end: a stuck start-up is cancelled ("so Ctrl-C can cancel stuck
\* startup", main.go), and long polls in progress "do not delay graceful shutdown"
\* (server.go): it needs no timeout to expire.
RunReturns == (signalled \/ failed) ~> (proc \in {"aborted", "returned"})
=============================================================================
