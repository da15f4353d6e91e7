-------------------------- MODULE RevisionWatcher --------------------------
(***************************************************************************)
(* server.revisionWatcher: one goroutine polls the database watermark and  *)
(* broadcasts its moves to the goroutines of the long polls by closing a   *)
(* channel and putting a new one in its place; Server.Start wraps it with  *)
(* an idempotent stop.  Every action is one critical section of mu, one    *)
(* channel operation or one database answer.                               *)
(***************************************************************************)
EXTENDS Integers

CONSTANTS
    Waiters,   \* goroutines of long-poll requests
    Stoppers,  \* callers of the stop function Start returned
    MaxRev,    \* bound on the database's revision
    MaxMoves   \* bound on how often the database's revision moves

ASSUME WatcherAssumption == MaxRev \in Nat /\ MaxMoves \in Nat

VARIABLES
    \* The database, as the heartbeat query sees it.
    dbRev,    \* lite_config_meta.revision
    moves,    \* how often it moved
    \* revisionWatcher's fields; stop is closed exactly when closed is set.
    rev,      \* -1 before the first successful poll
    chan,     \* the channel in changed; those numbered lower are closed
    ready,
    dbErr,    \* the last poll failed
    closed,
    \* The goroutine of run, and the context Start derived for it.
    ppc,      \* "query", "set", "select" or "done"
    answer,   \* the revision the heartbeat returned
    ctxDone,
    \* Each waiter's call of Wait.
    wpc,      \* "idle", "blocked" in the select, "changed" or "ended" after it
    since,
    wchan,    \* the channel it read from changed
    \* The stop function.
    once,     \* the state of its sync.OnceFunc
    spc       \* each stopper: "idle", "closed", "cancelled" or "stopped"

db      == <<dbRev, moves>>
fields  == <<rev, chan, ready, dbErr, closed>>
poller  == <<ppc, answer>>
waiters == <<wpc, since, wchan>>
stop    == <<once, spc>>
vars    == <<db, fields, poller, ctxDone, waiters, stop>>

Init ==
    /\ dbRev \in 0 .. MaxRev
    /\ moves = 0
    /\ rev = -1
    /\ chan = 0
    /\ ready = FALSE
    /\ dbErr = FALSE
    /\ closed = FALSE
    /\ ppc = "query"
    /\ answer = 0
    /\ ctxDone = FALSE
    /\ wpc = [w \in Waiters |-> "idle"]
    /\ since = [w \in Waiters |-> -1]
    /\ wchan = [w \in Waiters |-> 0]
    /\ once = "new"
    /\ spc = [s \in Stoppers |-> "idle"]

\* A write commits, or the database is restored from a backup.
DbMove ==
    /\ moves < MaxMoves
    /\ moves' = moves + 1
    /\ dbRev' \in {r \in 0 .. MaxRev : r = dbRev + 1 \/ r < dbRev}
    /\ UNCHANGED <<fields, poller, ctxDone, waiters, stop>>

-----------------------------------------------------------------------------
\* The poller.

\* The heartbeat answers; the database may move again before set.
PollAnswer ==
    /\ ppc = "query"
    /\ answer' = dbRev
    /\ ppc' = "set"
    /\ UNCHANGED <<db, fields, ctxDone, waiters, stop>>

\* The heartbeat fails or times out: setErr, unless the context ended.
PollError ==
    /\ ppc = "query"
    /\ dbErr' = (dbErr \/ ~ctxDone)
    /\ ppc' = "select"
    /\ UNCHANGED <<db, rev, chan, ready, closed, answer, ctxDone, waiters, stop>>

\* Fault: only a move forward closes the channel.
SetClosingForward(r) ==
    /\ ready' = TRUE
    /\ dbErr' = FALSE
    /\ rev' = r
    /\ chan' = IF r > rev THEN chan + 1 ELSE chan
    /\ UNCHANGED closed

\* Fault: a watermark that moved backwards is ignored.
SetForward(r) ==
    /\ ready' = TRUE
    /\ dbErr' = FALSE
    /\ rev' = IF r > rev THEN r ELSE rev
    /\ chan' = IF r > rev THEN chan + 1 ELSE chan
    /\ UNCHANGED closed

\* set: records the watermark; a move closes changed and replaces it.
Set(r) ==
    /\ ready' = TRUE
    /\ dbErr' = FALSE
    /\ rev' = r
    /\ chan' = IF rev = r THEN chan ELSE chan + 1
    /\ UNCHANGED closed

PollSet ==
    /\ ppc = "set"
    /\ Set(answer)
    /\ ppc' = "select"
    /\ UNCHANGED <<db, answer, ctxDone, waiters, stop>>

\* The ticker fires; select may prefer it to a context that is done as well.
Tick ==
    /\ ppc = "select"
    /\ ppc' = "query"
    /\ UNCHANGED <<db, fields, answer, ctxDone, waiters, stop>>

\* Fault: run returns without Close.
PollExitOpen ==
    /\ ppc = "select"
    /\ ctxDone
    /\ ppc' = "done"
    /\ UNCHANGED <<db, fields, answer, ctxDone, waiters, stop>>

\* The context is done: run returns, and its deferred Close releases everyone.
PollExit ==
    /\ ppc = "select"
    /\ ctxDone
    /\ closed' = TRUE
    /\ ppc' = "done"
    /\ UNCHANGED <<db, rev, chan, ready, dbErr, answer, ctxDone, waiters, stop>>

-----------------------------------------------------------------------------
\* The waiters.

\* Wait(since): under mu, return at once or read rev and changed together.
\* Returning ends the call; what it returns is WaitResult's business.
WaitEnter(w, s) ==
    /\ wpc[w] = "idle"
    /\ since' = [since EXCEPT ![w] = s]
    /\ wchan' = [wchan EXCEPT ![w] = chan]
    /\ wpc' = [wpc EXCEPT ![w] = IF s < 0 \/ rev # s THEN "changed" ELSE "blocked"]
    /\ UNCHANGED <<db, fields, poller, ctxDone, stop>>

\* <-ch: the channel it holds has been closed.
WakeChanged(w) ==
    /\ wpc[w] = "blocked"
    /\ wchan[w] < chan
    /\ wpc' = [wpc EXCEPT ![w] = "changed"]
    /\ UNCHANGED <<db, fields, poller, ctxDone, since, wchan, stop>>

\* <-w.stop
WakeStopped(w) ==
    /\ wpc[w] = "blocked"
    /\ closed
    /\ wpc' = [wpc EXCEPT ![w] = "ended"]
    /\ UNCHANGED <<db, fields, poller, ctxDone, since, wchan, stop>>

\* <-ctx.Done(): the long poll timed out or its client went away.
WakeTimeout(w) ==
    /\ wpc[w] = "blocked"
    /\ wpc' = [wpc EXCEPT ![w] = "ended"]
    /\ UNCHANGED <<db, fields, poller, ctxDone, since, wchan, stop>>

\* current(), and the handler goes its way.
WaitReturn(w) ==
    /\ wpc[w] \in {"changed", "ended"}
    /\ wpc' = [wpc EXCEPT ![w] = "idle"]
    /\ since' = [since EXCEPT ![w] = -1]
    /\ wchan' = [wchan EXCEPT ![w] = 0]
    /\ UNCHANGED <<db, fields, poller, ctxDone, stop>>

-----------------------------------------------------------------------------
\* Stopping.

\* The context handed to Start ends, without anyone calling stop.
ParentDone ==
    /\ ~ctxDone
    /\ ctxDone' = TRUE
    /\ UNCHANGED <<db, fields, poller, waiters, stop>>

\* The first caller of stop runs the OnceFunc: Close first ...
StopClose(s) ==
    /\ spc[s] = "idle"
    /\ once = "new"
    /\ once' = "running"
    /\ closed' = TRUE
    /\ spc' = [spc EXCEPT ![s] = "closed"]
    /\ UNCHANGED <<db, rev, chan, ready, dbErr, poller, ctxDone, waiters>>

\* Fault: stop closes the watcher and leaves the context alone.
StopCancelNothing(s) ==
    /\ spc[s] = "closed"
    /\ once' = "done"
    /\ spc' = [spc EXCEPT ![s] = "cancelled"]
    /\ UNCHANGED <<db, fields, poller, ctxDone, waiters>>

\* ... then cancel.
StopCancel(s) ==
    /\ spc[s] = "closed"
    /\ once' = "done"
    /\ ctxDone' = TRUE
    /\ spc' = [spc EXCEPT ![s] = "cancelled"]
    /\ UNCHANGED <<db, fields, poller, waiters>>

\* Any other caller waits for the OnceFunc to be done.
StopAgain(s) ==
    /\ spc[s] = "idle"
    /\ once = "done"
    /\ spc' = [spc EXCEPT ![s] = "cancelled"]
    /\ UNCHANGED <<db, fields, poller, ctxDone, waiters, once>>

\* Fault: stop does not wait for the poller.
StopReturnEarly(s) ==
    /\ spc[s] = "cancelled"
    /\ spc' = [spc EXCEPT ![s] = "stopped"]
    /\ UNCHANGED <<db, fields, poller, ctxDone, waiters, once>>

\* <-done: the poller has returned.
StopReturn(s) ==
    /\ spc[s] = "cancelled"
    /\ ppc = "done"
    /\ spc' = [spc EXCEPT ![s] = "stopped"]
    /\ UNCHANGED <<db, fields, poller, ctxDone, waiters, once>>

Poll == PollAnswer \/ PollError \/ PollSet \/ Tick \/ PollExit

Wait(w) ==
    WakeChanged(w) \/ WakeStopped(w) \/ WakeTimeout(w) \/ WaitReturn(w)

Stop(s) == StopClose(s) \/ StopCancel(s) \/ StopAgain(s) \/ StopReturn(s)

Next ==
    \/ DbMove
    \/ Poll
    \/ ParentDone
    \/ \E w \in Waiters : Wait(w) \/ \E s \in -1 .. MaxRev : WaitEnter(w, s)
    \/ \E s \in Stoppers : Stop(s)

Spec == Init /\ [][Next]_vars

\* Goroutines are scheduled and a closed channel is received from; the ticker
\* fires; select takes a ready case in the end (Go picks one at random), so a
\* done context is noticed; the database answers again and again; a caller in
\* stop carries on.  Timeouts, writes, requests and shutdown are not assumed.
Fairness ==
    /\ WF_vars(Poll)
    /\ SF_vars(PollAnswer)
    /\ SF_vars(PollExit)
    /\ \A w \in Waiters :
          WF_vars(WakeChanged(w)) /\ WF_vars(WakeStopped(w)) /\ WF_vars(WaitReturn(w))
    /\ \A s \in Stoppers :
          WF_vars(StopCancel(s)) /\ WF_vars(StopReturn(s))

FairSpec == Spec /\ Fairness

-----------------------------------------------------------------------------
\* What the watcher promises, as Broadcast has it: closing a channel wakes all who
\* hold it, before any of them runs, and a call that ended otherwise is over.
CallOf(w) ==
    IF wpc[w] = "changed" \/ (wpc[w] = "blocked" /\ wchan[w] # chan) THEN "woken"
    ELSE IF wpc[w] = "blocked" THEN "blocked"
    ELSE "out"

Outside == INSTANCE Broadcast
             WITH Callers   <- Waiters,
                  watermark <- rev,
                  call      <- [w \in Waiters |-> CallOf(w)],
                  baseline  <- [w \in Waiters |->
                                  IF CallOf(w) = "out" THEN -1 ELSE since[w]]

-----------------------------------------------------------------------------
\* Properties.

\* The variables hold values of their kinds, and the instance is ready exactly
\* when it has a watermark to show (handleHealth, observedRevision).
TypeOK ==
    /\ dbRev \in Nat /\ moves \in Nat
    /\ rev \in Nat \cup {-1}
    /\ chan \in Nat
    /\ ready \in BOOLEAN /\ dbErr \in BOOLEAN /\ closed \in BOOLEAN
    /\ ready <=> rev >= 0
    /\ ppc \in {"query", "set", "select", "done"}
    /\ answer \in Nat
    /\ ctxDone \in BOOLEAN
    /\ wpc \in [Waiters -> {"idle", "blocked", "changed", "ended"}]
    /\ since \in [Waiters -> Nat \cup {-1}]
    /\ wchan \in [Waiters -> Nat]
    /\ once \in {"new", "running", "done"}
    /\ spc \in [Stoppers -> {"idle", "closed", "cancelled", "stopped"}]

\* No lost wake-up ("Read rev and changed under one lock to avoid missing a
\* close between them"): a long poll that sleeps on a channel still open has
\* seen the present watermark; any other holds a closed channel and will wake.
NoMissedChange ==
    \A w \in Waiters :
        wpc[w] = "blocked" =>
            /\ since[w] >= 0
            /\ wchan[w] <= chan
            /\ wchan[w] = chan => since[w] = rev

\* The lock, the channel that is closed and replaced and the select in Wait amount
\* to one atomic broadcast: the step that moves the watermark, back or forth, wakes
\* every long poll that is blocked, and no other step wakes one.
ImplementsBroadcast == Outside!BroadcastSpec

\* Once a call of stop has returned, the instance's watermark is final: the
\* poller is gone and queries a database that is about to be closed no more.
StoppedIsFinal ==
    [][(\E s \in Stoppers : spc[s] = "stopped") =>
           UNCHANGED <<fields, poller>>]_vars

\* Nobody is left waiting: a moved watermark, a restore's lower one included,
\* releases every long poll at another one, and a shutdown releases all of them,
\* from stop or from the context Start was given, with no help from timeouts.
WaitersAreReleased ==
    \A w \in Waiters :
        (wpc[w] = "blocked" /\ (since[w] # rev \/ ctxDone)) ~> (wpc[w] # "blocked")

\* Whoever calls stop gets out of it: closing, cancelling and waiting for the
\* poller do not wait for each other.
StopTerminates ==
    \A s \in Stoppers : (spc[s] = "closed") ~> (spc[s] = "stopped")

\* When the database stops moving, the instance ends up ready and at its
\* watermark, even a lower one than it had; and polls that fail meanwhile never
\* take back that it is ready (revision_watcher.go: setErr).
CatchesUp ==
    /\ <>[](ctxDone \/ (ready /\ rev = dbRev))
    /\ [][ready => ready']_ready
=============================================================================
