---------------------------- MODULE ServerProofs ----------------------------
(***************************************************************************)
(* The revision watcher for any number of long polls and callers of stop,  *)
(* and any bound on the revision: types, no lost wake-up, and a watermark  *)
(* that is final once stop has returned.  Then the server around it:       *)
(* whatever run, Run, a signal or an embedding program do, the watcher     *)
(* sees the environment RevisionWatcher gives it, so what is proved of the *)
(* watcher holds in the server; and Run returns only after its poller.     *)
(***************************************************************************)
EXTENDS Server, TLAPS

\* What keeps stop's promises: the state of the OnceFunc says how far its caller
\* is, and nobody leaves stop before the poller has left run.
StopInv ==
    /\ \A s, t \in Stoppers : spc[s] = "closed" /\ spc[t] = "closed" => s = t
    /\ \A s \in Stoppers : spc[s] = "closed" => once = "running"
    /\ \A s \in Stoppers : spc[s] \in {"cancelled", "stopped"} => once = "done"
    /\ \A s \in Stoppers : spc[s] = "stopped" => ppc = "done"

WatcherInv == TypeOK /\ NoMissedChange /\ StopInv

\* The initial state (newRevisionWatcher and a Start that has not polled yet)
\* satisfies the invariant.
LEMMA InitInv == Init => WatcherInv
<1> SUFFICES ASSUME Init PROVE WatcherInv
  OBVIOUS
<1> USE DEF Init
<1>1. dbRev \in Nat
  BY WatcherAssumption DEF WatcherAssumption
<1>2. ready <=> rev >= 0
  BY SMT
<1>3. TypeOK
  BY <1>1, <1>2 DEF TypeOK
<1> QED
  BY <1>3 DEF WatcherInv, NoMissedChange, StopInv

\* Every critical section of the watcher, of its waiters and of stop keeps types.
LEMMA TypeStep == TypeOK /\ [Next]_vars => TypeOK'
<1> SUFFICES ASSUME TypeOK, [Next]_vars PROVE TypeOK'
  OBVIOUS
<1> USE WatcherAssumption DEF WatcherAssumption, TypeOK
<1>1. CASE DbMove
  BY <1>1 DEF DbMove, fields, poller, waiters, stop
<1>2. CASE PollAnswer
  BY <1>2 DEF PollAnswer, db, fields, waiters, stop
<1>3. CASE PollError
  <2>1. dbErr' \in BOOLEAN
    BY <1>3 DEF PollError
  <2> QED
    BY <1>3, <2>1 DEF PollError, db, waiters, stop
<1>4. CASE PollSet
  <2>1. ready' /\ ~dbErr' /\ ready' \in BOOLEAN /\ dbErr' \in BOOLEAN
    BY <1>4 DEF PollSet, Set
  <2>2. rev' \in Nat /\ rev' >= 0 /\ chan' \in Nat
    BY <1>4 DEF PollSet, Set
  <2> QED
    BY <1>4, <2>1, <2>2 DEF PollSet, Set, db, waiters, stop
<1>5. CASE Tick
  BY <1>5 DEF Tick, db, fields, waiters, stop
<1>6. CASE PollExit
  BY <1>6 DEF PollExit, db, waiters, stop
<1>7. CASE ParentDone
  BY <1>7 DEF ParentDone, db, fields, poller, waiters, stop
<1>8. ASSUME NEW w \in Waiters, NEW s \in -1 .. MaxRev, WaitEnter(w, s) PROVE TypeOK'
  <2>1. s \in Nat \cup {-1}
    OBVIOUS
  <2> QED
    BY <1>8, <2>1 DEF WaitEnter, db, fields, poller, stop
<1>9. ASSUME NEW w \in Waiters, Wait(w) PROVE TypeOK'
  <2>1. CASE WakeChanged(w)
    BY <2>1 DEF WakeChanged, db, fields, poller, stop
  <2>2. CASE WakeStopped(w)
    BY <2>2 DEF WakeStopped, db, fields, poller, stop
  <2>3. CASE WakeTimeout(w)
    BY <2>3 DEF WakeTimeout, db, fields, poller, stop
  <2>4. CASE WaitReturn(w)
    BY <2>4 DEF WaitReturn, db, fields, poller, stop
  <2> QED
    BY <1>9, <2>1, <2>2, <2>3, <2>4 DEF Wait
<1>10. ASSUME NEW s \in Stoppers, Stop(s) PROVE TypeOK'
  <2>1. CASE StopClose(s)
    BY <2>1 DEF StopClose, db, poller, waiters
  <2>2. CASE StopCancel(s)
    BY <2>2 DEF StopCancel, db, fields, poller, waiters
  <2>3. CASE StopAgain(s)
    BY <2>3 DEF StopAgain, db, fields, poller, waiters
  <2>4. CASE StopReturn(s)
    BY <2>4 DEF StopReturn, db, fields, poller, waiters
  <2> QED
    BY <1>10, <2>1, <2>2, <2>3, <2>4 DEF Stop
<1>11. CASE UNCHANGED vars
  BY <1>11 DEF vars, db, fields, poller, waiters, stop
<1> QED
  BY <1>1, <1>2, <1>3, <1>4, <1>5, <1>6, <1>7, <1>8, <1>9, <1>10, <1>11 DEF Next, Poll

\* A waiter that has read rev and changed under mu keeps a channel that set will
\* close: only set moves rev, and it puts a new channel in place when it does.
LEMMA WakeUpStep == WatcherInv /\ [Next]_vars => NoMissedChange'
<1> SUFFICES ASSUME WatcherInv, [Next]_vars PROVE NoMissedChange'
  OBVIOUS
<1> USE WatcherAssumption DEF WatcherAssumption, WatcherInv, TypeOK, NoMissedChange
<1>1. ASSUME UNCHANGED <<rev, chan, wpc, since, wchan>> PROVE NoMissedChange'
  BY <1>1
<1>2. CASE PollSet
  BY <1>2 DEF PollSet, Set, db, waiters, stop
<1>3. CASE DbMove \/ PollAnswer \/ PollError \/ Tick \/ PollExit \/ ParentDone
  BY <1>1, <1>3 DEF DbMove, PollAnswer, PollError, Tick, PollExit, ParentDone,
       db, fields, poller, waiters, stop
<1>4. ASSUME NEW w \in Waiters, NEW s \in -1 .. MaxRev, WaitEnter(w, s)
      PROVE  NoMissedChange'
  BY <1>4 DEF WaitEnter, fields
<1>5. ASSUME NEW w \in Waiters, Wait(w) PROVE NoMissedChange'
  BY <1>5 DEF Wait, WakeChanged, WakeStopped, WakeTimeout, WaitReturn, fields
<1>6. ASSUME NEW s \in Stoppers, Stop(s) PROVE NoMissedChange'
  BY <1>1, <1>6 DEF Stop, StopClose, StopCancel, StopAgain, StopReturn, fields, waiters
<1>7. CASE UNCHANGED vars
  BY <1>1, <1>7 DEF vars, fields, waiters
<1> QED
  BY <1>2, <1>3, <1>4, <1>5, <1>6, <1>7 DEF Next, Poll

\* Nothing but stop's own callers moves its OnceFunc, and run does not come back.
LEMMA StopStep == WatcherInv /\ [Next]_vars => StopInv'
<1> SUFFICES ASSUME WatcherInv, [Next]_vars PROVE StopInv'
  OBVIOUS
<1> USE DEF WatcherInv, TypeOK, StopInv
<1>1. CASE DbMove \/ ParentDone
  BY <1>1 DEF DbMove, ParentDone, poller, stop
<1>2. CASE Poll
  BY <1>2 DEF Poll, PollAnswer, PollError, PollSet, Tick, PollExit, stop
<1>3. ASSUME NEW w \in Waiters, Wait(w) \/ \E s \in -1 .. MaxRev : WaitEnter(w, s)
      PROVE  StopInv'
  BY <1>3 DEF Wait, WakeChanged, WakeStopped, WakeTimeout, WaitReturn, WaitEnter, poller, stop
<1>4. ASSUME NEW s \in Stoppers, StopClose(s) PROVE StopInv'
  BY <1>4 DEF StopClose, poller
<1>5. ASSUME NEW s \in Stoppers, StopCancel(s) \/ StopAgain(s) \/ StopReturn(s)
      PROVE  StopInv'
  BY <1>5 DEF StopCancel, StopAgain, StopReturn, poller
<1>6. CASE UNCHANGED vars
  BY <1>6 DEF vars, poller, stop
<1> QED
  BY <1>1, <1>2, <1>3, <1>4, <1>5, <1>6 DEF Next, Stop

\* The three together are an inductive invariant of the watcher.
THEOREM WatcherInvariant == Spec => []WatcherInv
<1>1. WatcherInv /\ [Next]_vars => WatcherInv'
  BY TypeStep, WakeUpStep, StopStep DEF WatcherInv
<1> QED
  BY InitInv, <1>1, PTL DEF Spec

\* revisionWatcher's fields, Wait's locals and stop's callers keep their types; the
\* instance is ready exactly when it has a watermark.
THEOREM WatcherTypes == Spec => []TypeOK
  BY WatcherInvariant, PTL DEF WatcherInv

\* Wait misses no move of the watermark between reading rev and sleeping on
\* changed, for any number of long polls (revision_watcher.go, Wait and set).
THEOREM NoLostWakeUp == Spec => []NoMissedChange
  BY WatcherInvariant, PTL DEF WatcherInv

\* After a caller of stop has returned, no field of the watcher moves any more, for
\* any number of callers (server.go, Start).
THEOREM StopIsFinal == Spec => StoppedIsFinal
<1>1. WatcherInv /\ [Next]_vars =>
        [(\E s \in Stoppers : spc[s] = "stopped") => UNCHANGED <<fields, poller>>]_vars
  <2> SUFFICES ASSUME WatcherInv, [Next]_vars,
                      NEW t \in Stoppers, spc[t] = "stopped"
               PROVE  UNCHANGED <<fields, poller>>
    OBVIOUS
  <2>1. ppc = "done" /\ once = "done"
    BY DEF WatcherInv, StopInv
  <2>2. CASE Poll
    BY <2>1, <2>2 DEF Poll, PollAnswer, PollError, PollSet, Tick, PollExit
  <2>3. CASE \E s \in Stoppers : Stop(s)
    BY <2>1, <2>3 DEF Stop, StopClose, StopCancel, StopAgain, StopReturn
  <2>4. CASE DbMove \/ ParentDone
    BY <2>4 DEF DbMove, ParentDone
  <2>5. CASE \E w \in Waiters : Wait(w) \/ \E s \in -1 .. MaxRev : WaitEnter(w, s)
    BY <2>5 DEF Wait, WakeChanged, WakeStopped, WakeTimeout, WaitReturn, WaitEnter
  <2>6. CASE UNCHANGED vars
    BY <2>6 DEF vars
  <2> QED
    BY <2>2, <2>3, <2>4, <2>5, <2>6 DEF Next
<1> QED
  BY WatcherInvariant, <1>1, PTL DEF Spec, StoppedIsFinal

-----------------------------------------------------------------------------
\* The broadcast.

\* The calls and baselines Broadcast sees.
Calls     == [w \in Waiters |-> CallOf(w)]
Baselines == [w \in Waiters |-> IF CallOf(w) = "out" THEN -1 ELSE since[w]]

\* What leaves rev, channels and waiters alone is not seen from outside.
LEMMA UnseenStep ==
  ASSUME UNCHANGED <<rev, chan, wpc, since, wchan>>
  PROVE  [Outside!BroadcastNext]_(Outside!broadcastVars)
  BY DEF Outside!broadcastVars, CallOf

\* set closes the channel of everyone who is blocked, or none.
LEMMA SetIsMove ==
  ASSUME WatcherInv, PollSet
  PROVE  Outside!Move
<1>1. /\ answer \in Nat /\ rev' = answer /\ chan \in Nat
      /\ chan' = IF rev = rev' THEN chan ELSE chan + 1
      /\ UNCHANGED <<wpc, since, wchan>>
  BY DEF PollSet, Set, waiters, WatcherInv, TypeOK
<1>2. ASSUME NEW w \in Waiters
      PROVE  CallOf(w)' = IF CallOf(w) = "blocked" /\ rev' # rev
                            THEN "woken" ELSE CallOf(w)
  <2>1. wpc[w] = "blocked" => wchan[w] <= chan /\ wchan[w] \in Nat
    BY DEF WatcherInv, TypeOK, NoMissedChange
  <2>2. wpc[w] = "blocked" => (wchan[w] = chan' <=> wchan[w] = chan /\ rev' = rev)
    BY <1>1, <2>1
  <2> QED
    BY <1>1, <2>2 DEF CallOf
<1>3. ASSUME NEW w \in Waiters PROVE CallOf(w)' = "out" <=> CallOf(w) = "out"
  BY <1>2
<1>4. Calls' = [w \in Waiters |-> IF Calls[w] = "blocked" /\ rev' # rev
                                    THEN "woken" ELSE Calls[w]]
  BY <1>2 DEF Calls
<1>5. Baselines' = Baselines
  BY <1>1, <1>3 DEF Baselines
<1> QED
  BY <1>1, <1>4, <1>5 DEF Outside!Move, Calls, Baselines

\* A step of one waiter that takes it out of Wait, if it was in.
LEMMA LeavingStep ==
  ASSUME WatcherInv, NEW w \in Waiters, UNCHANGED <<rev, chan>>,
         CallOf(w)' = "out",
         \A v \in Waiters \ {w} : wpc'[v] = wpc[v] /\ since'[v] = since[v] /\ wchan'[v] = wchan[v]
  PROVE  \E ws \in SUBSET Waiters : Outside!Leave(ws) /\ UNCHANGED rev
<1>1. ASSUME NEW v \in Waiters, v # w
      PROVE  CallOf(v)' = CallOf(v) /\ since'[v] = since[v]
  BY <1>1 DEF CallOf
<1>2. Calls' = [v \in Waiters |-> IF v \in {w} THEN "out" ELSE Calls[v]]
  BY <1>1 DEF Calls
<1>3. Baselines' = [v \in Waiters |-> IF v \in {w} THEN -1 ELSE Baselines[v]]
  BY <1>1 DEF Baselines
<1>4. Outside!Leave({w})
  BY <1>2, <1>3 DEF Outside!Leave, Calls, Baselines
<1> QED
  BY <1>4

\* Reading rev and changed under one lock is what makes the call one step.
LEMMA WaitIsEnter ==
  ASSUME WatcherInv, NEW w \in Waiters, NEW s \in -1 .. MaxRev, WaitEnter(w, s)
  PROVE  Outside!Enter(w)
<1>1. /\ wpc[w] = "idle" /\ since' = [since EXCEPT ![w] = s]
      /\ wchan' = [wchan EXCEPT ![w] = chan]
      /\ wpc' = [wpc EXCEPT ![w] = IF s < 0 \/ rev # s THEN "changed" ELSE "blocked"]
      /\ UNCHANGED <<rev, chan>>
  BY DEF WaitEnter, fields
<1>2. /\ wpc \in [Waiters -> {"idle", "blocked", "changed", "ended"}]
      /\ since \in [Waiters -> Nat \cup {-1}] /\ wchan \in [Waiters -> Nat]
      /\ s \in Nat \cup {-1}
  BY WatcherAssumption DEF WatcherAssumption, WatcherInv, TypeOK
<1>3. CallOf(w) = "out"
  BY <1>1 DEF CallOf
<1>4. CallOf(w)' = (IF s >= 0 /\ s = rev THEN "blocked" ELSE "woken") /\ since'[w] = s
  <2>1. wchan'[w] = chan' /\ since'[w] = s
    BY <1>1, <1>2
  <2>2. wpc'[w] = IF s < 0 \/ rev # s THEN "changed" ELSE "blocked"
    BY <1>1, <1>2
  <2>3. CASE s >= 0 /\ s = rev
    BY <2>1, <2>2, <2>3 DEF CallOf
  <2>4. CASE ~(s >= 0 /\ s = rev)
    <3>1. wpc'[w] = "changed"
      BY <1>2, <2>2, <2>4
    <3> QED
      BY <2>1, <2>4, <3>1 DEF CallOf
  <2> QED
    BY <2>3, <2>4
<1>5. ASSUME NEW v \in Waiters, v # w
      PROVE  CallOf(v)' = CallOf(v) /\ since'[v] = since[v]
  <2>1. wpc'[v] = wpc[v] /\ wchan'[v] = wchan[v] /\ since'[v] = since[v] /\ chan' = chan
    BY <1>1, <1>2, <1>5
  <2> QED
    BY <2>1 DEF CallOf
<1>6. Baselines'[w] = s /\ \A v \in Waiters \ {w} : Baselines'[v] = Baselines[v]
  BY <1>4, <1>5 DEF Baselines
<1>7. Baselines' \in [Waiters -> Nat \cup {-1}]
  <2>1. \A v \in Waiters : since'[v] \in Nat \cup {-1}
    BY <1>1, <1>2
  <2> QED
    BY <2>1 DEF Baselines
<1>8. Calls' = [Calls EXCEPT ![w] = IF Baselines'[w] >= 0 /\ Baselines'[w] = rev
                                      THEN "blocked" ELSE "woken"]
  BY <1>4, <1>5, <1>6 DEF Calls
<1>9. Calls[w] = "out"
  BY <1>3 DEF Calls
<1> QED
  BY <1>1, <1>6, <1>7, <1>8, <1>9
  DEF Outside!Enter, Outside!Revisions, Calls, Baselines

\* A waiter that wakes up by its channel had been woken when it was closed; any other
\* way out of the select, and the return, leave the broadcast.
LEMMA WaitIsLeave ==
  ASSUME WatcherInv, NEW w \in Waiters, Wait(w)
  PROVE  [Outside!BroadcastNext]_(Outside!broadcastVars)
<1>0. /\ wpc \in [Waiters -> {"idle", "blocked", "changed", "ended"}]
      /\ since \in [Waiters -> Nat \cup {-1}] /\ wchan \in [Waiters -> Nat]
  BY DEF WatcherInv, TypeOK
<1>1. CASE WakeChanged(w)
  <2>1. /\ wpc[w] = "blocked" /\ wchan[w] # chan /\ wpc' = [wpc EXCEPT ![w] = "changed"]
        /\ UNCHANGED <<rev, chan, since, wchan>>
    BY <1>0, <1>1 DEF WakeChanged, fields, WatcherInv, TypeOK
  <2>2. ASSUME NEW v \in Waiters PROVE CallOf(v)' = CallOf(v)
    <3>1. CASE v = w
      BY <1>0, <2>1, <3>1 DEF CallOf
    <3>2. CASE v # w
      BY <1>0, <2>1, <3>2 DEF CallOf
    <3> QED
      BY <3>1, <3>2
  <2>3. Calls' = Calls /\ Baselines' = Baselines
    BY <2>1, <2>2 DEF Calls, Baselines
  <2> QED
    BY <2>1, <2>3 DEF Outside!broadcastVars, Calls, Baselines
<1>2. CASE WakeStopped(w) \/ WakeTimeout(w) \/ WaitReturn(w)
  <2>1. /\ UNCHANGED <<rev, chan>> /\ wpc'[w] \in {"ended", "idle"}
        /\ \A v \in Waiters \ {w} :
              wpc'[v] = wpc[v] /\ since'[v] = since[v] /\ wchan'[v] = wchan[v]
    BY <1>0, <1>2 DEF WakeStopped, WakeTimeout, WaitReturn, fields
  <2>2. CallOf(w)' = "out"
    BY <2>1 DEF CallOf
  <2> QED
    BY <2>1, <2>2, LeavingStep DEF Outside!BroadcastNext
<1> QED
  BY <1>1, <1>2 DEF Wait

\* Each critical section, channel operation and answer of the database is a step of
\* the broadcast or invisible to it.
LEMMA BroadcastStep ==
  WatcherInv /\ [Next]_vars => [Outside!BroadcastNext]_(Outside!broadcastVars)
<1> SUFFICES ASSUME WatcherInv, [Next]_vars
             PROVE  [Outside!BroadcastNext]_(Outside!broadcastVars)
  OBVIOUS
<1>1. CASE PollSet
  BY <1>1, SetIsMove DEF Outside!BroadcastNext
<1>2. CASE DbMove \/ PollAnswer \/ PollError \/ Tick \/ PollExit \/ ParentDone
  <2>1. UNCHANGED <<rev, chan, wpc, since, wchan>>
    BY <1>2 DEF DbMove, PollAnswer, PollError, Tick, PollExit, ParentDone, db, fields,
       poller, waiters
  <2> QED
    BY <2>1, UnseenStep
<1>3. ASSUME NEW w \in Waiters, NEW s \in -1 .. MaxRev, WaitEnter(w, s)
      PROVE  [Outside!BroadcastNext]_(Outside!broadcastVars)
  BY <1>3, WaitIsEnter DEF Outside!BroadcastNext
<1>4. ASSUME NEW w \in Waiters, Wait(w)
      PROVE  [Outside!BroadcastNext]_(Outside!broadcastVars)
  BY <1>4, WaitIsLeave
<1>5. ASSUME NEW s \in Stoppers, Stop(s)
      PROVE  [Outside!BroadcastNext]_(Outside!broadcastVars)
  <2>1. UNCHANGED <<rev, chan, wpc, since, wchan>>
    BY <1>5 DEF Stop, StopClose, StopCancel, StopAgain, StopReturn, fields, waiters
  <2> QED
    BY <2>1, UnseenStep
<1>6. CASE UNCHANGED vars
  BY <1>6, UnseenStep DEF vars, fields, waiters
<1> QED
  BY <1>1, <1>2, <1>3, <1>4, <1>5, <1>6 DEF Next, Poll

\* For any number of long polls, one lock and a channel closed and replaced are an
\* atomic broadcast: no order of set, Wait and the wake-ups shows anything else
\* (revision_watcher.go, Wait and set).
THEOREM WatcherImplementsBroadcast == Spec => ImplementsBroadcast
<1>1. Init => Outside!BroadcastInit
  BY DEF Init, Outside!BroadcastInit, CallOf
<1> QED
  BY <1>1, BroadcastStep, WatcherInvariant, PTL
  DEF Spec, ImplementsBroadcast, Outside!BroadcastSpec

(***************************************************************************)
(* The server.                                                             *)
(***************************************************************************)

\* A signal or a failed dial ends the context Start was given, or finds it ended.
LEMMA ContextStep ==
    ASSUME ctxDone \in BOOLEAN, ctxDone' = TRUE,
           UNCHANGED <<db, fields, poller, waiters, stop>>
    PROVE  [Next]_vars
<1>1. CASE ctxDone
  BY <1>1 DEF vars
<1>2. CASE ~ctxDone
  BY <1>2 DEF Next, ParentDone
<1> QED
  BY <1>1, <1>2

\* What the server does is what some caller of the watcher does, or nothing to it.
LEMMA ServerStep == ctxDone \in BOOLEAN /\ [SNext]_svars => [Next]_vars
<1> SUFFICES ASSUME ctxDone \in BOOLEAN, [SNext]_svars PROVE [Next]_vars
  OBVIOUS
<1>1. CASE Startup
  <2>1. CASE Connect \/ MigrateSchema
    BY <2>1 DEF Connect, MigrateSchema
  <2>2. CASE Abort
    BY <2>2, ContextStep DEF Abort
  <2> QED
    BY <1>1, <2>1, <2>2 DEF Startup
<1>2. CASE Signal
  BY <1>2, ContextStep DEF Signal
<1>3. CASE Run
  <2>1. CASE StopWatcher
    BY <2>1, ServerAssumption DEF StopWatcher, ServerAssumption, Next
  <2>2. CASE Listen \/ ListenFails \/ ServeFails \/ ServeEnds \/ Shutdown \/ ShutdownTimesOut
    BY <2>2 DEF Listen, ListenFails, ServeFails, ServeEnds, Shutdown, ShutdownTimesOut
  <2> QED
    BY <1>3, <2>1, <2>2 DEF Run
<1>4. CASE DbMove
  BY <1>4 DEF Next
<1>5. CASE Poll
  BY <1>5 DEF Next
<1>6. CASE Host
  BY <1>6 DEF Host, Next
<1>7. ASSUME NEW w \in Waiters, Requests(w) PROVE [Next]_vars
  BY <1>7 DEF Requests, Next
<1>8. CASE UNCHANGED svars
  BY <1>8 DEF svars
<1> QED
  BY <1>1, <1>2, <1>3, <1>4, <1>5, <1>6, <1>7, <1>8 DEF SNext

\* Start makes the watcher newRevisionWatcher makes.
LEMMA ServerInit == SInit => Init
  BY DEF SInit

\* The context of Start is over or not.
LEMMA ServerContext == SSpec => [](ctxDone \in BOOLEAN)
<1>1. SInit => ctxDone \in BOOLEAN
  BY DEF SInit, Init
<1>2. ctxDone \in BOOLEAN /\ [SNext]_svars => (ctxDone \in BOOLEAN)'
  <2> SUFFICES ASSUME ctxDone \in BOOLEAN, [SNext]_svars PROVE ctxDone' \in BOOLEAN
    OBVIOUS
  <2>1. [Next]_vars
    BY ServerStep
  <2> QED
    BY <2>1 DEF Next, vars, DbMove, Poll, PollAnswer, PollError, PollSet, Tick, PollExit,
       ParentDone, Wait, WakeChanged, WakeStopped, WakeTimeout, WaitReturn, WaitEnter,
       Stop, StopClose, StopCancel, StopAgain, StopReturn
<1> QED
  BY <1>1, <1>2, PTL DEF SSpec

\* The server, in a process of its own or embedded, gives its watcher only calls the
\* watcher is made for (server.go, Run and Start): every theorem about
\* RevisionWatcher is one about the server.
THEOREM ServerUsesWatcher == SSpec => Spec
  BY ServerInit, ServerStep, ServerContext, PTL DEF SSpec, Spec

\* No long poll of the server sleeps through a move of the watermark, signals and
\* shutdown included (revision_watcher.go, Wait).
THEOREM ServerWakeUps == SSpec => []NoMissedChange
  BY ServerUsesWatcher, NoLostWakeUp, PTL

\* So the long polls of a server, signals and shutdown included, see an atomic
\* broadcast of its watermark (revision_watcher.go, Wait and set).
THEOREM ServerBroadcasts == SSpec => ImplementsBroadcast
  BY ServerUsesWatcher, WatcherImplementsBroadcast, PTL

\* Once stopWatcher has returned to Run, or stop to an embedding program, the
\* watcher is still (server.go, Start).
THEOREM ServerStopIsFinal == SSpec => StoppedIsFinal
  BY ServerUsesWatcher, StopIsFinal, PTL

\* Run is past stopWatcher only when its own call of stop has returned.
PastStop == proc \in {"shutdown", "returned"} => spc[Main] = "stopped"

\* Only stopWatcher takes Run past itself, and its return is for good.
LEMMA PastStopStep == WatcherInv /\ PastStop /\ [SNext]_svars => PastStop'
<1> SUFFICES ASSUME WatcherInv, PastStop, [SNext]_svars PROVE PastStop'
  OBVIOUS
<1> USE ServerAssumption DEF ServerAssumption, PastStop
<1>1. spc \in [Stoppers -> {"idle", "closed", "cancelled", "stopped"}]
  BY DEF WatcherInv, TypeOK
<1>2. ASSUME UNCHANGED <<proc, spc>> PROVE PastStop'
  BY <1>2
<1>3. ASSUME NEW s \in Stoppers, Stop(s), UNCHANGED proc PROVE PastStop'
  BY <1>1, <1>3 DEF Stop, StopClose, StopCancel, StopAgain, StopReturn
<1>4. CASE Startup
  BY <1>4 DEF Startup, Connect, MigrateSchema, Abort
<1>5. CASE Signal
  BY <1>2, <1>5 DEF Signal, stop
<1>6. CASE Run
  <2>1. CASE StopWatcher
    BY <2>1 DEF StopWatcher
  <2>2. CASE Listen \/ ListenFails \/ ServeFails \/ ServeEnds
    BY <2>2 DEF Listen, ListenFails, ServeFails, ServeEnds
  <2>3. CASE Shutdown \/ ShutdownTimesOut
    BY <2>3 DEF Shutdown, ShutdownTimesOut, vars, stop
  <2> QED
    BY <1>6, <2>1, <2>2, <2>3 DEF Run
<1>7. CASE DbMove /\ UNCHANGED process
  BY <1>2, <1>7 DEF DbMove, process, stop
<1>8. CASE Poll /\ UNCHANGED process
  BY <1>2, <1>8 DEF Poll, PollAnswer, PollError, PollSet, Tick, PollExit, process, stop
<1>9. CASE Host /\ UNCHANGED process
  <2>1. CASE ParentDone
    BY <1>2, <1>9, <2>1 DEF ParentDone, process, stop
  <2>2. CASE \E s \in Stoppers : Stop(s)
    BY <1>3, <1>9, <2>2 DEF process
  <2> QED
    BY <1>9, <2>1, <2>2 DEF Host
<1>10. ASSUME NEW w \in Waiters, Requests(w), UNCHANGED process PROVE PastStop'
  BY <1>2, <1>10 DEF Requests, Wait, WakeChanged, WakeStopped, WakeTimeout, WaitReturn,
     WaitEnter, process, stop
<1>11. CASE UNCHANGED svars
  BY <1>2, <1>11 DEF svars, vars, stop, process
<1> QED
  BY <1>4, <1>5, <1>6, <1>7, <1>8, <1>9, <1>10, <1>11 DEF SNext

\* When Run has returned, after a signal or with an error of net.Listen or Serve,
\* nothing queries the database main is about to close (server.go, Run; main.go).
THEOREM RunLeavesNobody == SSpec => []ReturnedIsQuiet
<1>1. SInit => PastStop
  BY DEF SInit, PastStop
<1>2. WatcherInv /\ PastStop => ReturnedIsQuiet
  BY ServerAssumption DEF ServerAssumption, WatcherInv, StopInv, PastStop, ReturnedIsQuiet
<1> QED
  BY <1>1, <1>2, PastStopStep, ServerUsesWatcher, WatcherInvariant, PTL DEF SSpec
=============================================================================
