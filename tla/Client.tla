------------------------------- MODULE Client -------------------------------
(***************************************************************************)
(* lite.Client inside one process: the refresh goroutine of run, callers   *)
(* of Watch and of Close, the callbacks they fire under applyMu, the fetch *)
(* statistics and the fallback file, through crashes and cold starts.  The *)
(* source is a world that publishes contents and answers, hangs or fails   *)
(* as it likes; ConfigSync looks at what a source's labels are worth.      *)
(***************************************************************************)
EXTENDS Integers, Sequences, SequencesExt

CONSTANTS
    Keys,         \* configuration keys, all of them under the fetched prefixes
    Values,       \* what a key may hold
    Absent,       \* the key does not exist
    Watchers,     \* calls of Watch, each on a goroutine of its own
    WatchKeys,    \* the keys under each watcher's prefix
    Closers,      \* calls of Close
    Nobody,       \* applyMu is free
    NoFile,       \* the fallback file does not exist
    MinBackoff, MaxBackoff,
    MaxRevision,  \* bound on the world's revision
    MaxFails,     \* bound on consecutive failures
    MaxCrashes,   \* bound on process crashes
    MaxOutages    \* bound on how often the disk fails

ASSUME ClientAssumption ==
    /\ WatchKeys \in [Watchers -> SUBSET Keys]
    /\ Absent \notin Values
    /\ {MinBackoff, MaxBackoff, MaxRevision, MaxFails, MaxCrashes, MaxOutages} \subseteq Nat
    /\ 0 < MinBackoff /\ MinBackoff <= MaxBackoff
    /\ Nobody # "run" /\ {Nobody, "run"} \cap Watchers = {}
    /\ NoFile \notin [revision : Int, content : [Keys -> Values \cup {Absent}]]

Content == [Keys -> Values \cup {Absent}]

EmptyView == [revision |-> -1, content |-> [k \in Keys |-> Absent]]

VARIABLES
    world,      \* the source's present snapshot
    disk,       \* whether a file can be written now
    outages,    \* how often it could not
    file,       \* the fallback file: a snapshot or NoFile
    crashes,
    \* The client.
    rpc,        \* where New or the refresh goroutine is
    snap,       \* the current view
    next,       \* the snapshot Poll returned
    seeded,
    changed,    \* the diff being notified
    pending,    \* notify's clone of the watcher list, what is left of it
    target,     \* the watcher whose callback the refresh goroutine runs
    fails,      \* consecutiveFail
    backoff,
    applyMu,    \* its holder: "run", a watcher or Nobody
    registered, \* c.watchers
    wpc,        \* each Watch call: "idle", "calling" or "done"
    got,        \* the content each watcher was last called with, in its prefix
    closed, ctxDone, srcClosed,
    cpc         \* each Close call: "idle", "cancel", "waiting" or "returned"

source   == <<world, disk, outages>>
refresh  == <<rpc, snap, next, seeded, changed, pending, target>>
stats    == <<fails, backoff>>
watching == <<registered, wpc, got>>
closing  == <<closed, ctxDone, srcClosed, cpc>>
vars     == <<source, file, crashes, refresh, stats, applyMu, watching, closing>>

\* The count of failures stops at MaxFails.
OneMore(n) == IF n < MaxFails THEN n + 1 ELSE n

\* diff: keys added, modified or deleted.
Diff(old, new) == {k \in Keys : old[k] # new[k]}

-----------------------------------------------------------------------------
\* The process and what surrounds it.

Init ==
    /\ world = [revision |-> 0, content |-> EmptyView.content]
    /\ disk = TRUE /\ outages = 0
    /\ file = NoFile
    /\ crashes = 0
    /\ rpc = "new"
    /\ snap = EmptyView /\ next = EmptyView
    /\ seeded = FALSE
    /\ changed = {} /\ pending = << >> /\ target = Nobody
    /\ fails = 0 /\ backoff = MinBackoff
    /\ applyMu = Nobody
    /\ registered = << >>
    /\ wpc = [w \in Watchers |-> "idle"]
    /\ got = [w \in Watchers |-> EmptyView.content]
    /\ closed = FALSE /\ ctxDone = FALSE /\ srcClosed = FALSE
    /\ cpc = [c \in Closers |-> "idle"]

\* Somebody publishes, under the client's prefixes or elsewhere.
Publish ==
    /\ world.revision < MaxRevision
    /\ \E c \in Content :
          /\ \A j, k \in Diff(world.content, c) : j = k
          /\ world' = [revision |-> world.revision + 1, content |-> c]
    /\ UNCHANGED <<disk, outages, file, crashes, refresh, stats, applyMu, watching, closing>>

DiskFails ==
    /\ disk
    /\ outages < MaxOutages
    /\ disk' = FALSE
    /\ outages' = outages + 1
    /\ UNCHANGED <<world, file, crashes, refresh, stats, applyMu, watching, closing>>

DiskRecovers ==
    /\ ~disk
    /\ disk' = TRUE
    /\ UNCHANGED <<world, outages, file, crashes, refresh, stats, applyMu, watching, closing>>

\* The process dies and is started again: only the file remains.
Crash ==
    /\ crashes < MaxCrashes
    /\ crashes' = crashes + 1
    /\ rpc' = "new"
    /\ snap' = EmptyView /\ next' = EmptyView
    /\ seeded' = FALSE
    /\ changed' = {} /\ pending' = << >> /\ target' = Nobody
    /\ fails' = 0 /\ backoff' = MinBackoff
    /\ applyMu' = Nobody
    /\ registered' = << >>
    /\ wpc' = [w \in Watchers |-> "idle"]
    /\ got' = [w \in Watchers |-> EmptyView.content]
    /\ closed' = FALSE /\ ctxDone' = FALSE /\ srcClosed' = FALSE
    /\ cpc' = [c \in Closers |-> "idle"]
    /\ UNCHANGED <<source, file>>

-----------------------------------------------------------------------------
\* writeFallback: write-then-rename leaves the file whole, old or new.
WriteFallback(v) == file' = IF disk THEN v ELSE file

\* Fault: only a change is persisted.
PersistChanges(v, diff) ==
    IF diff # {}
      THEN WriteFallback(v) /\ seeded' = (seeded \/ disk)
      ELSE UNCHANGED <<file, seeded>>

\* apply persists a change, and whatever it has until one write succeeded.
Persist(v, diff) ==
    IF diff # {} \/ ~seeded
      THEN WriteFallback(v) /\ seeded' = (seeded \/ disk)
      ELSE UNCHANGED <<file, seeded>>

-----------------------------------------------------------------------------
\* New.

\* The first fetch succeeds: apply without callbacks, then markSuccess.
NewFetched ==
    /\ rpc = "new"
    /\ snap' = world
    /\ Persist(world, Diff(snap.content, world.content))
    /\ rpc' = "top"
    /\ UNCHANGED <<source, crashes, next, changed, pending, target, stats,
                   applyMu, registered, wpc, got, closing>>

\* It fails and the fallback file is there.
NewFromFile ==
    /\ rpc = "new"
    /\ file # NoFile
    /\ snap' = file
    /\ rpc' = "top"
    /\ UNCHANGED <<source, file, crashes, next, seeded, changed, pending, target, stats,
                   applyMu, registered, wpc, got, closing>>

\* It fails and there is no file: start empty (WithStartupDegrade) or give up.
NewWithoutFile ==
    /\ rpc = "new"
    /\ file = NoFile
    /\ rpc' \in {"top", "no client"}
    /\ srcClosed' = (rpc' = "no client")
    /\ UNCHANGED <<source, file, crashes, snap, next, seeded, changed, pending, target,
                   stats, applyMu, watching, closed, ctxDone, cpc>>

-----------------------------------------------------------------------------
\* run, fetchOnce and apply.

\* The top of the loop.
Loop ==
    /\ rpc = "top"
    /\ rpc' = IF ctxDone THEN "done" ELSE "polling"
    /\ UNCHANGED <<source, file, crashes, snap, next, seeded, changed, pending, target,
                   stats, applyMu, watching, closing>>

\* Poll returns with the source's snapshot.
PollSnapshot ==
    /\ rpc = "polling"
    /\ world.revision # snap.revision
    /\ next' = world
    /\ rpc' = "apply"
    /\ UNCHANGED <<source, file, crashes, snap, seeded, changed, pending, target,
                   stats, applyMu, watching, closing>>

\* Poll returns (nil, nil): the source answered that nothing changed.
PollUnchanged ==
    /\ rpc = "polling"
    /\ rpc' = "succeeded"
    /\ UNCHANGED <<source, file, crashes, snap, next, seeded, changed, pending, target,
                   stats, applyMu, watching, closing>>

\* No answer came before pollCtx's own deadline, which run takes for a success.
PollDeadline ==
    /\ rpc = "polling"
    /\ rpc' = "succeeded"
    /\ UNCHANGED <<source, file, crashes, snap, next, seeded, changed, pending, target,
                   stats, applyMu, watching, closing>>

\* Poll fails: the source is gone or refuses, or Close cancelled the context.
PollError ==
    /\ rpc = "polling"
    /\ rpc' = "failed"
    /\ UNCHANGED <<source, file, crashes, snap, next, seeded, changed, pending, target,
                   stats, applyMu, watching, closing>>

\* apply takes applyMu and swaps the view in: readers see it from here on.
ApplySwap ==
    /\ rpc = "apply"
    /\ applyMu = Nobody
    /\ applyMu' = "run"
    /\ snap' = next
    /\ changed' = Diff(snap.content, next.content)
    /\ rpc' = "persist"
    /\ UNCHANGED <<source, file, crashes, next, seeded, pending, target, stats,
                   watching, closing>>

\* It persists, and returns if the revision moved and the content did not;
\* otherwise notify clones the watcher list.
ApplyPersist ==
    /\ rpc = "persist"
    /\ Persist(snap, changed)
    /\ IF changed = {}
         THEN rpc' = "succeeded" /\ applyMu' = Nobody /\ pending' = pending
         ELSE rpc' = "notify" /\ applyMu' = applyMu /\ pending' = registered
    /\ UNCHANGED <<source, crashes, snap, next, changed, target, stats, watching, closing>>

\* A watcher whose prefix holds no changed key is not called.
NotifySkip ==
    /\ rpc = "notify"
    /\ pending # << >>
    /\ WatchKeys[Head(pending)] \cap changed = {}
    /\ pending' = Tail(pending)
    /\ UNCHANGED <<source, file, crashes, rpc, snap, next, seeded, changed, target, stats,
                   applyMu, watching, closing>>

NotifyCall ==
    /\ rpc = "notify"
    /\ pending # << >>
    /\ WatchKeys[Head(pending)] \cap changed # {}
    /\ pending' = Tail(pending)
    /\ target' = Head(pending)
    /\ got' = [got EXCEPT ![Head(pending)] = snap.content]
    /\ rpc' = "calling"
    /\ UNCHANGED <<source, file, crashes, snap, next, seeded, changed, stats, applyMu,
                   registered, wpc, closing>>

\* Fault: a panic takes the refresh goroutine with it.
NotifyReturnOrDie ==
    /\ rpc = "calling"
    /\ target' = Nobody
    /\ rpc' \in {"notify", "dead"}
    /\ UNCHANGED <<source, file, crashes, snap, next, seeded, changed, pending, stats,
                   applyMu, watching, closing>>

\* The callback returns or panics; safely makes no difference between the two.
NotifyReturn ==
    /\ rpc = "calling"
    /\ target' = Nobody
    /\ rpc' = "notify"
    /\ UNCHANGED <<source, file, crashes, snap, next, seeded, changed, pending, stats,
                   applyMu, watching, closing>>

\* OnChange comes last, with the changed keys; then apply releases applyMu.
NotifyEnd ==
    /\ rpc = "notify"
    /\ pending = << >>
    /\ applyMu' = Nobody
    /\ rpc' = "succeeded"
    /\ UNCHANGED <<source, file, crashes, snap, next, seeded, changed, pending, target,
                   stats, registered, wpc, got, closing>>

\* Fault: a success leaves the backoff where it was.
CycleSucceededSlow ==
    /\ rpc = "succeeded"
    /\ IF ctxDone
         THEN rpc' = "done" /\ UNCHANGED stats
         ELSE /\ rpc' = "top"
              /\ fails' = 0
              /\ UNCHANGED backoff
    /\ UNCHANGED <<source, file, crashes, snap, next, seeded, changed, pending, target,
                   applyMu, watching, closing>>

\* markSuccess, and poll again at once.
CycleSucceeded ==
    /\ rpc = "succeeded"
    /\ IF ctxDone
         THEN rpc' = "done" /\ UNCHANGED stats
         ELSE /\ rpc' = "top"
              /\ fails' = 0
              /\ backoff' = MinBackoff
    /\ UNCHANGED <<source, file, crashes, snap, next, seeded, changed, pending, target,
                   applyMu, watching, closing>>

\* markFailure, with its OnError callback, and the wait begins.
CycleFailed ==
    /\ rpc = "failed"
    /\ IF ctxDone
         THEN rpc' = "done" /\ UNCHANGED stats
         ELSE /\ rpc' = "sleeping"
              /\ fails' = OneMore(fails)
              /\ UNCHANGED backoff
    /\ UNCHANGED <<source, file, crashes, snap, next, seeded, changed, pending, target,
                   applyMu, watching, closing>>

\* The timer fires.
SleepEnd ==
    /\ rpc = "sleeping"
    /\ backoff' = IF 2 * backoff < MaxBackoff THEN 2 * backoff ELSE MaxBackoff
    /\ rpc' = "top"
    /\ UNCHANGED <<source, file, crashes, snap, next, seeded, changed, pending, target,
                   fails, applyMu, watching, closing>>

\* Close wakes it first.
SleepCancelled ==
    /\ rpc = "sleeping"
    /\ ctxDone
    /\ rpc' = "done"
    /\ UNCHANGED <<source, file, crashes, snap, next, seeded, changed, pending, target,
                   stats, applyMu, watching, closing>>

Refresh ==
    \/ NewFetched \/ NewFromFile \/ NewWithoutFile
    \/ Loop
    \/ PollSnapshot \/ PollUnchanged \/ PollDeadline \/ PollError
    \/ ApplySwap \/ ApplyPersist
    \/ NotifySkip \/ NotifyCall \/ NotifyReturn \/ NotifyEnd
    \/ CycleSucceeded \/ CycleFailed
    \/ SleepEnd \/ SleepCancelled

-----------------------------------------------------------------------------
\* Watch and Close, called once New has returned a client.

HasClient == rpc \notin {"new", "no client"}

\* Fault: Watch registers and calls back without applyMu.
WatchCallUnlocked(w) ==
    /\ HasClient
    /\ wpc[w] = "idle"
    /\ registered' = Append(registered, w)
    /\ got' = [got EXCEPT ![w] = snap.content]
    /\ wpc' = [wpc EXCEPT ![w] = "calling"]
    /\ UNCHANGED <<source, file, crashes, refresh, stats, applyMu, closing>>

\* Watch takes applyMu, registers, and calls back with the present view.
WatchCall(w) ==
    /\ HasClient
    /\ wpc[w] = "idle"
    /\ applyMu = Nobody
    /\ applyMu' = w
    /\ registered' = Append(registered, w)
    /\ got' = [got EXCEPT ![w] = snap.content]
    /\ wpc' = [wpc EXCEPT ![w] = "calling"]
    /\ UNCHANGED <<source, file, crashes, refresh, stats, closing>>

\* The initial callback returns or panics, and Watch with it.
WatchReturn(w) ==
    /\ wpc[w] = "calling"
    /\ wpc' = [wpc EXCEPT ![w] = "done"]
    /\ applyMu' = Nobody
    /\ UNCHANGED <<source, file, crashes, refresh, stats, registered, got, closing>>

\* The first Close sets closed; later ones, the same caller's too, return at once.
CloseCall(c) ==
    /\ HasClient
    /\ cpc[c] \in {"idle", "returned"}
    /\ cpc' = [cpc EXCEPT ![c] = IF closed THEN "returned" ELSE "cancel"]
    /\ closed' = TRUE
    /\ UNCHANGED <<source, file, crashes, refresh, stats, applyMu, watching,
                   ctxDone, srcClosed>>

\* Fault: Close keeps applyMu, to stop callbacks, while it waits for run.
CloseCancelLocked(c) ==
    /\ cpc[c] = "cancel"
    /\ applyMu = Nobody
    /\ applyMu' = "closer"
    /\ ctxDone' = TRUE
    /\ cpc' = [cpc EXCEPT ![c] = "waiting"]
    /\ UNCHANGED <<source, file, crashes, refresh, stats, watching, closed, srcClosed>>

CloseCancel(c) ==
    /\ cpc[c] = "cancel"
    /\ ctxDone' = TRUE
    /\ cpc' = [cpc EXCEPT ![c] = "waiting"]
    /\ UNCHANGED <<source, file, crashes, refresh, stats, applyMu, watching,
                   closed, srcClosed>>

\* Fault: Close does not wait for run.
CloseReturnEarly(c) ==
    /\ cpc[c] = "waiting"
    /\ srcClosed' = TRUE
    /\ cpc' = [cpc EXCEPT ![c] = "returned"]
    /\ UNCHANGED <<source, file, crashes, refresh, stats, applyMu, watching,
                   closed, ctxDone>>

\* <-c.done, then the source is closed.
CloseReturn(c) ==
    /\ cpc[c] = "waiting"
    /\ rpc = "done"
    /\ srcClosed' = TRUE
    /\ cpc' = [cpc EXCEPT ![c] = "returned"]
    /\ UNCHANGED <<source, file, crashes, refresh, stats, applyMu, watching,
                   closed, ctxDone>>

Next ==
    \/ Publish \/ DiskFails \/ DiskRecovers \/ Crash
    \/ Refresh
    \/ \E w \in Watchers : WatchCall(w) \/ WatchReturn(w)
    \/ \E c \in Closers : CloseCall(c) \/ CloseCancel(c) \/ CloseReturn(c)

Spec == Init /\ [][Next]_vars

\* The refresh goroutine is scheduled, a poll ends (its context has a deadline),
\* timers fire and callbacks return; a goroutine that waits for applyMu gets it
\* (Go's mutexes do not starve); callers of Watch and Close carry on.
Fairness ==
    /\ WF_vars(Refresh)
    /\ SF_vars(ApplySwap)
    /\ \A w \in Watchers : WF_vars(WatchReturn(w))
    /\ \A c \in Closers : WF_vars(CloseCancel(c)) /\ WF_vars(CloseReturn(c))

FairSpec == Spec /\ Fairness

-----------------------------------------------------------------------------
\* Properties.

\* minBackoff, doubled n times, and at most maxBackoff.
Doubled[n \in 0 .. MaxFails] == IF n = 0 THEN MinBackoff ELSE 2 * Doubled[n - 1]
Capped(wait) == IF wait < MaxBackoff THEN wait ELSE MaxBackoff

\* The variables hold values of their kinds, and the wait is the failures' own: it
\* doubles with each one in a row from minBackoff up to maxBackoff, and a success
\* resets both together (client.go: run).
TypeOK ==
    /\ world.revision \in 0 .. MaxRevision /\ world.content \in Content
    /\ snap.revision \in -1 .. MaxRevision /\ snap.content \in Content
    /\ file # NoFile => file.revision \in -1 .. MaxRevision /\ file.content \in Content
    /\ changed \subseteq Keys
    /\ target \in Watchers \cup {Nobody}
    /\ fails \in 0 .. MaxFails
    /\ backoff \in MinBackoff .. MaxBackoff
    /\ applyMu \in Watchers \cup {Nobody, "run"}
    /\ wpc \in [Watchers -> {"idle", "calling", "done"}]
    /\ got \in [Watchers -> Content]
    /\ cpc \in [Closers -> {"idle", "cancel", "waiting", "returned"}]
    /\ rpc = "sleeping" /\ fails < MaxFails => backoff = Capped(Doubled[fails - 1])

\* Callbacks run serially, "never two at once": the refresh goroutine's and every
\* Watch caller's initial one exclude each other.
CallbacksAreSerial ==
    LET calling == {w \in Watchers : wpc[w] = "calling"}
                     \cup (IF rpc = "calling" THEN {"run"} ELSE {})
    IN  \A a, b \in calling : a = b

\* "It fires once immediately with the current snapshot, then on every subsequent
\* change": whenever no apply and no Watch is under way, each registered watcher
\* was last called with what its prefix holds now, whenever it registered.
WatchersAreCurrent ==
    applyMu = Nobody =>
        \A w \in Watchers :
            wpc[w] = "done" =>
                Restrict(got[w], WatchKeys[w]) = Restrict(snap.content, WatchKeys[w])

\* A closed client is quiet: once the first Close has returned, the refresh
\* goroutine is gone and no callback of it is running or to come.
ClosedIsQuiet ==
    srcClosed /\ rpc # "no client" => rpc = "done" /\ target = Nobody /\ applyMu # "run"

\* As long as the disk works the file holds what memory holds, so a cold start
\* resumes where the process stopped: a file left by an earlier process is
\* replaced by the first fetch, even an empty one ("Persist before returning on
\* an empty diff so empty snapshots replace stale fallback data").
FileMirrorsMemory ==
    outages = 0 /\ snap.revision >= 0 /\ rpc # "persist" =>
        file # NoFile /\ file.content = snap.content

\* Whoever closes gets out, as long as callbacks do not call Watch or Close.
CloseTerminates ==
    \A c \in Closers : (cpc[c] = "cancel") ~> (cpc[c] \in {"returned", "idle"})

\* Nothing but Close stops the updates: the loop comes back to the source, over
\* panicking callbacks, failing disks and failing polls.
RefreshGoesOn == []<>(rpc \in {"polling", "done", "no client"})

\* "Mark seeded only after a successful write so failures retry": an apply that
\* finds the disk working leaves the file with the content it installed.
FailedWritesAreRetried ==
    [][ rpc = "persist" /\ rpc' \in {"succeeded", "notify"} /\ disk =>
          file' # NoFile /\ file'.content = snap.content ]_vars
=============================================================================
