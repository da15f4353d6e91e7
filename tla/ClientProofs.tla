---------------------------- MODULE ClientProofs ----------------------------
(***************************************************************************)
(* lite.Client for any number of watchers, callers of Watch and Close,     *)
(* keys, values, crashes and disk outages: callbacks one at a time, every  *)
(* watcher current between two applies, a quiet client after Close, and a  *)
(* fallback file that mirrors memory while the disk works.                 *)
(***************************************************************************)
EXTENDS Client, WellFoundedInduction, TLAPS

Applying == {"persist", "notify", "calling"}

Snapshot == [revision : Int, content : Content]

\* The parts of TypeOK the arguments need.
Shapes ==
    /\ world \in Snapshot /\ snap \in Snapshot /\ next \in Snapshot
    /\ file # NoFile => file \in Snapshot
    /\ changed \subseteq Keys
    /\ wpc \in [Watchers -> {"idle", "calling", "done"}]
    /\ got \in [Watchers -> Content]
    /\ registered \in Seq(Watchers) /\ pending \in Seq(Watchers)
    /\ disk \in BOOLEAN /\ seeded \in BOOLEAN
    /\ outages \in Nat /\ (outages = 0 => disk)

\* applyMu is held by whoever is between swapping a view in and its last callback.
LockInv ==
    /\ \A w \in Watchers : wpc[w] = "calling" <=> applyMu = w
    /\ rpc \in Applying <=> applyMu = "run"
    /\ rpc = "calling" <=> target # Nobody

\* Before New has returned nobody can have called Watch.
StartInv ==
    /\ rpc \in {"new", "no client"} => wpc = [w \in Watchers |-> "idle"] /\ snap = EmptyView
    /\ rpc = "new" => ~seeded

\* The source is closed by the Close that saw the goroutine end, or by New.
CloseInv == srcClosed => rpc \in {"done", "no client"}

ClientInv == Shapes /\ LockInv /\ StartInv /\ CloseInv

-----------------------------------------------------------------------------
\* Shapes.

\* The empty view is a snapshot.
LEMMA EmptyIsSnapshot == EmptyView \in Snapshot /\ EmptyView.content \in Content
  BY DEF EmptyView, Content, Snapshot

\* diff names keys.
LEMMA DiffIsKeys == ASSUME NEW a, NEW b PROVE Diff(a, b) \subseteq Keys
  BY DEF Diff

\* Contents with an empty diff are equal (client.go, diff).
LEMMA NoDiff ==
  ASSUME NEW a \in Content, NEW b \in Content, Diff(a, b) = {}
  PROVE  a = b
<1>1. \A k \in Keys : a[k] = b[k]
  BY DEF Diff
<1> QED
  BY <1>1 DEF Content

\* What writeFallback may do to the file.
LEMMA PersistStep ==
  ASSUME NEW v, NEW d, Persist(v, d)
  PROVE  /\ file' \in {file, v}
         /\ seeded \in BOOLEAN /\ disk \in BOOLEAN => seeded' \in BOOLEAN
         /\ disk /\ (d # {} \/ ~seeded) => file' = v
         /\ ~disk => file' = file
         /\ d = {} /\ seeded => file' = file
         /\ seeded => seeded'
  BY DEF Persist, WriteFallback

\* A process about to call New.
LEMMA InitClient == Init => ClientInv
<1> SUFFICES ASSUME Init PROVE ClientInv
  OBVIOUS
<1> USE DEF Init
<1>1. Shapes
  <2>1. outages \in Nat
    OBVIOUS
  <2>2. disk \in BOOLEAN /\ seeded \in BOOLEAN /\ (outages = 0 => disk)
    BY Zenon
  <2>3. world \in Snapshot
    BY EmptyIsSnapshot DEF Snapshot
  <2> QED
    BY <2>1, <2>2, <2>3, EmptyIsSnapshot DEF Shapes
<1>2. LockInv /\ StartInv /\ CloseInv
  BY ClientAssumption DEF ClientAssumption, LockInv, StartInv, CloseInv, Applying
<1> QED
  BY <1>1, <1>2 DEF ClientInv

\* Every step keeps the kinds of the fields, and of the file.
LEMMA ShapesStep == ClientInv /\ [Next]_vars => Shapes'
<1> SUFFICES ASSUME ClientInv, [Next]_vars PROVE Shapes'
  OBVIOUS
<1>0. Shapes /\ snap.content \in Content /\ world.revision \in Int
  BY DEF ClientInv, Shapes, Snapshot
<1> USE <1>0 DEF Shapes
<1>1. CASE Publish
  <2>1. world' \in Snapshot
    BY <1>1 DEF Publish, Snapshot
  <2> QED
    BY <1>1, <2>1 DEF Publish, refresh, watching
<1>2. CASE DiskFails
  <2>1. disk' \in BOOLEAN
    BY <1>2 DEF DiskFails
  <2>2. outages' \in Nat /\ outages' # 0
    BY <1>2 DEF DiskFails
  <2> QED
    BY <1>2, <2>1, <2>2 DEF DiskFails, refresh, watching
<1>3. CASE DiskRecovers
  BY <1>3 DEF DiskRecovers, refresh, watching
<1>4. CASE Crash
  <2>1. seeded' \in BOOLEAN
    BY <1>4 DEF Crash
  <2> QED
    BY <1>4, <2>1, EmptyIsSnapshot DEF Crash, source
<1>5. CASE Refresh
  <2>1. CASE NewFetched
    BY <2>1, PersistStep DEF NewFetched, source, watching
  <2>2. CASE NewFromFile
    BY <2>2 DEF NewFromFile, source, watching
  <2>3. CASE NewWithoutFile
    BY <2>3 DEF NewWithoutFile, source, watching
  <2>4. CASE PollSnapshot
    BY <2>4 DEF PollSnapshot, source, watching
  <2>5. CASE ApplySwap
    BY <2>5, DiffIsKeys DEF ApplySwap, source, watching
  <2>6. CASE ApplyPersist
    <3>1. Persist(snap, changed) /\ pending' \in {pending, registered}
      BY <2>6 DEF ApplyPersist
    <3> QED
      BY <2>6, <3>1, PersistStep DEF ApplyPersist, source, watching
  <2>7. CASE NotifySkip
    BY <2>7 DEF NotifySkip, source, watching
  <2>8. CASE NotifyCall
    BY <2>8 DEF NotifyCall, source
  <2>9. CASE Loop \/ PollUnchanged \/ PollDeadline \/ PollError \/ NotifyReturn \/ NotifyEnd
    BY <2>9 DEF Loop, PollUnchanged, PollDeadline, PollError, NotifyReturn, NotifyEnd,
       source, watching
  <2>10. CASE CycleSucceeded \/ CycleFailed \/ SleepEnd \/ SleepCancelled
    BY <2>10 DEF CycleSucceeded, CycleFailed, SleepEnd, SleepCancelled, source, watching
  <2> QED
    BY <1>5, <2>1, <2>2, <2>3, <2>4, <2>5, <2>6, <2>7, <2>8, <2>9, <2>10 DEF Refresh
<1>6. ASSUME NEW w \in Watchers, WatchCall(w) \/ WatchReturn(w) PROVE Shapes'
  <2>1. CASE WatchCall(w)
    BY <2>1 DEF WatchCall, source, refresh
  <2>2. CASE WatchReturn(w)
    BY <2>2 DEF WatchReturn, source, refresh
  <2> QED
    BY <1>6, <2>1, <2>2
<1>7. ASSUME NEW c \in Closers, CloseCall(c) \/ CloseCancel(c) \/ CloseReturn(c)
      PROVE  Shapes'
  BY <1>7 DEF CloseCall, CloseCancel, CloseReturn, source, refresh, watching
<1>8. CASE UNCHANGED vars
  BY <1>8 DEF vars, source, refresh, watching
<1> QED
  BY <1>1, <1>2, <1>3, <1>4, <1>5, <1>6, <1>7, <1>8 DEF Next

-----------------------------------------------------------------------------
\* Who holds applyMu.

\* Steps that move neither the goroutines' positions nor the lock.
LEMMA LockFrame ==
  ASSUME LockInv, UNCHANGED <<rpc, target, applyMu, wpc>>
  PROVE  LockInv'
  BY DEF LockInv

\* apply takes the lock before it swaps the view in, and is past its callbacks when
\* it gives it back.
LEMMA RefreshKeepsLock ==
  ASSUME ClientInv, Refresh
  PROVE  LockInv'
<1>0. LockInv
  BY DEF ClientInv
<1> USE <1>0, ClientAssumption DEF ClientAssumption, LockInv, Applying, watching
<1>1. CASE NewFetched
  BY <1>1 DEF NewFetched
<1>2. CASE NewFromFile
  BY <1>2 DEF NewFromFile
<1>3. CASE NewWithoutFile
  BY <1>3 DEF NewWithoutFile
<1>4. CASE Loop \/ PollSnapshot \/ PollUnchanged \/ PollDeadline \/ PollError
  BY <1>4 DEF Loop, PollSnapshot, PollUnchanged, PollDeadline, PollError
<1>5. CASE ApplySwap
  BY <1>5 DEF ApplySwap
<1>6. CASE ApplyPersist
  BY <1>6 DEF ApplyPersist
<1>7. CASE NotifySkip
  BY <1>7 DEF NotifySkip
<1>8. CASE NotifyCall
  <2>1. Head(pending) \in Watchers
    BY <1>8 DEF NotifyCall, ClientInv, Shapes
  <2> QED
    BY <1>8, <2>1 DEF NotifyCall
<1>9. CASE NotifyReturn \/ NotifyEnd
  BY <1>9 DEF NotifyReturn, NotifyEnd
<1>10. CASE CycleSucceeded \/ CycleFailed \/ SleepEnd \/ SleepCancelled
  BY <1>10 DEF CycleSucceeded, CycleFailed, SleepEnd, SleepCancelled
<1> QED
  BY <1>1, <1>2, <1>3, <1>4, <1>5, <1>6, <1>7, <1>8, <1>9, <1>10 DEF Refresh

\* Nobody else takes it meanwhile, nor gives it back.
LEMMA LockStep == ClientInv /\ [Next]_vars => LockInv'
<1> SUFFICES ASSUME ClientInv, [Next]_vars PROVE LockInv'
  OBVIOUS
<1>0. LockInv /\ wpc \in [Watchers -> {"idle", "calling", "done"}]
  BY DEF ClientInv, Shapes
<1>1. CASE Publish \/ DiskFails \/ DiskRecovers
  BY <1>0, <1>1, LockFrame DEF Publish, DiskFails, DiskRecovers, refresh, watching
<1>2. CASE Crash
  BY <1>2, ClientAssumption DEF Crash, LockInv, Applying, ClientAssumption
<1>3. CASE Refresh
  BY <1>3, RefreshKeepsLock
<1>4. ASSUME NEW w \in Watchers, WatchCall(w) PROVE LockInv'
  BY <1>0, <1>4, ClientAssumption DEF WatchCall, refresh, LockInv, Applying, ClientAssumption
<1>5. ASSUME NEW w \in Watchers, WatchReturn(w) PROVE LockInv'
  BY <1>0, <1>5, ClientAssumption DEF WatchReturn, refresh, LockInv, Applying, ClientAssumption
<1>6. ASSUME NEW c \in Closers, CloseCall(c) \/ CloseCancel(c) \/ CloseReturn(c)
      PROVE  LockInv'
  BY <1>0, <1>6, LockFrame DEF CloseCall, CloseCancel, CloseReturn, refresh, watching
<1>7. CASE UNCHANGED vars
  BY <1>0, <1>7, LockFrame DEF vars, refresh, watching
<1> QED
  BY <1>1, <1>2, <1>3, <1>4, <1>5, <1>6, <1>7 DEF Next

\* Steps that move neither the goroutines nor the view.
LEMMA StartFrame ==
  ASSUME StartInv, UNCHANGED <<rpc, wpc, snap, seeded>>
  PROVE  StartInv'
  BY DEF StartInv

\* Watch needs a client, and New makes only one.
LEMMA StartStep == ClientInv /\ [Next]_vars => StartInv'
<1> SUFFICES ASSUME ClientInv, [Next]_vars PROVE StartInv'
  OBVIOUS
<1>0. StartInv
  BY DEF ClientInv
<1> USE <1>0 DEF StartInv
<1>1. CASE Publish \/ DiskFails \/ DiskRecovers
  BY <1>1, StartFrame DEF Publish, DiskFails, DiskRecovers, refresh, watching
<1>2. CASE Crash
  BY <1>2 DEF Crash
<1>3. CASE Refresh
  <2>1. CASE NewFetched \/ NewFromFile \/ NewWithoutFile
    BY <2>1 DEF NewFetched, NewFromFile, NewWithoutFile, watching
  <2>2. CASE Loop \/ PollSnapshot \/ PollUnchanged \/ PollDeadline \/ PollError \/ ApplySwap
    BY <2>2 DEF Loop, PollSnapshot, PollUnchanged, PollDeadline, PollError, ApplySwap
  <2>3. CASE ApplyPersist \/ NotifySkip \/ NotifyCall \/ NotifyReturn \/ NotifyEnd
    BY <2>3 DEF ApplyPersist, NotifySkip, NotifyCall, NotifyReturn, NotifyEnd
  <2>4. CASE CycleSucceeded \/ CycleFailed \/ SleepEnd \/ SleepCancelled
    BY <2>4 DEF CycleSucceeded, CycleFailed, SleepEnd, SleepCancelled
  <2> QED
    BY <1>3, <2>1, <2>2, <2>3, <2>4 DEF Refresh
<1>4. ASSUME NEW w \in Watchers, WatchCall(w) PROVE StartInv'
  BY <1>4 DEF WatchCall, HasClient, refresh
<1>5. ASSUME NEW w \in Watchers, WatchReturn(w) PROVE StartInv'
  <2>1. wpc[w] = "calling" /\ UNCHANGED <<rpc, snap, seeded>>
    BY <1>5 DEF WatchReturn, refresh
  <2>2. rpc \notin {"new", "no client"}
    BY <2>1
  <2> QED
    BY <2>1, <2>2
<1>6. ASSUME NEW c \in Closers, CloseCall(c) \/ CloseCancel(c) \/ CloseReturn(c)
      PROVE  StartInv'
  BY <1>6, StartFrame DEF CloseCall, CloseCancel, CloseReturn, refresh, watching
<1>7. CASE UNCHANGED vars
  BY <1>7 DEF vars, refresh, watching
<1> QED
  BY <1>1, <1>2, <1>3, <1>4, <1>5, <1>6, <1>7 DEF Next

\* Nothing brings a goroutine back that has ended, except a new process.
LEMMA CloseStep == ClientInv /\ [Next]_vars => CloseInv'
<1> SUFFICES ASSUME ClientInv, [Next]_vars PROVE CloseInv'
  OBVIOUS
<1>0. CloseInv
  BY DEF ClientInv
<1> USE <1>0 DEF CloseInv
<1>1. CASE Publish \/ DiskFails \/ DiskRecovers
  BY <1>1 DEF Publish, DiskFails, DiskRecovers, refresh, closing
<1>2. CASE Crash
  BY <1>2 DEF Crash
<1>3. CASE Refresh
  <2>1. CASE NewFetched \/ NewFromFile \/ NewWithoutFile
    BY <2>1 DEF NewFetched, NewFromFile, NewWithoutFile, closing
  <2>2. CASE Loop \/ PollSnapshot \/ PollUnchanged \/ PollDeadline \/ PollError \/ ApplySwap
    BY <2>2 DEF Loop, PollSnapshot, PollUnchanged, PollDeadline, PollError, ApplySwap, closing
  <2>3. CASE ApplyPersist \/ NotifySkip \/ NotifyCall \/ NotifyReturn \/ NotifyEnd
    BY <2>3 DEF ApplyPersist, NotifySkip, NotifyCall, NotifyReturn, NotifyEnd, closing
  <2>4. CASE CycleSucceeded \/ CycleFailed \/ SleepEnd \/ SleepCancelled
    BY <2>4 DEF CycleSucceeded, CycleFailed, SleepEnd, SleepCancelled, closing
  <2> QED
    BY <1>3, <2>1, <2>2, <2>3, <2>4 DEF Refresh
<1>4. ASSUME NEW w \in Watchers, WatchCall(w) \/ WatchReturn(w) PROVE CloseInv'
  BY <1>4 DEF WatchCall, WatchReturn, refresh, closing
<1>5. ASSUME NEW c \in Closers, CloseCall(c) \/ CloseCancel(c) \/ CloseReturn(c)
      PROVE  CloseInv'
  BY <1>5 DEF CloseCall, CloseCancel, CloseReturn, refresh
<1>6. CASE UNCHANGED vars
  BY <1>6 DEF vars, refresh, closing
<1> QED
  BY <1>1, <1>2, <1>3, <1>4, <1>5, <1>6 DEF Next

\* The four parts are inductive together.
THEOREM ClientInvariant == Spec => []ClientInv
<1>1. ClientInv /\ [Next]_vars => ClientInv'
  BY ShapesStep, LockStep, StartStep, CloseStep DEF ClientInv
<1> QED
  BY InitClient, <1>1, PTL DEF Spec

\* Two callbacks never run at once, however many goroutines call Watch while the
\* refresh goroutine notifies (client.go, applyMu).
THEOREM CallbacksNeverOverlap == Spec => []CallbacksAreSerial
<1>1. ClientInv => CallbacksAreSerial
  <2> SUFFICES ASSUME ClientInv PROVE CallbacksAreSerial
    OBVIOUS
  <2>1. \A w \in Watchers : wpc[w] = "calling" => applyMu = w
    BY DEF ClientInv, LockInv
  <2>2. rpc = "calling" => applyMu = "run"
    BY DEF ClientInv, LockInv, Applying
  <2> QED
    BY <2>1, <2>2 DEF CallbacksAreSerial
<1> QED
  BY ClientInvariant, <1>1, PTL

\* After Close has returned no callback of the refresh goroutine runs or is to come,
\* for any number of callers of Close (client.go, Close waits for done).
THEOREM CloseIsQuiet == Spec => []ClosedIsQuiet
<1>1. ClientInv => ClosedIsQuiet
  BY DEF ClientInv, LockInv, CloseInv, Applying, ClosedIsQuiet
<1> QED
  BY ClientInvariant, <1>1, PTL

-----------------------------------------------------------------------------
\* Watchers see every change.

Listed(s) == {s[i] : i \in 1 .. Len(s)}

\* What a watcher was last told of a key is what memory holds, unless the apply in
\* progress changed that key and has not come to the watcher yet.
Told(w, k) ==
    \/ got[w][k] = snap.content[k]
    \/ k \in changed /\ rpc = "persist"
    \/ k \in changed /\ rpc \in {"notify", "calling"} /\ w \in Listed(pending)

ToldInv ==
    \A w \in Watchers : wpc[w] # "idle" =>
        w \in Listed(registered) /\ \A k \in WatchKeys[w] : Told(w, k)

\* The head and the tail of a sequence list what it does.
LEMMA ListedTail ==
  ASSUME NEW s \in Seq(Watchers), s # << >>
  PROVE  Listed(s) = {Head(s)} \cup Listed(Tail(s))
<1>1. Tail(s) \in Seq(Watchers) /\ Len(s) \in Nat \ {0} /\ Len(Tail(s)) = Len(s) - 1
  OBVIOUS
<1>2. \A i \in 1 .. Len(Tail(s)) : Tail(s)[i] = s[i + 1]
  OBVIOUS
<1>3. ASSUME NEW i \in 1 .. Len(s) PROVE s[i] \in {Head(s)} \cup Listed(Tail(s))
  <2>1. CASE i = 1
    BY <2>1
  <2>2. CASE i # 1
    <3>1. i - 1 \in 1 .. Len(Tail(s)) /\ s[i] = Tail(s)[i - 1]
      BY <1>1, <1>2, <2>2
    <3> QED
      BY <3>1 DEF Listed
  <2> QED
    BY <2>1, <2>2
<1>4. Head(s) \in Listed(s)
  BY <1>1 DEF Listed
<1>5. ASSUME NEW i \in 1 .. Len(Tail(s)) PROVE Tail(s)[i] \in Listed(s)
  <2>1. i + 1 \in 1 .. Len(s)
    BY <1>1
  <2> QED
    BY <1>2, <2>1 DEF Listed
<1> QED
  BY <1>3, <1>4, <1>5 DEF Listed

\* A new watcher is listed after those there were.
LEMMA ListedAppend ==
  ASSUME NEW s \in Seq(Watchers), NEW w \in Watchers
  PROVE  Listed(s) \cup {w} \subseteq Listed(Append(s, w))
<1>1. Len(Append(s, w)) = Len(s) + 1 /\ Append(s, w)[Len(s) + 1] = w
  OBVIOUS
<1>2. \A i \in 1 .. Len(s) : Append(s, w)[i] = s[i] /\ i \in 1 .. Len(Append(s, w))
  OBVIOUS
<1>3. Len(s) + 1 \in 1 .. Len(Append(s, w))
  BY <1>1
<1> QED
  BY <1>1, <1>2, <1>3 DEF Listed

\* Steps that leave memory, the watchers and the apply in progress alone.
LEMMA ToldFrame ==
  ASSUME ToldInv, rpc \notin Applying, rpc' \notin Applying,
         UNCHANGED <<snap, registered, wpc, got>>
  PROVE  ToldInv'
<1>1. \A w \in Watchers : \A k : Told(w, k) => got[w][k] = snap.content[k]
  BY DEF Told, Applying
<1> QED
  BY <1>1 DEF ToldInv, Told

\* The change an apply brings reaches each watcher it concerns by the end of notify.
LEMMA ApplyKeepsTold ==
  ASSUME ClientInv, ToldInv,
         ApplySwap \/ ApplyPersist \/ NotifySkip \/ NotifyCall \/ NotifyReturn \/ NotifyEnd
  PROVE  ToldInv'
<1>0. /\ pending \in Seq(Watchers) /\ registered \in Seq(Watchers)
      /\ wpc \in [Watchers -> {"idle", "calling", "done"}]
      /\ got \in [Watchers -> Content] /\ WatchKeys \in [Watchers -> SUBSET Keys]
  BY ClientAssumption DEF ClientInv, Shapes, ClientAssumption
<1> SUFFICES ASSUME NEW w \in Watchers, wpc'[w] # "idle"
             PROVE  w \in Listed(registered') /\ \A k \in WatchKeys[w] : Told(w, k)'
  BY DEF ToldInv
<1> USE DEF Told
<1>1. wpc' = wpc /\ registered' = registered
  BY DEF ApplySwap, ApplyPersist, NotifySkip, NotifyCall, NotifyReturn, NotifyEnd, watching
<1>2. w \in Listed(registered) /\ \A k \in WatchKeys[w] : k \in Keys /\ Told(w, k)
  BY <1>0, <1>1 DEF ToldInv
<1>3. CASE ApplySwap
  <2>1. ASSUME NEW k \in WatchKeys[w] PROVE Told(w, k)'
    <3>1. got[w][k] = snap.content[k] /\ got' = got /\ snap' = next /\ rpc' = "persist"
      BY <1>2, <1>3 DEF ApplySwap, watching
    <3>2. changed' = Diff(snap.content, next.content)
      BY <1>3 DEF ApplySwap
    <3> QED
      BY <1>2, <3>1, <3>2 DEF Diff
  <2> QED
    BY <1>1, <1>2, <2>1
<1>4. CASE ApplyPersist
  <2>1. /\ rpc = "persist" /\ got' = got /\ snap' = snap /\ changed' = changed
        /\ changed # {} => rpc' = "notify" /\ pending' = registered
    BY <1>4 DEF ApplyPersist, watching
  <2> QED
    BY <1>1, <1>2, <2>1
<1>5. CASE NotifySkip
  <2>1. /\ rpc = "notify" /\ rpc' = rpc /\ pending # << >> /\ pending' = Tail(pending)
        /\ WatchKeys[Head(pending)] \cap changed = {}
        /\ got' = got /\ snap' = snap /\ changed' = changed
    BY <1>5 DEF NotifySkip, watching
  <2>2. Listed(pending) = {Head(pending)} \cup Listed(pending')
    BY <1>0, <2>1, ListedTail
  <2> QED
    BY <1>1, <1>2, <2>1, <2>2
<1>6. CASE NotifyCall
  <2>1. /\ rpc = "notify" /\ rpc' = "calling" /\ pending # << >> /\ pending' = Tail(pending)
        /\ got' = [got EXCEPT ![Head(pending)] = snap.content]
        /\ snap' = snap /\ changed' = changed
    BY <1>6 DEF NotifyCall
  <2>2. Listed(pending) = {Head(pending)} \cup Listed(pending')
    BY <1>0, <2>1, ListedTail
  <2>3. CASE w = Head(pending)
    BY <1>0, <1>1, <1>2, <2>1, <2>3
  <2>4. CASE w # Head(pending)
    BY <1>0, <1>1, <1>2, <2>1, <2>2, <2>4
  <2> QED
    BY <2>3, <2>4
<1>7. CASE NotifyReturn
  BY <1>1, <1>2, <1>7 DEF NotifyReturn, watching
<1>8. CASE NotifyEnd
  <2>1. Listed(pending) = {}
    BY <1>8 DEF NotifyEnd, Listed
  <2> QED
    BY <1>1, <1>2, <1>8, <2>1 DEF NotifyEnd
<1> QED
  BY <1>3, <1>4, <1>5, <1>6, <1>7, <1>8

\* Watch tells a new watcher what memory holds; nobody else changes it unnoticed.
LEMMA ToldStep == ClientInv /\ ToldInv /\ [Next]_vars => ToldInv'
<1> SUFFICES ASSUME ClientInv, ToldInv, [Next]_vars PROVE ToldInv'
  OBVIOUS
<1>0. /\ registered \in Seq(Watchers) /\ LockInv
      /\ wpc \in [Watchers -> {"idle", "calling", "done"}] /\ got \in [Watchers -> Content]
  BY DEF ClientInv, Shapes
<1>1. ASSUME UNCHANGED <<rpc, snap, changed, pending, registered, wpc, got>> PROVE ToldInv'
  BY <1>1 DEF ToldInv, Told
<1>2. CASE Publish \/ DiskFails \/ DiskRecovers
  BY <1>1, <1>2 DEF Publish, DiskFails, DiskRecovers, refresh, watching
<1>3. CASE Crash
  BY <1>3 DEF Crash, ToldInv
<1>4. CASE Refresh
  <2>1. CASE NewFetched \/ NewFromFile \/ NewWithoutFile
    <3>1. wpc' = [v \in Watchers |-> "idle"]
      BY <2>1 DEF NewFetched, NewFromFile, NewWithoutFile, watching, ClientInv, StartInv
    <3> QED
      BY <3>1 DEF ToldInv
  <2>2. CASE Loop \/ PollSnapshot \/ PollUnchanged \/ PollDeadline \/ PollError
    BY <2>2, ToldFrame DEF Loop, PollSnapshot, PollUnchanged, PollDeadline, PollError,
       Applying, watching
  <2>3. CASE ApplySwap \/ ApplyPersist \/ NotifySkip \/ NotifyCall \/ NotifyReturn \/ NotifyEnd
    BY <2>3, ApplyKeepsTold
  <2>4. CASE CycleSucceeded \/ CycleFailed \/ SleepEnd \/ SleepCancelled
    BY <2>4, ToldFrame DEF CycleSucceeded, CycleFailed, SleepEnd, SleepCancelled,
       Applying, watching
  <2> QED
    BY <1>4, <2>1, <2>2, <2>3, <2>4 DEF Refresh
<1>5. ASSUME NEW w \in Watchers, WatchCall(w) PROVE ToldInv'
  <2>1. rpc \notin Applying /\ rpc' = rpc /\ snap' = snap
    BY <1>0, <1>5, ClientAssumption DEF WatchCall, LockInv, refresh, ClientAssumption
  <2>2. /\ registered' = Append(registered, w) /\ wpc' = [wpc EXCEPT ![w] = "calling"]
        /\ got' = [got EXCEPT ![w] = snap.content]
    BY <1>5 DEF WatchCall
  <2>3. Listed(registered) \cup {w} \subseteq Listed(registered')
    BY <1>0, <2>2, ListedAppend
  <2>4. ASSUME NEW v \in Watchers, wpc'[v] # "idle"
        PROVE  v \in Listed(registered') /\ \A k \in WatchKeys[v] : Told(v, k)'
    <3>1. CASE v = w
      BY <1>0, <2>1, <2>2, <2>3, <3>1 DEF Told
    <3>2. CASE v # w
      <4>1. wpc[v] # "idle" /\ got'[v] = got[v]
        BY <1>0, <2>2, <2>4, <3>2
      <4>2. v \in Listed(registered) /\ \A k \in WatchKeys[v] : got[v][k] = snap.content[k]
        BY <2>1, <4>1 DEF ToldInv, Told, Applying
      <4> QED
        BY <2>1, <2>3, <4>1, <4>2 DEF Told
    <3> QED
      BY <3>1, <3>2
  <2> QED
    BY <2>4 DEF ToldInv
<1>6. ASSUME NEW w \in Watchers, WatchReturn(w) PROVE ToldInv'
  <2>1. /\ wpc[w] = "calling" /\ wpc' = [wpc EXCEPT ![w] = "done"]
        /\ UNCHANGED <<rpc, snap, changed, pending, registered, got>>
    BY <1>6 DEF WatchReturn, refresh
  <2>2. \A v \in Watchers : wpc'[v] # "idle" => wpc[v] # "idle"
    BY <1>0, <2>1
  <2> QED
    BY <2>1, <2>2 DEF ToldInv, Told
<1>7. ASSUME NEW c \in Closers, CloseCall(c) \/ CloseCancel(c) \/ CloseReturn(c)
      PROVE  ToldInv'
  BY <1>1, <1>7 DEF CloseCall, CloseCancel, CloseReturn, refresh, watching
<1>8. CASE UNCHANGED vars
  BY <1>1, <1>8 DEF vars, refresh, watching
<1> QED
  BY <1>2, <1>3, <1>4, <1>5, <1>6, <1>7, <1>8 DEF Next

\* No watcher misses a change, whenever it registers: between two applies each one
\* was last told what its prefix holds (client.go, Watch and notify).
THEOREM NoChangeIsMissed == Spec => []WatchersAreCurrent
<1>1. Init => ToldInv
  BY DEF Init, ToldInv
<1>2. ClientInv /\ ToldInv => WatchersAreCurrent
  <2> SUFFICES ASSUME ClientInv, ToldInv, applyMu = Nobody,
                      NEW w \in Watchers, wpc[w] = "done"
               PROVE  Restrict(got[w], WatchKeys[w]) = Restrict(snap.content, WatchKeys[w])
    BY DEF WatchersAreCurrent
  <2>1. rpc \notin Applying
    BY ClientAssumption DEF ClientInv, LockInv, ClientAssumption
  <2>2. \A k \in WatchKeys[w] : got[w][k] = snap.content[k]
    BY <2>1 DEF ToldInv, Told, Applying
  <2> QED
    BY <2>2 DEF Restrict
<1> QED
  BY ClientInvariant, <1>1, <1>2, ToldStep, PTL DEF Spec

-----------------------------------------------------------------------------
\* The fallback file.

Mirrored == file # NoFile /\ file.content = snap.content

\* As long as the disk has not failed, the file is memory's copy once this process
\* has written it, except between the swap of a new content and its write.
MirrorInv ==
    outages = 0 =>
        /\ rpc = "persist" => (seeded /\ changed = {} => Mirrored)
        /\ rpc # "persist" => (seeded \/ snap.revision >= 0 => Mirrored)

\* Steps that leave memory, file and disk alone.
LEMMA MirrorFrame ==
  ASSUME MirrorInv, rpc # "persist", rpc' # "persist",
         UNCHANGED <<outages, file, snap, seeded>>
  PROVE  MirrorInv'
  BY DEF MirrorInv, Mirrored

\* The file follows memory: apply writes a new content, and any content until seeded.
LEMMA MirrorStep == ClientInv /\ MirrorInv /\ [Next]_vars => MirrorInv'
<1> SUFFICES ASSUME ClientInv, MirrorInv, [Next]_vars PROVE MirrorInv'
  OBVIOUS
<1>0. /\ world \in Snapshot /\ snap \in Snapshot /\ next \in Snapshot
      /\ world.content \in Content /\ snap.content \in Content /\ next.content \in Content
      /\ world # NoFile /\ snap # NoFile
      /\ outages \in Nat /\ (outages = 0 => disk) /\ StartInv
  BY ClientAssumption DEF ClientInv, Shapes, ClientAssumption, Snapshot, Content
<1>1. ASSUME UNCHANGED <<rpc, snap, changed, seeded, file, outages>> PROVE MirrorInv'
  BY <1>1 DEF MirrorInv, Mirrored
<1>2. CASE Publish \/ DiskRecovers
  BY <1>1, <1>2 DEF Publish, DiskRecovers, refresh
<1>3. CASE DiskFails
  <2>1. outages' # 0
    BY <1>0, <1>3 DEF DiskFails
  <2> QED
    BY <2>1 DEF MirrorInv
<1>4. CASE Crash
  <2>1. rpc' = "new" /\ ~seeded' /\ snap'.revision = -1
    BY <1>4 DEF Crash, EmptyView
  <2> QED
    BY <2>1 DEF MirrorInv
<1>5. CASE NewFetched
  <2>1. /\ ~seeded /\ Persist(world, Diff(snap.content, world.content))
        /\ snap' = world /\ rpc' = "top" /\ UNCHANGED <<disk, outages>>
    BY <1>0, <1>5 DEF NewFetched, StartInv, source
  <2>2. disk => file' = world
    BY <2>1, PersistStep
  <2> QED
    BY <1>0, <2>1, <2>2 DEF MirrorInv, Mirrored
<1>6. CASE NewFromFile
  BY <1>6 DEF NewFromFile, MirrorInv, Mirrored
<1>7. CASE NewWithoutFile
  <2>1. rpc = "new" /\ rpc' # "persist" /\ seeded' = seeded /\ snap' = snap
    BY <1>7 DEF NewWithoutFile
  <2>2. ~seeded /\ snap.revision = -1
    BY <1>0, <2>1 DEF StartInv, EmptyView
  <2>3. ~seeded' /\ snap'.revision = -1
    BY <2>1, <2>2
  <2> QED
    BY <2>1, <2>3 DEF MirrorInv
<1>8. CASE Loop \/ PollSnapshot \/ PollUnchanged \/ PollDeadline \/ PollError
  BY <1>8, MirrorFrame DEF Loop, PollSnapshot, PollUnchanged, PollDeadline, PollError, source
<1>9. CASE ApplySwap
  <2>1. /\ rpc = "apply" /\ rpc' = "persist" /\ snap' = next
        /\ changed' = Diff(snap.content, next.content)
        /\ UNCHANGED <<outages, file, seeded>>
    BY <1>9 DEF ApplySwap, source
  <2>2. changed' = {} => next.content = snap.content
    BY <1>0, <2>1, NoDiff
  <2> QED
    BY <2>1, <2>2 DEF MirrorInv, Mirrored
<1>10. CASE ApplyPersist
  <2>1. /\ rpc = "persist" /\ rpc' # "persist" /\ snap' = snap
        /\ Persist(snap, changed) /\ UNCHANGED <<disk, outages>>
    BY <1>10 DEF ApplyPersist, source
  <2>2. CASE outages = 0 /\ (changed # {} \/ ~seeded)
    <3>1. file' = snap
      BY <1>0, <2>1, <2>2, PersistStep
    <3> QED
      BY <1>0, <2>1, <3>1 DEF MirrorInv, Mirrored
  <2>3. CASE outages = 0 /\ changed = {} /\ seeded
    <3>1. file' = file
      BY <2>1, <2>3, PersistStep
    <3> QED
      BY <2>1, <2>3, <3>1 DEF MirrorInv, Mirrored
  <2>4. CASE outages # 0
    BY <2>1, <2>4 DEF MirrorInv
  <2> QED
    BY <2>2, <2>3, <2>4
<1>11. CASE NotifySkip \/ NotifyCall \/ NotifyReturn \/ NotifyEnd
  BY <1>11, MirrorFrame DEF NotifySkip, NotifyCall, NotifyReturn, NotifyEnd, source
<1>12. CASE CycleSucceeded \/ CycleFailed \/ SleepEnd \/ SleepCancelled
  BY <1>12, MirrorFrame DEF CycleSucceeded, CycleFailed, SleepEnd, SleepCancelled, source
<1>13. ASSUME NEW w \in Watchers, WatchCall(w) \/ WatchReturn(w) PROVE MirrorInv'
  BY <1>1, <1>13 DEF WatchCall, WatchReturn, refresh, source
<1>14. ASSUME NEW c \in Closers, CloseCall(c) \/ CloseCancel(c) \/ CloseReturn(c)
       PROVE  MirrorInv'
  BY <1>1, <1>14 DEF CloseCall, CloseCancel, CloseReturn, refresh, source
<1>15. CASE UNCHANGED vars
  BY <1>1, <1>15 DEF vars, refresh, source
<1> QED
  BY <1>2, <1>3, <1>4, <1>5, <1>6, <1>7, <1>8, <1>9, <1>10, <1>11, <1>12, <1>13, <1>14, <1>15
  DEF Next, Refresh

\* As long as no write of the file has failed, it holds what memory holds, over any
\* number of crashes and cold starts: a stale file of an earlier process is replaced
\* by the first fetch (client.go, apply and the comment on seeded).
THEOREM FileIsMemory == Spec => []FileMirrorsMemory
<1>1. Init => MirrorInv
  BY DEF Init, MirrorInv, EmptyView
<1>2. MirrorInv => FileMirrorsMemory
  BY DEF MirrorInv, Mirrored, FileMirrorsMemory
<1> QED
  BY ClientInvariant, <1>1, <1>2, MirrorStep, PTL DEF Spec

-----------------------------------------------------------------------------
\* The wait between failures.

\* A set of naturals that is not empty has a least element.
LEMMA LeastNat ==
  ASSUME NEW T, T \subseteq Nat, T # {}
  PROVE  \E x \in T : \A y \in T : x <= y
<1>1. PICK x \in T : \A y \in T : ~ (<<y, x>> \in OpToRel(<, Nat))
  BY NatLessThanWellFounded, WFMin
<1>2. \A y \in T : <<y, x>> \in Nat \X Nat
  OBVIOUS
<1>3. \A y \in T : y < x => <<y, x>> \in OpToRel(<, Nat)
  BY <1>2 DEF OpToRel
<1>4. \A y \in T : ~(y < x)
  BY <1>1, <1>3, Zenon
<1> QED
  BY <1>4

\* A set with 0 and the successor of each of its elements has every natural.
LEMMA SetInduction ==
  ASSUME NEW T, 0 \in T, \A n \in Nat : n \in T => n + 1 \in T
  PROVE  Nat \subseteq T
<1> SUFFICES ASSUME Nat \ T # {} PROVE FALSE
  OBVIOUS
<1>1. PICK x \in Nat \ T : \A y \in Nat \ T : x <= y
  BY LeastNat
<1>2. x - 1 \in Nat /\ x - 1 \notin Nat \ T
  BY <1>1
<1> QED
  BY <1>2

\* There is a table of the doublings.
LEMMA DoubledTable ==
  /\ MaxFails \in Nat /\ \A n \in 0 .. MaxFails : Doubled[n] \in Nat
  /\ Doubled[0] = MinBackoff
  /\ \A n \in 1 .. MaxFails : Doubled[n] = 2 * Doubled[n - 1]
<1> DEFINE Is(f, n) == f = [i \in 0 .. n |-> IF i = 0 THEN MinBackoff ELSE 2 * f[i - 1]]
           Good(n) == \E f \in [0 .. n -> Nat] : f[0] = MinBackoff /\ \A i \in 1 .. n : f[i] = 2 * f[i - 1]
           T == {n \in Nat : Good(n)}
<1>1. MinBackoff \in Nat /\ MaxFails \in Nat
  BY ClientAssumption DEF ClientAssumption
<1>2. 0 \in T
  <2> DEFINE f == [i \in 0 .. 0 |-> MinBackoff]
  <2>1. f \in [0 .. 0 -> Nat] /\ f[0] = MinBackoff /\ \A i \in 1 .. 0 : f[i] = 2 * f[i - 1]
    BY <1>1
  <2> QED
    BY <2>1
<1>3. ASSUME NEW n \in Nat, n \in T PROVE n + 1 \in T
  <2>1. PICK f \in [0 .. n -> Nat] : f[0] = MinBackoff /\ \A i \in 1 .. n : f[i] = 2 * f[i - 1]
    BY <1>3
  <2> DEFINE g == [i \in 0 .. n + 1 |-> IF i = n + 1 THEN 2 * f[n] ELSE f[i]]
  <2>2. f[n] \in Nat /\ \A i \in 0 .. n + 1 : i # n + 1 => f[i] \in Nat
    BY <2>1
  <2>3. g \in [0 .. n + 1 -> Nat]
    BY <2>2
  <2>4. \A i \in 0 .. n : g[i] = f[i]
    OBVIOUS
  <2>5. g[n + 1] = 2 * f[n]
    OBVIOUS
  <2> HIDE DEF g
  <2>6. g[0] = MinBackoff
    BY <2>1, <2>4
  <2>7. ASSUME NEW i \in 1 .. n + 1 PROVE g[i] = 2 * g[i - 1]
    <3>1. CASE i = n + 1
      <4>1. i - 1 = n /\ n \in 0 .. n
        BY <3>1
      <4> QED
        BY <2>4, <2>5, <3>1, <4>1
    <3>2. CASE i # n + 1
      <4>1. i \in 1 .. n /\ i \in 0 .. n /\ i - 1 \in 0 .. n
        BY <3>2
      <4>2. g[i] = f[i] /\ g[i - 1] = f[i - 1] /\ f[i] = 2 * f[i - 1]
        BY <2>1, <2>4, <4>1
      <4> QED
        BY <4>2
    <3> QED
      BY <3>1, <3>2
  <2>8. Good(n + 1)
    BY <2>3, <2>6, <2>7, Zenon
  <2> HIDE DEF Good
  <2> QED
    BY <2>8
<1> HIDE DEF T
<1>4. Nat \subseteq T
  BY <1>2, <1>3, SetInduction
<1>5. Good(MaxFails)
  BY <1>1, <1>4 DEF T
<1>6. PICK f \in [0 .. MaxFails -> Nat] :
        f[0] = MinBackoff /\ \A i \in 1 .. MaxFails : f[i] = 2 * f[i - 1]
  BY <1>5
<1>7. Is(f, MaxFails)
  <2> DEFINE h == [i \in 0 .. MaxFails |-> IF i = 0 THEN MinBackoff ELSE 2 * f[i - 1]]
  <2>1. ASSUME NEW i \in 0 .. MaxFails PROVE f[i] = h[i]
    <3>1. CASE i = 0
      BY <1>6, <3>1
    <3>2. CASE i # 0
      <4>1. i \in 1 .. MaxFails
        BY <1>1, <3>2
      <4> QED
        BY <1>6, <3>2, <4>1
    <3> QED
      BY <3>1, <3>2
  <2> QED
    BY <2>1
<1>8. Is(Doubled, MaxFails)
  <2>1. \E f0 : Is(f0, MaxFails)
    BY <1>7
  <2>2. Doubled = CHOOSE f0 : Is(f0, MaxFails)
    BY Zenon DEF Doubled
  <2> QED
    BY <2>1, <2>2, Zenon
<1> DEFINE Same == {n \in Nat : n <= MaxFails => Doubled[n] = f[n]}
<1>9. Doubled[0] = MinBackoff /\ \A n \in 1 .. MaxFails : Doubled[n] = 2 * Doubled[n - 1]
  <2>1. DOMAIN Doubled = 0 .. MaxFails /\ \A i \in 0 .. MaxFails :
          Doubled[i] = IF i = 0 THEN MinBackoff ELSE 2 * Doubled[i - 1]
    BY <1>8
  <2>2. 0 \in 0 .. MaxFails /\ \A n \in 1 .. MaxFails : n \in 0 .. MaxFails /\ n # 0
    BY <1>1
  <2> QED
    BY <2>1, <2>2
<1> HIDE DEF Is
<1>10. Nat \subseteq Same
  <2>1. 0 \in Same
    BY <1>6, <1>9
  <2>2. ASSUME NEW n \in Nat, n \in Same PROVE n + 1 \in Same
    <3> SUFFICES ASSUME n + 1 <= MaxFails PROVE Doubled[n + 1] = f[n + 1]
      OBVIOUS
    <3>1. n + 1 \in 1 .. MaxFails /\ (n + 1) - 1 = n /\ n <= MaxFails
      BY <1>1
    <3> QED
      BY <1>6, <1>9, <2>2, <3>1
  <2> HIDE DEF Same
  <2> QED
    BY <2>1, <2>2, SetInduction
<1>11. ASSUME NEW n \in 0 .. MaxFails PROVE Doubled[n] \in Nat
  <2>1. n \in Nat /\ n <= MaxFails
    BY <1>1
  <2>2. Doubled[n] = f[n]
    BY <1>10, <2>1
  <2> QED
    BY <1>6, <2>2
<1> QED
  BY <1>1, <1>9, <1>11

\* Doubling the capped wait and capping again is doubling first.
LEMMA CapOnce ==
  ASSUME NEW a \in Nat
  PROVE  Capped(2 * Capped(a)) = Capped(2 * a)
<1>1. MaxBackoff \in Nat
  BY ClientAssumption DEF ClientAssumption
<1> QED
  BY <1>1 DEF Capped

\* The statistics are those of the failures since the last success; before the
\* goroutine sleeps for them they have not been counted into the wait.
StatsInv ==
    /\ fails \in 0 .. MaxFails
    /\ backoff \in MinBackoff .. MaxBackoff
    /\ rpc = "new" => fails = 0
    /\ rpc = "sleeping" => fails # 0 \/ MaxFails = 0
    /\ fails < MaxFails =>
         /\ rpc = "sleeping" => backoff = Capped(Doubled[fails - 1])
         /\ rpc \notin {"sleeping", "done"} => backoff = Capped(Doubled[fails])

\* Revisions stay in their bounds; only goroutines of this process hold the lock.
KindsInv ==
    /\ world.revision \in 0 .. MaxRevision
    /\ snap.revision \in -1 .. MaxRevision
    /\ next.revision \in -1 .. MaxRevision
    /\ file # NoFile => file.revision \in -1 .. MaxRevision
    /\ target \in Watchers \cup {Nobody}
    /\ applyMu \in Watchers \cup {Nobody, "run"}
    /\ cpc \in [Closers -> {"idle", "cancel", "waiting", "returned"}]

\* Before anything has failed the wait is the least.
LEMMA LeastWait == Capped(Doubled[0]) = MinBackoff /\ MinBackoff \in MinBackoff .. MaxBackoff
<1>1. MinBackoff \in Nat /\ MaxBackoff \in Nat /\ MinBackoff <= MaxBackoff
  BY ClientAssumption DEF ClientAssumption
<1> QED
  BY <1>1, DoubledTable DEF Capped

\* Initially nothing has failed.
LEMMA InitStats == Init => StatsInv /\ KindsInv
<1> SUFFICES ASSUME Init PROVE StatsInv /\ KindsInv
  OBVIOUS
<1>1. MaxFails \in Nat /\ MaxRevision \in Nat
  BY ClientAssumption DEF ClientAssumption
<1>2. StatsInv
  BY <1>1, LeastWait DEF Init, StatsInv
<1>3. KindsInv
  BY <1>1 DEF Init, KindsInv, EmptyView
<1> QED
  BY <1>2, <1>3

\* Steps that leave the statistics alone and neither begin nor end a sleep.
LEMMA StatsFrame ==
  ASSUME StatsInv, UNCHANGED stats,
         rpc' = rpc \/ (rpc # "sleeping" /\ rpc # "done" /\ rpc' # "sleeping" /\ rpc' # "new")
                    \/ rpc' = "done"
  PROVE  StatsInv'
  BY DEF StatsInv, stats

\* A failure is counted, its sleep doubles the wait, a success resets both.
LEMMA StatsStep == StatsInv /\ [Next]_vars => StatsInv'
<1> SUFFICES ASSUME StatsInv, [Next]_vars PROVE StatsInv'
  OBVIOUS
<1>0. /\ MinBackoff \in Nat /\ MaxBackoff \in Nat /\ MinBackoff <= MaxBackoff /\ MaxFails \in Nat
      /\ fails \in 0 .. MaxFails /\ backoff \in MinBackoff .. MaxBackoff
  BY ClientAssumption DEF ClientAssumption, StatsInv
<1>1. CASE Publish \/ DiskFails \/ DiskRecovers
  BY <1>1, StatsFrame DEF Publish, DiskFails, DiskRecovers, refresh
<1>2. CASE Crash
  BY <1>0, <1>2, LeastWait DEF Crash, StatsInv
<1>3. CASE Refresh
  <2>1. CASE NewFetched \/ NewFromFile \/ NewWithoutFile
    BY <2>1, StatsFrame DEF NewFetched, NewFromFile, NewWithoutFile
  <2>2. CASE Loop \/ PollSnapshot \/ PollUnchanged \/ PollDeadline \/ PollError \/ ApplySwap
    BY <2>2, StatsFrame DEF Loop, PollSnapshot, PollUnchanged, PollDeadline, PollError, ApplySwap
  <2>3. CASE ApplyPersist \/ NotifySkip \/ NotifyCall \/ NotifyReturn \/ NotifyEnd
    BY <2>3, StatsFrame DEF ApplyPersist, NotifySkip, NotifyCall, NotifyReturn, NotifyEnd
  <2>4. CASE CycleSucceeded
    <3>1. CASE ctxDone
      BY <2>4, <3>1, StatsFrame DEF CycleSucceeded
    <3>2. CASE ~ctxDone
      BY <1>0, <2>4, <3>2, LeastWait DEF CycleSucceeded, StatsInv
    <3> QED
      BY <3>1, <3>2
  <2>5. CASE CycleFailed
    <3>1. CASE ctxDone
      BY <2>5, <3>1, StatsFrame DEF CycleFailed
    <3>2. CASE ~ctxDone
      <4>1. rpc = "failed" /\ rpc' = "sleeping" /\ fails' = OneMore(fails) /\ backoff' = backoff
        BY <2>5, <3>2 DEF CycleFailed
      <4>2. fails' \in 0 .. MaxFails /\ (fails' # 0 \/ MaxFails = 0)
        BY <1>0, <4>1 DEF OneMore
      <4>3. ASSUME fails' < MaxFails PROVE backoff' = Capped(Doubled[fails' - 1])
        <5>1. fails < MaxFails /\ fails' - 1 = fails
          BY <1>0, <4>1, <4>3 DEF OneMore
        <5> QED
          BY <4>1, <5>1 DEF StatsInv
      <4> QED
        BY <1>0, <4>1, <4>2, <4>3 DEF StatsInv
    <3> QED
      BY <3>1, <3>2
  <2>6. CASE SleepEnd
    <3>1. /\ rpc = "sleeping" /\ rpc' = "top" /\ fails' = fails
          /\ backoff' = Capped(2 * backoff)
      BY <2>6 DEF SleepEnd, Capped
    <3>2. backoff' \in MinBackoff .. MaxBackoff
      BY <1>0, <3>1 DEF Capped
    <3>3. ASSUME fails < MaxFails PROVE backoff' = Capped(Doubled[fails])
      <4>1. fails \in 1 .. MaxFails /\ fails - 1 \in 0 .. MaxFails
        BY <1>0, <3>1, <3>3 DEF StatsInv
      <4>2. Doubled[fails] = 2 * Doubled[fails - 1] /\ Doubled[fails - 1] \in Nat
        BY <4>1, DoubledTable
      <4>3. backoff = Capped(Doubled[fails - 1])
        BY <3>1, <3>3 DEF StatsInv
      <4>4. Capped(2 * Capped(Doubled[fails - 1])) = Capped(2 * Doubled[fails - 1])
        BY <4>2, CapOnce
      <4> QED
        BY <3>1, <4>2, <4>3, <4>4
    <3> QED
      BY <1>0, <3>1, <3>2, <3>3 DEF StatsInv
  <2>7. CASE SleepCancelled
    BY <2>7, StatsFrame DEF SleepCancelled
  <2> QED
    BY <1>3, <2>1, <2>2, <2>3, <2>4, <2>5, <2>6, <2>7 DEF Refresh
<1>4. ASSUME NEW w \in Watchers, WatchCall(w) \/ WatchReturn(w) PROVE StatsInv'
  BY <1>4, StatsFrame DEF WatchCall, WatchReturn, refresh
<1>5. ASSUME NEW c \in Closers, CloseCall(c) \/ CloseCancel(c) \/ CloseReturn(c) PROVE StatsInv'
  BY <1>5, StatsFrame DEF CloseCall, CloseCancel, CloseReturn, refresh
<1>6. CASE UNCHANGED vars
  BY <1>6, StatsFrame DEF vars, refresh
<1> QED
  BY <1>1, <1>2, <1>3, <1>4, <1>5, <1>6 DEF Next

\* A view is the source's or the file's, and a callback is a watcher's.
LEMMA KindsStep == ClientInv /\ KindsInv /\ [Next]_vars => KindsInv'
<1> SUFFICES ASSUME ClientInv, KindsInv, [Next]_vars PROVE KindsInv'
  OBVIOUS
<1> USE DEF KindsInv
<1>1. CASE Publish
  <2>1. world'.revision = world.revision + 1 /\ world.revision < MaxRevision /\ MaxRevision \in Nat
    BY <1>1, ClientAssumption DEF Publish, ClientAssumption
  <2>2. world'.revision \in 0 .. MaxRevision
    BY <2>1
  <2> QED
    BY <1>1, <2>2 DEF Publish, refresh, closing
<1>2. CASE DiskFails \/ DiskRecovers
  BY <1>2 DEF DiskFails, DiskRecovers, refresh, closing
<1>3. CASE Crash
  <2>1. -1 \in -1 .. MaxRevision
    BY ClientAssumption DEF ClientAssumption
  <2> QED
    BY <1>3, <2>1 DEF Crash, EmptyView, source
<1>4. CASE Refresh
  <2>0. world.revision \in -1 .. MaxRevision
    BY ClientAssumption DEF ClientAssumption
  <2>1. CASE NewFetched
    <3>1. file' \in {file, world}
      BY <2>1, PersistStep DEF NewFetched
    <3> QED
      BY <2>0, <2>1, <3>1 DEF NewFetched, source, closing
  <2>2. CASE NewFromFile
    BY <2>2 DEF NewFromFile, source, closing
  <2>3. CASE NewWithoutFile
    BY <2>3 DEF NewWithoutFile, source
  <2>4. CASE PollSnapshot
    BY <2>0, <2>4 DEF PollSnapshot, source, closing
  <2>5. CASE Loop \/ PollUnchanged \/ PollDeadline \/ PollError
    BY <2>5 DEF Loop, PollUnchanged, PollDeadline, PollError, source, closing
  <2>6. CASE ApplySwap
    BY <2>6 DEF ApplySwap, source, closing
  <2>7. CASE ApplyPersist
    <3>1. file' \in {file, snap} /\ applyMu' \in {applyMu, Nobody}
      BY <2>7, PersistStep DEF ApplyPersist
    <3> QED
      BY <2>7, <3>1 DEF ApplyPersist, source, closing
  <2>8. CASE NotifyCall
    <3>1. Head(pending) \in Watchers
      BY <2>8 DEF NotifyCall, ClientInv, Shapes
    <3> QED
      BY <2>8, <3>1 DEF NotifyCall, source, closing
  <2>9. CASE NotifySkip \/ NotifyReturn \/ NotifyEnd
    BY <2>9 DEF NotifySkip, NotifyReturn, NotifyEnd, source, closing
  <2>10. CASE CycleSucceeded \/ CycleFailed \/ SleepEnd \/ SleepCancelled
    BY <2>10 DEF CycleSucceeded, CycleFailed, SleepEnd, SleepCancelled, source, closing
  <2> QED
    BY <1>4, <2>1, <2>2, <2>3, <2>4, <2>5, <2>6, <2>7, <2>8, <2>9, <2>10 DEF Refresh
<1>5. ASSUME NEW w \in Watchers, WatchCall(w) \/ WatchReturn(w) PROVE KindsInv'
  BY <1>5 DEF WatchCall, WatchReturn, source, refresh, closing
<1>6. ASSUME NEW c \in Closers, CloseCall(c) \/ CloseCancel(c) \/ CloseReturn(c) PROVE KindsInv'
  BY <1>6 DEF CloseCall, CloseCancel, CloseReturn, source, refresh
<1>7. CASE UNCHANGED vars
  BY <1>7 DEF vars, source, refresh, closing
<1> QED
  BY <1>1, <1>2, <1>3, <1>4, <1>5, <1>6, <1>7 DEF Next

\* The variables hold values of their kinds, and the wait is minBackoff doubled with
\* each failure in a row and capped (client.go: run), for any backoffs.
THEOREM WaitIsTheFailures == Spec => []TypeOK
<1>1. ClientInv /\ StatsInv /\ KindsInv => TypeOK
  <2> SUFFICES ASSUME ClientInv, StatsInv, KindsInv PROVE TypeOK
    OBVIOUS
  <2>1. /\ world.content \in Content /\ snap.content \in Content
        /\ file # NoFile => file.content \in Content
    BY DEF ClientInv, Shapes, Snapshot
  <2>2. /\ changed \subseteq Keys /\ got \in [Watchers -> Content]
        /\ wpc \in [Watchers -> {"idle", "calling", "done"}]
    BY DEF ClientInv, Shapes
  <2>3. /\ fails \in 0 .. MaxFails /\ backoff \in MinBackoff .. MaxBackoff
        /\ rpc = "sleeping" /\ fails < MaxFails => backoff = Capped(Doubled[fails - 1])
    BY DEF StatsInv
  <2> QED
    BY <2>1, <2>2, <2>3 DEF TypeOK, KindsInv
<1> QED
  BY InitStats, StatsStep, KindsStep, ClientInvariant, <1>1, PTL DEF Spec
=============================================================================
