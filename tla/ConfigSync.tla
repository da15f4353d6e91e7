----------------------------- MODULE ConfigSync -----------------------------
(***************************************************************************)
(* How a change travels from the database to the clients: commits,         *)
(* restores, the server instances and their heartbeats, the long polls     *)
(* with the two separate reads behind each snapshot, and the clients,      *)
(* which ask any instance (httpsource) or the database itself (dbsource).  *)
(* A write is atomic here, which Store shows of its transactions; Wait is  *)
(* the Broadcast that RevisionWatcher implements, apply the swap Client    *)
(* details.                                                                *)
(*                                                                         *)
(* The content of the database is known by the commit that made it:        *)
(* states[i] is the revision of the i-th content, states[current] that of  *)
(* the present one.  A restore brings an earlier content back with its     *)
(* revision; later commits then use revision numbers a second time.        *)
(***************************************************************************)
EXTENDS Integers, Sequences, FiniteSets

CONSTANTS
    Instances,            \* lite-settings processes behind one address
    HttpClients,          \* clients that long-poll an instance
    DirectClients,        \* clients that poll the database
    NoServer,
    MaxStates,            \* bound on the contents, hence on the writes
    MaxRestores,          \* bound on restores
    RestoreKind,          \* how the database goes back, see Restore
    WritesAfterRestore,   \* whether anyone writes after it did
    MaxCrashes            \* bound on crashes of instances and clients

ASSUME SyncAssumption ==
    /\ MaxStates \in Nat \ {0} /\ MaxRestores \in Nat /\ MaxCrashes \in Nat
    /\ RestoreKind \in {"quiet", "offline"}
    /\ WritesAfterRestore \in BOOLEAN
    /\ HttpClients \cap DirectClients = {} /\ NoServer \notin Instances

Clients == HttpClients \cup DirectClients

VARIABLES
    \* The database.
    states,     \* the revision of each content it ever had
    current,    \* the content it has
    restores,
    crashes,
    \* The instances.
    watermark,  \* revisionWatcher.rev; -1 before the first poll
    heartbeat,  \* the revision the heartbeat query returned, or -1
    \* The poll each client has in progress.
    stage,      \* see Stages
    server,     \* the instance that serves it
    rev,        \* the revision it will label the snapshot with
    data,       \* the content it has read
    \* What each client holds: a label (Client.Revision) and a content.
    snap

database  == <<states, current, restores>>
instances == <<watermark, heartbeat>>
polls     == <<stage, server, rev, data>>
vars      == <<database, crashes, instances, polls, snap>>

Stages == {"idle",     \* between two polls
           "blocked",  \* Wait sleeps on the instance's channel
           "woken",    \* the channel was closed
           "observe",  \* the watermark is -1: observedRevision
           "label",    \* the database's revision is read
           "list",     \* ListPrefixes is run
           "answer"}   \* the snapshot is on its way

NoData == 0

Empty == [label |-> -1, data |-> NoData]

dbRevision == states[current]

Least(a, b) == IF a < b THEN a ELSE b

Init ==
    /\ states = <<0>>
    /\ current = 1
    /\ restores = 0
    /\ crashes = 0
    /\ watermark = [i \in Instances |-> -1]
    /\ heartbeat = [i \in Instances |-> -1]
    /\ stage = [c \in Clients |-> "idle"]
    /\ server = [c \in HttpClients |-> NoServer]
    /\ rev = [c \in Clients |-> -1]
    /\ data = [c \in Clients |-> NoData]
    /\ snap = [c \in Clients |-> Empty]

-----------------------------------------------------------------------------
\* The database.

\* A write of any caller commits.
Write ==
    /\ Len(states) < MaxStates
    /\ restores = 0 \/ WritesAfterRestore
    /\ states' = Append(states, dbRevision + 1)
    /\ current' = Len(states')
    /\ UNCHANGED <<restores, crashes, instances, polls, snap>>

\* The polls of cs are over.
Over(cs) ==
    /\ stage' = [c \in Clients |-> IF c \in cs THEN "idle" ELSE stage[c]]
    /\ rev' = [c \in Clients |-> IF c \in cs THEN -1 ELSE rev[c]]
    /\ data' = [c \in Clients |-> IF c \in cs THEN NoData ELSE data[c]]
    /\ server' = [c \in HttpClients |-> IF c \in cs THEN NoServer ELSE server[c]]

Reading == {c \in Clients : stage[c] \in {"label", "list"}}

UpToDate(c) == snap[c].label = dbRevision /\ snap[c].data = current

\* An earlier content comes back with its revision: "quiet", when every client is
\* up to date and none is being answered; "offline", at any time, under which the
\* queries of requests in flight fail.
Restore ==
    /\ restores < MaxRestores
    /\ restores' = restores + 1
    /\ current' \in 1 .. current - 1
    /\ \/ /\ RestoreKind = "quiet"
          /\ \A c \in Clients : UpToDate(c) /\ stage[c] \in {"idle", "blocked"}
          /\ UNCHANGED polls
       \/ RestoreKind = "offline" /\ Over(Reading)
    /\ UNCHANGED <<states, crashes, instances, snap>>

-----------------------------------------------------------------------------
\* The instances.

\* The heartbeat query answers.  When it fails nothing changes.
Heartbeat(i) ==
    /\ heartbeat[i] = -1
    /\ heartbeat' = [heartbeat EXCEPT ![i] = dbRevision]
    /\ UNCHANGED <<database, crashes, watermark, polls, snap>>

\* revisionWatcher.set: a moved watermark wakes every long poll of the instance.
SetWatermark(i) ==
    /\ heartbeat[i] # -1
    /\ watermark' = [watermark EXCEPT ![i] = heartbeat[i]]
    /\ heartbeat' = [heartbeat EXCEPT ![i] = -1]
    /\ stage' = [c \in Clients |->
                   IF /\ stage[c] = "blocked"
                      /\ server[c] = i
                      /\ heartbeat[i] # watermark[i]
                     THEN "woken" ELSE stage[c]]
    /\ UNCHANGED <<database, crashes, server, rev, data, snap>>

\* An instance dies with the requests it serves and comes back not ready.
InstanceCrash(i) ==
    /\ crashes < MaxCrashes
    /\ crashes' = crashes + 1
    /\ watermark' = [watermark EXCEPT ![i] = -1]
    /\ heartbeat' = [heartbeat EXCEPT ![i] = -1]
    /\ Over({c \in HttpClients : server[c] = i})
    /\ UNCHANGED <<database, snap>>

-----------------------------------------------------------------------------
\* handleWatch.

\* Where Wait leads: a known watermark goes on to snapshot, -1 to
\* observedRevision first.
AfterWait(c, i) ==
    /\ rev' = [rev EXCEPT ![c] = watermark[i]]
    /\ stage' = [stage EXCEPT ![c] = IF watermark[i] < 0 THEN "observe" ELSE "label"]

\* Fault: only a higher watermark is a move.
MovedUp(w, since) == since < 0 \/ w > since

Moved(w, since) == since < 0 \/ w # since

\* A client asks an instance, whichever the address leads to, with its label as
\* baseline: Wait returns at once or sleeps.
Watch(c, i) ==
    /\ stage[c] = "idle"
    /\ server' = [server EXCEPT ![c] = i]
    /\ IF Moved(watermark[i], snap[c].label)
         THEN AfterWait(c, i)
         ELSE stage' = [stage EXCEPT ![c] = "blocked"] /\ UNCHANGED rev
    /\ UNCHANGED <<database, crashes, instances, data, snap>>

\* Wait wakes up and reads the watermark anew.
Woken(c) ==
    /\ stage[c] = "woken"
    /\ AfterWait(c, server[c])
    /\ UNCHANGED <<database, crashes, instances, server, data, snap>>

\* observedRevision: the watermark if there is one by now, else the database's.
Observe(c) ==
    /\ stage[c] = "observe"
    /\ rev' = [rev EXCEPT ![c] = IF watermark[server[c]] >= 0
                                   THEN watermark[server[c]] ELSE dbRevision]
    /\ stage' = [stage EXCEPT ![c] = "label"]
    /\ UNCHANGED <<database, crashes, instances, server, data, snap>>

\* Fault: the label is the watermark, whatever the database says.
LabelByWatermark(c) ==
    /\ stage[c] = "label"
    /\ stage' = [stage EXCEPT ![c] = "list"]
    /\ UNCHANGED <<database, crashes, instances, server, rev, data, snap>>

\* snapshot: the label is the lower of the watermark and the database's revision ...
Label(c) ==
    /\ stage[c] = "label"
    /\ rev' = [rev EXCEPT ![c] = Least(rev[c], dbRevision)]
    /\ stage' = [stage EXCEPT ![c] = "list"]
    /\ UNCHANGED <<database, crashes, instances, server, data, snap>>

\* Fault: the instance serves the content it cached under that revision.
ListCached(c) ==
    /\ stage[c] = "list"
    /\ \E j \in 1 .. Len(states) : states[j] = rev[c] /\ data' = [data EXCEPT ![c] = j]
    /\ stage' = [stage EXCEPT ![c] = "answer"]
    /\ UNCHANGED <<database, crashes, instances, server, rev, snap>>

\* ... and the data is read after it, in one statement (dbsource: fetch).
List(c) ==
    /\ stage[c] = "list"
    /\ data' = [data EXCEPT ![c] = current]
    /\ stage' = [stage EXCEPT ![c] = "answer"]
    /\ UNCHANGED <<database, crashes, instances, server, rev, snap>>

-----------------------------------------------------------------------------
\* The clients.

\* dbsource.Poll: a look at the revision that differs from the label.  One that
\* does not, and the interval between two looks, change nothing.
DirectPoll(c) ==
    /\ stage[c] = "idle"
    /\ dbRevision # snap[c].label
    /\ rev' = [rev EXCEPT ![c] = dbRevision]
    /\ stage' = [stage EXCEPT ![c] = "list"]
    /\ UNCHANGED <<database, crashes, instances, server, data, snap>>

\* Fault: the label is the revision found after the rows were read.
InstallRelabelled(c) ==
    /\ stage[c] = "answer"
    /\ snap' = [snap EXCEPT ![c] = [label |-> dbRevision, data |-> data[c]]]
    /\ Over({c})
    /\ UNCHANGED <<database, crashes, instances>>

\* The answer arrives, and apply replaces the snapshot whatever the labels say.
Install(c) ==
    /\ stage[c] = "answer"
    /\ snap' = [snap EXCEPT ![c] = [label |-> rev[c], data |-> data[c]]]
    /\ Over({c})
    /\ UNCHANGED <<database, crashes, instances>>

\* The poll ends without a snapshot: 304, an error, a lost connection, a deadline.
Lose(c) ==
    /\ stage[c] # "idle"
    /\ Over({c})
    /\ UNCHANGED <<database, crashes, instances, snap>>

\* A client's process restarts, from its fallback file or from nothing.
Restart(c) ==
    /\ crashes < MaxCrashes
    /\ crashes' = crashes + 1
    /\ snap' \in {snap, [snap EXCEPT ![c] = Empty]}
    /\ Over({c})
    /\ UNCHANGED <<database, instances>>

Next ==
    \/ Write
    \/ Restore
    \/ \E i \in Instances : Heartbeat(i) \/ SetWatermark(i) \/ InstanceCrash(i)
    \/ \E c \in HttpClients :
          \/ \E i \in Instances : Watch(c, i)
          \/ Woken(c) \/ Observe(c) \/ Label(c)
    \/ \E c \in DirectClients : DirectPoll(c)
    \/ \E c \in Clients : List(c) \/ Install(c) \/ Lose(c) \/ Restart(c)

Spec == Init /\ [][Next]_vars

\* Heartbeats go on and are answered again and again; a client polls again (run's
\* loop and its timers), and of the polls it makes some get through each
\* stage, answer included, whichever instances they reach.  Writes, restores,
\* crashes, losses and timeouts are not assumed to happen or to stop, except
\* that their bounds end the first three.
Fairness ==
    /\ \A i \in Instances : WF_vars(Heartbeat(i)) /\ WF_vars(SetWatermark(i))
    /\ \A c \in HttpClients :
          /\ WF_vars(\E i \in Instances : Watch(c, i))
          /\ SF_vars(Woken(c)) /\ SF_vars(Observe(c)) /\ SF_vars(Label(c))
    /\ \A c \in DirectClients : SF_vars(DirectPoll(c))
    /\ \A c \in Clients : SF_vars(List(c)) /\ SF_vars(Install(c))

FairSpec == Spec /\ Fairness

-----------------------------------------------------------------------------
\* What an instance promises, as Broadcast has it: the calls of Wait it serves, and
\* their baselines, which are the labels of the clients that wait.
CallsAt(i) ==
    [c \in HttpClients |->
       IF server[c] = i /\ stage[c] \in {"blocked", "woken"} THEN stage[c] ELSE "out"]

BaselinesAt(i) ==
    [c \in HttpClients |-> IF CallsAt(i)[c] = "out" THEN -1 ELSE snap[c].label]

At(i) == INSTANCE Broadcast
           WITH Callers   <- HttpClients,
                watermark <- watermark[i],
                call      <- CallsAt(i),
                baseline  <- BaselinesAt(i)

-----------------------------------------------------------------------------
\* Properties.

\* The variables hold values of their kinds, and the sentinel -1 of a watcher that
\* has not polled never becomes a label.
TypeOK ==
    /\ states \in Seq(Nat)
    /\ current \in 1 .. Len(states)
    /\ restores \in Nat /\ crashes \in Nat
    /\ watermark \in [Instances -> Nat \cup {-1}]
    /\ heartbeat \in [Instances -> Nat \cup {-1}]
    /\ stage \in [Clients -> Stages]
    /\ \A c \in HttpClients : server[c] = NoServer <=> stage[c] = "idle"
    /\ server \in [HttpClients -> Instances \cup {NoServer}]
    /\ rev \in [Clients -> Nat \cup {-1}]
    /\ \A c \in Clients : stage[c] \in {"label", "list", "answer"} => rev[c] >= 0
    /\ data \in [Clients -> 0 .. Len(states)]
    /\ snap \in [Clients -> [label : Nat \cup {-1}, data : 0 .. Len(states)]]

\* "A snapshot's label is never higher than the true watermark of its data"
\* (07-server.md; Source.Poll's contract): labelling low costs a poll, labelling
\* high skips a change for good.  It holds of what clients have and of what is
\* on its way to them, which no sentinel of an unpolled watcher labels.
LabelsAreLow ==
    \A c \in Clients :
        /\ snap[c].label >= 0 =>
              snap[c].data # NoData /\ snap[c].label <= states[snap[c].data]
        /\ stage[c] = "answer" => rev[c] \in 0 .. states[data[c]]

\* The label may go back when a client meets an instance that lags, the content
\* never does: without a restore, a client never replaces what it has by
\* something older.
DataNeverGoesBack ==
    [][ \A c \in Clients :
          restores' = 0 /\ snap'[c] # Empty => snap'[c].data >= snap[c].data ]_vars

\* The histories of the database in which a revision tells one content: it was never
\* restored, or nobody has written since a restore that found everyone up to date.
RevisionsTellContents ==
    restores = 0 \/ (RestoreKind = "quiet" /\ ~WritesAfterRestore)

\* "No change" is no change: whoever has the database's revision for a label, and
\* is therefore sent nothing (Wait, dbsource.Poll), has the database's content,
\* although the label is an older read than the data and lags at every instance.
UnchangedIsCurrent ==
    RevisionsTellContents =>
        \A c \in Clients : snap[c].label = dbRevision => snap[c].data = current

\* No change is lost: once the writes stop, every client comes to hold the
\* present content under its own revision, over lagging instances and lost polls
\* ("missing one notification only delays ... never loses a change",
\* 03-mechanics.md).  With RestoreKind = "quiet" and nobody writing afterwards
\* this includes a restore, which is why every comparison with the baseline is
\* != and not >.
Converges == <>[](\A c \in Clients : UpToDate(c))

\* The instances broadcast as RevisionWatcher does: each of them, with the clients it
\* serves, behaves as Broadcast allows, so what the model takes for granted of Wait
\* is what Wait's lock and channels provide.
InstancesBroadcast ==
    /\ \A i \in Instances : At(i)!BroadcastInit
    /\ [][ \A i \in Instances :
             [At(i)!BroadcastNext]_(At(i)!broadcastVars) ]_vars
=============================================================================
