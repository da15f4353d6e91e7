-------------------------- MODULE ConfigSyncProofs --------------------------
(***************************************************************************)
(* The path of a change for any number of instances, clients, writes,      *)
(* crashes and restores: labels are never higher than the revision of the  *)
(* data they are on, and without a restore no client goes back.            *)
(***************************************************************************)
EXTENDS ConfigSync, TLAPS

\* A label on its way from snapshot's first query to its second is not higher than
\* the revision the second will find, nor the sentinel.
ListInv == \A c \in Clients : stage[c] = "list" => rev[c] <= dbRevision

\* What is on its way has been read.
AnswerInv == \A c \in Clients : stage[c] = "answer" => data[c] # NoData

SyncInv == TypeOK /\ ListInv /\ AnswerInv /\ LabelsAreLow

-----------------------------------------------------------------------------
\* The polls of some clients are over.
LEMMA OverTypes ==
  ASSUME TypeOK, NEW cs, Over(cs)
  PROVE  /\ stage' \in [Clients -> Stages]
         /\ server' \in [HttpClients -> Instances \cup {NoServer}]
         /\ rev' \in [Clients -> Nat \cup {-1}]
         /\ data' \in [Clients -> 0 .. Len(states)]
         /\ \A c \in Clients :
               \/ stage'[c] = "idle"
               \/ stage'[c] = stage[c] /\ rev'[c] = rev[c] /\ data'[c] = data[c]
         /\ \A c \in HttpClients : server'[c] = NoServer <=> stage'[c] = "idle"
         /\ \A c \in Clients : stage'[c] \in {"label", "list", "answer"} => rev'[c] >= 0
<1> USE DEF TypeOK, Over, Clients
<1>1. /\ stage' \in [Clients -> Stages]
      /\ server' \in [HttpClients -> Instances \cup {NoServer}]
      /\ rev' \in [Clients -> Nat \cup {-1}]
  BY DEF Stages
<1>2. data' \in [Clients -> 0 .. Len(states)]
  BY DEF NoData
<1>3. ASSUME NEW c \in Clients
      PROVE  \/ stage'[c] = "idle"
             \/ stage'[c] = stage[c] /\ rev'[c] = rev[c] /\ data'[c] = data[c]
  OBVIOUS
<1>4. ASSUME NEW c \in HttpClients PROVE server'[c] = NoServer <=> stage'[c] = "idle"
  OBVIOUS
<1>5. ASSUME NEW c \in Clients, stage'[c] \in {"label", "list", "answer"}
      PROVE  rev'[c] >= 0
  BY <1>3, <1>5
<1> QED
  BY <1>1, <1>2, <1>3, <1>4, <1>5

\* Nobody has asked anything.
LEMMA InitSync == Init => SyncInv
<1> SUFFICES ASSUME Init PROVE SyncInv
  OBVIOUS
<1> USE DEF Init
<1>1. Len(states) = 1 /\ states[1] = 0
  OBVIOUS
<1>2. TypeOK
  BY <1>1, SyncAssumption DEF SyncAssumption, TypeOK, Stages, NoData, Empty, Clients
<1>3. ListInv /\ AnswerInv /\ LabelsAreLow
  BY DEF ListInv, AnswerInv, LabelsAreLow, Empty
<1> QED
  BY <1>2, <1>3 DEF SyncInv

\* The part of TypeOK that is about polls.
PollTypes ==
    /\ stage \in [Clients -> Stages]
    /\ \A c \in HttpClients : server[c] = NoServer <=> stage[c] = "idle"
    /\ server \in [HttpClients -> Instances \cup {NoServer}]
    /\ rev \in [Clients -> Nat \cup {-1}]
    /\ \A c \in Clients : stage[c] \in {"label", "list", "answer"} => rev[c] >= 0
    /\ data \in [Clients -> 0 .. Len(states)]

\* Polls that are over keep it, as long as the contents stay.
LEMMA OverPollTypes ==
  ASSUME TypeOK, NEW cs, Over(cs), states' = states
  PROVE  PollTypes'
<1>1. /\ stage' \in [Clients -> Stages]
      /\ server' \in [HttpClients -> Instances \cup {NoServer}]
      /\ rev' \in [Clients -> Nat \cup {-1}]
      /\ data' \in [Clients -> 0 .. Len(states)]
  BY OverTypes
<1>2. /\ \A c \in HttpClients : server'[c] = NoServer <=> stage'[c] = "idle"
      /\ \A c \in Clients : stage'[c] \in {"label", "list", "answer"} => rev'[c] >= 0
  BY OverTypes
<1>3. data' \in [Clients -> 0 .. Len(states')]
  BY <1>1
<1> QED
  BY <1>1, <1>2, <1>3 DEF PollTypes

\* A commit adds one content and leaves the others their revisions.
LEMMA WriteStates ==
  ASSUME TypeOK, Write
  PROVE  /\ Len(states') = Len(states) + 1 /\ Len(states) \in Nat
         /\ \A i \in 1 .. Len(states) : states'[i] = states[i]
         /\ \A i \in 1 .. Len(states') : states'[i] \in Nat
         /\ current' = Len(states') /\ current' \in 1 .. Len(states')
         /\ dbRevision \in Nat /\ dbRevision' = dbRevision + 1
<1>1. states' = Append(states, dbRevision + 1) /\ current' = Len(states')
  BY DEF Write
<1> QED
  BY <1>1 DEF TypeOK, dbRevision

\* An instance's watermark, or the database's revision, becomes the label in the
\* making, and -1 never does.
LEMMA SyncTypeStep == TypeOK /\ [Next]_vars => TypeOK'
<1> SUFFICES ASSUME TypeOK, [Next]_vars PROVE TypeOK'
  OBVIOUS
<1>0. /\ dbRevision \in Nat /\ Len(states) \in Nat /\ NoServer \notin Instances
      /\ HttpClients \subseteq Clients /\ DirectClients \cap HttpClients = {}
  BY SyncAssumption DEF TypeOK, dbRevision, SyncAssumption, Clients
<1> USE <1>0
<1>1. CASE Write
  <2>1. states' \in Seq(Nat)
    <3>1. states \in Seq(Nat) /\ dbRevision + 1 \in Nat
      BY DEF TypeOK
    <3> QED
      BY <1>1, <3>1 DEF Write
  <2>2. /\ current' \in 1 .. Len(states')
        /\ data \in [Clients -> 0 .. Len(states')]
        /\ snap \in [Clients -> [label : Nat \cup {-1}, data : 0 .. Len(states')]]
    <3>1. Len(states') = Len(states) + 1 /\ current' \in 1 .. Len(states')
      BY <1>1, WriteStates
    <3>2. 0 .. Len(states) \subseteq 0 .. Len(states')
      BY <3>1
    <3> QED
      BY <3>1, <3>2 DEF TypeOK
  <2> QED
    BY <1>1, <2>1, <2>2 DEF Write, TypeOK, instances, polls
<1>2. CASE Restore
  <2>1. CASE UNCHANGED polls
    BY <1>2, <2>1 DEF Restore, TypeOK, instances, polls
  <2>2. CASE Over(Reading)
    <3>1. UNCHANGED <<states, crashes, watermark, heartbeat, snap>>
      BY <1>2 DEF Restore, instances
    <3>2. restores' \in Nat /\ current' \in 1 .. Len(states)
      BY <1>2 DEF Restore, TypeOK
    <3>3. PollTypes'
      BY <2>2, <3>1, OverPollTypes
    <3> QED
      BY <3>1, <3>2, <3>3 DEF PollTypes, TypeOK
  <2> QED
    BY <1>2, <2>1, <2>2 DEF Restore
<1>3. ASSUME NEW i \in Instances, Heartbeat(i) PROVE TypeOK'
  BY <1>3 DEF Heartbeat, TypeOK, database, polls
<1>4. ASSUME NEW i \in Instances, SetWatermark(i) PROVE TypeOK'
  <2>1. /\ stage' \in [Clients -> Stages]
        /\ \A c \in Clients :
              \/ stage'[c] = stage[c]
              \/ stage[c] = "blocked" /\ stage'[c] = "woken"
    BY <1>4 DEF SetWatermark, TypeOK, Stages
  <2>2. heartbeat[i] \in Nat
    BY <1>4 DEF SetWatermark, TypeOK
  <2> QED
    BY <1>4, <2>1, <2>2 DEF SetWatermark, TypeOK, database
<1>5. ASSUME NEW i \in Instances, InstanceCrash(i) PROVE TypeOK'
  <2>1. /\ UNCHANGED <<states, current, restores, snap>> /\ crashes' = crashes + 1
        /\ watermark' = [watermark EXCEPT ![i] = -1]
        /\ heartbeat' = [heartbeat EXCEPT ![i] = -1]
        /\ Over({c \in HttpClients : server[c] = i})
    BY <1>5 DEF InstanceCrash, database
  <2>2. /\ crashes' \in Nat /\ watermark' \in [Instances -> Nat \cup {-1}]
        /\ heartbeat' \in [Instances -> Nat \cup {-1}]
    BY <2>1 DEF TypeOK
  <2>3. PollTypes'
    BY <2>1, OverPollTypes
  <2> QED
    BY <2>1, <2>2, <2>3 DEF PollTypes, TypeOK
<1>6. ASSUME NEW c \in HttpClients, NEW i \in Instances, Watch(c, i) PROVE TypeOK'
  <2>1. CASE AfterWait(c, i)
    BY <1>6, <2>1 DEF Watch, AfterWait, TypeOK, database, instances, Stages
  <2>2. CASE stage' = [stage EXCEPT ![c] = "blocked"] /\ UNCHANGED rev
    BY <1>6, <2>2 DEF Watch, TypeOK, database, instances, Stages
  <2> QED
    BY <1>6, <2>1, <2>2 DEF Watch
<1>7. ASSUME NEW c \in HttpClients, Woken(c) PROVE TypeOK'
  <2>1. server[c] \in Instances
    BY <1>7 DEF Woken, TypeOK
  <2> QED
    BY <1>7, <2>1 DEF Woken, AfterWait, TypeOK, database, instances, Stages
<1>8. ASSUME NEW c \in HttpClients, Observe(c) PROVE TypeOK'
  <2>1. server[c] \in Instances
    BY <1>8 DEF Observe, TypeOK
  <2>2. watermark[server[c]] \in Nat \cup {-1}
    BY <2>1 DEF TypeOK
  <2>3. (IF watermark[server[c]] >= 0 THEN watermark[server[c]] ELSE dbRevision) \in Nat
    BY <2>2
  <2>4. /\ rev' = [rev EXCEPT ![c] = IF watermark[server[c]] >= 0
                                         THEN watermark[server[c]] ELSE dbRevision]
        /\ stage[c] = "observe" /\ stage' = [stage EXCEPT ![c] = "label"]
        /\ UNCHANGED <<states, current, restores, crashes, watermark, heartbeat>>
        /\ UNCHANGED <<server, data, snap>>
    BY <1>8 DEF Observe, database, instances
  <2>5. /\ rev' \in [Clients -> Nat \cup {-1}] /\ stage' \in [Clients -> Stages]
        /\ \A d \in Clients : stage'[d] \in {"label", "list", "answer"} => rev'[d] >= 0
        /\ \A d \in HttpClients : server[d] = NoServer <=> stage'[d] = "idle"
    BY <2>3, <2>4 DEF TypeOK, Stages
  <2> QED
    BY <2>4, <2>5 DEF TypeOK
<1>9. ASSUME NEW c \in HttpClients, Label(c) PROVE TypeOK'
  <2>1. rev[c] \in Nat
    BY <1>9 DEF Label, TypeOK
  <2> QED
    BY <1>9, <2>1 DEF Label, Least, TypeOK, database, instances, Stages
<1>10. ASSUME NEW c \in DirectClients, DirectPoll(c) PROVE TypeOK'
  <2>1. c \in Clients /\ c \notin HttpClients
    BY DEF Clients
  <2> QED
    BY <1>10, <2>1 DEF DirectPoll, TypeOK, database, instances, Stages
<1>11. ASSUME NEW c \in Clients, List(c) PROVE TypeOK'
  BY <1>11 DEF List, TypeOK, database, instances, Stages
<1>12. ASSUME NEW c \in Clients, Install(c) PROVE TypeOK'
  <2>1. snap' \in [Clients -> [label : Nat \cup {-1}, data : 0 .. Len(states)]]
    BY <1>12 DEF Install, TypeOK
  <2>2. Over({c}) /\ UNCHANGED <<states, current, restores, crashes, watermark, heartbeat>>
    BY <1>12 DEF Install, database, instances
  <2>3. PollTypes'
    BY <2>2, OverPollTypes
  <2> QED
    BY <2>1, <2>2, <2>3 DEF PollTypes, TypeOK
<1>13. ASSUME NEW c \in Clients, Lose(c) PROVE TypeOK'
  <2>1. /\ Over({c})
        /\ UNCHANGED <<states, current, restores, crashes, watermark, heartbeat, snap>>
    BY <1>13 DEF Lose, database, instances
  <2>2. PollTypes'
    BY <2>1, OverPollTypes
  <2> QED
    BY <2>1, <2>2 DEF PollTypes, TypeOK
<1>14. ASSUME NEW c \in Clients, Restart(c) PROVE TypeOK'
  <2>1. Empty \in [label : Nat \cup {-1}, data : 0 .. Len(states)]
    BY DEF Empty, NoData
  <2>2. snap' \in [Clients -> [label : Nat \cup {-1}, data : 0 .. Len(states)]]
    BY <1>14, <2>1 DEF Restart, TypeOK
  <2>3. /\ Over({c}) /\ crashes' = crashes + 1
        /\ UNCHANGED <<states, current, restores, watermark, heartbeat>>
    BY <1>14 DEF Restart, database, instances
  <2>4. PollTypes'
    BY <2>3, OverPollTypes
  <2> QED
    BY <2>2, <2>3, <2>4 DEF PollTypes, TypeOK
<1>15. CASE UNCHANGED vars
  BY <1>15 DEF vars, TypeOK, database, instances, polls
<1> QED
  BY <1>1, <1>2, <1>3, <1>4, <1>5, <1>6, <1>7, <1>8, <1>9, <1>10, <1>11, <1>12, <1>13,
     <1>14, <1>15 DEF Next

-----------------------------------------------------------------------------
\* Labels.

\* What LabelsAreLow says of a snapshot and of an answer.
SnapLow(c) == snap[c].label >= 0 =>
                  snap[c].data # NoData /\ snap[c].label <= states[snap[c].data]

AnswerLow(c) == stage[c] = "answer" => rev[c] \in 0 .. states[data[c]]

\* Revisions of contents do not change, so labels stay low while nothing is read.
LEMMA KeepLow ==
  ASSUME SyncInv, TypeOK', NEW c \in Clients,
         \A i \in 1 .. Len(states) : states'[i] = states[i]
  PROVE  /\ snap'[c] = snap[c] => SnapLow(c)'
         /\ stage'[c] = stage[c] /\ rev'[c] = rev[c] /\ data'[c] = data[c] => AnswerLow(c)'
<1>1. SnapLow(c) /\ AnswerLow(c) /\ AnswerInv
  BY DEF SyncInv, LabelsAreLow, SnapLow, AnswerLow
<1>2. snap[c].data \in 0 .. Len(states) /\ data[c] \in 0 .. Len(states)
  BY DEF SyncInv, TypeOK
<1>3. ASSUME snap'[c] = snap[c] PROVE SnapLow(c)'
  BY <1>1, <1>2, <1>3 DEF SnapLow, NoData
<1>4. ASSUME stage'[c] = stage[c], rev'[c] = rev[c], data'[c] = data[c]
      PROVE  AnswerLow(c)'
  <2>1. CASE stage[c] # "answer"
    BY <1>4, <2>1 DEF AnswerLow
  <2>2. CASE stage[c] = "answer"
    <3>1. data[c] \in 1 .. Len(states)
      BY <1>1, <1>2, <2>2 DEF AnswerInv, NoData, SyncInv, TypeOK
    <3>2. states'[data'[c]] = states[data[c]]
      BY <1>4, <3>1
    <3> QED
      BY <1>1, <1>4, <2>2, <3>2 DEF AnswerLow
  <2> QED
    BY <2>1, <2>2
<1> QED
  BY <1>3, <1>4

\* A step that reads no content and labels nothing.
QuietFor(c) ==
    /\ snap'[c] = snap[c] \/ snap'[c] = Empty
    /\ \/ stage'[c] \notin {"list", "answer"}
       \/ stage'[c] = stage[c] /\ rev'[c] = rev[c] /\ data'[c] = data[c]

\* Such a step keeps every label as low as it was, unless the database goes back
\* under a client that is about to read.
LEMMA QuietKeepsLow ==
  ASSUME SyncInv, TypeOK', NEW c \in Clients, QuietFor(c),
         \A i \in 1 .. Len(states) : states'[i] = states[i],
         dbRevision' >= dbRevision \/ stage'[c] # "list"
  PROVE  /\ SnapLow(c)' /\ AnswerLow(c)'
         /\ stage'[c] = "list" => rev'[c] <= dbRevision'
         /\ stage'[c] = "answer" => data'[c] # NoData
<1>1. SnapLow(c)'
  BY KeepLow DEF QuietFor, SnapLow, Empty
<1>2. AnswerLow(c)'
  BY KeepLow DEF QuietFor, AnswerLow
<1>3. dbRevision \in Nat /\ dbRevision' \in Nat /\ rev[c] \in Nat \cup {-1}
  <2>0. states \in Seq(Nat) /\ current \in 1 .. Len(states) /\ rev \in [Clients -> Nat \cup {-1}]
    BY DEF SyncInv, TypeOK
  <2>1. dbRevision \in Nat /\ rev[c] \in Nat \cup {-1}
    BY <2>0 DEF dbRevision
  <2>2. states' \in Seq(Nat) /\ current' \in 1 .. Len(states')
    BY DEF TypeOK
  <2>3. dbRevision' \in Nat
    BY <2>2 DEF dbRevision
  <2> QED
    BY <2>1, <2>3
<1> QED
  BY <1>1, <1>2, <1>3 DEF QuietFor, SyncInv, ListInv, AnswerInv

\* The two queries of a snapshot, in their order: the label is at most the revision
\* before the rows are read, and a restore in between fails them.
LEMMA LowStep == SyncInv /\ [Next]_vars => SyncInv'
<1> SUFFICES ASSUME SyncInv, [Next]_vars PROVE SyncInv'
  OBVIOUS
<1>0. /\ TypeOK /\ TypeOK' /\ ListInv /\ AnswerInv
      /\ dbRevision \in Nat /\ current \in 1 .. Len(states)
      /\ stage \in [Clients -> Stages] /\ rev \in [Clients -> Nat \cup {-1}]
      /\ data \in [Clients -> 0 .. Len(states)]
      /\ snap \in [Clients -> [label : Nat \cup {-1}, data : 0 .. Len(states)]]
      /\ HttpClients \subseteq Clients /\ DirectClients \subseteq Clients
  <2>1. TypeOK /\ ListInv /\ AnswerInv
    BY DEF SyncInv
  <2>2. TypeOK'
    BY <2>1, SyncTypeStep
  <2>3. dbRevision \in Nat /\ current \in 1 .. Len(states)
    BY <2>1 DEF TypeOK, dbRevision
  <2>4. HttpClients \subseteq Clients /\ DirectClients \subseteq Clients
    BY DEF Clients
  <2> QED
    BY <2>1, <2>2, <2>3, <2>4, Zenon DEF TypeOK
<1> SUFFICES ASSUME NEW c \in Clients
             PROVE  /\ SnapLow(c)' /\ AnswerLow(c)'
                    /\ stage'[c] = "list" => rev'[c] <= dbRevision'
                    /\ stage'[c] = "answer" => data'[c] # NoData
  BY <1>0 DEF SyncInv, ListInv, AnswerInv, LabelsAreLow, SnapLow, AnswerLow
<1>1. ASSUME UNCHANGED states, UNCHANGED current, QuietFor(c)
      PROVE  /\ SnapLow(c)' /\ AnswerLow(c)'
             /\ stage'[c] = "list" => rev'[c] <= dbRevision'
             /\ stage'[c] = "answer" => data'[c] # NoData
  BY <1>0, <1>1, QuietKeepsLow DEF dbRevision
<1>2. ASSUME NEW cs, Over(cs) PROVE
         \/ stage'[c] = "idle"
         \/ stage'[c] = stage[c] /\ rev'[c] = rev[c] /\ data'[c] = data[c]
  BY <1>0, <1>2, OverTypes
<1>3. CASE Write
  <2>1. QuietFor(c)
    BY <1>3 DEF Write, QuietFor, polls
  <2> QED
    BY <1>0, <1>3, <2>1, WriteStates, QuietKeepsLow
<1>4. CASE Restore
  <2>1. CASE Over(Reading)
    <3>1. stage'[c] # "list" /\ QuietFor(c)
      BY <1>0, <1>2, <1>4, <2>1 DEF Restore, QuietFor, Over, Reading
    <3> QED
      BY <1>0, <1>4, <3>1, QuietKeepsLow DEF Restore
  <2>2. CASE UNCHANGED polls /\ stage[c] \in {"idle", "blocked"}
    BY <1>0, <1>4, <2>2, QuietKeepsLow DEF Restore, QuietFor, polls
  <2> QED
    BY <1>4, <2>1, <2>2 DEF Restore
<1>5. ASSUME NEW i \in Instances, Heartbeat(i)
      PROVE  UNCHANGED states /\ UNCHANGED current /\ QuietFor(c)
  BY <1>5 DEF Heartbeat, QuietFor, database, polls
<1>6. ASSUME NEW i \in Instances, SetWatermark(i)
      PROVE  UNCHANGED states /\ UNCHANGED current /\ QuietFor(c)
  BY <1>0, <1>6 DEF SetWatermark, QuietFor, database
<1>7. ASSUME NEW i \in Instances, InstanceCrash(i)
      PROVE  UNCHANGED states /\ UNCHANGED current /\ QuietFor(c)
  BY <1>2, <1>7 DEF InstanceCrash, QuietFor, database
<1>8. ASSUME NEW d \in HttpClients, NEW i \in Instances, Watch(d, i)
      PROVE  UNCHANGED states /\ UNCHANGED current /\ QuietFor(c)
  BY <1>0, <1>8 DEF Watch, AfterWait, QuietFor, database
<1>9. ASSUME NEW d \in HttpClients, Woken(d) \/ Observe(d)
      PROVE  UNCHANGED states /\ UNCHANGED current /\ QuietFor(c)
  BY <1>0, <1>9 DEF Woken, Observe, AfterWait, QuietFor, database
<1>10. ASSUME NEW d \in HttpClients, Label(d)
       PROVE  /\ SnapLow(c)' /\ AnswerLow(c)'
              /\ stage'[c] = "list" => rev'[c] <= dbRevision'
              /\ stage'[c] = "answer" => data'[c] # NoData
  <2>1. /\ UNCHANGED states /\ UNCHANGED current /\ UNCHANGED snap /\ UNCHANGED data
        /\ rev' = [rev EXCEPT ![d] = Least(rev[d], dbRevision)]
        /\ stage' = [stage EXCEPT ![d] = "list"]
    BY <1>10 DEF Label, database
  <2>2. CASE c # d
    BY <1>0, <1>1, <2>1, <2>2 DEF QuietFor
  <2>3. CASE c = d
    <3>1. SnapLow(c)'
      BY <1>0, <2>1, KeepLow
    <3>2. stage'[c] = "list" /\ rev'[c] <= dbRevision'
      <4>1. rev[d] \in Int /\ rev'[d] = Least(rev[d], dbRevision)
        BY <1>0, <2>1
      <4>2. Least(rev[d], dbRevision) <= dbRevision
        BY <1>0, <4>1 DEF Least
      <4> QED
        BY <1>0, <2>1, <2>3, <4>1, <4>2 DEF dbRevision
    <3> QED
      BY <3>1, <3>2 DEF AnswerLow
  <2> QED
    BY <2>2, <2>3
<1>11. ASSUME NEW d \in DirectClients, DirectPoll(d)
       PROVE  /\ SnapLow(c)' /\ AnswerLow(c)'
              /\ stage'[c] = "list" => rev'[c] <= dbRevision'
              /\ stage'[c] = "answer" => data'[c] # NoData
  <2>1. /\ UNCHANGED states /\ UNCHANGED current /\ UNCHANGED snap /\ UNCHANGED data
        /\ rev' = [rev EXCEPT ![d] = dbRevision]
        /\ stage' = [stage EXCEPT ![d] = "list"]
    BY <1>11 DEF DirectPoll, database
  <2>2. CASE c # d
    BY <1>0, <1>1, <2>1, <2>2 DEF QuietFor
  <2>3. CASE c = d
    <3>1. SnapLow(c)'
      BY <1>0, <2>1, KeepLow
    <3>2. stage'[c] = "list" /\ rev'[c] <= dbRevision'
      BY <1>0, <2>1, <2>3 DEF dbRevision
    <3> QED
      BY <3>1, <3>2 DEF AnswerLow
  <2> QED
    BY <2>2, <2>3
<1>12. ASSUME NEW d \in Clients, List(d)
       PROVE  /\ SnapLow(c)' /\ AnswerLow(c)'
              /\ stage'[c] = "list" => rev'[c] <= dbRevision'
              /\ stage'[c] = "answer" => data'[c] # NoData
  <2>1. /\ UNCHANGED states /\ UNCHANGED current /\ UNCHANGED snap /\ UNCHANGED rev
        /\ stage[d] = "list" /\ data' = [data EXCEPT ![d] = current]
        /\ stage' = [stage EXCEPT ![d] = "answer"]
    BY <1>12 DEF List, database
  <2>2. CASE c # d
    BY <1>0, <1>1, <2>1, <2>2 DEF QuietFor
  <2>3. CASE c = d
    <3>1. SnapLow(c)'
      BY <1>0, <2>1, KeepLow
    <3>2. rev[d] <= dbRevision /\ rev[d] \in Nat
      BY <1>0, <2>1 DEF ListInv, TypeOK
    <3>3. stage'[c] = "answer" /\ data'[c] = current /\ rev'[c] = rev[d]
      BY <1>0, <2>1, <2>3
    <3> QED
      BY <1>0, <2>1, <3>1, <3>2, <3>3 DEF AnswerLow, NoData, dbRevision
  <2> QED
    BY <2>2, <2>3
<1>13. ASSUME NEW d \in Clients, Install(d)
       PROVE  /\ SnapLow(c)' /\ AnswerLow(c)'
              /\ stage'[c] = "list" => rev'[c] <= dbRevision'
              /\ stage'[c] = "answer" => data'[c] # NoData
  <2>1. /\ UNCHANGED states /\ UNCHANGED current /\ Over({d}) /\ stage[d] = "answer"
        /\ snap' = [snap EXCEPT ![d] = [label |-> rev[d], data |-> data[d]]]
    BY <1>13 DEF Install, database
  <2>2. CASE c # d
    BY <1>0, <1>1, <1>2, <2>1, <2>2 DEF QuietFor
  <2>3. CASE c = d
    <3>1. snap'[c] = [label |-> rev[c], data |-> data[c]] /\ stage'[c] = "idle"
      BY <1>0, <2>1, <2>3 DEF Over
    <3>2. data[c] # NoData /\ rev[c] <= states[data[c]]
      BY <1>0, <2>1, <2>3 DEF SyncInv, LabelsAreLow, AnswerInv
    <3> QED
      BY <2>1, <3>1, <3>2 DEF SnapLow, AnswerLow
  <2> QED
    BY <2>2, <2>3
<1>14. ASSUME NEW d \in Clients, Lose(d) \/ Restart(d)
       PROVE  UNCHANGED states /\ UNCHANGED current /\ QuietFor(c)
  <2>1. Over({d}) /\ UNCHANGED database /\ snap' \in {snap, [snap EXCEPT ![d] = Empty]}
    BY <1>14 DEF Lose, Restart
  <2> QED
    BY <1>0, <1>2, <2>1 DEF QuietFor, database
<1>15. CASE UNCHANGED vars
  BY <1>1, <1>15 DEF vars, QuietFor, database, polls
<1> QED
  BY <1>1, <1>3, <1>4, <1>5, <1>6, <1>7, <1>8, <1>9, <1>10, <1>11, <1>12, <1>13, <1>14,
     <1>15 DEF Next

\* Types, the order of snapshot's two queries and low labels are inductive together.
THEOREM SyncInvariant == Spec => []SyncInv
  BY InitSync, LowStep, PTL DEF Spec

\* No snapshot, held or on its way, has a label above the revision of its data, for
\* any number of instances, clients, crashes and restores (handler.go, snapshot).
THEOREM LabelsStayLow == Spec => []LabelsAreLow
<1>1. SyncInv => LabelsAreLow
  BY DEF SyncInv
<1> QED
  BY SyncInvariant, <1>1, PTL

-----------------------------------------------------------------------------
\* Contents.

\* What DataNeverGoesBack says of a step, and what it rests on: without a restore the
\* present content is the newest there ever was, and what is on its way was read
\* after what the client has.
NoneGoesBack ==
    \A c \in Clients :
        restores' = 0 /\ snap'[c] # Empty => snap'[c].data >= snap[c].data

ForwardInv ==
    restores = 0 =>
        /\ current = Len(states)
        /\ \A c \in Clients : stage[c] = "answer" => data[c] >= snap[c].data

\* Only List reads content, and it reads the newest.
LEMMA ForwardStep ==
  TypeOK /\ ForwardInv /\ [Next]_vars => ForwardInv' /\ NoneGoesBack
<1> SUFFICES ASSUME TypeOK, ForwardInv, [Next]_vars PROVE ForwardInv' /\ NoneGoesBack
  OBVIOUS
<1>0. /\ restores \in Nat /\ Len(states) \in Nat /\ current \in 1 .. Len(states)
      /\ data \in [Clients -> 0 .. Len(states)]
      /\ snap \in [Clients -> [label : Nat \cup {-1}, data : 0 .. Len(states)]]
      /\ stage \in [Clients -> Stages] /\ HttpClients \subseteq Clients
      /\ DirectClients \subseteq Clients
  BY DEF TypeOK, Clients
<1>1. ASSUME UNCHANGED <<restores, snap>>, restores = 0 => current' = Len(states'),
             \A c \in Clients :
                \/ stage'[c] # "answer"
                \/ stage'[c] = stage[c] /\ data'[c] = data[c]
      PROVE  ForwardInv' /\ NoneGoesBack
  BY <1>0, <1>1 DEF ForwardInv, NoneGoesBack
<1>2. ASSUME NEW cs, Over(cs), NEW c \in Clients
      PROVE  \/ stage'[c] = "idle"
             \/ stage'[c] = stage[c] /\ data'[c] = data[c]
  BY <1>2, OverTypes
<1>3. UNCHANGED <<states, current>> => (restores = 0 => current' = Len(states'))
  BY DEF ForwardInv
<1>4. CASE Write
  BY <1>1, <1>4 DEF Write, polls
<1>5. CASE Restore
  <2>1. restores' # 0
    BY <1>0, <1>5 DEF Restore
  <2> QED
    BY <2>1 DEF ForwardInv, NoneGoesBack
<1>6. ASSUME NEW i \in Instances, Heartbeat(i) \/ SetWatermark(i)
      PROVE  ForwardInv' /\ NoneGoesBack
  BY <1>0, <1>1, <1>3, <1>6 DEF Heartbeat, SetWatermark, database, polls
<1>7. ASSUME NEW i \in Instances, InstanceCrash(i) PROVE ForwardInv' /\ NoneGoesBack
  BY <1>1, <1>2, <1>3, <1>7 DEF InstanceCrash, database
<1>8. ASSUME NEW c \in HttpClients,
             \/ \E i \in Instances : Watch(c, i)
             \/ Woken(c) \/ Observe(c) \/ Label(c)
      PROVE  ForwardInv' /\ NoneGoesBack
  <2>1. /\ UNCHANGED <<states, current, restores, snap, data>>
        /\ \A d \in Clients : stage'[d] # "answer" \/ stage'[d] = stage[d]
    BY <1>0, <1>8 DEF Watch, Woken, Observe, Label, AfterWait, database
  <2> QED
    BY <1>1, <1>3, <2>1
<1>9. ASSUME NEW c \in DirectClients, DirectPoll(c) PROVE ForwardInv' /\ NoneGoesBack
  BY <1>0, <1>1, <1>3, <1>9 DEF DirectPoll, database
<1>10. ASSUME NEW c \in Clients, List(c) PROVE ForwardInv' /\ NoneGoesBack
  <2>1. /\ UNCHANGED <<states, current, restores, snap>>
        /\ stage' = [stage EXCEPT ![c] = "answer"]
        /\ data' = [data EXCEPT ![c] = current]
    BY <1>10 DEF List, database
  <2> QED
    BY <1>0, <1>3, <2>1 DEF ForwardInv, NoneGoesBack
<1>11. ASSUME NEW c \in Clients, Install(c) PROVE ForwardInv' /\ NoneGoesBack
  <2>1. /\ UNCHANGED <<states, current, restores>> /\ Over({c}) /\ stage[c] = "answer"
        /\ snap' = [snap EXCEPT ![c] = [label |-> rev[c], data |-> data[c]]]
    BY <1>11 DEF Install, database
  <2>2. stage'[c] = "idle"
    BY <1>0, <2>1 DEF Over
  <2> QED
    BY <1>0, <1>2, <1>3, <2>1, <2>2 DEF ForwardInv, NoneGoesBack
<1>12. ASSUME NEW c \in Clients, Lose(c) PROVE ForwardInv' /\ NoneGoesBack
  BY <1>1, <1>2, <1>3, <1>12 DEF Lose, database
<1>13. ASSUME NEW c \in Clients, Restart(c) PROVE ForwardInv' /\ NoneGoesBack
  <2>1. /\ UNCHANGED <<states, current, restores>> /\ Over({c})
        /\ snap' \in {snap, [snap EXCEPT ![c] = Empty]}
    BY <1>13 DEF Restart, database
  <2>2. \A d \in Clients : snap'[d] = snap[d] \/ snap'[d] = Empty
    BY <1>0, <2>1
  <2>3. NoneGoesBack
    BY <1>0, <2>2 DEF NoneGoesBack
  <2>4. \A d \in Clients : snap'[d].data = snap[d].data \/ snap'[d].data = 0
    BY <2>2 DEF Empty, NoData
  <2>5. ASSUME restores = 0, NEW d \in Clients, stage'[d] = "answer"
        PROVE  data'[d] >= snap'[d].data
    <3>1. stage[d] = "answer" /\ data'[d] = data[d]
      BY <1>2, <2>1, <2>5
    <3>2. data[d] >= snap[d].data
      BY <2>5, <3>1 DEF ForwardInv
    <3>3. data[d] >= 0
      BY <1>0
    <3> QED
      BY <2>4, <3>1, <3>2, <3>3
  <2> QED
    BY <1>3, <2>1, <2>3, <2>5 DEF ForwardInv
<1>14. CASE UNCHANGED vars
  BY <1>1, <1>3, <1>14 DEF vars, database, polls
<1> QED
  BY <1>4, <1>5, <1>6, <1>7, <1>8, <1>9, <1>10, <1>11, <1>12, <1>13, <1>14 DEF Next

\* Over any number of lagging instances, whose labels go back and forth, no client
\* replaces what it has by something older while the database does not go back.
THEOREM ContentMovesForward == Spec => DataNeverGoesBack
<1>1. Init => ForwardInv
  BY DEF Init, ForwardInv
<1>2. TypeOK /\ ForwardInv /\ [Next]_vars =>
         [ \A c \in Clients :
             restores' = 0 /\ snap'[c] # Empty => snap'[c].data >= snap[c].data ]_vars
  BY ForwardStep DEF NoneGoesBack
<1>3. SyncInv => TypeOK
  BY DEF SyncInv
<1> QED
  BY SyncInvariant, ForwardStep, <1>1, <1>2, <1>3, PTL DEF Spec, DataNeverGoesBack

-----------------------------------------------------------------------------
\* Broadcasts.

\* The client's long poll is in the Wait of that instance.
InWait(i, c) == server[c] = i /\ stage[c] \in {"blocked", "woken"}

\* A step by which no long poll enters the instance's Wait, though some may leave it.
LEMMA NobodyEnters ==
  ASSUME NEW i \in Instances, watermark'[i] = watermark[i],
         \A c \in HttpClients : InWait(i, c)' =>
            InWait(i, c) /\ stage'[c] = stage[c] /\ snap'[c].label = snap[c].label
  PROVE  At(i)!BroadcastNext
<1> DEFINE gone == {c \in HttpClients : ~InWait(i, c)'}
<1>1. ASSUME NEW c \in HttpClients
      PROVE  /\ CallsAt(i)'[c] = IF c \in gone THEN "out" ELSE CallsAt(i)[c]
             /\ BaselinesAt(i)'[c] = IF c \in gone THEN -1 ELSE BaselinesAt(i)[c]
  <2>1. CASE c \in gone
    BY <2>1 DEF CallsAt, BaselinesAt, InWait
  <2>2. CASE c \notin gone
    <3>1. /\ InWait(i, c)' /\ InWait(i, c)
          /\ stage'[c] = stage[c] /\ snap'[c].label = snap[c].label
      BY <2>2
    <3>2. CallsAt(i)'[c] = stage'[c] /\ CallsAt(i)[c] = stage[c] /\ stage[c] # "out"
      BY <3>1 DEF CallsAt, InWait
    <3>3. BaselinesAt(i)'[c] = snap'[c].label /\ BaselinesAt(i)[c] = snap[c].label
      BY <3>1, <3>2 DEF BaselinesAt
    <3> QED
      BY <2>2, <3>1, <3>2, <3>3
  <2> QED
    BY <2>1, <2>2
<1>2. CallsAt(i)' = [c \in HttpClients |-> IF c \in gone THEN "out" ELSE CallsAt(i)[c]]
  BY <1>1 DEF CallsAt
<1>3. BaselinesAt(i)' =
        [c \in HttpClients |-> IF c \in gone THEN -1 ELSE BaselinesAt(i)[c]]
  BY <1>1 DEF BaselinesAt
<1>4. At(i)!Leave(gone) /\ gone \in SUBSET HttpClients
  BY <1>2, <1>3 DEF At!Leave
<1> HIDE DEF gone
<1> QED
  BY <1>4 DEF At!BroadcastNext

\* Polls that end enter no Wait.
LEMMA OverLeaves ==
  ASSUME TypeOK, NEW cs, Over(cs), NEW i \in Instances,
         watermark'[i] = watermark[i],
         \A c \in Clients : c \notin cs => snap'[c] = snap[c]
  PROVE  At(i)!BroadcastNext
<1>1. ASSUME NEW c \in HttpClients, InWait(i, c)'
      PROVE  InWait(i, c) /\ stage'[c] = stage[c] /\ snap'[c].label = snap[c].label
  <2>1. c \in Clients
    BY DEF Clients
  <2>2. /\ stage'[c] = IF c \in cs THEN "idle" ELSE stage[c]
        /\ server'[c] = IF c \in cs THEN NoServer ELSE server[c]
    BY <2>1 DEF Over
  <2>3. stage'[c] \in {"blocked", "woken"} /\ server'[c] = i
    BY <1>1 DEF InWait
  <2>4. c \notin cs
    BY <2>2, <2>3
  <2> QED
    BY <2>1, <2>2, <2>3, <2>4 DEF InWait
<1> QED
  BY <1>1, NobodyEnters

\* set wakes those who are blocked at its instance, and them only.
LEMMA SetIsMove ==
  ASSUME TypeOK, NEW i \in Instances, SetWatermark(i)
  PROVE  At(i)!Move
<1>1. /\ heartbeat[i] \in Nat /\ watermark'[i] = heartbeat[i]
      /\ stage' = [c \in Clients |->
                     IF /\ stage[c] = "blocked"
                        /\ server[c] = i
                        /\ heartbeat[i] # watermark[i]
                       THEN "woken" ELSE stage[c]]
      /\ UNCHANGED <<server, snap>>
  BY DEF SetWatermark, TypeOK
<1>2. ASSUME NEW c \in HttpClients
      PROVE  /\ CallsAt(i)'[c] = IF CallsAt(i)[c] = "blocked" /\ watermark'[i] # watermark[i]
                                   THEN "woken" ELSE CallsAt(i)[c]
             /\ CallsAt(i)'[c] = "out" <=> CallsAt(i)[c] = "out"
  <2>1. c \in Clients
    BY DEF Clients
  <2>2. stage'[c] = IF stage[c] = "blocked" /\ server[c] = i /\ watermark'[i] # watermark[i]
                      THEN "woken" ELSE stage[c]
    BY <1>1, <2>1
  <2> QED
    BY <1>1, <2>2 DEF CallsAt
<1>3. CallsAt(i)' = [c \in HttpClients |->
                       IF CallsAt(i)[c] = "blocked" /\ watermark'[i] # watermark[i]
                         THEN "woken" ELSE CallsAt(i)[c]]
  BY <1>2 DEF CallsAt
<1>4. BaselinesAt(i)' = BaselinesAt(i)
  BY <1>1, <1>2 DEF BaselinesAt
<1> QED
  BY <1>1, <1>3, <1>4 DEF At!Move

\* A request that blocks has its client's label for a baseline, and it is the
\* instance's watermark.
LEMMA BlockingIsEnter ==
  ASSUME TypeOK, NEW i \in Instances, NEW c \in HttpClients, Watch(c, i),
         ~Moved(watermark[i], snap[c].label)
  PROVE  At(i)!Enter(c)
<1>1. /\ stage[c] = "idle" /\ server' = [server EXCEPT ![c] = i]
      /\ stage' = [stage EXCEPT ![c] = "blocked"]
      /\ UNCHANGED <<watermark, snap>>
  BY DEF Watch, instances
<1>2. /\ c \in Clients /\ HttpClients \subseteq Clients
      /\ stage \in [Clients -> Stages]
      /\ server \in [HttpClients -> Instances \cup {NoServer}]
      /\ \A d \in HttpClients : snap[d].label \in Nat \cup {-1}
  BY DEF TypeOK, Clients
<1>3. snap[c].label >= 0 /\ snap[c].label = watermark[i]
  BY <1>2 DEF Moved
<1>4. /\ CallsAt(i)[c] = "out" /\ CallsAt(i)'[c] = "blocked"
      /\ BaselinesAt(i)'[c] = snap[c].label
  <2>1. stage'[c] = "blocked" /\ server'[c] = i
    BY <1>1, <1>2
  <2>2. CallsAt(i)[c] = "out" /\ CallsAt(i)'[c] = "blocked"
    BY <1>1, <2>1 DEF CallsAt
  <2> QED
    BY <1>1, <2>2 DEF BaselinesAt
<1>5. ASSUME NEW d \in HttpClients, d # c
      PROVE  CallsAt(i)'[d] = CallsAt(i)[d] /\ BaselinesAt(i)'[d] = BaselinesAt(i)[d]
  <2>1. stage'[d] = stage[d] /\ server'[d] = server[d]
    BY <1>1, <1>2, <1>5
  <2>2. CallsAt(i)'[d] = CallsAt(i)[d]
    BY <2>1 DEF CallsAt
  <2> QED
    BY <1>1, <2>2 DEF BaselinesAt
<1>6. CallsAt(i)' = [CallsAt(i) EXCEPT ![c] =
                       IF BaselinesAt(i)'[c] >= 0 /\ BaselinesAt(i)'[c] = watermark[i]
                         THEN "blocked" ELSE "woken"]
  <2>1. CallsAt(i)' = [CallsAt(i) EXCEPT ![c] = "blocked"]
    BY <1>4, <1>5 DEF CallsAt
  <2> QED
    BY <1>3, <1>4, <2>1
<1>7. BaselinesAt(i)' \in [HttpClients -> Nat \cup {-1}]
  BY <1>1, <1>2 DEF BaselinesAt
<1>8. \A d \in HttpClients \ {c} : BaselinesAt(i)'[d] = BaselinesAt(i)[d]
  BY <1>5
<1> QED
  BY <1>1, <1>4, <1>6, <1>7, <1>8 DEF At!Enter, At!Revisions

\* A crash leaves nobody in Wait.
LEMMA CrashIsDie ==
  ASSUME TypeOK, NEW i \in Instances, InstanceCrash(i)
  PROVE  At(i)!Die
<1>1. watermark'[i] = -1 /\ Over({c \in HttpClients : server[c] = i})
  BY DEF InstanceCrash, TypeOK
<1>2. ASSUME NEW c \in HttpClients PROVE ~InWait(i, c)'
  <2>1. c \in Clients
    BY DEF Clients
  <2>2. CASE server[c] = i
    BY <1>1, <2>1, <2>2 DEF Over, InWait
  <2>3. CASE server[c] # i
    BY <1>1, <2>3 DEF Over, InWait
  <2> QED
    BY <2>2, <2>3
<1>3. /\ CallsAt(i)' = [c \in HttpClients |-> "out"]
      /\ BaselinesAt(i)' = [c \in HttpClients |-> -1]
  BY <1>2 DEF CallsAt, BaselinesAt, InWait
<1> QED
  BY <1>1, <1>3 DEF At!Die, At!Leave

\* Whatever happens to the database, the other instances and the clients, this
\* instance takes a step of the broadcast or none.
LEMMA BroadcastStep ==
  ASSUME TypeOK, [Next]_vars, NEW i \in Instances
  PROVE  [At(i)!BroadcastNext]_(At(i)!broadcastVars)
<1>0. /\ HttpClients \subseteq Clients /\ DirectClients \cap HttpClients = {}
      /\ NoServer \notin Instances
      /\ stage \in [Clients -> Stages] /\ watermark \in [Instances -> Nat \cup {-1}]
      /\ server \in [HttpClients -> Instances \cup {NoServer}]
  BY SyncAssumption DEF SyncAssumption, TypeOK, Clients
<1>1. ASSUME UNCHANGED <<watermark, stage, server, snap>> PROVE At(i)!BroadcastNext
  BY <1>1, NobodyEnters DEF InWait
<1>2. CASE Write
  BY <1>1, <1>2 DEF Write, instances, polls
<1>3. CASE Restore
  <2>1. CASE UNCHANGED polls
    BY <1>1, <1>3, <2>1 DEF Restore, instances, polls
  <2>2. CASE Over(Reading)
    BY <1>3, <2>2, OverLeaves DEF Restore, instances
  <2> QED
    BY <1>3, <2>1, <2>2 DEF Restore
<1>4. ASSUME NEW j \in Instances, Heartbeat(j) PROVE At(i)!BroadcastNext
  BY <1>1, <1>4 DEF Heartbeat, polls
<1>5. ASSUME NEW j \in Instances, SetWatermark(j) PROVE At(i)!BroadcastNext
  <2>1. CASE j = i
    BY <1>5, <2>1, SetIsMove DEF At!BroadcastNext
  <2>2. CASE j # i
    <3>1. /\ watermark'[i] = watermark[i] /\ UNCHANGED <<server, snap>>
          /\ \A c \in Clients : server[c] # j => stage'[c] = stage[c]
      BY <1>0, <1>5, <2>2 DEF SetWatermark
    <3>2. \A c \in HttpClients : InWait(i, c)' => InWait(i, c) /\ stage'[c] = stage[c]
      BY <1>0, <2>2, <3>1 DEF InWait
    <3> QED
      BY <3>1, <3>2, NobodyEnters
  <2> QED
    BY <2>1, <2>2
<1>6. ASSUME NEW j \in Instances, InstanceCrash(j) PROVE At(i)!BroadcastNext
  <2>1. CASE j = i
    BY <1>6, <2>1, CrashIsDie DEF At!BroadcastNext
  <2>2. CASE j # i
    <3>1. /\ watermark'[i] = watermark[i] /\ UNCHANGED snap
          /\ Over({c \in HttpClients : server[c] = j})
      BY <1>0, <1>6, <2>2 DEF InstanceCrash
    <3> QED
      BY <3>1, OverLeaves
  <2> QED
    BY <2>1, <2>2
<1>7. ASSUME NEW c \in HttpClients, NEW j \in Instances, Watch(c, j)
      PROVE  At(i)!BroadcastNext
  <2>1. /\ stage[c] = "idle" /\ server' = [server EXCEPT ![c] = j]
        /\ UNCHANGED <<watermark, snap>>
    BY <1>7 DEF Watch, instances
  <2>2. CASE Moved(watermark[j], snap[c].label)
    <3>1. stage' = [stage EXCEPT ![c] = IF watermark[j] < 0 THEN "observe" ELSE "label"]
      BY <1>7, <2>2 DEF Watch, AfterWait
    <3>2. stage'[c] \notin {"blocked", "woken"}
      BY <1>0, <3>1
    <3>3. \A d \in HttpClients \ {c} : stage'[d] = stage[d] /\ server'[d] = server[d]
      BY <1>0, <2>1, <3>1
    <3> QED
      BY <2>1, <3>2, <3>3, NobodyEnters DEF InWait
  <2>3. CASE ~Moved(watermark[j], snap[c].label) /\ j = i
    BY <1>7, <2>3, BlockingIsEnter DEF At!BroadcastNext
  <2>4. CASE ~Moved(watermark[j], snap[c].label) /\ j # i
    <3>1. stage' = [stage EXCEPT ![c] = "blocked"]
      BY <1>7, <2>4 DEF Watch
    <3>2. server'[c] # i
      BY <1>0, <2>1, <2>4
    <3>3. \A d \in HttpClients \ {c} : stage'[d] = stage[d] /\ server'[d] = server[d]
      BY <1>0, <2>1, <3>1
    <3> QED
      BY <2>1, <3>2, <3>3, NobodyEnters DEF InWait
  <2> QED
    BY <2>2, <2>3, <2>4
<1>8. ASSUME NEW c \in Clients, UNCHANGED <<watermark, server, snap>>,
             stage'[c] \notin {"blocked", "woken"},
             \A d \in Clients \ {c} : stage'[d] = stage[d]
      PROVE  At(i)!BroadcastNext
  BY <1>0, <1>8, NobodyEnters DEF InWait
<1>9. ASSUME NEW c \in HttpClients, Woken(c) \/ Observe(c) \/ Label(c)
      PROVE  At(i)!BroadcastNext
  <2>1. /\ UNCHANGED <<watermark, server, snap>>
        /\ stage'[c] \in {"observe", "label", "list"}
        /\ \A d \in Clients \ {c} : stage'[d] = stage[d]
    BY <1>0, <1>9 DEF Woken, Observe, Label, AfterWait, instances
  <2> QED
    BY <1>0, <1>8, <2>1
<1>10. ASSUME NEW c \in Clients, DirectPoll(c) \/ List(c) PROVE At(i)!BroadcastNext
  <2>1. /\ UNCHANGED <<watermark, server, snap>>
        /\ stage'[c] \in {"list", "answer"}
        /\ \A d \in Clients \ {c} : stage'[d] = stage[d]
    BY <1>0, <1>10 DEF DirectPoll, List, instances
  <2> QED
    BY <1>8, <2>1
<1>11. ASSUME NEW c \in Clients, Install(c) \/ Lose(c) \/ Restart(c)
       PROVE  At(i)!BroadcastNext
  <2>1. Over({c}) /\ UNCHANGED watermark
    BY <1>11 DEF Install, Lose, Restart, instances
  <2>2. \A d \in Clients : d \notin {c} => snap'[d] = snap[d]
    <3>1. snap \in [Clients -> [label : Nat \cup {-1}, data : 0 .. Len(states)]]
      BY DEF TypeOK
    <3> QED
      BY <1>11, <3>1 DEF Install, Lose, Restart
  <2> QED
    BY <2>1, <2>2, OverLeaves
<1>12. CASE UNCHANGED vars
  BY <1>1, <1>12 DEF vars, instances, polls
<1> QED
  BY <1>2, <1>3, <1>4, <1>5, <1>6, <1>7, <1>9, <1>10, <1>11, <1>12 DEF Next, Clients

\* Each instance is, to any number of clients and beside any number of others, the
\* broadcast its revisionWatcher provides (handler.go, handleWatch).
THEOREM InstancesUseBroadcast == Spec => InstancesBroadcast
<1>1. Init => \A i \in Instances : At(i)!BroadcastInit
  BY SyncAssumption DEF SyncAssumption, Init, At!BroadcastInit, CallsAt, BaselinesAt
<1>2. TypeOK /\ [Next]_vars =>
        [ \A i \in Instances :
            [At(i)!BroadcastNext]_(At(i)!broadcastVars) ]_vars
  BY BroadcastStep
<1>3. SyncInv => TypeOK
  BY DEF SyncInv
<1> QED
  BY SyncInvariant, <1>1, <1>2, <1>3, PTL DEF Spec, InstancesBroadcast

-----------------------------------------------------------------------------
\* What a client may conclude from finding its own label in the database.

\* Revisions number the contents while no restore brings one back, or while nobody
\* writes after one.
NumberedInv ==
    restores = 0 \/ ~WritesAfterRestore => \A j \in 1 .. Len(states) : states[j] = j - 1

\* After a restore that nobody writes after, and that found every client up to date:
\* whoever has not fetched since has a label the database is below.
RestoredInv ==
    restores > 0 /\ RestoreKind = "quiet" /\ ~WritesAfterRestore =>
        \A c \in Clients :
            /\ \/ snap[c].data = current
               \/ snap[c].label = -1
               \/ snap[c].label > dbRevision
            /\ stage[c] = "answer" => data[c] = current

LabelInv == SyncInv /\ ForwardInv /\ NumberedInv /\ RestoredInv

\* A commit takes the next number, and nobody commits after a restore that counts.
LEMMA NumberedStep == TypeOK /\ ForwardInv /\ NumberedInv /\ [Next]_vars => NumberedInv'
<1> SUFFICES ASSUME TypeOK, ForwardInv, NumberedInv, [Next]_vars PROVE NumberedInv'
  OBVIOUS
<1>1. CASE Write
  <2>1. /\ Len(states') = Len(states) + 1 /\ Len(states) \in Nat
        /\ \A j \in 1 .. Len(states) : states'[j] = states[j]
        /\ current' = Len(states') /\ dbRevision' = dbRevision + 1
    BY <1>1, WriteStates
  <2>2. SUFFICES ASSUME restores' = 0 \/ ~WritesAfterRestore,
                        NEW j \in 1 .. Len(states')
                 PROVE  states'[j] = j - 1
    BY DEF NumberedInv
  <2>3. restores = 0
    BY <1>1, <2>2 DEF Write
  <2>4. CASE j \in 1 .. Len(states)
    BY <2>1, <2>3, <2>4 DEF NumberedInv
  <2>5. CASE j = Len(states')
    <3>1. current = Len(states) /\ current \in 1 .. Len(states)
      BY <2>3 DEF ForwardInv, TypeOK
    <3>2. dbRevision = current - 1
      BY <2>3, <3>1 DEF NumberedInv, dbRevision
    <3>3. states'[j] = dbRevision'
      BY <2>1, <2>5 DEF dbRevision
    <3> QED
      BY <2>1, <2>5, <3>1, <3>2, <3>3
  <2> QED
    BY <2>1, <2>2, <2>4, <2>5
<1>2. CASE Restore
  <2>1. restores' # 0 /\ UNCHANGED states
    BY <1>2 DEF Restore, TypeOK
  <2> QED
    BY <2>1 DEF NumberedInv
<1>3. CASE UNCHANGED <<states, restores>>
  BY <1>3 DEF NumberedInv
<1>4. [Next]_vars => Write \/ Restore \/ UNCHANGED <<states, restores>>
  BY DEF Next, vars, Heartbeat, SetWatermark, InstanceCrash, Watch, Woken, Observe, Label,
     DirectPoll, List, Install, Lose, Restart, database
<1> QED
  BY <1>1, <1>2, <1>3, <1>4

\* A quiet restore leaves every client with the label the database had, above the one
\* it comes back to; after it, only the content it brought back is read.
LEMMA RestoredStep == LabelInv /\ [Next]_vars => RestoredInv'
<1> SUFFICES ASSUME LabelInv, [Next]_vars, restores' > 0, RestoreKind = "quiet",
                    ~WritesAfterRestore, NEW c \in Clients
             PROVE  /\ \/ snap'[c].data = current'
                       \/ snap'[c].label = -1
                       \/ snap'[c].label > dbRevision'
                    /\ stage'[c] = "answer" => data'[c] = current'
  BY DEF RestoredInv
<1>0. /\ restores \in Nat /\ Len(states) \in Nat /\ current \in 1 .. Len(states)
      /\ stage \in [Clients -> Stages] /\ data \in [Clients -> 0 .. Len(states)]
      /\ snap \in [Clients -> [label : Nat \cup {-1}, data : 0 .. Len(states)]]
      /\ HttpClients \subseteq Clients /\ DirectClients \subseteq Clients
      /\ TypeOK
  BY DEF LabelInv, SyncInv, TypeOK, Clients
<1>1. CASE Restore
  <2>1. /\ current' \in 1 .. current - 1 /\ states' = states /\ snap' = snap
        /\ snap[c].label = dbRevision /\ stage[c] \in {"idle", "blocked"}
        /\ stage' = stage
    BY <1>1 DEF Restore, UpToDate, polls
  <2>2. dbRevision = current - 1 /\ dbRevision' = current' - 1
    <3>1. \A j \in 1 .. Len(states) : states[j] = j - 1
      BY DEF LabelInv, NumberedInv
    <3>2. current' \in 1 .. Len(states)
      BY <1>0, <2>1
    <3> QED
      BY <1>0, <2>1, <3>1, <3>2 DEF dbRevision
  <2>3. current \in Int /\ current' \in Int /\ current' < current
    BY <1>0, <2>1
  <2>4. snap'[c].label = dbRevision
    BY <2>1
  <2>5. snap'[c].label > dbRevision'
    BY <2>2, <2>3, <2>4
  <2> QED
    BY <2>1, <2>5
<1>2. CASE Write
  BY <1>0, <1>2 DEF Write
<1>3. ASSUME UNCHANGED <<states, current, restores>>
      PROVE  /\ RestoredInv /\ restores > 0 /\ dbRevision' = dbRevision
             /\ \/ snap[c].data = current
                \/ snap[c].label = -1
                \/ snap[c].label > dbRevision
             /\ stage[c] = "answer" => data[c] = current
  BY <1>3 DEF LabelInv, RestoredInv, dbRevision
<1>4. ASSUME UNCHANGED <<states, current, restores>>,
             snap'[c] = snap[c] \/ snap'[c] = Empty,
             \/ stage'[c] # "answer"
             \/ stage'[c] = stage[c] /\ data'[c] = data[c]
      PROVE  /\ \/ snap'[c].data = current'
                \/ snap'[c].label = -1
                \/ snap'[c].label > dbRevision'
             /\ stage'[c] = "answer" => data'[c] = current'
  BY <1>3, <1>4 DEF Empty
<1>5. ASSUME NEW cs, Over(cs)
      PROVE  \/ stage'[c] # "answer"
             \/ stage'[c] = stage[c] /\ data'[c] = data[c]
  BY <1>0, <1>5, OverTypes
<1>6. ASSUME NEW i \in Instances, Heartbeat(i) \/ SetWatermark(i)
      PROVE  /\ UNCHANGED <<states, current, restores, snap, data>>
             /\ stage'[c] # "answer" \/ stage'[c] = stage[c]
  BY <1>0, <1>6 DEF Heartbeat, SetWatermark, database, polls
<1>7. ASSUME NEW i \in Instances, InstanceCrash(i)
      PROVE  /\ UNCHANGED <<states, current, restores, snap>>
             /\ \/ stage'[c] # "answer"
                \/ stage'[c] = stage[c] /\ data'[c] = data[c]
  BY <1>5, <1>7 DEF InstanceCrash, database
<1>8. ASSUME NEW d \in HttpClients,
             \/ \E i \in Instances : Watch(d, i)
             \/ Woken(d) \/ Observe(d) \/ Label(d)
      PROVE  /\ UNCHANGED <<states, current, restores, snap, data>>
             /\ stage'[c] # "answer" \/ stage'[c] = stage[c]
  BY <1>0, <1>8 DEF Watch, Woken, Observe, Label, AfterWait, database
<1>9. ASSUME NEW d \in DirectClients, DirectPoll(d)
      PROVE  /\ UNCHANGED <<states, current, restores, snap, data>>
             /\ stage'[c] # "answer" \/ stage'[c] = stage[c]
  BY <1>0, <1>9 DEF DirectPoll, database
<1>10. ASSUME NEW d \in Clients, List(d)
       PROVE  /\ \/ snap'[c].data = current'
                 \/ snap'[c].label = -1
                 \/ snap'[c].label > dbRevision'
              /\ stage'[c] = "answer" => data'[c] = current'
  <2>1. /\ UNCHANGED <<states, current, restores, snap>>
        /\ stage' = [stage EXCEPT ![d] = "answer"]
        /\ data' = [data EXCEPT ![d] = current]
    BY <1>10 DEF List, database
  <2>2. CASE c = d
    BY <1>0, <1>3, <2>1, <2>2
  <2>3. CASE c # d
    BY <1>0, <1>4, <2>1, <2>3
  <2> QED
    BY <2>2, <2>3
<1>11. ASSUME NEW d \in Clients, Install(d)
       PROVE  /\ \/ snap'[c].data = current'
                 \/ snap'[c].label = -1
                 \/ snap'[c].label > dbRevision'
              /\ stage'[c] = "answer" => data'[c] = current'
  <2>1. /\ UNCHANGED <<states, current, restores>> /\ Over({d}) /\ stage[d] = "answer"
        /\ snap' = [snap EXCEPT ![d] = [label |-> rev[d], data |-> data[d]]]
    BY <1>11 DEF Install, database
  <2>2. CASE c = d
    <3>1. snap'[c].data = data[c] /\ data[c] = current
      BY <1>0, <1>3, <2>1, <2>2
    <3>2. stage'[c] # "answer"
      BY <1>0, <2>1, <2>2 DEF Over
    <3> QED
      BY <2>1, <3>1, <3>2
  <2>3. CASE c # d
    BY <1>0, <1>4, <1>5, <2>1, <2>3
  <2> QED
    BY <2>2, <2>3
<1>12. ASSUME NEW d \in Clients, Lose(d) \/ Restart(d)
       PROVE  /\ UNCHANGED <<states, current, restores>>
              /\ snap'[c] = snap[c] \/ snap'[c] = Empty
              /\ \/ stage'[c] # "answer"
                 \/ stage'[c] = stage[c] /\ data'[c] = data[c]
  <2>1. Over({d}) /\ UNCHANGED database /\ snap' \in {snap, [snap EXCEPT ![d] = Empty]}
    BY <1>12 DEF Lose, Restart
  <2> QED
    BY <1>0, <1>5, <2>1 DEF database
<1>13. CASE UNCHANGED vars
  BY <1>4, <1>13 DEF vars, database, polls
<1> QED
  BY <1>1, <1>2, <1>4, <1>6, <1>7, <1>8, <1>9, <1>10, <1>11, <1>12, <1>13 DEF Next

\* The numbers and the restore keep each other.
LEMMA LabelInvariant == Spec => []LabelInv
<1>1. Init => LabelInv
  <2>1. Init => ForwardInv /\ NumberedInv /\ RestoredInv
    BY DEF Init, ForwardInv, NumberedInv, RestoredInv
  <2> QED
    BY <2>1, InitSync DEF LabelInv
<1>2. LabelInv /\ [Next]_vars => LabelInv'
  BY LowStep, ForwardStep, NumberedStep, RestoredStep DEF LabelInv, SyncInv
<1> QED
  BY <1>1, <1>2, PTL DEF Spec

\* A low label at the present revision is on the present content.
LEMMA LabelTells == LabelInv => UnchangedIsCurrent
<1> SUFFICES ASSUME LabelInv, RevisionsTellContents,
                    NEW c \in Clients, snap[c].label = dbRevision
             PROVE  snap[c].data = current
  BY DEF UnchangedIsCurrent
<1>0. /\ current \in 1 .. Len(states) /\ Len(states) \in Nat /\ restores \in Nat
      /\ dbRevision \in Nat /\ snap[c].data \in 0 .. Len(states)
  BY DEF LabelInv, SyncInv, TypeOK, dbRevision
<1>1. CASE restores = 0
  <2>1. current = Len(states) /\ \A j \in 1 .. Len(states) : states[j] = j - 1
    BY <1>1 DEF LabelInv, ForwardInv, NumberedInv
  <2>2. snap[c].data # NoData /\ dbRevision <= states[snap[c].data]
    BY <1>0 DEF LabelInv, SyncInv, LabelsAreLow
  <2>3. snap[c].data \in 1 .. Len(states) /\ dbRevision = current - 1
    BY <1>0, <2>1, <2>2 DEF NoData, dbRevision
  <2>4. states[snap[c].data] = snap[c].data - 1
    BY <2>1, <2>3
  <2> QED
    BY <1>0, <2>1, <2>2, <2>3, <2>4
<1>2. CASE restores > 0
  BY <1>0, <1>2 DEF LabelInv, RestoredInv, RevisionsTellContents
<1> QED
  BY <1>0, <1>1, <1>2

\* A client whose label is the database's revision has the database's content, so a
\* poll that finds no difference hides none: over lagging instances, lost polls,
\* restarts from the file and quiet restores (handler.go, snapshot; dbsource, Poll).
THEOREM NoChangeIsNoChange == Spec => []UnchangedIsCurrent
  BY LabelInvariant, LabelTells, PTL

\* Who is blocked at an instance has its watermark for a label.
BlockedAgree == \A i \in Instances : At(i)!BlockedHaveSeen

\* The broadcast alone keeps that.
LEMMA BlockedStep == TypeOK /\ BlockedAgree /\ [Next]_vars => BlockedAgree'
<1> SUFFICES ASSUME TypeOK, BlockedAgree, [Next]_vars, NEW i \in Instances
             PROVE  At(i)!BlockedHaveSeen'
  BY DEF BlockedAgree
<1>1. /\ [At(i)!BroadcastNext]_(At(i)!broadcastVars) /\ At(i)!BlockedHaveSeen
      /\ DOMAIN CallsAt(i) = HttpClients
  BY BroadcastStep DEF BlockedAgree, CallsAt
<1>2. CASE At(i)!Move
  BY <1>1, <1>2 DEF At!Move, At!BlockedHaveSeen
<1>3. ASSUME NEW w \in HttpClients, At(i)!Enter(w) PROVE At(i)!BlockedHaveSeen'
  BY <1>1, <1>3 DEF At!Enter, At!BlockedHaveSeen
<1>4. ASSUME NEW ws \in SUBSET HttpClients, At(i)!Leave(ws),
             watermark'[i] = watermark[i] \/ ws = HttpClients
      PROVE  At(i)!BlockedHaveSeen'
  BY <1>1, <1>4 DEF At!Leave, At!BlockedHaveSeen
<1>5. CASE UNCHANGED At(i)!broadcastVars
  BY <1>1, <1>5 DEF At!broadcastVars, At!BlockedHaveSeen
<1> QED
  BY <1>1, <1>2, <1>3, <1>4, <1>5 DEF At!BroadcastNext, At!Die

\* A long poll that is blocked at an instance as far as the database is missing nothing.
BlockedMissNothing ==
    RevisionsTellContents =>
        \A c \in HttpClients :
            stage[c] = "blocked" /\ watermark[server[c]] = dbRevision =>
                snap[c].data = current

\* What a blocked long poll may miss is what its instance has not heard of: once the
\* heartbeat has brought the database's revision, whoever is still blocked has its
\* content (revision_watcher.go, Wait and set; handler.go, handleWatch).
THEOREM BlockedAreCurrent == Spec => []BlockedMissNothing
<1>1. Init => BlockedAgree
  <2> SUFFICES ASSUME Init, NEW i \in Instances PROVE At(i)!BlockedHaveSeen
    BY DEF BlockedAgree
  <2>1. \A c \in HttpClients : CallsAt(i)[c] = "out"
    BY DEF Init, CallsAt, Clients
  <2> QED
    BY <2>1 DEF At!BlockedHaveSeen
<1>2. LabelInv => TypeOK
  BY DEF LabelInv, SyncInv
<1>3. LabelInv /\ BlockedAgree => BlockedMissNothing
  <2> SUFFICES ASSUME LabelInv, BlockedAgree, RevisionsTellContents,
                      NEW c \in HttpClients, stage[c] = "blocked",
                      watermark[server[c]] = dbRevision
               PROVE  snap[c].data = current
    BY DEF BlockedMissNothing
  <2>1. server[c] \in Instances /\ c \in Clients
    BY <1>2 DEF TypeOK, Clients
  <2>2. CallsAt(server[c])[c] = "blocked" /\ BaselinesAt(server[c])[c] = snap[c].label
    BY DEF CallsAt, BaselinesAt
  <2>3. snap[c].label = dbRevision
    BY <2>1, <2>2 DEF BlockedAgree, At!BlockedHaveSeen
  <2> QED
    BY <2>1, <2>3, LabelTells DEF UnchangedIsCurrent
<1> QED
  BY LabelInvariant, BlockedStep, <1>1, <1>2, <1>3, PTL DEF Spec
=============================================================================
