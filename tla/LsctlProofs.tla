----------------------------- MODULE LsctlProofs -----------------------------
(***************************************************************************)
(* The commands of lsctl over any number of shells, keys and versions, with *)
(* any of them served.  The argument: what a call brought back was true of  *)
(* the history when it was decided, the history only grows, and the answer  *)
(* a command exits on can be no other error and no other result.            *)
(***************************************************************************)
EXTENDS Lsctl, StoreProofs

Errs   == {"nil", "not found", "invalid", "error", "canceled"}
Places == {"none", "sent", "store", "done"}
Rets   == [err : Errs, version : Nat, revision : Nat, versions : SUBSET Nat]

\* The calls lsctl makes: Refused stops a rollback without a version.
Asked(c) == c \in Command /\ (c.name = "rollback" => c.v1 # 0)

\* The key had no current row at some moment since its version was n.
AbsentSince(k, n) ==
    \E m \in n .. MaxVersion(history, k) :
        m = 0 \/ \E r \in RowOf(k, m) : r.op = "delete"

\* What the command asked for was missing at some moment since it began.
Missing(w) ==
    LET k == cmd[w].key
    IN  /\ cmd[w].name \in {"history", "rollback", "get", "diff", "rm", "set --dry-run"}
        /\ cmd[w].name = "history" => from[w] = 0
        /\ cmd[w].name = "rollback" => cmd[w].v1 > from[w]
        /\ cmd[w].name \in {"get", "diff"} /\ Version(w) > 0 => Version(w) > from[w]
        /\ cmd[w].name \in {"get", "diff"} /\ Version(w) = 0 => AbsentSince(k, from[w])
        /\ cmd[w].name = "rm" => AbsentSince(k, from[w])

\* The payload a row of the given operation and version may have.
Due(c, op, n) ==
    CASE op = "set"      -> {c.payload}
      [] op = "rollback" -> {q.payload : q \in RowOf(c.key, c.v1)}
      [] op = "delete"   ->
           {q.payload : q \in {q \in RowOf(c.key, n - 1) : q.op # "delete"}}

\* The row the write of a command appended, as version n.
WrittenAs(c, n) ==
    \E r \in RowOf(c.key, n) : r.op = StoreRequest(c).op /\ r.payload \in Due(c, r.op, r.version)

\* What a transaction has chosen to write, and why.
ChoiceInv(w) ==
    pc[w] \in Chosen =>
        /\ req[w].op = "set" => payload[w] = req[w].payload
        /\ req[w].op = "rollback" =>
              \E q \in RowOf(req[w].key, req[w].version) : q.payload = payload[w]

\* The reply of the call a shell waits for, or has left to its handler.
ReplyInv(w) ==
    /\ place[w] # "done" => ret[w] = NoRet
    /\ place[w] = "done" =>
          /\ ret[w].err = "not found" => Missing(w)
          /\ ret[w].err = "nil" /\ Searches(w) => 1 .. from[w] \subseteq ret[w].versions
          /\ ret[w].err = "nil" /\ cmd[w].name \in Writing =>
                WrittenAs(cmd[w], ret[w].version)

\* The command of a shell and where it stands.
CommandInv(w) ==
    /\ code[w] = Running => place[w] # "none"
    /\ place[w] = "none" => nth[w] = 1
    /\ place[w] # "none" => Asked(cmd[w])
    /\ nth[w] = 2 => cmd[w].name = "diff"
    /\ pc[w] # "idle" <=> place[w] = "store" /\ cmd[w].name \in Writing
    /\ pc[w] # "idle" => req[w] = StoreRequest(cmd[w])
    /\ place[w] # "none" /\ cmd[w].key \in Keys =>
          from[w] <= MaxVersion(history, cmd[w].key)

ShellInv(w) == ChoiceInv(w) /\ CommandInv(w) /\ ReplyInv(w)

ControlTypes ==
    /\ cmd \in [Writers -> Command \cup {NoCommand}]
    /\ nth \in [Writers -> {1, 2}]
    /\ place \in [Writers -> Places]
    /\ ret \in [Writers -> Rets]
    /\ code \in [Writers -> {Running, 0, 1, 4}]
    /\ from \in [Writers -> Nat]

LsctlInv ==
    /\ StoreInv
    /\ ConfigIsLastVersion
    /\ ControlTypes
    /\ \A w \in Writers : ShellInv(w)

-----------------------------------------------------------------------------
\* Lemmas about the operators.

\* The fields of a command, and the call of the store a writing one makes.
LEMMA CommandFields ==
  ASSUME NEW c, Asked(c)
  PROVE  /\ c.name \in {"set", "set --dry-run", "rm", "rollback", "get", "history", "diff",
                         "list", "migrate"}
         /\ c.name \notin {"list", "migrate"} => c.key \in Keys
         /\ c.v1 \in Nat /\ c.v2 \in Nat
         /\ c.name = "rm" => c.v1 = 0
         /\ c.name \in Writing =>
               /\ StoreRequest(c) \in Request
               /\ StoreRequest(c).key = c.key
               /\ StoreRequest(c).op = IF c.name = "rm" THEN "delete" ELSE c.name
               /\ c.name = "set" => StoreRequest(c).payload = c.payload
               /\ c.name = "rollback" => StoreRequest(c).version = c.v1
<1>1. Flags \subseteq 0 .. MaxRevision /\ MaxRevision \in Nat
  BY LsctlAssumption, StoreAssumption DEF LsctlAssumption, StoreAssumption
<1>2. /\ c.name \in {"set", "set --dry-run", "rm", "rollback", "get", "history", "diff",
                      "list", "migrate"}
      /\ c.name \notin {"list", "migrate"} => c.key \in Keys
      /\ c.v1 \in Flags \cup {0} /\ c.v2 \in Flags \cup {0}
      /\ c.name = "rm" => c.v1 = 0
      /\ c.name = "set" => c.payload \in Payloads
  <2>1. c \in Command
    BY DEF Asked
  <2>2. CASE c \in SetCmd \cup PreviewCmd \cup RmCmd
    BY <2>2 DEF Named, SetCmd, PreviewCmd, RmCmd
  <2>3. CASE c \in RollbackCmd \cup GetCmd \cup HistoryCmd
    BY <2>3 DEF Named, RollbackCmd, GetCmd, HistoryCmd
  <2>4. CASE c \in DiffCmd
    BY <2>4 DEF Named, DiffCmd
  <2>5. CASE c \in ListCmd \cup MigrateCmd
    BY <2>5 DEF Named, ListCmd, MigrateCmd
  <2> QED
    BY <2>1, <2>2, <2>3, <2>4, <2>5 DEF Command
<1>3. c.v1 \in Nat /\ c.v2 \in Nat
  <2>1. \A n \in Flags \cup {0} : n \in Nat
    BY <1>1
  <2> QED
    BY <1>2, <2>1
<1>4. CASE c.name = "set"
  BY <1>2, <1>3, <1>4 DEF Writing, StoreRequest, SetRequest, Request
<1>5. CASE c.name = "rm"
  BY <1>2, <1>3, <1>5 DEF Writing, StoreRequest, RmRequest, Request
<1>6. CASE c.name = "rollback"
  <2>1. c.v1 \in 1 .. MaxRevision
    <3>1. c.v1 # 0 /\ c.v1 \in 0 .. MaxRevision
      BY <1>1, <1>2, <1>6 DEF Asked
    <3> QED
      BY <1>1, <3>1
  <2> QED
    BY <1>2, <1>3, <1>6, <2>1 DEF Writing, StoreRequest, RollbackRequest, Request
<1> QED
  BY <1>2, <1>3, <1>4, <1>5, <1>6 DEF Writing

\* The history only grows, and so does the newest version of a key.
LEMMA HistoryGrows ==
  ASSUME StoreInv, [Next]_vars
  PROVE  /\ history \subseteq history'
         /\ \A k \in Keys : /\ MaxVersion(history', k) \in Nat
                             /\ MaxVersion(history, k) <= MaxVersion(history', k)
<1>1. RowsInv /\ \A k \in Keys : MaxVersion(history, k) \in Nat
  BY MaxVersionCounts DEF StoreInv
<1>2. ASSUME UNCHANGED history
      PROVE  \A k \in Keys : /\ MaxVersion(history', k) \in Nat
                             /\ MaxVersion(history, k) <= MaxVersion(history', k)
  BY <1>1, <1>2
<1>3. ASSUME NEW w \in Writers, Commit(w) \/ CommitLost(w)
      PROVE  /\ history \subseteq history'
             /\ \A k \in Keys : /\ MaxVersion(history', k) \in Nat
                                 /\ MaxVersion(history, k) <= MaxVersion(history', k)
  <2>1. Published(w)
    BY <1>3 DEF Commit, CommitLost
  <2>2. history \subseteq history'
    BY <2>1, PublishedRows
  <2>3. ASSUME NEW k \in Keys
        PROVE  /\ MaxVersion(history', k) \in Nat
               /\ MaxVersion(history, k) <= MaxVersion(history', k)
    <3>1. CASE k = req[w].key
      <4>1. /\ MaxVersion(history, k) = Cardinality(RowsOf(history, k))
            /\ version[w] = Cardinality(RowsOf(history, k)) + 1
        BY <1>1, <2>1, <3>1, PublishedTypes, MaxVersionCounts
      <4> QED
        BY <1>1, <2>1, <3>1, <4>1, PublishedRows
    <3>2. CASE k # req[w].key
      <4>1. MaxVersion(history', k) = MaxVersion(history, k)
        BY <2>1, <3>2, PublishedRows DEF MaxVersion
      <4> QED
        BY <1>1, <4>1
    <3> QED
      BY <3>1, <3>2
  <2> QED
    BY <2>2, <2>3
<1> QED
  BY <1>2, <1>3, TablesStep

\* While a key has no current row, its last version is a deletion, or there is none.
LEMMA NoRowIsAbsent ==
  ASSUME StoreInv, ConfigIsLastVersion, NEW k \in Keys, config[k] = NoPayload,
         NEW n \in Nat, n <= MaxVersion(history, k)
  PROVE  AbsentSince(k, n)
<1> DEFINE m == MaxVersion(history, k)
<1>1. m \in Nat /\ Versions(history, k) = 1 .. m
  BY MaxVersionCounts DEF StoreInv
<1>2. CASE m = 0
  BY <1>1, <1>2 DEF AbsentSince
<1>3. CASE m # 0
  <2>1. m \in Versions(history, k)
    BY <1>1, <1>3
  <2>2. \E r \in history : r.key = k /\ r.version = m
    BY <2>1 DEF Versions
  <2>3. Last(k) \in history /\ Last(k).key = k /\ Last(k).version = m
    BY <2>2 DEF Last
  <2>4. Last(k).payload # NoPayload
    <3>1. Last(k).payload \in Valid
      BY <2>3 DEF StoreInv, TypeOK, Row
    <3> QED
      BY <3>1, StoreAssumption DEF StoreAssumption
  <2>5. Last(k).op = "delete"
    BY <2>1, <2>4 DEF ConfigIsLastVersion
  <2>6. Last(k) \in RowOf(k, m)
    BY <2>3 DEF RowOf
  <2>7. m \in n .. m
    BY <1>1
  <2> QED
    BY <2>5, <2>6, <2>7 DEF AbsentSince
<1> QED
  BY <1>2, <1>3

\* A current row is the payload of the last version, and no deletion.
LEMMA CurrentRowIsLast ==
  ASSUME StoreInv, ConfigIsLastVersion, NEW k \in Keys, config[k] # NoPayload
  PROVE  \E q \in RowOf(k, MaxVersion(history, k)) :
            q.op # "delete" /\ q.payload = config[k]
<1> DEFINE m == MaxVersion(history, k)
<1>1. m \in Nat /\ Versions(history, k) = 1 .. m
  BY MaxVersionCounts DEF StoreInv
<1>2. Versions(history, k) # {} /\ Last(k).op # "delete" /\ config[k] = Last(k).payload
  BY DEF ConfigIsLastVersion
<1>3. m \in Versions(history, k)
  BY <1>1, <1>2
<1>4. \E r \in history : r.key = k /\ r.version = m
  BY <1>3 DEF Versions
<1>5. Last(k) \in history /\ Last(k).key = k /\ Last(k).version = m
  BY <1>4 DEF Last
<1> QED
  BY <1>2, <1>5 DEF RowOf

-----------------------------------------------------------------------------
\* The steps of the other shells.

\* What was missing stays found missing, and what was written stays written.
LEMMA RepliesStayTrue ==
  ASSUME NEW w \in Writers, Asked(cmd[w]), from[w] \in Nat, StoreInv,
         history \subseteq history',
         \A k \in Keys : /\ MaxVersion(history', k) \in Nat
                         /\ MaxVersion(history, k) <= MaxVersion(history', k),
         cmd'[w] = cmd[w], nth'[w] = nth[w], from'[w] = from[w]
  PROVE  /\ Missing(w) => Missing(w)'
         /\ \A n : WrittenAs(cmd[w], n) => WrittenAs(cmd[w], n)'
<1>1. \A k, n : RowOf(k, n) \subseteq RowOf(k, n)'
  BY DEF RowOf
<1>2. ASSUME NEW k \in Keys, AbsentSince(k, from[w]) PROVE AbsentSince(k, from[w])'
  <2>1. PICK m \in from[w] .. MaxVersion(history, k) :
           m = 0 \/ \E r \in RowOf(k, m) : r.op = "delete"
    BY <1>2 DEF AbsentSince
  <2>2. MaxVersion(history, k) \in Nat
    BY MaxVersionCounts DEF StoreInv
  <2>3. m \in from[w] .. MaxVersion(history', k)
    BY <2>1, <2>2
  <2> QED
    BY <1>1, <2>1, <2>3 DEF AbsentSince
<1>3. cmd[w].name \in {"get", "diff", "rm"} => cmd[w].key \in Keys
  BY CommandFields
<1>4. ASSUME Missing(w) PROVE Missing(w)'
  <2>1. Version(w)' = Version(w)
    BY DEF Version
  <2> QED
    BY <1>2, <1>3, <1>4, <2>1 DEF Missing
<1>5. ASSUME NEW n, WrittenAs(cmd[w], n) PROVE WrittenAs(cmd[w], n)'
  <2>1. PICK r \in RowOf(cmd[w].key, n) :
           r.op = StoreRequest(cmd[w]).op /\ r.payload \in Due(cmd[w], r.op, r.version)
    BY <1>5 DEF WrittenAs
  <2>2. CASE r.op = "set"
    BY <1>1, <2>1, <2>2 DEF WrittenAs, Due
  <2>3. CASE r.op = "rollback"
    BY <1>1, <2>1, <2>3 DEF WrittenAs, Due
  <2>4. CASE r.op = "delete"
    BY <1>1, <2>1, <2>4 DEF WrittenAs, Due
  <2>5. r.op \in Ops
    BY <2>1 DEF RowOf, StoreInv, TypeOK, Row
  <2> QED
    BY <2>2, <2>3, <2>4, <2>5 DEF Ops
<1> QED
  BY <1>4, <1>5

\* A step that leaves a shell's command, call and transaction alone, whatever it adds
\* to the history and even if it ends the wait of the shell, leaves it in order.
LEMMA FrameKeepsShell ==
  ASSUME NEW w \in Writers, ShellInv(w), from[w] \in Nat, StoreInv,
         history \subseteq history',
         \A k \in Keys : /\ MaxVersion(history', k) \in Nat
                         /\ MaxVersion(history, k) <= MaxVersion(history', k),
         cmd'[w] = cmd[w], nth'[w] = nth[w], place'[w] = place[w], ret'[w] = ret[w],
         from'[w] = from[w], code'[w] = Running => code[w] = Running,
         pc'[w] = pc[w], req'[w] = req[w], payload'[w] = payload[w]
  PROVE  ShellInv(w)'
<1>0. /\ \A k \in Keys : MaxVersion(history, k) \in Nat
      /\ CommandInv(w) /\ ChoiceInv(w) /\ ReplyInv(w)
  BY MaxVersionCounts DEF StoreInv, ShellInv
<1>1. ChoiceInv(w)'
  BY <1>0 DEF ChoiceInv, RowOf
<1>2. CommandInv(w)'
  BY <1>0 DEF CommandInv
<1>3. ReplyInv(w)'
  <2>1. CASE place[w] # "done"
    BY <1>0, <2>1 DEF ReplyInv
  <2>2. CASE place[w] = "done"
    <3>1. Asked(cmd[w])
      BY <1>0, <2>2 DEF CommandInv
    <3>2. /\ Missing(w) => Missing(w)'
          /\ \A n : WrittenAs(cmd[w], n) => WrittenAs(cmd[w], n)'
      BY <1>0, <3>1, RepliesStayTrue
    <3>3. Searches(w)' = Searches(w)
      BY DEF Searches, Version
    <3>4. WrittenAs(cmd[w], ret[w].version) => WrittenAs(cmd[w], ret[w].version)'
      BY <3>2
    <3> QED
      BY <1>0, <2>2, <3>2, <3>3, <3>4 DEF ReplyInv
  <2> QED
    BY <2>1, <2>2
<1> QED
  BY <1>1, <1>2, <1>3 DEF ShellInv

\* A statement touches the transaction of its own writer.
LEMMA StatementFrame ==
  ASSUME TypeOK, NEW w \in Writers, NEW v \in Writers \ {w},
         Statement(w) \/ \E r : Begin(w, r)
  PROVE  pc'[v] = pc[v] /\ req'[v] = req[v] /\ payload'[v] = payload[v]
<1>0. /\ pc \in [Writers -> {"idle", "bump", "bump select", "get", "resolve",
                            "write", "append", "commit"}]
      /\ req \in [Writers -> Request \cup {Idle}]
      /\ payload \in [Writers -> Payloads \cup {NoPayload}]
  BY DEF TypeOK
<1>1. ASSUME NEW result, End(w, result)
      PROVE  pc'[v] = pc[v] /\ req'[v] = req[v] /\ payload'[v] = payload[v]
  BY <1>0, <1>1 DEF End
<1>2. CASE NotMigrated(w) \/ ResolveNotFound(w) \/ ResolveInvalid(w) \/ Commit(w)
           \/ CommitLost(w) \/ Abort(w)
  BY <1>1, <1>2 DEF NotMigrated, ResolveNotFound, ResolveInvalid, Commit, CommitLost, Abort,
                    Fail
<1>3. CASE BumpUpdate(w)
  BY <1>0, <1>3 DEF BumpUpdate
<1>4. CASE BumpSelect(w) \/ GetConfig(w) \/ WriteRow(w)
  BY <1>0, <1>4 DEF BumpSelect, GetConfig, WriteRow
<1>5. CASE Resolve(w)
  BY <1>0, <1>5 DEF Resolve
<1>6. CASE AppendHistory(w)
  BY <1>0, <1>6 DEF AppendHistory, locals
<1>7. CASE \E r : Begin(w, r)
  BY <1>0, <1>7 DEF Begin
<1> QED
  BY <1>2, <1>3, <1>4, <1>5, <1>6, <1>7 DEF Statement

-----------------------------------------------------------------------------
\* The write of a shell.

\* A statement that does not end the transaction keeps the call, and what resolve
\* chose is what the call asked for.
LEMMA StatementGoesOn ==
  ASSUME StoreInv, NEW w \in Writers, ChoiceInv(w), Statement(w), pc'[w] # "idle"
  PROVE  ChoiceInv(w)' /\ req'[w] = req[w] /\ pc[w] # "idle" /\ UNCHANGED history
<1>0. TypeOK /\ TxInv(w)
  BY DEF StoreInv, AllTxInv
<1>1. ASSUME NEW result, End(w, result) PROVE FALSE
  BY <1>0, <1>1 DEF End, TypeOK
<1>2. ~ (NotMigrated(w) \/ ResolveNotFound(w) \/ ResolveInvalid(w) \/ Commit(w)
         \/ CommitLost(w) \/ Abort(w))
  BY <1>1 DEF NotMigrated, ResolveNotFound, ResolveInvalid, Commit, CommitLost, Abort, Fail
<1>3. CASE BumpUpdate(w)
  <2>1. pc'[w] \in {"bump select", "get"}
    BY <1>0, <1>3 DEF BumpUpdate, TypeOK
  <2> QED
    BY <1>3, <2>1 DEF BumpUpdate, ChoiceInv, Chosen, tables
<1>4. CASE BumpSelect(w) \/ GetConfig(w)
  <2>1. pc'[w] \in {"get", "resolve"}
    BY <1>0, <1>4 DEF BumpSelect, GetConfig, TypeOK
  <2> QED
    BY <1>4, <2>1 DEF BumpSelect, GetConfig, ChoiceInv, Chosen, tables
<1>5. CASE Resolve(w)
  <2>1. PICK p \in Resolved(w) \cap Valid : payload' = [payload EXCEPT ![w] = p]
    BY <1>5 DEF Resolve
  <2>2. payload'[w] = p
    BY <1>0, <2>1 DEF TypeOK
  <2>3. req[w].op = "set" => p = req[w].payload
    BY <2>1 DEF Resolved
  <2>4. req[w].op = "rollback" => \E q \in RowOf(req[w].key, req[w].version) : q.payload = p
    <3>1. Visible(w).history = history
      BY <1>0, VisibleHistory
    <3> QED
      BY <2>1, <3>1 DEF Resolved, RowOf
  <2> QED
    BY <1>5, <2>2, <2>3, <2>4 DEF Resolve, ChoiceInv, RowOf, tables
<1>6. CASE WriteRow(w) \/ AppendHistory(w)
  <2>1. pc[w] \in Chosen
    BY <1>6 DEF WriteRow, AppendHistory, Chosen
  <2> QED
    BY <1>6, <2>1 DEF WriteRow, AppendHistory, ChoiceInv, RowOf, tables, locals
<1> QED
  BY <1>2, <1>3, <1>4, <1>5, <1>6 DEF Statement

\* The last statement of a write tells the truth: a success names its row, with the
\* payload the command was about, and a not-found what was missing.
LEMMA StatementReturns ==
  ASSUME StoreInv, ConfigIsLastVersion, NEW w \in Writers, ShellInv(w), from[w] \in Nat,
         place[w] = "store", cmd[w].name \in Writing, Statement(w), pc'[w] = "idle",
         cmd'[w] = cmd[w], NEW n, n = version[w]
  PROVE  /\ outcome'[w] \in {"ok", "not found", "invalid", "error"}
         /\ outcome'[w] = "ok" => WrittenAs(cmd[w], n)'
         /\ outcome'[w] = "not found" => Missing(w) /\ UNCHANGED history
<1> DEFINE k == cmd[w].key
<1>0. /\ TypeOK /\ TxInv(w) /\ RowsInv
      /\ ChoiceInv(w) /\ Asked(cmd[w])
      /\ pc[w] # "idle" /\ req[w] = StoreRequest(cmd[w])
      /\ k \in Keys => from[w] <= MaxVersion(history, k)
  BY DEF StoreInv, AllTxInv, ShellInv, CommandInv
<1>1. /\ k \in Keys /\ req[w].key = k
      /\ req[w].op = IF cmd[w].name = "rm" THEN "delete" ELSE cmd[w].name
      /\ cmd[w].name = "set" => req[w].payload = cmd[w].payload
      /\ cmd[w].name = "rollback" => req[w].version = cmd[w].v1
      /\ cmd[w].v1 \in Nat
  BY <1>0, CommandFields DEF Writing
<1>2. ~ (BumpUpdate(w) \/ BumpSelect(w) \/ GetConfig(w) \/ Resolve(w) \/ WriteRow(w)
         \/ AppendHistory(w))
  BY <1>0 DEF BumpUpdate, BumpSelect, GetConfig, Resolve, WriteRow, AppendHistory, TypeOK
<1>3. CASE NotMigrated(w) \/ ResolveInvalid(w) \/ CommitLost(w) \/ Abort(w)
  BY <1>0, <1>3 DEF NotMigrated, ResolveInvalid, CommitLost, Abort, Fail, End, TypeOK
<1>4. CASE ResolveNotFound(w)
  <2>1. /\ outcome'[w] = "not found" /\ UNCHANGED history
        /\ pc[w] = "resolve" /\ Resolved(w) = {}
    BY <1>0, <1>4 DEF ResolveNotFound, Fail, End, TypeOK, tables
  <2>2. CASE cmd[w].name = "set"
    BY <1>1, <2>1, <2>2 DEF Resolved
  <2>3. CASE cmd[w].name = "rm"
    <3>1. payload[w] = NoPayload
      BY <1>1, <2>1, <2>3 DEF Resolved
    <3>2. config[k] = NoPayload
      BY <1>0, <1>1, <2>1, <3>1 DEF TxInv
    <3>3. AbsentSince(k, from[w])
      BY <1>0, <1>1, <3>2, NoRowIsAbsent
    <3> QED
      BY <2>1, <2>3, <3>3 DEF Missing
  <2>4. CASE cmd[w].name = "rollback"
    <3>1. \A r \in Visible(w).history : ~(r.key = k /\ r.version = cmd[w].v1)
      BY <1>1, <2>1, <2>4 DEF Resolved
    <3>2. Visible(w).history = history
      BY <1>0, VisibleHistory
    <3>3. cmd[w].v1 \notin Versions(history, k)
      BY <3>1, <3>2 DEF Versions
    <3>4. Versions(history, k) = 1 .. MaxVersion(history, k) /\ MaxVersion(history, k) \in Nat
      BY <1>0, <1>1, MaxVersionCounts
    <3>5. cmd[w].v1 # 0
      BY <1>0, <2>4 DEF Asked
    <3>6. cmd[w].v1 > MaxVersion(history, k)
      BY <1>1, <3>3, <3>4, <3>5
    <3>7. cmd[w].v1 > from[w]
      BY <1>0, <1>1, <3>4, <3>6
    <3> QED
      BY <2>1, <2>4, <3>7 DEF Missing
  <2> QED
    BY <2>2, <2>3, <2>4 DEF Writing
<1>5. CASE Commit(w)
  <2>1. Published(w) /\ pc[w] = "commit" /\ outcome'[w] = "ok"
    BY <1>0, <1>5 DEF Commit, Published, End, TypeOK
  <2>2. history' = history \cup {NewRow(w)}
    BY <2>1, PublishedRows
  <2>3. PICK row \in history' : row = NewRow(w)
    BY <2>2
  <2>4. /\ row.key = k /\ row.version = n
        /\ row.op = req[w].op /\ row.payload = payload[w]
    BY <1>1, <2>3 DEF NewRow
  <2>5. /\ cmd[w].name = "set" => payload[w] = cmd[w].payload
        /\ cmd[w].name = "rollback" =>
              \E q \in history : q.key = k /\ q.version = cmd[w].v1 /\ q.payload = payload[w]
    BY <1>0, <1>1, <2>1 DEF ChoiceInv, Chosen, RowOf
  <2>6. cmd[w].name = "rm" =>
          \E q \in history : /\ q.key = k /\ q.version = n - 1
                            /\ q.op # "delete" /\ q.payload = payload[w]
    <3> SUFFICES ASSUME cmd[w].name = "rm"
                 PROVE  \E q \in history : /\ q.key = k /\ q.version = n - 1
                                           /\ q.op # "delete" /\ q.payload = payload[w]
      OBVIOUS
    <3>1. payload[w] = config[k] /\ payload[w] # NoPayload
      BY <1>0, <1>1, <2>1, StoreAssumption DEF TxInv, Chosen, StoreAssumption
    <3>2. \E q \in RowOf(k, MaxVersion(history, k)) : q.op # "delete" /\ q.payload = config[k]
      BY <1>1, <3>1, CurrentRowIsLast
    <3>3. n = MaxVersion(history, k) + 1 /\ MaxVersion(history, k) \in Nat
      BY <1>0, <1>1, <2>1, MaxVersionCounts DEF TxInv, Numbered
    <3>4. n - 1 = MaxVersion(history, k)
      BY <3>3
    <3> QED
      BY <3>1, <3>2, <3>4 DEF RowOf
  <2>7. row.payload \in Due(cmd[w], row.op, n)'
    <3>1. CASE cmd[w].name = "set"
      BY <1>1, <2>4, <2>5, <3>1 DEF Due
    <3>2. CASE cmd[w].name = "rollback"
      BY <1>1, <2>2, <2>4, <2>5, <3>2 DEF Due, RowOf
    <3>3. CASE cmd[w].name = "rm"
      BY <1>1, <2>2, <2>4, <2>6, <3>3 DEF Due, RowOf
    <3> QED
      BY <3>1, <3>2, <3>3 DEF Writing
  <2>8. WrittenAs(cmd[w], n)'
    BY <1>0, <2>3, <2>4, <2>7 DEF WrittenAs, RowOf
  <2> QED
    BY <2>1, <2>8
<1> QED
  BY <1>2, <1>3, <1>4, <1>5 DEF Statement

-----------------------------------------------------------------------------
\* Reads.

\* A read answers not-found only for what is not there, and the history it searches a
\* version in is whole, whatever the default limit of the handlers.
LEMMA ReadIsTrue ==
  ASSUME StoreInv, ConfigIsLastVersion, NEW w \in Writers, CommandInv(w), from[w] \in Nat,
         place[w] = "store", cmd[w].name \notin Writing \cup {"migrate"}
  PROVE  /\ Found(w).err \in {"nil", "not found"}
         /\ Found(w) = [err |-> Found(w).err, version |-> 0, revision |-> 0,
                        versions |-> Found(w).versions]
         /\ Found(w).versions \subseteq Nat
         /\ Found(w).err = "not found" => Missing(w)
         /\ Searches(w) => 1 .. from[w] \subseteq Found(w).versions
<1> DEFINE k == cmd[w].key
           m == MaxVersion(history, k)
           found == IF Searches(w) \/ cmd[w].name = "history"
                      THEN Newest(k, Limit(w, -1)) ELSE {}
           none == CASE Searches(w) \/ cmd[w].name = "history" -> found = {}
                     [] cmd[w].name = "list"                   -> FALSE
                     [] OTHER                                  -> config[k] = NoPayload
<1>0. /\ Asked(cmd[w]) /\ (k \in Keys => from[w] <= m)
      /\ cmd[w].name \in {"set --dry-run", "get", "history", "diff", "list"}
      /\ cmd[w].name # "list" => k \in Keys
      /\ Version(w) \in Nat
  BY CommandFields DEF CommandInv, Writing, Version
<1>1. Found(w) = [NoRet EXCEPT !.versions = found, !.err = IF none THEN "not found" ELSE "nil"]
  BY DEF Found
<1>2. /\ Found(w).err = IF none THEN "not found" ELSE "nil"
      /\ Found(w).versions = found
      /\ Found(w) = [err |-> Found(w).err, version |-> 0, revision |-> 0,
                     versions |-> Found(w).versions]
  BY <1>1 DEF NoRet
<1>3. k \in Keys => m \in Nat /\ Versions(history, k) = 1 .. m
  BY MaxVersionCounts DEF StoreInv
<1>4. Searches(w) \/ cmd[w].name = "history" => k \in Keys
  BY <1>0 DEF Searches
<1>5. Searches(w) \/ cmd[w].name = "history" => found = 1 .. m
  <2> SUFFICES ASSUME Searches(w) \/ cmd[w].name = "history" PROVE Newest(k, Limit(w, -1)) = 1 .. m
    OBVIOUS
  <2>1. Limit(w, -1) <= 0
    BY DEF Limit
  <2>2. Newest(k, Limit(w, -1)) = Versions(history, k)
    BY <2>1 DEF Newest
  <2> QED
    BY <1>3, <1>4, <2>2
<1>6. none => IF Searches(w) \/ cmd[w].name = "history" THEN found = {}
              ELSE cmd[w].name # "list" /\ config[k] = NoPayload
  <2> HIDE DEF found
  <2> QED
    BY Zenon
<1> HIDE DEF found, none, m
<1>7. found \subseteq Nat
  <2>1. CASE Searches(w) \/ cmd[w].name = "history"
    BY <1>3, <1>4, <1>5, <2>1
  <2>2. CASE ~ (Searches(w) \/ cmd[w].name = "history")
    BY <2>2 DEF found
  <2> QED
    BY <2>1, <2>2
<1>8. Searches(w) => 1 .. from[w] \subseteq found
  <2> SUFFICES ASSUME Searches(w) PROVE 1 .. from[w] \subseteq found
    OBVIOUS
  <2>1. m \in Nat /\ from[w] <= m /\ found = 1 .. m
    BY <1>0, <1>3, <1>4, <1>5
  <2> QED
    BY <2>1
<1>9. ASSUME none PROVE Missing(w)
  <2>1. CASE Searches(w) \/ cmd[w].name = "history"
    <3>1. m = 0 /\ from[w] = 0
      <4>0. found = 1 .. m /\ found = {} /\ k \in Keys
        BY <1>4, <1>5, <1>6, <1>9, <2>1
      <4>1. m \in Nat /\ from[w] <= m /\ 1 .. m = {}
        BY <1>0, <1>3, <4>0
      <4>2. 1 \notin 1 .. m
        BY <4>1
      <4> QED
        BY <4>1, <4>2
    <3>2. cmd[w].name \in {"get", "diff", "history"}
      BY <2>1 DEF Searches
    <3>3. cmd[w].name \in {"get", "diff"} => Version(w) > 0
      BY <2>1, <3>2 DEF Searches
    <3>4. cmd[w].name = "history" => from[w] = 0
      BY <3>1
    <3>5. cmd[w].name \in {"get", "diff"} => Version(w) > from[w] /\ ~(Version(w) = 0)
      BY <3>1, <3>3
    <3> QED
      BY <3>2, <3>4, <3>5 DEF Missing
  <2>2. CASE ~ (Searches(w) \/ cmd[w].name = "history")
    <3>1. cmd[w].name # "list" /\ config[k] = NoPayload
      BY <1>6, <1>9, <2>2
    <3>2. AbsentSince(k, from[w])
      BY <1>0, <3>1, NoRowIsAbsent DEF m
    <3>3. cmd[w].name \in {"get", "diff"} => ~(Version(w) > 0)
      BY <2>2 DEF Searches
    <3> QED
      BY <1>0, <2>2, <3>1, <3>2, <3>3 DEF Missing
  <2> QED
    BY <2>1, <2>2
<1> QED
  BY <1>2, <1>7, <1>8, <1>9

-----------------------------------------------------------------------------
\* A command's calls.

\* What a step does to the other shells: nothing.
Spares(v) ==
    /\ cmd'[v] = cmd[v] /\ nth'[v] = nth[v] /\ place'[v] = place[v]
    /\ ret'[v] = ret[v] /\ code'[v] = code[v] /\ from'[v] = from[v]
    /\ pc'[v] = pc[v] /\ req'[v] = req[v] /\ payload'[v] = payload[v]

\* The exit codes, and the one command with a second call.
LEMMA ExitCodes ==
  ASSUME NEW w \in Writers, NEW err
  PROVE  /\ ExitCode(w, err) \in {Running, 0, 1, 4}
         /\ ExitCode(w, err) = Running => cmd[w].name = "diff" /\ nth[w] = 1
<1>1. \A e : Exit(e) \in {0, 1, 4}
  BY DEF Exit
<1>2. DiffResult(w, err) \in {Running, 0, 1, 4}
      /\ (DiffResult(w, err) = Running => nth[w] = 1)
  <2> DEFINE found == IF Searches(w) THEN FindVersion(w, err) ELSE err
  <2>1. DiffResult(w, err) = IF nth[w] = 1 /\ found = "nil" THEN Running ELSE Exit(found)
    BY DEF DiffResult
  <2>2. Exit(found) \in {0, 1, 4}
    BY <1>1
  <2> QED
    BY <2>1, <2>2 DEF Running
<1>3. PreviewSet(err) \in {0, 1, 4} /\ GetResult(w, err) \in {0, 1, 4}
  BY <1>1 DEF PreviewSet, GetResult
<1>4. CASE cmd[w].name = "diff"
  BY <1>2, <1>4 DEF ExitCode
<1>5. CASE cmd[w].name # "diff"
  <2>1. ExitCode(w, err) \in {PreviewSet(err), GetResult(w, err), Exit(err)}
    BY <1>5 DEF ExitCode
  <2> QED
    BY <1>1, <1>3, <2>1 DEF Running
<1> QED
  BY <1>4, <1>5

\* A call begins: it is on its way, or in the store, with the transaction of a write
\* begun.
LEMMA CallBegins ==
  ASSUME TypeOK, place \in [Writers -> Places], NEW w \in Writers, NEW c, Asked(c),
         pc[w] = "idle", Call(w, c) \/ Enter(w, c)
  PROVE  /\ [Next]_vars
         /\ place' \in [Writers -> Places]
         /\ place'[w] \in {"sent", "store"}
         /\ pc'[w] \in {"idle", "bump"}
         /\ pc'[w] # "idle" <=> place'[w] = "store" /\ c.name \in Writing
         /\ pc'[w] # "idle" => req'[w] = StoreRequest(c)
         /\ UNCHANGED tables
         /\ \A v \in Writers \ {w} : /\ place'[v] = place[v]
                                     /\ pc'[v] = pc[v] /\ req'[v] = req[v]
                                     /\ payload'[v] = payload[v]
<1>1. ASSUME Begin(w, StoreRequest(c)), c.name \in Writing
      PROVE  /\ [Next]_vars
             /\ pc'[w] = "bump" /\ req'[w] = StoreRequest(c) /\ UNCHANGED tables
             /\ \A v \in Writers \ {w} : pc'[v] = pc[v] /\ req'[v] = req[v]
                                         /\ payload'[v] = payload[v]
  <2>1. StoreRequest(c) \in Request
    BY <1>1, CommandFields
  <2>2. Next
    BY <1>1, <2>1 DEF Next
  <2>3. pc'[w] = "bump" /\ req'[w] = StoreRequest(c) /\ UNCHANGED tables
    BY <1>1 DEF Begin, TypeOK
  <2> QED
    BY <1>1, <2>2, <2>3, StatementFrame
<1>2. ASSUME UNCHANGED vars
      PROVE  /\ [Next]_vars
             /\ pc'[w] = "idle" /\ UNCHANGED tables
             /\ \A v \in Writers \ {w} : pc'[v] = pc[v] /\ req'[v] = req[v]
                                         /\ payload'[v] = payload[v]
  BY <1>2 DEF vars, locals
<1>3. CASE Enter(w, c)
  <2>1. /\ place' = [place EXCEPT ![w] = "store"]
        /\ c.name \in Writing => Begin(w, StoreRequest(c))
        /\ c.name \notin Writing => UNCHANGED vars
    BY <1>3 DEF Enter
  <2>2. /\ place' \in [Writers -> Places] /\ place'[w] = "store"
        /\ \A v \in Writers \ {w} : place'[v] = place[v]
    BY <2>1 DEF Places
  <2>3. CASE c.name \in Writing
    BY <1>1, <2>1, <2>2, <2>3
  <2>4. CASE c.name \notin Writing
    BY <1>2, <2>1, <2>2, <2>4
  <2> QED
    BY <2>3, <2>4
<1>4. CASE place' = [place EXCEPT ![w] = "sent"] /\ UNCHANGED vars
  <2>1. /\ place' \in [Writers -> Places] /\ place'[w] = "sent"
        /\ \A v \in Writers \ {w} : place'[v] = place[v]
    BY <1>4 DEF Places
  <2> QED
    BY <1>2, <1>4, <2>1
<1> QED
  BY <1>3, <1>4 DEF Call

-----------------------------------------------------------------------------
\* The store under the commands.

Outcomes == {"none", "ok", "not found", "invalid", "error"}

\* A step of lsctl is a step of the store, or takes an outcome from it.
StoreStep ==
    \/ [Next]_vars
    \/ /\ UNCHANGED <<tables, holder, pc, locals, acked>>
       /\ outcome' \in [Writers -> Outcomes]

\* The store's invariants hold under lsctl, and the history still only grows.
LEMMA StoreKept ==
  ASSUME StoreInv, ConfigIsLastVersion, StoreStep
  PROVE  /\ StoreInv' /\ ConfigIsLastVersion'
         /\ history \subseteq history'
         /\ \A k \in Keys : /\ MaxVersion(history', k) \in Nat
                             /\ MaxVersion(history, k) <= MaxVersion(history', k)
<1>1. CASE [Next]_vars
  <2>1. StoreInv'
    BY <1>1, TypeStep, TxStep, RowsStep DEF StoreInv
  <2> QED
    BY <1>1, <2>1, ConfigStep, HistoryGrows
<1>2. CASE /\ UNCHANGED <<tables, holder, pc, locals, acked>>
           /\ outcome' \in [Writers -> Outcomes]
  <2>1. UNCHANGED <<revision, config, history, holder, pc, req, view, rev, payload,
                    version, acked>>
    BY <1>2 DEF tables, locals
  <2>2. TypeOK'
    BY <1>2, <2>1 DEF StoreInv, TypeOK, Outcomes
  <2>3. AllTxInv'
    BY <2>1 DEF StoreInv, AllTxInv, TxInv, Committed
  <2>4. RowsInv'
    BY <2>1 DEF StoreInv, RowsInv, RevisionCountsWrites, VersionsContiguous
  <2>5. ConfigIsLastVersion'
    BY <2>1 DEF ConfigIsLastVersion, Last
  <2>6. \A k \in Keys : MaxVersion(history, k) \in Nat
    BY MaxVersionCounts DEF StoreInv
  <2> QED
    BY <2>1, <2>2, <2>3, <2>4, <2>5, <2>6 DEF StoreInv
<1> QED
  BY <1>1, <1>2 DEF StoreStep

\* What a step of one shell establishes.
StepOf(w) ==
    /\ StoreStep
    /\ ControlTypes'
    /\ ShellInv(w)'
    /\ \A v \in Writers \ {w} : Spares(v)

\* A call that has not reached the store, or has just begun there, knows nothing yet.
LEMMA FreshCall ==
  ASSUME NEW w \in Writers, ret'[w] = NoRet, place'[w] \in {"sent", "store"},
         pc'[w] \in {"idle", "bump"},
         pc'[w] # "idle" <=> place'[w] = "store" /\ cmd'[w].name \in Writing,
         pc'[w] # "idle" => req'[w] = StoreRequest(cmd'[w]),
         Asked(cmd'[w]), nth'[w] = 2 => cmd'[w].name = "diff",
         cmd'[w].key \in Keys => from'[w] <= MaxVersion(history', cmd'[w].key)
  PROVE  ShellInv(w)'
<1>1. ChoiceInv(w)'
  BY DEF ChoiceInv, Chosen
<1>2. CommandInv(w)'
  BY DEF CommandInv
<1>3. ReplyInv(w)'
  BY DEF ReplyInv
<1> QED
  BY <1>1, <1>2, <1>3 DEF ShellInv

\* Execute, from the command line to the first call.
LEMMA StartStep ==
  ASSUME LsctlInv, NEW w \in Writers, NEW c \in Typed[w], Start(w, c)
  PROVE  StepOf(w)
<1>0. /\ StoreInv /\ TypeOK /\ ControlTypes /\ ShellInv(w)
      /\ code[w] # Running /\ place[w] = "none"
      /\ nth' = nth /\ ret' = ret
  BY DEF LsctlInv, StoreInv, Start
<1>1. pc[w] = "idle" /\ nth[w] = 1 /\ ret[w] = NoRet
  BY <1>0 DEF ShellInv, CommandInv, ReplyInv
<1>2. c \in Command
  BY LsctlAssumption DEF LsctlAssumption
<1>3. CASE Refused(w, c)
  <2>1. code' = [code EXCEPT ![w] = 1] /\ UNCHANGED <<vars, cmd, place, from>>
    BY <1>3 DEF Start
  <2>2. ControlTypes'
    BY <1>0, <2>1 DEF ControlTypes
  <2>3. StoreStep /\ UNCHANGED <<history, pc, req, payload>>
    BY <2>1 DEF StoreStep, vars, tables, locals
  <2>4. code'[w] = 1 /\ \A v \in Writers \ {w} : Spares(v)
    BY <1>0, <2>1, <2>3 DEF ControlTypes, Spares
  <2>5. ShellInv(w)'
    <3>1. from[w] \in Nat
      BY <1>0 DEF ControlTypes
    <3>2. \A k \in Keys : /\ MaxVersion(history', k) \in Nat
                           /\ MaxVersion(history, k) <= MaxVersion(history', k)
      BY <1>0, <2>3, StoreKept DEF LsctlInv
    <3> QED
      BY <1>0, <2>1, <2>3, <2>4, <3>1, <3>2, FrameKeepsShell DEF Running
  <2> QED
    BY <2>2, <2>3, <2>4, <2>5 DEF StepOf
<1>4. CASE ~ Refused(w, c)
  <2> DEFINE n == IF c.key \in Keys THEN MaxVersion(history, c.key) ELSE 0
  <2>1. /\ code' = [code EXCEPT ![w] = Running]
        /\ cmd' = [cmd EXCEPT ![w] = c]
        /\ from' = [from EXCEPT ![w] = n]
        /\ Call(w, c)
    BY <1>4 DEF Start
  <2>2. Asked(c)
    BY <1>2, <1>4 DEF Asked, Refused
  <2>3. /\ [Next]_vars
        /\ place' \in [Writers -> Places]
        /\ place'[w] \in {"sent", "store"}
        /\ pc'[w] \in {"idle", "bump"}
        /\ pc'[w] # "idle" <=> place'[w] = "store" /\ c.name \in Writing
        /\ pc'[w] # "idle" => req'[w] = StoreRequest(c)
        /\ UNCHANGED tables
        /\ \A v \in Writers \ {w} : /\ place'[v] = place[v]
                                    /\ pc'[v] = pc[v] /\ req'[v] = req[v]
                                    /\ payload'[v] = payload[v]
    BY <1>0, <1>1, <2>1, <2>2, CallBegins DEF ControlTypes
  <2>4. n \in Nat
    BY <1>0, MaxVersionCounts DEF StoreInv
  <2>5. /\ cmd'[w] = c /\ from'[w] = n /\ code'[w] = Running
        /\ nth'[w] = 1 /\ ret'[w] = NoRet
    BY <1>0, <1>1, <2>1 DEF ControlTypes
  <2>6. \A v \in Writers \ {w} : Spares(v)
    BY <1>0, <2>1, <2>3 DEF ControlTypes, Spares
  <2>7. ControlTypes'
    <3> HIDE DEF n
    <3>1. cmd' \in [Writers -> Command \cup {NoCommand}]
      BY <1>0, <1>2, <2>1 DEF ControlTypes
    <3>2. from' \in [Writers -> Nat]
      BY <1>0, <2>1, <2>4 DEF ControlTypes
    <3>3. code' \in [Writers -> {Running, 0, 1, 4}]
      BY <1>0, <2>1 DEF ControlTypes
    <3> QED
      BY <1>0, <2>3, <3>1, <3>2, <3>3 DEF ControlTypes
  <2>8. ShellInv(w)'
    <3>1. c.key \in Keys => n <= MaxVersion(history', c.key)
      <4>1. UNCHANGED history
        BY <2>3 DEF tables
      <4> QED
        BY <2>4, <4>1
    <3> HIDE DEF n
    <3> QED
      BY <2>2, <2>3, <2>5, <3>1, FreshCall
  <2> QED
    BY <2>3, <2>6, <2>7, <2>8 DEF StepOf, StoreStep
<1> QED
  BY <1>3, <1>4

\* A call is over and its command with it: nothing is left of either.
LEMMA Cleared ==
  ASSUME LsctlInv, NEW w \in Writers, place[w] # "store", Clear(w),
         ret' = [ret EXCEPT ![w] = NoRet],
         code' \in [Writers -> {Running, 0, 1, 4}], code'[w] # Running,
         \A v \in Writers \ {w} : code'[v] = code[v]
  PROVE  StepOf(w)
<1>0. TypeOK /\ ControlTypes /\ CommandInv(w)
  BY DEF LsctlInv, StoreInv, ShellInv
<1>1. /\ cmd' = [cmd EXCEPT ![w] = NoCommand] /\ nth' = [nth EXCEPT ![w] = 1]
      /\ place' = [place EXCEPT ![w] = "none"] /\ from' = [from EXCEPT ![w] = 0]
      /\ outcome' = [outcome EXCEPT ![w] = "none"]
      /\ UNCHANGED <<tables, holder, pc, locals, acked>>
  BY DEF Clear
<1>2. UNCHANGED <<history, pc, req, payload>>
  BY <1>1 DEF tables, locals
<1>3. StoreStep
  BY <1>0, <1>1 DEF StoreStep, TypeOK, Outcomes
<1>4. ControlTypes'
  <2>1. NoRet \in Rets
    BY DEF NoRet, Rets, Errs
  <2>2. ret' \in [Writers -> Rets]
    BY <1>0, <2>1 DEF ControlTypes
  <2>3. nth' \in [Writers -> {1, 2}] /\ place' \in [Writers -> Places]
    BY <1>0, <1>1 DEF ControlTypes, Places
  <2>4. from' \in [Writers -> Nat] /\ cmd' \in [Writers -> Command \cup {NoCommand}]
    BY <1>0, <1>1 DEF ControlTypes
  <2> QED
    BY <2>2, <2>3, <2>4 DEF ControlTypes
<1>5. \A v \in Writers \ {w} : Spares(v)
  BY <1>0, <1>1, <1>2 DEF ControlTypes, Spares
<1>6. ShellInv(w)'
  <2>1. /\ cmd'[w] = NoCommand /\ nth'[w] = 1 /\ place'[w] = "none" /\ ret'[w] = NoRet
        /\ pc'[w] = "idle"
    BY <1>0, <1>1, <1>2 DEF ControlTypes, CommandInv
  <2> QED
    BY <2>1 DEF ShellInv, ChoiceInv, Chosen, CommandInv, ReplyInv
<1> QED
  BY <1>3, <1>4, <1>5, <1>6 DEF StepOf

\* The reply ends the command, or diff asks for its second version.
LEMMA ReturnStep ==
  ASSUME LsctlInv, NEW w \in Writers, Return(w)
  PROVE  StepOf(w)
<1> DEFINE exit == ExitCode(w, Answer(w))
<1>0. /\ StoreInv /\ TypeOK /\ ControlTypes /\ CommandInv(w)
      /\ code[w] = Running /\ place[w] = "done"
      /\ code' = [code EXCEPT ![w] = exit] /\ ret' = [ret EXCEPT ![w] = NoRet]
  BY DEF LsctlInv, StoreInv, ShellInv, Return
<1>1. /\ exit \in {Running, 0, 1, 4}
      /\ exit = Running => cmd[w].name = "diff" /\ nth[w] = 1
  BY ExitCodes
<1>2. exit # Running => Clear(w)
  BY DEF Return
<1>3. exit = Running => /\ nth' = [nth EXCEPT ![w] = 2]
                        /\ Call(w, cmd[w])
                        /\ UNCHANGED <<cmd, from>>
  BY DEF Return
<1> HIDE DEF exit
<1>4. /\ code' \in [Writers -> {Running, 0, 1, 4}] /\ code'[w] = exit
      /\ \A v \in Writers \ {w} : code'[v] = code[v]
  BY <1>0, <1>1 DEF ControlTypes
<1>5. CASE exit # Running
  BY <1>0, <1>2, <1>4, <1>5, Cleared
<1>6. CASE exit = Running
  <2>1. Asked(cmd[w]) /\ pc[w] = "idle" /\ cmd[w].name = "diff" /\ cmd[w].name \notin Writing
    BY <1>0, <1>1, <1>6 DEF CommandInv, Writing
  <2>2. /\ [Next]_vars
        /\ place' \in [Writers -> Places]
        /\ place'[w] \in {"sent", "store"}
        /\ pc'[w] \in {"idle", "bump"}
        /\ pc'[w] # "idle" <=> place'[w] = "store" /\ cmd[w].name \in Writing
        /\ pc'[w] # "idle" => req'[w] = StoreRequest(cmd[w])
        /\ UNCHANGED tables
        /\ \A v \in Writers \ {w} : /\ place'[v] = place[v]
                                    /\ pc'[v] = pc[v] /\ req'[v] = req[v]
                                    /\ payload'[v] = payload[v]
    BY <1>0, <1>3, <1>6, <2>1, CallBegins DEF ControlTypes
  <2>3. /\ cmd' = cmd /\ from' = from /\ nth' = [nth EXCEPT ![w] = 2]
        /\ ret'[w] = NoRet /\ history' = history
    BY <1>0, <1>3, <1>6, <2>2 DEF ControlTypes, tables
  <2>4. \A v \in Writers \ {w} : Spares(v)
    BY <1>0, <1>4, <2>2, <2>3 DEF ControlTypes, Spares
  <2>5. ControlTypes'
    <3>1. NoRet \in Rets
      BY DEF NoRet, Rets, Errs
    <3>2. ret' \in [Writers -> Rets]
      BY <1>0, <3>1 DEF ControlTypes
    <3>3. nth' \in [Writers -> {1, 2}]
      BY <1>0, <2>3 DEF ControlTypes
    <3> QED
      BY <1>0, <1>4, <2>2, <2>3, <3>2, <3>3 DEF ControlTypes
  <2>6. ShellInv(w)'
    <3>1. cmd[w].key \in Keys => from[w] <= MaxVersion(history, cmd[w].key)
      BY <1>0 DEF CommandInv
    <3> QED
      BY <2>1, <2>2, <2>3, <3>1, FreshCall
  <2> QED
    BY <2>2, <2>4, <2>5, <2>6 DEF StepOf, StoreStep
<1> QED
  BY <1>5, <1>6

\* lsctl stops waiting: with a handler in the store the call goes on without it.
LEMMA GiveUpStep ==
  ASSUME LsctlInv, NEW w \in Writers, GiveUp(w)
  PROVE  StepOf(w)
<1>0. /\ StoreInv /\ ControlTypes /\ ShellInv(w)
      /\ code' = [code EXCEPT ![w] = 1]
  BY DEF LsctlInv, GiveUp
<1>1. /\ code' \in [Writers -> {Running, 0, 1, 4}] /\ code'[w] = 1 /\ code'[w] # Running
      /\ \A v \in Writers \ {w} : code'[v] = code[v]
  BY <1>0 DEF ControlTypes, Running
<1>2. CASE place[w] # "store"
  BY <1>1, <1>2, Cleared DEF GiveUp
<1>3. CASE place[w] = "store"
  <2>1. UNCHANGED <<vars, cmd, nth, place, ret, from>>
    BY <1>3 DEF GiveUp
  <2>2. StoreStep /\ UNCHANGED <<history, pc, req, payload>>
    BY <2>1 DEF StoreStep, vars, tables, locals
  <2>3. ControlTypes' /\ \A v \in Writers \ {w} : Spares(v)
    BY <1>0, <1>1, <2>1, <2>2 DEF ControlTypes, Spares
  <2>4. ShellInv(w)'
    <3>1. from[w] \in Nat
      BY <1>0 DEF ControlTypes
    <3>2. \A k \in Keys : /\ MaxVersion(history', k) \in Nat
                           /\ MaxVersion(history, k) <= MaxVersion(history', k)
      BY <2>2, StoreKept DEF LsctlInv
    <3> QED
      BY <1>0, <1>1, <2>1, <2>2, <3>1, <3>2, FrameKeepsShell
  <2> QED
    BY <2>2, <2>3, <2>4 DEF StepOf
<1> QED
  BY <1>2, <1>3

\* The handler of a request calls the store.
LEMMA HandleStep ==
  ASSUME LsctlInv, NEW w \in Writers, Handle(w)
  PROVE  StepOf(w)
<1>0. /\ StoreInv /\ TypeOK /\ ControlTypes /\ CommandInv(w) /\ ReplyInv(w)
      /\ place[w] = "sent" /\ Enter(w, cmd[w])
      /\ UNCHANGED <<cmd, nth, ret, code, from, stopping>>
  BY DEF LsctlInv, StoreInv, ShellInv, Handle
<1>1. Asked(cmd[w]) /\ pc[w] = "idle" /\ ret[w] = NoRet
  BY <1>0 DEF CommandInv, ReplyInv
<1>2. /\ [Next]_vars
      /\ place' \in [Writers -> Places]
      /\ place'[w] \in {"sent", "store"}
      /\ pc'[w] \in {"idle", "bump"}
      /\ pc'[w] # "idle" <=> place'[w] = "store" /\ cmd[w].name \in Writing
      /\ pc'[w] # "idle" => req'[w] = StoreRequest(cmd[w])
      /\ UNCHANGED tables
      /\ \A v \in Writers \ {w} : /\ place'[v] = place[v]
                                  /\ pc'[v] = pc[v] /\ req'[v] = req[v]
                                  /\ payload'[v] = payload[v]
  BY <1>0, <1>1, CallBegins DEF ControlTypes
<1>3. history' = history /\ \A v \in Writers \ {w} : Spares(v)
  BY <1>0, <1>2 DEF Spares, tables
<1>4. ControlTypes'
  BY <1>0, <1>2 DEF ControlTypes
<1>5. ShellInv(w)'
  <2>1. /\ nth[w] = 2 => cmd[w].name = "diff"
        /\ cmd[w].key \in Keys => from[w] <= MaxVersion(history, cmd[w].key)
    BY <1>0 DEF CommandInv
  <2> QED
    BY <1>0, <1>1, <1>2, <1>3, <2>1, FreshCall
<1> QED
  BY <1>2, <1>3, <1>4, <1>5 DEF StepOf, StoreStep

\* The Result of a write, as a reply.
LEMMA NewReply ==
  ASSUME NEW err, NEW v, NEW n
  PROVE  [NoRet EXCEPT !.err = err, !.version = v, !.revision = n]
           = [err |-> err, version |-> v, revision |-> n, versions |-> {}]
<1>1. [NoRet EXCEPT !.err = err, !.version = v, !.revision = n]
        = [[[NoRet EXCEPT !.err = err] EXCEPT !.version = v] EXCEPT !.revision = n]
  OBVIOUS
<1>2. [NoRet EXCEPT !.err = err] = [err |-> err, version |-> 0, revision |-> 0, versions |-> {}]
  BY DEF NoRet
<1>3. [[err |-> err, version |-> 0, revision |-> 0, versions |-> {}] EXCEPT !.version = v]
        = [err |-> err, version |-> v, revision |-> 0, versions |-> {}]
  OBVIOUS
<1>4. [[err |-> err, version |-> v, revision |-> 0, versions |-> {}] EXCEPT !.revision = n]
        = [err |-> err, version |-> v, revision |-> n, versions |-> {}]
  OBVIOUS
<1> QED
  BY <1>1, <1>2, <1>3, <1>4

\* The order of natural numbers is transitive.
LEMMA Between ==
  ASSUME NEW a \in Nat, NEW b \in Nat, NEW c \in Nat, a <= b, b <= c
  PROVE  a <= c
  OBVIOUS

\* A call is answered, with a reply that is true.
LEMMA Answered ==
  ASSUME LsctlInv, NEW w \in Writers, place[w] \in {"sent", "store"}, StoreStep,
         UNCHANGED <<cmd, nth, code, from>>, place' = [place EXCEPT ![w] = "done"],
         NEW r \in Rets, ret' = [ret EXCEPT ![w] = r], pc'[w] = "idle",
         \A v \in Writers \ {w} : pc'[v] = pc[v] /\ req'[v] = req[v] /\ payload'[v] = payload[v],
         r.err = "not found" => Missing(w)',
         r.err = "nil" /\ Searches(w) => 1 .. from[w] \subseteq r.versions,
         r.err = "nil" /\ cmd[w].name \in Writing => WrittenAs(cmd[w], r.version)'
  PROVE  StepOf(w)
<1>0. /\ StoreInv /\ TypeOK /\ ControlTypes /\ CommandInv(w)
  BY DEF LsctlInv, StoreInv, ShellInv
<1>1. ControlTypes'
  BY <1>0 DEF ControlTypes, Places
<1>2. \A v \in Writers \ {w} : Spares(v)
  BY <1>0 DEF ControlTypes, Spares
<1>3. place'[w] = "done" /\ ret'[w] = r
  BY <1>0 DEF ControlTypes
<1>4. ChoiceInv(w)'
  BY DEF ChoiceInv, Chosen
<1>5. CommandInv(w)'
  <2>1. Asked(cmd[w]) /\ (cmd[w].key \in Keys => from[w] <= MaxVersion(history, cmd[w].key))
    BY <1>0 DEF CommandInv
  <2>2. \A k \in Keys : /\ MaxVersion(history', k) \in Nat
                         /\ MaxVersion(history, k) <= MaxVersion(history', k)
    BY StoreKept DEF LsctlInv
  <2>3. from[w] \in Nat /\ \A k \in Keys : MaxVersion(history, k) \in Nat
    BY <1>0, MaxVersionCounts DEF StoreInv, ControlTypes
  <2>4. ASSUME NEW k \in Keys, k = cmd[w].key PROVE from[w] <= MaxVersion(history', k)
    <3>1. from[w] <= MaxVersion(history, k)
      BY <2>1, <2>4
    <3>2. /\ MaxVersion(history', k) \in Nat /\ MaxVersion(history, k) \in Nat
          /\ MaxVersion(history, k) <= MaxVersion(history', k)
      BY <2>2, <2>3
    <3> QED
      BY <2>3, <3>1, <3>2, Between
  <2> QED
    BY <1>0, <1>3, <2>1, <2>4 DEF CommandInv
<1>6. ReplyInv(w)'
  <2>1. Searches(w)' = Searches(w)
    BY DEF Searches, Version
  <2>2. WrittenAs(cmd[w], r.version)' => WrittenAs(cmd[w], ret[w].version)'
    BY <1>3
  <2> QED
    BY <1>3, <2>1, <2>2 DEF ReplyInv
<1> QED
  BY <1>1, <1>2, <1>4, <1>5, <1>6 DEF StepOf, ShellInv

\* readBody and the handlers' checks answer without the store.
LEMMA RefuseStep ==
  ASSUME LsctlInv, NEW w \in Writers, Refuse(w)
  PROVE  StepOf(w)
<1> DEFINE r == [err |-> "invalid", version |-> 0, revision |-> 0, versions |-> {}]
<1>0. /\ ControlTypes /\ CommandInv(w) /\ ReplyInv(w) /\ place[w] = "sent"
      /\ place' = [place EXCEPT ![w] = "done"]
      /\ ret' = [ret EXCEPT ![w].err = "invalid"]
      /\ UNCHANGED <<vars, cmd, nth, code, from>>
  BY DEF LsctlInv, ShellInv, Refuse
<1>1. pc[w] = "idle" /\ ret[w] = NoRet
  BY <1>0 DEF CommandInv, ReplyInv
<1>2. ret' = [ret EXCEPT ![w] = r] /\ r \in Rets
  <2>1. ret' = [ret EXCEPT ![w] = [ret[w] EXCEPT !.err = "invalid"]]
    BY <1>0 DEF ControlTypes
  <2>2. [ret[w] EXCEPT !.err = "invalid"] = r
    BY <1>1 DEF NoRet
  <2>3. r \in Rets
    BY DEF Rets, Errs
  <2> HIDE DEF r
  <2> QED
    BY <2>1, <2>2, <2>3
<1>3. StoreStep /\ UNCHANGED <<pc, req, payload>>
  BY <1>0 DEF StoreStep, vars, locals
<1> QED
  BY <1>0, <1>1, <1>2, <1>3, Answered

\* write, from its first statement to its return.
LEMMA TransactStep ==
  ASSUME LsctlInv, NEW w \in Writers, Transact(w)
  PROVE  StepOf(w)
<1>0. /\ StoreInv /\ ConfigIsLastVersion /\ TypeOK /\ ControlTypes /\ ShellInv(w)
      /\ CommandInv(w) /\ ReplyInv(w) /\ ChoiceInv(w)
      /\ place[w] = "store" /\ cmd[w].name \in Writing
      /\ Statement(w)
      /\ UNCHANGED <<cmd, nth, code, from>>
  BY DEF LsctlInv, StoreInv, ShellInv, Transact
<1>1. [Next]_vars /\ StoreStep
  BY <1>0 DEF Next, StoreStep
<1>2. /\ \A v \in Writers \ {w} : pc'[v] = pc[v] /\ req'[v] = req[v] /\ payload'[v] = payload[v]
      /\ Asked(cmd[w]) /\ ret[w] = NoRet /\ from[w] \in Nat
  BY <1>0, StatementFrame DEF CommandInv, ReplyInv, ControlTypes
<1>3. CASE pc'[w] # "idle"
  <2>1. UNCHANGED <<place, ret>>
    BY <1>3 DEF Transact
  <2>2. ChoiceInv(w)' /\ req'[w] = req[w] /\ pc[w] # "idle" /\ UNCHANGED history
    BY <1>0, <1>3, StatementGoesOn
  <2>3. CommandInv(w)'
    BY <1>0, <1>3, <2>1, <2>2 DEF CommandInv
  <2>4. ReplyInv(w)'
    BY <1>0, <1>2, <2>1 DEF ReplyInv
  <2>5. ControlTypes' /\ \A v \in Writers \ {w} : Spares(v)
    BY <1>0, <1>2, <2>1 DEF ControlTypes, Spares
  <2> QED
    BY <1>1, <2>2, <2>3, <2>4, <2>5 DEF StepOf, ShellInv
<1>4. CASE pc'[w] = "idle"
  <2> DEFINE errs == CASE outcome'[w] = "ok"    -> {"nil"}
                       [] outcome'[w] = "error" -> Failures(w)
                       [] OTHER                 -> {outcome'[w]}
  <2>1. PICK err \in errs :
           ret' = [ret EXCEPT ![w] =
                     [NoRet EXCEPT !.err = err, !.version = version[w], !.revision = rev[w]]]
    BY <1>4 DEF Transact
  <2>2. place' = [place EXCEPT ![w] = "done"]
    BY <1>4 DEF Transact
  <2>3. PICK n \in Nat : n = version[w]
    BY <1>0 DEF TypeOK
  <2>4. PICK r \in [err : errs, version : Nat, revision : Nat, versions : {{}}] :
           r.err = err /\ r.version = n /\ ret' = [ret EXCEPT ![w] = r]
    <3>1. [NoRet EXCEPT !.err = err, !.version = version[w], !.revision = rev[w]]
            = [err |-> err, version |-> n, revision |-> rev[w], versions |-> {}]
      BY <2>3, NewReply
    <3>2. rev[w] \in Nat
      BY <1>0 DEF TypeOK
    <3> QED
      BY <2>1, <3>1, <3>2
  <2>5. /\ outcome'[w] \in {"ok", "not found", "invalid", "error"}
        /\ outcome'[w] = "ok" => WrittenAs(cmd[w], n)'
        /\ outcome'[w] = "not found" => Missing(w) /\ UNCHANGED history
    BY <1>0, <1>2, <1>4, <2>3, StatementReturns
  <2>6. Failures(w) \subseteq {"error", "canceled"}
    BY DEF Failures
  <2>7. /\ err \in Errs
        /\ err = "nil" => outcome'[w] = "ok"
        /\ err = "not found" => outcome'[w] = "not found"
    BY <2>1, <2>5, <2>6 DEF Errs
  <2>8. r \in Rets
    BY <2>4, <2>7 DEF Rets
  <2>9. err = "not found" => Missing(w)'
    <3>1. \A k \in Keys : /\ MaxVersion(history', k) \in Nat
                           /\ MaxVersion(history, k) <= MaxVersion(history', k)
      BY <1>0, <1>1, StoreKept
    <3>2. history \subseteq history'
      BY <1>0, <1>1, StoreKept
    <3>3. Missing(w) => Missing(w)'
      BY <1>0, <1>2, <3>1, <3>2, RepliesStayTrue
    <3> QED
      BY <2>5, <2>7, <3>3
  <2>10. err = "nil" => WrittenAs(cmd[w], n)'
    BY <2>5, <2>7
  <2>11. ~Searches(w)
    BY <1>0 DEF Searches, Writing
  <2> QED
    BY <1>0, <1>1, <1>2, <1>4, <2>2, <2>3, <2>4, <2>8, <2>9, <2>10, <2>11, Answered
<1> QED
  BY <1>3, <1>4

\* A read is answered from the committed tables, or fails.
LEMMA ReadStep ==
  ASSUME LsctlInv, NEW w \in Writers, ReadStore(w)
  PROVE  StepOf(w)
<1>0. /\ StoreInv /\ ConfigIsLastVersion /\ ControlTypes /\ CommandInv(w) /\ ReplyInv(w)
      /\ place[w] = "store" /\ cmd[w].name \notin Writing \cup {"migrate"}
      /\ place' = [place EXCEPT ![w] = "done"]
      /\ UNCHANGED <<vars, cmd, nth, code, from>>
  BY DEF LsctlInv, ShellInv, ReadStore
<1>1. pc[w] = "idle" /\ ret[w] = NoRet /\ from[w] \in Nat /\ Asked(cmd[w])
  BY <1>0 DEF CommandInv, ReplyInv, ControlTypes
<1>2. StoreStep /\ UNCHANGED <<history, pc, req, payload>>
  BY <1>0 DEF StoreStep, vars, tables, locals
<1>3. CASE ret' = [ret EXCEPT ![w] = Found(w)]
  <2>1. PICK r : r = Found(w)
    OBVIOUS
  <2>2. /\ r.err \in {"nil", "not found"}
        /\ r = [err |-> r.err, version |-> 0, revision |-> 0, versions |-> r.versions]
        /\ r.versions \subseteq Nat
        /\ r.err = "not found" => Missing(w)
        /\ Searches(w) => 1 .. from[w] \subseteq r.versions
    BY <1>0, <1>1, <2>1, ReadIsTrue
  <2>3. r \in Rets
    <3>1. PICK e \in Errs, vs \in SUBSET Nat : e = r.err /\ vs = r.versions
      BY <2>2 DEF Errs
    <3>2. r = [err |-> e, version |-> 0, revision |-> 0, versions |-> vs]
      BY <2>2, <3>1
    <3> QED
      BY <3>2 DEF Rets
  <2>4. Missing(w) => Missing(w)'
    <3>1. \A k \in Keys : /\ MaxVersion(history', k) \in Nat
                           /\ MaxVersion(history, k) <= MaxVersion(history', k)
      BY <1>0, <1>2, StoreKept
    <3> QED
      BY <1>0, <1>1, <1>2, <3>1, RepliesStayTrue
  <2> QED
    BY <1>0, <1>1, <1>2, <1>3, <2>1, <2>2, <2>3, <2>4, Answered
<1>4. ASSUME NEW err \in Failures(w), ret' = [ret EXCEPT ![w].err = err] PROVE StepOf(w)
  <2>1. err \in {"error", "canceled"}
    BY DEF Failures
  <2>2. PICK r : r = [err |-> err, version |-> 0, revision |-> 0, versions |-> {}]
    OBVIOUS
  <2>3. ret' = [ret EXCEPT ![w] = r]
    <3>1. ret' = [ret EXCEPT ![w] = [ret[w] EXCEPT !.err = err]]
      BY <1>0, <1>4 DEF ControlTypes
    <3>2. [ret[w] EXCEPT !.err = err] = r
      BY <1>1, <2>2 DEF NoRet
    <3> QED
      BY <3>1, <3>2
  <2>4. r \in Rets /\ r.err \notin {"nil", "not found"}
    BY <2>1, <2>2 DEF Rets, Errs
  <2> QED
    BY <1>0, <1>1, <1>2, <2>3, <2>4, Answered
<1> QED
  BY <1>3, <1>4 DEF ReadStore

\* Migrate, by lsctl.
LEMMA MigrateStep ==
  ASSUME LsctlInv, NEW w \in Writers, MigrateStore(w)
  PROVE  StepOf(w)
<1>0. /\ ControlTypes /\ CommandInv(w) /\ ReplyInv(w)
      /\ place[w] = "store" /\ cmd[w].name = "migrate"
      /\ place' = [place EXCEPT ![w] = "done"]
      /\ UNCHANGED <<cmd, nth, code, from>>
      /\ Migrate \/ UNCHANGED vars
      /\ ret' = ret \/ ret' = [ret EXCEPT ![w].err = "error"]
  BY DEF LsctlInv, ShellInv, MigrateStore
<1>1. pc[w] = "idle" /\ ret[w] = NoRet /\ cmd[w].name \notin Writing /\ ~Searches(w)
  BY <1>0 DEF CommandInv, ReplyInv, Writing, Searches
<1>2. StoreStep /\ UNCHANGED <<pc, req, payload>>
  BY <1>0 DEF StoreStep, Next, Migrate, vars, locals
<1>3. \E r \in Rets : r.err \in {"nil", "error"} /\ ret' = [ret EXCEPT ![w] = r]
  <2>1. CASE ret' = ret
    <3>1. ret' = [ret EXCEPT ![w] = NoRet]
      BY <1>0, <1>1, <2>1 DEF ControlTypes
    <3>2. NoRet \in Rets /\ NoRet.err = "nil"
      BY DEF NoRet, Rets, Errs
    <3> QED
      BY <3>1, <3>2
  <2>2. CASE ret' = [ret EXCEPT ![w].err = "error"]
    <3>1. PICK r : r = [err |-> "error", version |-> 0, revision |-> 0, versions |-> {}]
      OBVIOUS
    <3>2. ret' = [ret EXCEPT ![w] = [ret[w] EXCEPT !.err = "error"]]
      BY <1>0, <2>2 DEF ControlTypes
    <3>3. [ret[w] EXCEPT !.err = "error"] = r
      BY <1>1, <3>1 DEF NoRet
    <3>4. r \in Rets /\ r.err = "error"
      BY <3>1 DEF Rets, Errs
    <3> QED
      BY <3>2, <3>3, <3>4
  <2> QED
    BY <1>0, <2>1, <2>2
<1> QED
  BY <1>0, <1>1, <1>2, <1>3, Answered

\* The handler of a shell that is gone ends.
LEMMA DropStep ==
  ASSUME LsctlInv, NEW w \in Writers, Drop(w)
  PROVE  StepOf(w)
<1>1. ControlTypes /\ code[w] # Running /\ place[w] = "done" /\ code' = code
      /\ ret' = [ret EXCEPT ![w] = NoRet] /\ Clear(w)
  BY DEF LsctlInv, Drop
<1>2. code' \in [Writers -> {Running, 0, 1, 4}]
  BY <1>1 DEF ControlTypes
<1> QED
  BY <1>1, <1>2, Cleared

-----------------------------------------------------------------------------
\* The invariant.

\* A step of one shell keeps every shell in order.
LEMMA StepKeeps ==
  ASSUME LsctlInv, NEW w \in Writers, StepOf(w)
  PROVE  LsctlInv'
<1>1. /\ StoreInv' /\ ConfigIsLastVersion'
      /\ history \subseteq history'
      /\ \A k \in Keys : /\ MaxVersion(history', k) \in Nat
                          /\ MaxVersion(history, k) <= MaxVersion(history', k)
  BY StoreKept DEF LsctlInv, StepOf
<1>2. ASSUME NEW v \in Writers, v # w PROVE ShellInv(v)'
  <2>1. ShellInv(v) /\ from[v] \in Nat /\ StoreInv
    BY DEF LsctlInv, ControlTypes
  <2>2. Spares(v)
    BY <1>2 DEF StepOf
  <2> QED
    BY <1>1, <2>1, <2>2, FrameKeepsShell DEF Spares
<1> QED
  BY <1>1, <1>2 DEF LsctlInv, StepOf

\* A step that touches no shell and no transaction keeps them all in order.
LEMMA OutsideKeeps ==
  ASSUME LsctlInv, StoreStep, UNCHANGED <<cmd, nth, place, ret, code, from, pc, req, payload>>
  PROVE  LsctlInv'
<1>1. /\ StoreInv' /\ ConfigIsLastVersion'
      /\ history \subseteq history'
      /\ \A k \in Keys : /\ MaxVersion(history', k) \in Nat
                          /\ MaxVersion(history, k) <= MaxVersion(history', k)
  BY StoreKept DEF LsctlInv
<1>2. ASSUME NEW v \in Writers PROVE ShellInv(v)'
  <2>1. ShellInv(v) /\ from[v] \in Nat /\ StoreInv
    BY DEF LsctlInv, ControlTypes
  <2> QED
    BY <1>1, <2>1, FrameKeepsShell
<1>3. ControlTypes'
  BY DEF LsctlInv, ControlTypes
<1> QED
  BY <1>1, <1>2, <1>3 DEF LsctlInv

LEMMA LsctlInit == LInit => LsctlInv
<1> SUFFICES ASSUME LInit PROVE LsctlInv
  OBVIOUS
<1>1. Init /\ StoreInv
  BY InitInv DEF LInit
<1>2. ConfigIsLastVersion
  BY <1>1 DEF Init, ConfigIsLastVersion, Versions
<1>3. NoRet \in Rets
  BY DEF NoRet, Rets, Errs
<1>4. ControlTypes
  BY <1>3 DEF LInit, ControlTypes, Places
<1>5. ASSUME NEW w \in Writers PROVE ShellInv(w)
  BY <1>1 DEF LInit, Init, ShellInv, ChoiceInv, Chosen, CommandInv, ReplyInv, NoCommand, Running
<1> QED
  BY <1>1, <1>2, <1>4, <1>5 DEF LsctlInv

LEMMA LsctlStep == LsctlInv /\ [LNext]_lvars => LsctlInv'
<1> SUFFICES ASSUME LsctlInv, [LNext]_lvars PROVE LsctlInv'
  OBVIOUS
<1>1. CASE ServerMigrates
  <2>1. StoreStep
    BY <1>1 DEF ServerMigrates, StoreStep, Next
  <2>2. UNCHANGED <<cmd, nth, place, ret, code, from, pc, req, payload>>
    BY <1>1 DEF ServerMigrates, control, Migrate, locals
  <2> QED
    BY <2>1, <2>2, OutsideKeeps
<1>2. CASE Stop \/ Restart \/ UNCHANGED lvars
  <2>1. UNCHANGED vars /\ UNCHANGED <<cmd, nth, place, ret, code, from>>
    BY <1>2 DEF Stop, Restart, lvars, control
  <2>2. StoreStep /\ UNCHANGED <<pc, req, payload>>
    BY <2>1 DEF StoreStep, vars, locals
  <2> QED
    BY <2>1, <2>2, OutsideKeeps
<1>3. ASSUME NEW w \in Writers, NEW c \in Typed[w], Start(w, c) PROVE LsctlInv'
  BY <1>3, StartStep, StepKeeps
<1>4. ASSUME NEW w \in Writers,
             Return(w) \/ GiveUp(w) \/ Handle(w) \/ Refuse(w) \/ StoreCall(w) \/ Drop(w)
      PROVE  LsctlInv'
  <2>1. StepOf(w)
    BY <1>4, ReturnStep, GiveUpStep, HandleStep, RefuseStep, TransactStep, ReadStep,
       MigrateStep, DropStep DEF StoreCall
  <2> QED
    BY <2>1, StepKeeps
<1> QED
  BY <1>1, <1>2, <1>3, <1>4 DEF LNext

\* Under any commands of any shells, over both backends, the store keeps its promises
\* and every reply a shell is about to read is true.
THEOREM LsctlInvariant == LSpec => []LsctlInv
  BY LsctlInit, LsctlStep, PTL DEF LSpec

\* Whatever the commands do, the current row of a key is its last version: the
\* backends add no way round DB.write.
THEOREM TablesAgreeUnderLsctl == LSpec => []ConfigIsLastVersion
<1>1. LsctlInv => ConfigIsLastVersion
  BY DEF LsctlInv
<1> QED
  BY LsctlInvariant, <1>1, PTL

-----------------------------------------------------------------------------
\* What the exit codes say.

\* Only Return ends a command with another code than 1.
LEMMA OnlyReturnExits ==
  ASSUME LsctlInv, [LNext]_lvars, NEW w \in Writers, code[w] = Running, code'[w] \in {0, 4}
  PROVE  Return(w) /\ code'[w] = ExitCode(w, Answer(w))
<1>0. code \in [Writers -> {Running, 0, 1, 4}] /\ code'[w] # code[w]
  BY DEF LsctlInv, ControlTypes, Running
<1>1. CASE ServerMigrates \/ Stop \/ Restart \/ UNCHANGED lvars
  BY <1>0, <1>1 DEF ServerMigrates, Stop, Restart, lvars, control
<1>2. ASSUME NEW v \in Writers, NEW c \in Typed[v], Start(v, c) PROVE FALSE
  <2>1. code[v] # Running /\ (code' = [code EXCEPT ![v] = 1] \/ code' = [code EXCEPT ![v] = Running])
    BY <1>2 DEF Start
  <2> QED
    BY <1>0, <2>1
<1>3. ASSUME NEW v \in Writers, GiveUp(v) PROVE FALSE
  BY <1>0, <1>3 DEF GiveUp
<1>4. ASSUME NEW v \in Writers, Handle(v) \/ Refuse(v) \/ StoreCall(v) \/ Drop(v) PROVE FALSE
  BY <1>0, <1>4 DEF Handle, Refuse, StoreCall, Transact, ReadStore, MigrateStore, Drop
<1>5. ASSUME NEW v \in Writers, Return(v)
      PROVE  Return(w) /\ code'[w] = ExitCode(w, Answer(w))
  <2>1. code' = [code EXCEPT ![v] = ExitCode(v, Answer(v))]
    BY <1>5 DEF Return
  <2>2. v = w
    BY <1>0, <2>1
  <2> QED
    BY <1>0, <1>5, <2>1, <2>2
<1> QED
  BY <1>1, <1>2, <1>3, <1>4, <1>5 DEF LNext

\* The reply of either backend is the error of the store, or hides which one it was.
LEMMA Answers ==
  ASSUME NEW w \in Writers, ret[w].err \in Errs
  PROVE  /\ Answer(w) = "nil" => ret[w].err = "nil"
         /\ Answer(w) = "not found" => ret[w].err = "not found"
<1>1. \A e \in Errs : Do(e) = IF e \in {"nil", "not found"} THEN e ELSE "error"
  <2>1. Do("nil") = "nil" /\ Do("not found") = "not found"
    BY DEF Do, Status
  <2>2. Do("invalid") = "error" /\ Do("error") = "error"
    BY DEF Do, Status
  <2>3. Do("canceled") = "error"
    BY DEF Do, Status
  <2> QED
    BY <2>1, <2>2, <2>3 DEF Errs
<1>2. Answer(w) = IF ret[w].err \in {"nil", "not found"} THEN ret[w].err ELSE "error"
  BY <1>1 DEF Answer, MapErr
<1> QED
  BY <1>2

\* An exit code 0 or 4 is that of the answer, or of a version the answer lacks.
LEMMA ExitMeans ==
  ASSUME NEW w \in Writers, NEW err
  PROVE  /\ ExitCode(w, err) = 4 =>
               /\ cmd[w].name # "set --dry-run"
               /\ \/ err = "not found"
                  \/ /\ cmd[w].name \in {"get", "diff"} /\ err = "nil"
                     /\ Searches(w) /\ Version(w) \notin ret[w].versions
         /\ ExitCode(w, err) = 0 /\ cmd[w].name \in Writing => err = "nil"
<1> DEFINE found == IF Searches(w) THEN FindVersion(w, err) ELSE err
<1>1. \A e : /\ Exit(e) = 4 => e = "not found"
             /\ Exit(e) = 0 => e = "nil"
  <2> SUFFICES ASSUME NEW e
               PROVE  /\ Exit(e) = 4 => e = "not found"
                      /\ Exit(e) = 0 => e = "nil"
    OBVIOUS
  <2>0. 0 # 4 /\ 0 # 1 /\ 4 # 1
    OBVIOUS
  <2>1. CASE e = "nil"
    <3>1. Exit(e) = 0
      BY <2>1 DEF Exit
    <3> QED
      BY <2>0, <2>1, <3>1, Zenon
  <2>2. CASE e = "not found"
    <3>1. Exit(e) = 4
      BY <2>2 DEF Exit
    <3> QED
      BY <2>0, <2>2, <3>1, Zenon
  <2>3. CASE e # "nil" /\ e # "not found"
    <3>1. Exit(e) = 1
      BY <2>3 DEF Exit
    <3> QED
      BY <2>0, <2>3, <3>1, Zenon
  <2> QED
    BY <2>1, <2>2, <2>3, Zenon
<1>2. found = "not found" =>
        \/ err = "not found"
        \/ err = "nil" /\ Searches(w) /\ Version(w) \notin ret[w].versions
  BY DEF FindVersion
<1> HIDE DEF found
<1>3. CASE cmd[w].name = "set --dry-run"
  <2>1. ExitCode(w, err) = PreviewSet(err) /\ cmd[w].name \notin Writing
    BY <1>3 DEF ExitCode, Writing
  <2>2. PreviewSet(err) = IF err = "not found" THEN 0 ELSE Exit(err)
    BY DEF PreviewSet
  <2>3. 0 # 4
    OBVIOUS
  <2>4. ExitCode(w, err) # 4
    BY <1>1, <2>1, <2>2, <2>3, Zenon
  <2> QED
    BY <2>1, <2>4
<1>4. CASE cmd[w].name = "get"
  <2>1. ExitCode(w, err) = Exit(found) /\ cmd[w].name \notin Writing
    BY <1>4 DEF ExitCode, GetResult, Writing, found
  <2> QED
    BY <1>1, <1>2, <1>4, <2>1
<1>5. CASE cmd[w].name = "diff"
  <2>1. ExitCode(w, err) = DiffResult(w, err) /\ cmd[w].name \notin Writing
    BY <1>5 DEF ExitCode, Writing
  <2>2. DiffResult(w, err) = IF nth[w] = 1 /\ found = "nil" THEN Running ELSE Exit(found)
    BY DEF DiffResult, found
  <2>3. DiffResult(w, err) = 4 => Exit(found) = 4
    BY <2>2 DEF Running
  <2> QED
    BY <1>1, <1>2, <1>5, <2>1, <2>3
<1>6. CASE cmd[w].name \notin {"set --dry-run", "get", "diff"}
  <2>1. ExitCode(w, err) = Exit(err)
    BY <1>6 DEF ExitCode
  <2> QED
    BY <1>1, <1>6, <2>1
<1> QED
  BY <1>3, <1>4, <1>5, <1>6

\* "lsctl get k || create-it fires on a genuine absence" (root.go, on the exit codes),
\* for any number of shells writing meanwhile, any history longer than the handlers'
\* default limit or not, and any server that stops: what a command exits 4 for was
\* missing at some moment since it began.
THEOREM FourMeansAbsent == LSpec => NotFoundIsGenuine
<1> DEFINE Lacking(w) ==
             LET k == cmd[w].key
                 absentAt(n) == n = 0 \/ \E r \in RowOf(k, n) : r.op = "delete"
             IN  IF Version(w) > 0 THEN Version(w) > from[w]
                 ELSE \E n \in from[w] .. MaxVersion(history, k) : absentAt(n)
           Genuine(w) ==
             CASE cmd[w].name = "history" -> from[w] = 0
               [] cmd[w].name = "rollback" -> cmd[w].v1 > from[w]
               [] cmd[w].name \in {"get", "diff", "rm"} -> Lacking(w)
               [] OTHER -> FALSE
<1>1. ASSUME LsctlInv, [LNext]_lvars, NEW w \in Writers, Exits(w, 4)
      PROVE  Genuine(w)
  <2>1. code[w] = Running /\ code'[w] = 4
    BY <1>1 DEF Exits
  <2>2. Return(w) /\ ExitCode(w, Answer(w)) = 4
    BY <1>1, <2>1, OnlyReturnExits
  <2>3. /\ CommandInv(w) /\ ReplyInv(w) /\ place[w] = "done" /\ from[w] \in Nat
        /\ ret[w].err \in Errs
    BY <1>1, <2>2 DEF LsctlInv, ShellInv, ControlTypes, Return, Rets
  <2>4. /\ cmd[w].name # "set --dry-run"
        /\ \/ ret[w].err = "not found"
           \/ /\ cmd[w].name \in {"get", "diff"} /\ ret[w].err = "nil"
              /\ Searches(w) /\ Version(w) \notin ret[w].versions
    BY <2>2, <2>3, Answers, ExitMeans
  <2>5. /\ Asked(cmd[w]) /\ Version(w) \in Nat
        /\ cmd[w].name = "rm" => Version(w) = 0
    <3>1. Asked(cmd[w]) /\ (cmd[w].name = "rm" => nth[w] = 1)
      BY <1>1, <2>3 DEF CommandInv, LsctlInv, ControlTypes
    <3> QED
      BY <3>1, CommandFields DEF Version
  <2>6. CASE Missing(w)
    <3>1. CASE cmd[w].name = "history"
      BY <2>6, <3>1 DEF Missing
    <3>2. CASE cmd[w].name = "rollback"
      BY <2>6, <3>2 DEF Missing
    <3>3. CASE cmd[w].name \in {"get", "diff", "rm"}
      <4>1. ASSUME Version(w) > 0 PROVE Version(w) > from[w]
        <5>1. cmd[w].name \in {"get", "diff"}
          BY <2>5, <3>3, <4>1
        <5> QED
          BY <2>6, <4>1, <5>1 DEF Missing
      <4>2. ASSUME ~(Version(w) > 0) PROVE AbsentSince(cmd[w].key, from[w])
        <5>1. Version(w) = 0
          BY <2>5, <4>2
        <5> QED
          BY <2>6, <3>3, <5>1 DEF Missing
      <4>3. Lacking(w)
        BY <4>1, <4>2, Zenon DEF AbsentSince
      <4> HIDE DEF Lacking
      <4> QED
        BY <3>3, <4>3
    <3> QED
      BY <2>4, <2>6, <3>1, <3>2, <3>3 DEF Missing
  <2>7. CASE /\ cmd[w].name \in {"get", "diff"} /\ ret[w].err = "nil"
             /\ Searches(w) /\ Version(w) \notin ret[w].versions
    <3>1. 1 .. from[w] \subseteq ret[w].versions
      BY <2>3, <2>7 DEF ReplyInv
    <3>2. Version(w) > 0
      BY <2>7 DEF Searches
    <3>3. Version(w) \notin 1 .. from[w]
      BY <2>7, <3>1
    <3>4. Version(w) > from[w]
      BY <2>3, <2>5, <3>2, <3>3
    <3> QED
      BY <2>7, <3>2, <3>4
  <2>8. ret[w].err = "not found" => Missing(w)
    BY <2>3 DEF ReplyInv
  <2> QED
    BY <2>4, <2>6, <2>7, <2>8
<1>2. LsctlInv /\ [LNext]_lvars => [\A w \in Writers : Exits(w, 4) => Genuine(w)]_lvars
  BY <1>1
<1> QED
  BY LsctlInvariant, <1>2, PTL DEF LSpec, NotFoundIsGenuine

\* A write that exits 0 is in the history as lsctl reports it, over both backends and
\* through a server that is shutting down (http.go, do: a reply that does not decode is
\* an error); a rollback wrote the version asked for, and the undo rm prints brings
\* back what it took away.
THEOREM ZeroMeansDone == LSpec => ExitZeroIsDone
<1> DEFINE Done(w) ==
      LET k == cmd[w].key
      IN  \E r \in RowOf(k, ret[w].version) :
             /\ r.op = StoreRequest(cmd[w]).op
             /\ r.payload \in
                  CASE r.op = "set"      -> {cmd[w].payload}
                    [] r.op = "rollback" -> {q.payload : q \in RowOf(k, cmd[w].v1)}
                    [] r.op = "delete"   ->
                         {q.payload : q \in {q \in RowOf(k, r.version - 1) :
                                               q.op # "delete"}}
<1>1. ASSUME LsctlInv, [LNext]_lvars, NEW w \in Writers, Exits(w, 0), cmd[w].name \in Writing
      PROVE  Done(w)
  <2>1. code[w] = Running /\ code'[w] = 0
    BY <1>1 DEF Exits
  <2>2. Return(w) /\ ExitCode(w, Answer(w)) = 0
    BY <1>1, <2>1, OnlyReturnExits
  <2>3. /\ ReplyInv(w) /\ place[w] = "done" /\ ret[w].err \in Errs
    BY <1>1, <2>2 DEF LsctlInv, ShellInv, ControlTypes, Return, Rets
  <2>4. ret[w].err = "nil"
    BY <1>1, <2>2, <2>3, Answers, ExitMeans
  <2>5. WrittenAs(cmd[w], ret[w].version)
    BY <1>1, <2>3, <2>4 DEF ReplyInv
  <2> QED
    BY <2>5 DEF WrittenAs, Due
<1>2. LsctlInv /\ [LNext]_lvars =>
        [\A w \in Writers : Exits(w, 0) /\ cmd[w].name \in Writing => Done(w)]_lvars
  BY <1>1
<1> QED
  BY LsctlInvariant, <1>2, PTL DEF LSpec, ExitZeroIsDone
=============================================================================
