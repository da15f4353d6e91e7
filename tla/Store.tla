------------------------------- MODULE Store -------------------------------
(***************************************************************************)
(* store.DB.write, the transaction shared by Set, Delete and Rollback,     *)
(* statement by statement, on a database that runs it at the isolation     *)
(* level its driver gives it: REPEATABLE READ on MySQL, where the first    *)
(* plain SELECT fixes the read view of the whole transaction, and READ     *)
(* COMMITTED on PostgreSQL, where every statement reads the last commit.   *)
(* Writers are the goroutines of any number of processes (server           *)
(* instances, lsctl, direct users of the package) on one database.         *)
(***************************************************************************)
EXTENDS Integers, FiniteSets, FiniteSetsExt

CONSTANTS
    Writers,      \* concurrent callers of Set, Delete and Rollback
    Keys,         \* the keys ValidateKey accepts
    Payloads,     \* the (value, format) pairs a caller may send
    Valid,        \* those of them ValidateValue accepts
    Isolation,    \* "repeatable read" (MySQL) or "read committed" (PostgreSQL)
    MaxRevision,  \* bound on the number of committed writes
    NoPayload,    \* no row: sql.ErrNoRows
    NoWriter,     \* nobody holds the row lock
    NoView        \* the transaction has made no read view yet

ASSUME StoreAssumption ==
    /\ Valid \subseteq Payloads
    /\ Isolation \in {"repeatable read", "read committed"}
    /\ MaxRevision \in Nat
    /\ NoPayload \notin Payloads
    /\ NoWriter \notin Writers

NoRow == -1   \* lite_config_meta has no row id = 1

VARIABLES
    \* The committed rows of the three tables.
    revision,  \* lite_config_meta.revision, or NoRow before Migrate
    config,    \* lite_config: the row of each key, or NoPayload
    history,   \* lite_config_history: its rows
    \* The database's row lock on lite_config_meta, id = 1.
    holder,    \* the writer whose transaction holds it, or NoWriter
    \* Each writer's call in progress.
    pc,        \* the statement its transaction executes next
    req,       \* the call: operation, key, payload of Set, version of Rollback
    view,      \* the read view of its transaction (REPEATABLE READ), or NoView
    rev,       \* the revision BumpRevision returned
    payload,   \* cur after getConfig, then the (value, format) resolve chose
    version,   \* the version of the history row to append
    outcome,   \* what the last call returned
    acked      \* every Result returned without an error, with its call

tables == <<revision, config, history>>
locals == <<req, view, rev, payload, version>>
vars   == <<tables, holder, pc, locals, outcome, acked>>

Ops == {"set", "delete", "rollback"}

\* A row of lite_config_history; comment, author and time are left out.
Row == [key : Keys, version : Nat \ {0}, op : Ops, payload : Valid]

\* A call that passed ValidateKey and ValidateChange (the others open no
\* transaction).  Set sends a payload; Rollback a version, 1 at least.
Request ==
    [op : {"set"}, key : Keys, payload : Payloads, version : {0}]
    \cup [op : {"delete"}, key : Keys, payload : {NoPayload}, version : {0}]
    \cup [op : {"rollback"}, key : Keys, payload : {NoPayload},
          version : 1 .. MaxRevision]

Idle == [op |-> "none"]

Ack == [key : Keys, op : Ops, payload : Valid,
        revision : Nat \ {0}, version : Nat \ {0}]

View == [config : [Keys -> Valid \cup {NoPayload}], history : SUBSET Row]

-----------------------------------------------------------------------------
\* What a transaction sees.

Committed == [config |-> config, history |-> history]

\* A plain SELECT reads through the view of its transaction, which under
\* REPEATABLE READ the first one makes and the others keep.
OpenedView(w) ==
    IF Isolation = "read committed" THEN NoView
    ELSE IF view[w] = NoView THEN Committed ELSE view[w]

Visible(w) == IF OpenedView(w) = NoView THEN Committed ELSE OpenedView(w)

Versions(rows, k) == {r.version : r \in {r \in rows : r.key = k}}

\* SELECT COALESCE(MAX(version), 0) ... WHERE config_key = ?
MaxVersion(rows, k) == Max(Versions(rows, k) \cup {0})

-----------------------------------------------------------------------------
Init ==
    /\ revision = NoRow
    /\ config = [k \in Keys |-> NoPayload]
    /\ history = {}
    /\ holder = NoWriter
    /\ pc = [w \in Writers |-> "idle"]
    /\ req = [w \in Writers |-> Idle]
    /\ view = [w \in Writers |-> NoView]
    /\ rev = [w \in Writers |-> 0]
    /\ payload = [w \in Writers |-> NoPayload]
    /\ version = [w \in Writers |-> 0]
    /\ outcome = [w \in Writers |-> "none"]
    /\ acked = {}

\* Fault: the seed row replaces the one that is there.
MigrateReseeding ==
    /\ revision' = 0
    /\ UNCHANGED <<config, history, holder, pc, locals, outcome, acked>>

\* Migrate, at every start: CREATE TABLE IF NOT EXISTS, then the seed row if it
\* is missing.
Migrate ==
    /\ revision' = IF revision = NoRow THEN 0 ELSE revision
    /\ UNCHANGED <<config, history, holder, pc, locals, outcome, acked>>

\* Fault: the transaction starts with its read view (WITH CONSISTENT SNAPSHOT).
BeginWithView(w, r) ==
    /\ pc[w] = "idle"
    /\ pc' = [pc EXCEPT ![w] = "bump"]
    /\ req' = [req EXCEPT ![w] = r]
    /\ view' = [view EXCEPT ![w] = Committed]
    /\ outcome' = [outcome EXCEPT ![w] = "none"]
    /\ UNCHANGED <<tables, holder, rev, payload, version, acked>>

\* A caller enters write and begins a transaction.
Begin(w, r) ==
    /\ pc[w] = "idle"
    /\ pc' = [pc EXCEPT ![w] = "bump"]
    /\ req' = [req EXCEPT ![w] = r]
    /\ outcome' = [outcome EXCEPT ![w] = "none"]
    /\ UNCHANGED <<tables, holder, view, rev, payload, version, acked>>

\* Fault: only a commit gives the row lock back.
EndKeepingLock(w, result) ==
    /\ pc' = [pc EXCEPT ![w] = "idle"]
    /\ holder' = IF holder = w /\ result = "ok" THEN NoWriter ELSE holder
    /\ req' = [req EXCEPT ![w] = Idle]
    /\ view' = [view EXCEPT ![w] = NoView]
    /\ rev' = [rev EXCEPT ![w] = 0]
    /\ payload' = [payload EXCEPT ![w] = NoPayload]
    /\ version' = [version EXCEPT ![w] = 0]
    /\ outcome' = [outcome EXCEPT ![w] = result]

\* The transaction ends: the lock and the locals are gone.
End(w, result) ==
    /\ pc' = [pc EXCEPT ![w] = "idle"]
    /\ holder' = IF holder = w THEN NoWriter ELSE holder
    /\ req' = [req EXCEPT ![w] = Idle]
    /\ view' = [view EXCEPT ![w] = NoView]
    /\ rev' = [rev EXCEPT ![w] = 0]
    /\ payload' = [payload EXCEPT ![w] = NoPayload]
    /\ version' = [version EXCEPT ![w] = 0]
    /\ outcome' = [outcome EXCEPT ![w] = result]

\* Fault: the revision was raised outside the transaction.
FailKeepingRevision(w, result) ==
    /\ End(w, result)
    /\ revision' = IF rev[w] = 0 THEN revision ELSE rev[w]
    /\ UNCHANGED <<config, history, acked>>

\* The callback returned an error: withTx's deferred Rollback undoes everything,
\* the revision included.
Fail(w, result) ==
    /\ End(w, result)
    /\ UNCHANGED <<tables, acked>>

-----------------------------------------------------------------------------
\* The statements of the transaction, in their order.

\* Fault: the revision is read without the row lock.
BumpUpdateUnlocked(w) ==
    /\ pc[w] = "bump"
    /\ revision # NoRow
    /\ revision < MaxRevision
    /\ holder' = w
    /\ IF Isolation = "repeatable read"
         THEN pc' = [pc EXCEPT ![w] = "bump select"] /\ rev' = rev
         ELSE pc' = [pc EXCEPT ![w] = "get"] /\ rev' = [rev EXCEPT ![w] = revision + 1]
    /\ UNCHANGED <<tables, req, view, payload, version, outcome, acked>>

\* UPDATE lite_config_meta ... WHERE id = 1: waits for the row lock, takes it and
\* raises the revision of the last commit.  PostgreSQL returns it at once.
BumpUpdate(w) ==
    /\ pc[w] = "bump"
    /\ revision # NoRow
    /\ revision < MaxRevision
    /\ holder = NoWriter
    /\ holder' = w
    /\ IF Isolation = "repeatable read"
         THEN pc' = [pc EXCEPT ![w] = "bump select"] /\ rev' = rev
         ELSE pc' = [pc EXCEPT ![w] = "get"] /\ rev' = [rev EXCEPT ![w] = revision + 1]
    /\ UNCHANGED <<tables, req, view, payload, version, outcome, acked>>

\* MySQL reads the raised revision back; this SELECT makes the read view.
BumpSelect(w) ==
    /\ pc[w] = "bump select"
    /\ pc' = [pc EXCEPT ![w] = "get"]
    /\ rev' = [rev EXCEPT ![w] = revision + 1]
    /\ view' = [view EXCEPT ![w] = OpenedView(w)]
    /\ UNCHANGED <<tables, holder, req, payload, version, outcome, acked>>

\* No row was updated: ErrNotMigrated.
NotMigrated(w) ==
    /\ pc[w] = "bump"
    /\ revision = NoRow
    /\ Fail(w, "error")

\* getConfig: the current row of the key, or nil.
GetConfig(w) ==
    /\ pc[w] = "get"
    /\ pc' = [pc EXCEPT ![w] = "resolve"]
    /\ payload' = [payload EXCEPT ![w] = Visible(w).config[req[w].key]]
    /\ view' = [view EXCEPT ![w] = OpenedView(w)]
    /\ UNCHANGED <<tables, holder, req, rev, version, outcome, acked>>

\* The payload the operation writes; empty is ErrNotFound.
Resolved(w) ==
    CASE req[w].op = "set"      -> {req[w].payload}
      [] req[w].op = "delete"   -> {payload[w]} \ {NoPayload}
      [] req[w].op = "rollback" ->
           {r.payload : r \in {r \in Visible(w).history :
                /\ r.key = req[w].key
                /\ r.version = req[w].version}}

ResolveNotFound(w) ==
    /\ pc[w] = "resolve"
    /\ Resolved(w) = {}
    /\ Fail(w, "not found")

\* ValidateValue refuses what resolve chose.
ResolveInvalid(w) ==
    /\ pc[w] = "resolve"
    /\ Resolved(w) # {}
    /\ Resolved(w) \cap Valid = {}
    /\ Fail(w, "invalid")

\* Fault: the payload is not validated.
ResolveUnchecked(w) ==
    /\ pc[w] = "resolve"
    /\ \E p \in Resolved(w) : payload' = [payload EXCEPT ![w] = p]
    /\ pc' = [pc EXCEPT ![w] = "write"]
    /\ view' = [view EXCEPT ![w] = OpenedView(w)]
    /\ UNCHANGED <<tables, holder, req, rev, version, outcome, acked>>

Resolve(w) ==
    /\ pc[w] = "resolve"
    /\ \E p \in Resolved(w) \cap Valid : payload' = [payload EXCEPT ![w] = p]
    /\ pc' = [pc EXCEPT ![w] = "write"]
    /\ view' = [view EXCEPT ![w] = OpenedView(w)]
    /\ UNCHANGED <<tables, holder, req, rev, version, outcome, acked>>

\* Fault: the history row is numbered with the global revision.
WriteRowGlobal(w) ==
    /\ pc[w] = "write"
    /\ pc' = [pc EXCEPT ![w] = "append"]
    /\ version' = [version EXCEPT ![w] = rev[w]]
    /\ view' = [view EXCEPT ![w] = OpenedView(w)]
    /\ UNCHANGED <<tables, holder, req, rev, payload, outcome, acked>>

\* The DELETE or the upsert, which nobody sees before the commit, then the
\* version the history row will have.
WriteRow(w) ==
    /\ pc[w] = "write"
    /\ pc' = [pc EXCEPT ![w] = "append"]
    /\ version' = [version EXCEPT ![w] =
                      MaxVersion(Visible(w).history, req[w].key) + 1]
    /\ view' = [view EXCEPT ![w] = OpenedView(w)]
    /\ UNCHANGED <<tables, holder, req, rev, payload, outcome, acked>>

\* INSERT INTO lite_config_history, checked against the unique index on
\* (config_key, version) whatever the read view shows; a row that violates it
\* fails, like any statement that fails, by Abort.
AppendHistory(w) ==
    /\ pc[w] = "append"
    /\ version[w] \notin Versions(history, req[w].key)
    /\ pc' = [pc EXCEPT ![w] = "commit"]
    /\ UNCHANGED <<tables, holder, locals, outcome, acked>>

\* Fault: a rollback updates the row and does not insert it again.
PublishedByUpdate(w) ==
    /\ pc[w] = "commit"
    /\ revision' = rev[w]
    /\ config' = [config EXCEPT ![req[w].key] =
                     IF \/ req[w].op = "delete"
                        \/ req[w].op = "rollback" /\ @ = NoPayload
                       THEN NoPayload ELSE payload[w]]
    /\ history' = history \cup
         {[key |-> req[w].key, version |-> version[w],
           op |-> req[w].op, payload |-> payload[w]]}

\* The commit publishes the three writes at once.
Published(w) ==
    /\ pc[w] = "commit"
    /\ revision' = rev[w]
    /\ config' = [config EXCEPT ![req[w].key] =
                     IF req[w].op = "delete" THEN NoPayload ELSE payload[w]]
    /\ history' = history \cup
         {[key |-> req[w].key, version |-> version[w],
           op |-> req[w].op, payload |-> payload[w]]}

Commit(w) ==
    /\ Published(w)
    /\ acked' = acked \cup
         {[key |-> req[w].key, op |-> req[w].op, payload |-> payload[w],
           revision |-> rev[w], version |-> version[w]]}
    /\ End(w, "ok")

\* The database committed and the answer was lost: the caller gets an error.
CommitLost(w) ==
    /\ Published(w)
    /\ acked' = acked
    /\ End(w, "error")

\* Any statement may fail: the caller's context ends, the connection or the
\* writer's process dies, a lock wait times out.
Abort(w) ==
    /\ pc[w] # "idle"
    /\ Fail(w, "error")

Statement(w) ==
    \/ BumpUpdate(w) \/ BumpSelect(w) \/ NotMigrated(w)
    \/ GetConfig(w)
    \/ ResolveNotFound(w) \/ ResolveInvalid(w) \/ Resolve(w)
    \/ WriteRow(w)
    \/ AppendHistory(w)
    \/ Commit(w) \/ CommitLost(w)
    \/ Abort(w)

Next ==
    \/ Migrate
    \/ \E w \in Writers : Statement(w) \/ \E r \in Request : Begin(w, r)

Spec == Init /\ [][Next]_vars

\* A call in progress goes on: the goroutine is scheduled and each statement
\* returns, with its result or with an error.  Nobody has to call, nor to migrate.
Fairness == \A w \in Writers : WF_vars(Statement(w))

FairSpec == Spec /\ Fairness

-----------------------------------------------------------------------------
\* Properties.

\* The variables hold values of their kinds (store.go: the columns of the three
\* tables and the locals of write).
TypeOK ==
    /\ revision \in {NoRow} \cup Nat
    /\ config \in [Keys -> Valid \cup {NoPayload}]
    /\ history \subseteq Row
    /\ holder \in Writers \cup {NoWriter}
    /\ pc \in [Writers -> {"idle", "bump", "bump select", "get", "resolve",
                            "write", "append", "commit"}]
    /\ req \in [Writers -> Request \cup {Idle}]
    /\ view \in [Writers -> View \cup {NoView}]
    /\ rev \in [Writers -> Nat]
    /\ payload \in [Writers -> Payloads \cup {NoPayload}]
    /\ version \in [Writers -> Nat]
    /\ outcome \in [Writers -> {"none", "ok", "not found", "invalid", "error"}]
    /\ acked \subseteq Ack

Last(k) == CHOOSE r \in history : r.key = k /\ r.version = MaxVersion(history, k)

\* Revisions follow commit order with no gap (store.go, the comment on
\* BumpRevision): the watermark counts the rows of the append-only history, so a
\* failed or aborted call consumes none and no two commits share one.
RevisionCountsWrites ==
    /\ revision = NoRow => history = {}
    /\ revision # NoRow => revision = Cardinality(history)

\* "Versions start at 1 per key" and leave no hole: the versions of a key are
\* exactly 1..n, over deletes, re-creations, rollbacks and failed calls.
VersionsContiguous ==
    \A k \in Keys :
        Versions(history, k) = 1 .. Cardinality({r \in history : r.key = k})

\* The two tables agree: the current row is what the key's last history row
\* says, absent after a delete, whatever writers raced or died between the
\* upsert and the INSERT.
ConfigIsLastVersion ==
    \A k \in Keys :
        config[k] = IF Versions(history, k) = {} \/ Last(k).op = "delete"
                      THEN NoPayload
                      ELSE Last(k).payload

\* The unique index on (config_key, version) is a net nobody falls into: the
\* version a transaction is about to insert is free, so no write fails because
\* of another writer.
VersionIsFree ==
    \A w \in Writers : pc[w] = "append" =>
        version[w] \notin Versions(history, req[w].key)

\* What callers were told stays true: each Result names the row its call wrote,
\* no two Results share a revision, and on one key the order of the revisions
\* is the order of the versions.
ResultsAreTrue ==
    /\ \A a \in acked : \E r \in history :
           /\ r.key = a.key /\ r.version = a.version
           /\ r.op = a.op /\ r.payload = a.payload
    /\ \A a, b \in acked :
           /\ a.revision = b.revision => a = b
           /\ a.key = b.key /\ a.revision < b.revision => a.version < b.version

\* History is append-only and moves with the watermark: a step adds one row and
\* raises the revision by one, or changes neither the history nor the rows.
HistoryMovesWithRevision ==
    [][ \/ UNCHANGED tables
        \/ revision = NoRow /\ revision' = 0 /\ UNCHANGED <<config, history>>
        \/ /\ history \subseteq history'
           /\ Cardinality(history') = Cardinality(history) + 1
           /\ revision' = revision + 1 ]_vars

\* A call that answers ErrNotFound decided on the tables as they are, not on a
\* stale read view: at that moment the key to delete has no row and the version
\* to roll back to does not exist.
NotFoundIsCurrent ==
    [][ \A w \in Writers :
          outcome'[w] = "not found" /\ outcome[w] # "not found" =>
              \/ req[w].op = "delete" /\ config[req[w].key] = NoPayload
              \/ /\ req[w].op = "rollback"
                 /\ req[w].version \notin Versions(history, req[w].key) ]_vars

\* No error path keeps the row lock (withTx's deferred Rollback): whoever takes
\* it gives it back, again and again.
LockIsReleased == []<>(holder = NoWriter)

\* The transactions implement the log ConfigLog promises.
LogOf ==
    [k \in Keys |->
       [v \in 1 .. Cardinality({r \in history : r.key = k}) |->
          LET row == CHOOSE r \in history : r.key = k /\ r.version = v
          IN  [op |-> row.op, payload |-> row.payload]]]

Log == INSTANCE ConfigLog
         WITH Payloads <- Valid,
              revision <- IF revision = NoRow THEN 0 ELSE revision,
              log <- LogOf

\* Seven statements under one row lock look like one atomic change: every
\* behaviour of the transactions is a behaviour of ConfigLog.
ImplementsLog == Log!LogSpec
=============================================================================
