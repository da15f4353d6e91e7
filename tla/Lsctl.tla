------------------------------- MODULE Lsctl -------------------------------
(***************************************************************************)
(* The commands of lsctl over its two backends, down to the statements of  *)
(* Store.  With --dsn a command calls the store itself; with --server its  *)
(* calls are requests to the handlers of a server, whose base context ends *)
(* at a shutdown, and lsctl may give up waiting while a handler goes on.   *)
(* A shell runs one command at a time; shells are Store's writers.         *)
(***************************************************************************)
EXTENDS Store

CONSTANTS
    Served,        \* the shells that use --server; the others use --dsn
    Flags,         \* the versions a user can type
    Typed,         \* the commands each shell's user types
    DefaultLimit   \* defaultHistoryLimit of the handlers

VARIABLES
    cmd,      \* each shell's command, kept while a handler still works for it
    nth,      \* which of the command's backend calls
    place,    \* the call: "none", "sent" to a handler, in the "store", "done"
    ret,      \* what the store call returned
    code,     \* the exit code of the last command, or Running until it exits
    from,     \* the newest version of the key when the command began
    stopping  \* the base context of the server is done

control == <<cmd, nth, place, ret, code, from, stopping>>
lvars   == <<vars, control>>

Running == -1
NoRet   == [err |-> "nil", version |-> 0, revision |-> 0, versions |-> {}]
Writing == {"set", "rm", "rollback"}

Named(names, keys, payloads, left, right) ==
    [name : names, key : keys, payload : payloads, v1 : left, v2 : right]

\* Version 0 is a flag left out, and a mistake for rollback.
SetCmd      == Named({"set"}, Keys, Payloads, {0}, {0})
PreviewCmd  == Named({"set --dry-run"}, Keys, {NoPayload}, {0}, {0})
RmCmd       == Named({"rm"}, Keys, {NoPayload}, {0}, {0})
RollbackCmd == Named({"rollback"}, Keys, {NoPayload}, Flags, {0})
GetCmd      == Named({"get"}, Keys, {NoPayload}, Flags, {0})
HistoryCmd  == Named({"history"}, Keys, {NoPayload}, {0}, {0})
DiffCmd     == Named({"diff"}, Keys, {NoPayload}, Flags \ {0}, Flags)
ListCmd     == Named({"list"}, {NoPayload}, {NoPayload}, {0}, {0})
MigrateCmd  == Named({"migrate"}, {NoPayload}, {NoPayload}, {0}, {0})

Command ==
    SetCmd \cup PreviewCmd \cup RmCmd \cup RollbackCmd
    \cup GetCmd \cup HistoryCmd \cup DiffCmd \cup ListCmd \cup MigrateCmd

NoCommand == [name |-> "none"]

ASSUME LsctlAssumption ==
    /\ Served \subseteq Writers
    /\ Flags \subseteq 0 .. MaxRevision
    /\ Typed \in [Writers -> SUBSET Command]
    /\ DefaultLimit \in Nat \ {0}

-----------------------------------------------------------------------------
\* What one backend call asks of the store.

Version(w) == IF nth[w] = 1 THEN cmd[w].v1 ELSE cmd[w].v2

\* findVersion reads the history; without a version get and diff call Get.
Searches(w) == cmd[w].name \in {"get", "diff"} /\ Version(w) > 0

SetRequest(c) == [op |-> "set", key |-> c.key, payload |-> c.payload, version |-> 0]
RmRequest(c)  == [op |-> "delete", key |-> c.key, payload |-> NoPayload, version |-> 0]
RollbackRequest(c) ==
    [op |-> "rollback", key |-> c.key, payload |-> NoPayload, version |-> c.v1]

StoreRequest(c) ==
    CASE c.name = "set"      -> SetRequest(c)
      [] c.name = "rm"       -> RmRequest(c)
      [] c.name = "rollback" -> RollbackRequest(c)

\* Fault: findVersion's -1 becomes "no limit parameter".
LimitOmitted(w, n) == IF w \notin Served \/ n > 0 THEN n ELSE DefaultLimit

\* The limit that reaches DB.History: over HTTP a negative one is sent as 0, and 0
\* is not sent, so that the handler's default takes its place.
Limit(w, n) ==
    CASE w \notin Served \/ n > 0 -> n
      [] w \in Served /\ n < 0    -> 0
      [] OTHER                    -> DefaultLimit

\* DB.History: the newest versions of a key, all of them without a limit.
Newest(k, limit) ==
    {v \in Versions(history, k) : limit <= 0 \/ v > MaxVersion(history, k) - limit}

\* What a read finds when it does not fail; both backends turn an empty history
\* into not-found.
Found(w) ==
    LET k     == cmd[w].key
        found == IF Searches(w) \/ cmd[w].name = "history"
                   THEN Newest(k, Limit(w, -1)) ELSE {}
        none  == CASE Searches(w) \/ cmd[w].name = "history" -> found = {}
                   [] cmd[w].name = "list"                   -> FALSE
                   [] OTHER                                  -> config[k] = NoPayload
    IN  [NoRet EXCEPT !.versions = found, !.err = IF none THEN "not found" ELSE "nil"]

\* The request's context is done: the server stops or the client went away.
Cancelled(w) == w \in Served /\ (stopping \/ code[w] # Running)

\* How a store call that failed reports it: a handler can see context.Canceled.
Failures(w) == {"error"} \cup (IF Cancelled(w) THEN {"canceled"} ELSE {})

-----------------------------------------------------------------------------
\* lsctl: a command from its start to its exit code.

LInit ==
    /\ Init
    /\ cmd = [w \in Writers |-> NoCommand]
    /\ nth = [w \in Writers |-> 1]
    /\ place = [w \in Writers |-> "none"]
    /\ ret = [w \in Writers |-> NoRet]
    /\ code = [w \in Writers |-> 0]
    /\ from = [w \in Writers |-> 0]
    /\ stopping = FALSE

\* Refused without a call: --to must be positive, and HTTP cannot migrate.
Refused(w, c) ==
    \/ c.name = "rollback" /\ c.v1 = 0
    \/ c.name = "migrate" /\ w \in Served

\* A backend call begins: a request is sent, or lsctl itself enters the store,
\* where a write begins its transaction.
Enter(w, c) ==
    /\ place' = [place EXCEPT ![w] = "store"]
    /\ IF c.name \in Writing THEN Begin(w, StoreRequest(c)) ELSE UNCHANGED vars

Call(w, c) ==
    IF w \in Served
      THEN place' = [place EXCEPT ![w] = "sent"] /\ UNCHANGED vars
      ELSE Enter(w, c)

\* Execute: parsing, bind and the checks before the first call.
Start(w, c) ==
    /\ code[w] # Running /\ place[w] = "none"
    /\ IF Refused(w, c)
         THEN code' = [code EXCEPT ![w] = 1] /\ UNCHANGED <<vars, cmd, place, from>>
         ELSE /\ code' = [code EXCEPT ![w] = Running]
              /\ cmd' = [cmd EXCEPT ![w] = c]
              /\ from' = [from EXCEPT ![w] =
                             IF c.key \in Keys THEN MaxVersion(history, c.key) ELSE 0]
              /\ Call(w, c)
    /\ UNCHANGED <<nth, ret, stopping>>

\* fail: nothing is written for context.Canceled, which net/http sends as 200.
Status(err) ==
    CASE err = "not found"           -> 404
      [] err = "invalid"             -> 400
      [] err = "error"               -> 500
      [] err \in {"nil", "canceled"} -> 200

\* Fault: the body of a 2xx reply is not decoded.
DoUnread(err) ==
    CASE Status(err) = 404 -> "not found"
      [] Status(err) = 200 -> "nil"
      [] OTHER             -> "error"

\* httpBackend.do; a reply without a body does not decode.
Do(err) ==
    CASE Status(err) = 404                -> "not found"
      [] Status(err) = 200 /\ err = "nil" -> "nil"
      [] OTHER                            -> "error"

MapErr(err) == IF err \in {"nil", "not found"} THEN err ELSE "error"

Answer(w) == IF w \in Served THEN Do(ret[w].err) ELSE MapErr(ret[w].err)

\* findVersion: a version the history lacks is not-found too.
FindVersion(w, err) ==
    IF err = "nil" /\ Version(w) \notin ret[w].versions THEN "not found" ELSE err

\* Execute
Exit(err) ==
    CASE err = "nil"       -> 0
      [] err = "not found" -> 4
      [] OTHER             -> 1

PreviewSet(err) == IF err = "not found" THEN 0 ELSE Exit(err)

GetResult(w, err) == Exit(IF Searches(w) THEN FindVersion(w, err) ELSE err)

DiffResult(w, err) ==
    LET found == IF Searches(w) THEN FindVersion(w, err) ELSE err
    IN  IF nth[w] = 1 /\ found = "nil" THEN Running ELSE Exit(found)

\* What a command makes of the answer to a call: its exit code, or Running when it
\* makes another call.
ExitCode(w, err) ==
    CASE cmd[w].name = "set --dry-run" -> PreviewSet(err)
      [] cmd[w].name = "get"           -> GetResult(w, err)
      [] cmd[w].name = "diff"          -> DiffResult(w, err)
      [] OTHER                         -> Exit(err)

\* Nothing is left of the call, and its outcome has been taken.
Clear(w) ==
    /\ cmd' = [cmd EXCEPT ![w] = NoCommand]
    /\ nth' = [nth EXCEPT ![w] = 1]
    /\ place' = [place EXCEPT ![w] = "none"]
    /\ from' = [from EXCEPT ![w] = 0]
    /\ outcome' = [outcome EXCEPT ![w] = "none"]
    /\ UNCHANGED <<tables, holder, pc, locals, acked>>

\* The store's answer arrives: the command exits or makes its second call.
Return(w) ==
    LET exit == ExitCode(w, Answer(w))
    IN  /\ code[w] = Running /\ place[w] = "done"
        /\ code' = [code EXCEPT ![w] = exit]
        /\ ret' = [ret EXCEPT ![w] = NoRet]
        /\ IF exit # Running THEN Clear(w)
           ELSE /\ nth' = [nth EXCEPT ![w] = 2]
                /\ Call(w, cmd[w])
                /\ UNCHANGED <<cmd, from>>
        /\ UNCHANGED stopping

\* Fault: the deadline covers the reply, not the request.
GiveUpReading(w) ==
    /\ w \in Served /\ code[w] = Running
    /\ place[w] = "done"
    /\ code' = [code EXCEPT ![w] = 1]
    /\ Clear(w) /\ ret' = [ret EXCEPT ![w] = NoRet]
    /\ UNCHANGED stopping

\* The deadline or a signal ends the wait, or the connection breaks, before the
\* request arrives, while its handler is in the store, which goes on, or before
\* the reply arrives.  With --dsn the store call itself fails then.
GiveUp(w) ==
    /\ w \in Served /\ code[w] = Running
    /\ code' = [code EXCEPT ![w] = 1]
    /\ IF place[w] = "store" THEN UNCHANGED <<vars, cmd, nth, place, ret, from>>
       ELSE Clear(w) /\ ret' = [ret EXCEPT ![w] = NoRet]
    /\ UNCHANGED stopping

-----------------------------------------------------------------------------
\* The store call, in lsctl's process or in a handler.

Handle(w) ==
    /\ place[w] = "sent"
    /\ Enter(w, cmd[w])
    /\ UNCHANGED <<cmd, nth, ret, code, from, stopping>>

\* readBody's 413 and the handlers' 400s come before the store.
Refuse(w) ==
    /\ place[w] = "sent"
    /\ cmd[w].payload \in Payloads \ Valid
    /\ place' = [place EXCEPT ![w] = "done"]
    /\ ret' = [ret EXCEPT ![w].err = "invalid"]
    /\ UNCHANGED <<vars, cmd, nth, code, from, stopping>>

\* A statement of a write's transaction; the last one returns from the store.
Transact(w) ==
    /\ place[w] = "store" /\ cmd[w].name \in Writing
    /\ Statement(w)
    /\ IF pc'[w] # "idle" THEN UNCHANGED <<place, ret>>
       ELSE /\ place' = [place EXCEPT ![w] = "done"]
            /\ \E err \in CASE outcome'[w] = "ok"    -> {"nil"}
                            [] outcome'[w] = "error" -> Failures(w)
                            [] OTHER                 -> {outcome'[w]} :
                 ret' = [ret EXCEPT ![w] =
                           [NoRet EXCEPT !.err = err, !.version = version[w], !.revision = rev[w]]]
    /\ UNCHANGED <<cmd, nth, code, from, stopping>>

\* Every read is one query, which may fail.
ReadStore(w) ==
    /\ place[w] = "store" /\ cmd[w].name \notin Writing \cup {"migrate"}
    /\ place' = [place EXCEPT ![w] = "done"]
    /\ \/ ret' = [ret EXCEPT ![w] = Found(w)]
       \/ \E err \in Failures(w) : ret' = [ret EXCEPT ![w].err = err]
    /\ UNCHANGED <<vars, cmd, nth, code, from, stopping>>

\* lsctl migrate: idempotent, and may fail.
MigrateStore(w) ==
    /\ place[w] = "store" /\ cmd[w].name = "migrate"
    /\ place' = [place EXCEPT ![w] = "done"]
    /\ \/ ret' = ret /\ Migrate
       \/ ret' = [ret EXCEPT ![w].err = "error"] /\ UNCHANGED vars
    /\ UNCHANGED <<cmd, nth, code, from, stopping>>

StoreCall(w) == Transact(w) \/ ReadStore(w) \/ MigrateStore(w)

\* The handler of a client that is gone is done.
Drop(w) ==
    /\ code[w] # Running /\ place[w] = "done"
    /\ ret' = [ret EXCEPT ![w] = NoRet]
    /\ Clear(w)
    /\ UNCHANGED <<code, stopping>>

\* Run's context ends, and with it the context of every request in flight.
Stop ==
    /\ ~stopping
    /\ stopping' = TRUE
    /\ UNCHANGED <<vars, cmd, nth, place, ret, code, from>>

\* Another instance serves once the requests of this one are over.
Restart ==
    /\ stopping
    /\ \A w \in Served : place[w] = "none"
    /\ stopping' = FALSE
    /\ UNCHANGED <<vars, cmd, nth, place, ret, code, from>>

ServerMigrates == Migrate /\ UNCHANGED control

LNext ==
    \/ ServerMigrates \/ Stop \/ Restart
    \/ \E w \in Writers :
          \/ \E c \in Typed[w] : Start(w, c)
          \/ Return(w) \/ GiveUp(w)
          \/ Handle(w) \/ Refuse(w) \/ StoreCall(w) \/ Drop(w)

LSpec == LInit /\ [][LNext]_lvars

\* lsctl's process runs, its deadline ends any wait for a server, and a store call
\* ends, with its result or an error.  Of the server nothing else is assumed.
LFairness ==
    \A w \in Writers :
        /\ WF_lvars(Return(w) \/ GiveUp(w))
        /\ WF_lvars(StoreCall(w))

LFairSpec == LSpec /\ LFairness

-----------------------------------------------------------------------------
\* Properties.

Exits(w, c) == code[w] = Running /\ code'[w] = c

RowOf(k, v) == {r \in history : r.key = k /\ r.version = v}

\* "lsctl get k || create-it fires on a genuine absence and not on an unreachable
\* server" (root.go, on the exit codes): when a command exits 4, what it asked for
\* was missing at some moment since it began, whatever failed, whoever wrote
\* meanwhile and however long the history is.  A version that existed at the
\* start, beyond the default limit of the handlers or not, is never missing.
NotFoundIsGenuine ==
    [][ \A w \in Writers : Exits(w, 4) =>
          LET k == cmd[w].key
              absentAt(n) == n = 0 \/ \E r \in RowOf(k, n) : r.op = "delete"
          IN  CASE cmd[w].name = "history" -> from[w] = 0
                [] cmd[w].name = "rollback" -> cmd[w].v1 > from[w]
                [] cmd[w].name \in {"get", "diff", "rm"} ->
                     IF Version(w) > 0 THEN Version(w) > from[w]
                     ELSE \E n \in from[w] .. MaxVersion(history, k) : absentAt(n)
                [] OTHER -> FALSE ]_lvars

\* A write that exits 0 is in the database as lsctl reports it, under the version
\* it prints, over both backends and through a server that is shutting down: no
\* reply that is not the result of the store counts as one (http.go, do).  What a
\* rollback wrote is the version asked for, and the undo command rm prints,
\* rollback --to the version it reports, brings back what the rm took away.
ExitZeroIsDone ==
    [][ \A w \in Writers : Exits(w, 0) /\ cmd[w].name \in Writing =>
          LET k == cmd[w].key
          IN  \E r \in RowOf(k, ret[w].version) :
                 /\ r.op = StoreRequest(cmd[w]).op
                 /\ r.payload \in
                      CASE r.op = "set"      -> {cmd[w].payload}
                        [] r.op = "rollback" -> {q.payload : q \in RowOf(k, cmd[w].v1)}
                        [] r.op = "delete"   ->
                             {q.payload : q \in {q \in RowOf(k, r.version - 1) :
                                                   q.op # "delete"}} ]_lvars

\* Every command ends, whatever becomes of the server and its handlers: one
\* deadline, the context of bind, covers both backends.
CommandsEnd == \A w \in Writers : (code[w] = Running) ~> (code[w] # Running)

\* "Client cancellation needs neither a server error nor a reply" (handler.go,
\* fail): only a request whose client is gone is left without a reply.
OnlyTheGoneGetNoReply ==
    \A w \in Served : ret[w].err = "canceled" => code[w] # Running
=============================================================================
