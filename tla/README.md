# Verification of lite_settings

TLA+ models of lite_settings, a configuration store with long-polling clients,
with TLC configurations and TLAPS proofs. Paths below are relative to `src/`.

    tlc -workers 2 -config StoreMySQL.cfg MCStore.tla     # model-check a run
    tlapm StoreProofs.tla                                 # check the proofs of a module

`PROJECT.json` lists the runs, the mutants that show each property can fail, the
source lines behind every definition, the hazards and the theorems.

## 1. The system

| Component | State | Operations |
|---|---|---|
| **Store** (`store/`) | tables `lite_config_meta` (one watermark), `lite_config` (current rows), `lite_config_history` (append-only) | `Migrate`, `Set`, `Delete`, `Rollback` (one transaction template, `write`), `Revision`, `Get`, `History`, `ListPrefixes` |
| **Revision watcher** (`server/revision_watcher.go`) | `rev`, `changed`, `ready`, `dbErr`, `closed`, `stop` | `run` (heartbeat), `set`, `Wait`, `Close` |
| **Server** (`server/server.go`) | a poller, a listener | `Start` and its stop, `Run` |
| **Handlers** (`server/handler.go`) | none of their own | `handleWatch`, `handleList`, `observedRevision`, `snapshot`, one handler per store call |
| **Client** (`client/client.go`, `view.go`, `fallback.go`) | the snapshot (an atomic pointer), watchers, `applyMu`, `mu`, `seeded`, statistics, the fallback file | `New`, `run`, `fetchOnce`, `apply`, `notify`, `Watch`, `Close`, `Group`, reads |
| **Sources** (`client/httpsource`, `client/dbsource`) | a connection | `Poll`, `Close` |
| **lsctl** (`cmd/lsctl`) | the terminal interface's `Model` | nine commands over two backends, database and HTTP; the interface's event loop; the line diff shown before a write |
| **lite-settings** (`cmd/lite-settings`) | none of its own | `run`: dial, migrate, signals, `Server.Run` |

How they interact. Every write goes through the store's transaction, whose first
statement raises the watermark and so takes the one row lock. Every server
instance polls the watermark and broadcasts its moves to its long polls by closing
a channel. A long poll that wakes reads the watermark, then the rows, and answers
with a full snapshot labelled by the lower of two watermarks. A client replaces
its snapshot by whatever arrives, computes the difference itself, writes the
fallback file and calls back. A direct client does the same against the
database. There is no incremental query: correctness rests on the label of a
snapshot never being higher than the watermark of its data, and on every
comparison with it being `!=`.

What is hard here, and what makes each component correct:

* **Store.** Concurrent writers on several instances, two isolation levels (the
  driver's default: REPEATABLE READ on MySQL, READ COMMITTED on PostgreSQL),
  failures between two statements, connections that die, a COMMIT whose
  answer is lost. Correct when revisions and versions have no gap and no
  duplicate, the two tables agree, history is append-only and what callers were
  told is true.
* **Watcher.** Wake-ups that may be lost, watermarks that go backwards,
  shutdown while requests are blocked. Correct when nobody sleeps through a move
  and stop ends and is final.
* **Client.** The refresh goroutine against `Watch` and `Close`, panicking
  callbacks, deadlines that count as successes, disk failures, cold starts.
  Correct when callbacks are serial and current, the file mirrors memory, and
  `Close` ends.
* **The whole path.** Lagging heartbeats of several instances, lost polls,
  restores that take the watermark back and reuse its numbers.
  Correct when labels are low, content never goes back without a restore, and
  every client converges.
* **Process.** A signal during the dial or the migration, a listener that cannot
  be opened or fails later, requests blocked in a long poll at a shutdown, a
  programmer who embeds the server and calls stop twice. Correct when every way
  out stops the poller before the database is closed, and ends.
* **Commands.** Requests and replies that are lost, deadlines that end while a
  handler goes on, shutdowns that roll a write back, defaults that the two
  backends do not share. Correct when the exit code tells the truth: 0 is done,
  4 is a genuine absence, and every command ends.
* **Prefixes and snapshots.** LIKE's wildcards in legal keys, prefixes that nest,
  repeat or are empty, a binary search over the sorted keys, a fallback file
  written under other prefixes. Correct when a client holds exactly the rows it
  asked for, a group reads exactly its prefix and every change is reported once.
* **Terminal interface.** Answers in any order over a selection that moves,
  lists that change under the cursor, an external editor that exits late.
  Correct when what is shown is the selected key's and what is written was shown.
* **Line diff.** Line numbers of empty ranges and of ranges at the ends of a text,
  common ends that overlap. Correct when the hunks turn the old text into the
  new one.

## 2. The modules

    ConfigLog <--refines-- Store <-- MCStore, StoreProofs
                           Store <-- Lsctl <-- MCLsctl
                           StoreProofs, Lsctl <-- LsctlProofs
    Broadcast <--refines-- RevisionWatcher <-- Server <-- MCServer, ServerProofs
    Client <-- MCClient, ClientProofs
    View <-- MCView, ViewProofs
    Broadcast <--refines-- ConfigSync <-- MCConfigSync, ConfigSyncProofs
    Tui <-- MCTui, TuiProofs
    Diff <-- MCDiff, DiffProofs

An arrow is EXTENDS, except the refinements, which are Store's `Log`, RevisionWatcher's
`Outside` and ConfigSync's `At(i)`, each an `INSTANCE ... WITH` of the abstract module.

ConfigSync composes the others' abstractions: its `Write` is one step because
Store implements ConfigLog; each of its instances behaves as Broadcast allows, which
RevisionWatcher implements; its `Install` is Client's `apply`.
Client takes one selection of keys for granted and interleaves the steps of
`apply`; View takes `apply` as one step and looks into the selection.

**ConfigLog** is what the store promises: one step per successful call that
raises the revision by one, appends one entry and leaves the row it prescribes.

**Store** follows one transaction per writer through the statements of `write`:
`BumpUpdate` (the UPDATE that locks; on PostgreSQL also the RETURNING),
`BumpSelect` (MySQL's SELECT, the first plain read, which fixes the read view),
`GetConfig`, `Resolve` (the three closures, then `ValidateValue`), `WriteRow`
(upsert or delete, and MAX(version)), `AppendHistory`, `Commit`. `Abort` is
any failure, cancellation or lost connection; `CommitLost` a COMMIT that took
effect without an answer. A transaction's own row changes are its locals
`payload`, `version` and `rev` until `Commit` publishes all three tables
(`Published`). `Migrate`, which runs at every start, is enabled at any time: its
insert leaves a row that is there as it is. Under READ COMMITTED `Visible` is the committed tables; under
REPEATABLE READ it is the view made at the first plain read.

**RevisionWatcher** numbers the channels of `changed`: closing one and making
another is `chan + 1`, and a waiter is released when its number is lower. Each
action is one critical section of `mu`, one select or one database answer. The
query's answer and the `set` that follows are two steps (`PollAnswer`,
`PollSet`).

**Broadcast** is what an instance promises its long polls, without lock, channel or
goroutine: a request whose baseline is the watermark blocks, the step that moves the
watermark wakes all who are blocked, and a request may leave at any time. Under
RevisionWatcher's mapping (`CallOf`) a waiter whose channel is closed is *woken*,
whether it runs already or not; under ConfigSync's (`CallsAt`) a client is at the
instance that serves it, with its label as baseline.

**Server** puts the process around RevisionWatcher. `proc` is `"embedded"` when
another program called `Start` and owns the contexts, else it follows `run` and
`Server.Run` through connect, migrate, listen, serve, stopping and shutdown to
returned, or to aborted. `Signal` ends the one context all others descend from;
`ListenFails` and `ServeFails` lead to the same `StopWatcher` as a signal;
`Shutdown` returns when no request is left, `ShutdownTimesOut` without that.
Actions of RevisionWatcher happen only for goroutines that `Start` has started.

**Lsctl** takes Store's writers for shells. Those in `Served` use `--server`:
their call is *sent*, a handler takes it to the *store* (`Handle`) or turns it
down (`Refuse`), the answer travels back (`Return`) and is read by `Do`. The
others use `--dsn` and enter the store themselves. `StoreRequest` maps a command
to Store's request, and `Transact` is Store's `Statement`, so a
command races with another down to the statements of the transaction. `GiveUp` is
the deadline, Ctrl-C or a broken connection at any point of a request; a handler
whose client left goes on, cancelled or not, until `Drop`. `Stop` ends the base
context of the server, after which a store call may fail with
`context.Canceled`, which `fail` does not answer. `from`, the newest
version when the command began, is there for the properties.

**Client** is one process that can crash and start again, with the refresh
goroutine's program counter `rpc`, one per `Watch` caller and one per `Close`
caller, `applyMu`, the atomic snapshot, and the fallback file outside the
process. A view is the set of its (key, value) pairs, so formats are part of
values. `notify` is a step per watcher, each with a call and a return, and a return
may be a panic that `safely` swallows. Time is left out: a deadline, a sleep or
a timeout may happen whenever its select is reached.

**View** has the rows of the table, the process's prefixes, its snapshot and the
fallback file, and one action per call: a write, `New` with its three outcomes
(`NewFetched`, `NewFromFile`, `NewDegraded`), a poll that finds news, the end of the
process. Keys and prefixes are byte sequences, since `likePrefix`, LIKE and the
sorted key list look into them; `Like` and `Search` are what the database and
`slices.BinarySearchFunc` do with them, as tables over positions, and `Sorted` is
what `slices.Sort` returns, each key at the place of its rank. Two variables are not in the code:
`origin`, the prefixes the snapshot was fetched under, and `mirror`, the copies an
application keeps, one for each of its prefixes, in which it reads again just the
keys `onChange` names under that prefix; a key missing from one of two nested
reports leaves that copy behind. The model
shows what a restart with other prefixes means: until a fetch the client has the
file's selection (so `ViewIsSelection` speaks of `origin`), and if the revision
has not moved, that fetch waits for the next write; keys outside the new prefixes
then vanish without a report (so `MirrorFollows` speaks of the keys asked for).

**ConfigSync** knows a content by the commit that made it: `states[i]` is the
revision of the i-th content. A restore makes an earlier content current again;
later commits reuse its revision numbers for other contents. `RestoreKind` says
what the restore meets: *quiet* (every client is up to date) or *offline*
(requests that are reading fail).

**Tui** keeps the Elm shape of the code: each handler is an operator from model
to model that also collects the commands it returns, and an action runs one
handler. Commands are calls that read or write the database at some later time
and leave a message to be delivered in any order. `m.rows` has headers as
`buildRows` makes them, in a loop over the keys that opens a header when the group
changes (`RowsUpTo`). A filter is the set of keys that contain its text. While
the editor runs, `tea.ExecProcess` holds the event loop (`Runs`). `StartEdit` has
three outcomes: nothing to start, a temporary file that cannot be written, or the
editor's command. A value is a text and a format, which the code treats apart:
`showDiff` and `afterEdit` compare texts, `askRollback` refuses only if both are
equal, and an overlay shows texts, and the two formats only if the texts are
equal. An edit carries the format the detail had when the editor started. So when
another user changes it meanwhile, y puts the old format back and the preview
does not say so (`model.go:457`); the model has that behaviour, and
`WritesArePreviewed` speaks of a format only where the overlay has named it.

**Diff** takes two texts as sequences of lines. `DiffLines` is one step, the table
and the walk recursive functions over positions; the loop of `hunks` is a state
machine with the code's counters, a step per skipped op or per hunk. The
properties compare with definitions of their own: the longest of the common
subsequences that increasing positions pick out of both texts, and a reader who
applies one hunk after another (`Reader`, `Patched`).

## 3. The runs

| Run | Instance | Question |
|---|---|---|
| `store_mysql` | 2 writers, 2 keys, 4 revisions, REPEATABLE READ | do the tables agree, is every decision taken on current rows, is every result true, is the whole the atomic log? |
| `lsctl` | a shell over HTTP that runs every command, one on the database, 1 key, 2 revisions, a default limit of 1, READ COMMITTED, fair | is exit 0 a write that was done, exit 4 a genuine absence, does every command end, is the row lock always released? |
| `server` | 1 long poll, 2 callers of stop of which one is Run's goroutine, revisions 0..2, 3 moves, fair | do lock, channels and select amount to an atomic broadcast, is everybody released, does every way out of the process stop the poller and end? |
| `client` | 2 watchers, 1 caller of Close who may call again, 2 keys, 2 changes, 3 failures, 1 crash, 1 disk outage, fair | do callbacks, memory and file agree in every interleaving, does Close end, does the refresh go on? |
| `view` | 4 keys, 6 lists of prefixes, 6 groups, 2 values, 2 writes, a server that takes 2 prefixes | does a client hold what it asked for, does a group read its prefix, is every change reported once? |
| `sync` | 2 instances, an HTTP and a direct client, 3 contents, 1 crash, 1 offline restore with writes after it | are labels low, does content ever go back without a restore? |
| `sync_converges` | the same clients, 2 contents, a quiet restore, fair | does every client converge, and is "no change" never said to a client that misses one? |
| `tui` | 2 keys, 2 texts in 2 formats, 4 keystrokes, reordered answers, one trouble (a failing call or another user's write or delete) | is what is shown the selection's, is what is written what was shown? |
| `diff` | texts of up to 7 lines over 2 lines, context 0..2, tables of up to 20 cells | is the script the shortest, do the hunks turn the old text into the new? |

Runs that find a disagreement between the code and what it says of itself:

| Run | Property | What happens |
|---|---|---|
| `client_disk_failure` | `FailedWritesAreRetried` | `seeded` stays set once it was, so a later failed write of the file is not repeated until the content changes again (`client/client.go:411`) |
| `lsctl_shutdown` | `OnlyTheGoneGetNoReply` | a shutdown cancels the contexts of requests whose clients still wait; `fail` takes them for gone, and net/http sends 200 with an empty body for a write that was rolled back (`server/handler.go:367`) |
| `tui_quit` | `ReplayIsComplete` | quitting before the answer of a confirmed write is processed drops it from the replay (`cmd/lsctl/internal/ui/model.go:257`) |

### Bounds, and why they are enough

* *Store.* Two writers suffice for every race on the one row lock, since a third
  waits as the second does; four revisions let a key be written, deleted and
  rolled back while the other is written too. Two values tell a rollback from a
  repeated write, and a third is one `ValidateValue` refuses. Writers, keys and
  valid values are symmetric. The theorems cover any number.
* *Lsctl.* The two shells meet in the row lock, which is all that shells share. One
  key is enough for that and for every exit code; two revisions make a version
  older than the default limit of 1, so that a lost limit shows, and an
  `rm` that can be rolled back. The database shell's commands are those that
  change what the other reads, and one of each kind of read.
* *Server.* Long polls do not interact with one another, two callers of
  stop meet in `sync.OnceFunc`, and a process that calls `Run` has one. The bound
  on database moves lets the watermark rise, fall and return. The theorems cover any number.
* *Client.* Two watchers give `notify` an order and overlapping prefixes; two
  keys give a difference that concerns one and not the other. The backoff runs
  from 2 to 5, so that doubling meets the cap between powers. One caller of Close
  who calls again is two calls in turn; `closed` is the only thing they share.
* *View.* The keys are a prefix of others, neighbours of a run on either side, and
  one that an unescaped underscore would match; the lists of prefixes are none,
  one that includes the empty prefix, nested ones, a repeated one, ones of LIKE's
  other special characters, and one too long for the server. Two writes change
  a key twice, or one before and one after a restart. Every table at the start
  is tried.
* *Diff.* Seven lines leave two hunks a skipped line between them under two lines
  of context; two different lines make every pattern of equal and unequal ones
  between repeated lines, and 20 cells put some of the pairs beyond the limit.
* *ConfigSync.* Two instances give a client two watermarks to be caught between;
  the contents allow a write, a restore and a reuse of its revision. The run
  about convergence needs no crash: an instance that has not polled yet is what a
  crashed one is to a client, and two contents suffice for a restore.
* *Tui.* Edit-and-confirm takes two keys, rollback four (focus, down, ask,
  confirm), and two leave two to interfere with an edit; `MaxCalls` lets a key be
  pressed while a call is outstanding, which is when answers can cross.
  Two texts and two formats let either change without the other. `MaxTroubles` is shared by everything that goes wrong around the session, so
  that each kind of trouble meets every state, but one at a time.

`CHECK_DEADLOCK FALSE` stands where the program really stops: a client that was
closed or whose `New` failed (both `client` runs), a session of the terminal
interface that ended (both `tui` runs), a server process that has returned
(`server`) and a diff that is done (`diff`). Elsewhere TLC checks that no
reachable state is stuck. As `Migrate` may be repeated for ever, that says little of
`store_mysql` and `lsctl`; there it is the liveness of `lsctl`, `CommandsEnd`
and `LockIsReleased` over the same statements, that shows no writer is stuck
(under READ COMMITTED, so without `BumpSelect`, which only its own turn guards).

### Fairness

Liveness runs assume no more than the scheduler and the database give:

* weak fairness for steps of a goroutine that nothing else can disable (Go's
  scheduler runs runnable goroutines; mutexes and selects are not starved);
* strong fairness in ConfigSync for the stages of a poll, because a poll may be
  lost at any of them but the client polls again: of repeated polls some get
  through;
* heartbeats are answered again and again, since each query has its own
  deadline (`revision_watcher.go:111`) and the ticker goes on;
* lsctl's process runs, and its one deadline ends any wait for a server
  (`bind`'s context); a store call ends with a result or an error. Of the server
  nothing else is assumed: it may sit on a request for ever;
* in Server neither the long poll's nor `Shutdown`'s timeout is assumed, so
  that `RunReturns` shows a shutdown that needs none of them; Ping and Migrate have
  deadlines of their own;
* no fairness for writes, restores, crashes, failures, losses, timeouts, calls of
  `Watch`, `Close` or stop, and keystrokes.

A callback of the application is assumed to return or to panic, as `Watch`'s
documentation asks ("do not block").

## 4. The proofs

TLAPS checks eight proof modules, for every value of the constants that satisfies
the named assumptions.

**StoreProofs.** `StoreInv == TypeOK /\ AllTxInv /\ RowsInv`. The argument is the
comment in `store.go:267-270`: the first statement takes the row lock, so only its
holder is past it (`AllTxInv`: a writer at a later statement is the holder);
nobody else can commit meanwhile, so a read view made after the lock equals the
committed tables (`VisibleIsCommitted`) under either isolation level; hence
`rev` is the committed revision plus one and `version` the number of the key's
rows plus one, and `Commit` appends exactly one row. `RowsInv` adds that no two
rows of a key share a version and that history is finite, which
`Cardinality` needs. From it follow `StoreTypes`, `RevisionsHaveNoGap`,
`VersionsHaveNoGap`, `NoVersionConflict`, `StepsAppendOneRow`, `NotFoundIsTrue`,
`TablesAgree` and, as history only grows, `ResultsStayTrue`. Assumptions:
`StoreAssumption` (the isolation level is one of the two, valid payloads are
payloads, the sentinels are not values).

`StoreImplementsLog`: under the mapping that reads ConfigLog's
variables off the committed tables, a `Commit` is one step of the log and
everything else a stutter. `LogInv` adds to `StoreInv` that a rollback past
`resolve` carries the payload of a row of its key's history (`RestoresRow`):
the log's rollback restores something that was there, and the row must still be
there when the transaction commits.

**ServerProofs.** `WatcherInv == TypeOK /\ NoMissedChange /\ StopInv`.
`NoMissedChange` is nearly inductive by itself: a blocked waiter either holds a
channel that is already closed, or the current one and then its baseline is the
current revision. `WaitEnter` establishes it because `rev` and `changed` are
read in one critical section, `set` preserves it because a different revision
also closes the channel. `StopInv` orders the stop: only one caller is
inside the once, whoever is past it finds it done, and stop returns only when
the poller is done. From it follow `WatcherTypes`, `NoLostWakeUp` and
`StopIsFinal`. Assumptions: `WatcherAssumption` (bounds are naturals).

`WatcherImplementsBroadcast`: `set` is `Move`, since whoever is blocked on the current
channel is woken by its being closed and whoever holds an older one had been
woken before; entering `Wait` is `Enter`; waking up by the channel is a stutter; the
other ways out of the select, and the return, are `Leave`. The run checks the
refinement on its instance; `NoMissedChange`, which the proof rests on, is the
reason it holds.

For the process around it, `ServerUsesWatcher` (`SSpec => Spec`: each step of the
server is a step of the watcher or leaves it alone) carries those theorems over
(`ServerWakeUps`, `ServerBroadcasts`, `ServerStopIsFinal`). `RunLeavesNobody` needs one more fact: the
process is past *stopping* only when its own call of stop has returned.
Assumptions: also that Run's goroutine is a caller of stop.

**LsctlProofs.** `LsctlInv == StoreInv /\ ConfigIsLastVersion /\ ControlTypes /\
ShellInv`. The first two are Store's: a statement of Lsctl is a statement of Store
for the request that the command stands for, and sending, answering and giving
up leave the tables alone, so that `TablesAgreeUnderLsctl` holds with shells, handlers
and shutdowns around the transactions. `ShellInv` says of every reply, on its way or
read, what was true when it was decided: a "not found" was decided on a history
in which the key (or the version asked for) was absent, at `from` or later;
a success of a write has its row. As history only grows, the second kind stays true
whatever is committed until the process exits, and the first is about a history that
is a part of the present one. From it `FourMeansAbsent` and `ZeroMeansDone`, for any
number of shells over either backend, keys and limits. Assumptions: `StoreAssumption`,
`LsctlAssumption`.

**ViewProofs** is about data: keys, prefixes and patterns of any length.
The order of keys is shown to be total, so the rank of a key is its place
(`Sorted` lists a finite set in strict order); the binary search returns the first
place where a predicate that changes once fails to hold, hence a group's two
searches delimit exactly its run; the escaped pattern matches a text exactly when
the text begins with the prefix (`LikeIsPrefix`), by following the table of LIKE
along the pattern. What such a recursive definition computes is shown in two
steps, for any definition by recursion on a rank: a table that satisfies the
equations exists, so the one that CHOOSE picks satisfies them. Induction is on
sets: the set of the numbers for which a claim holds has 0 and is closed under
successor (`SetInduction`), which is the well-foundedness of the order
on the naturals and needs no operator as a parameter. `ViewInv` then says that
every snapshot, the file's too, becomes a view whose key list is its configs' keys
in order. From it `GroupsAreExact`, `ReportsSuffice`, `ReportsArePrecise` and,
with `SelectionInv` (the view of the present revision has the rows under the
prefixes it was fetched under), `SelectionIsExact`. Assumptions:
`ViewAssumption` (finitely many keys, none with `%` or a backslash, as
`ValidateKey` has it).

**ClientProofs.** `ClientInv == Shapes /\ LockInv /\ StartInv /\ CloseInv`. `LockInv`
ties `applyMu` to who may be inside it: the goroutine between swapping a view in
and its last callback, or the `Watch` caller in its first one. `StartInv` says that
before `New` has returned there are no watchers. Each theorem adds what it is
about: `CallbacksNeverOverlap`, `CloseIsQuiet`, `NoChangeIsMissed` (a
watcher is current, or still pending with the changed keys recorded) and
`FileIsMemory` (no outage so far). `WaitIsTheFailures` is `TypeOK`, whose one clause
with content is about the backoff: after `n` failures in a row it is the least
backoff doubled `n - 1` times and then capped, although the code caps at every step
(`CapOnce`); `StatsInv` adds what the counters need. Assumptions: `ClientAssumption` (the sentinels
are not values, the backoffs are ordered).

**ConfigSyncProofs.** `SyncInv` follows a label along its way: read before the data,
it is at most the revision the second query will find (`ListInv`), through
writes, which only raise that, and restores, which end the polls that are
reading. From it `LabelsStayLow`. Without a restore the present content is the newest
and what is on its way was read after what the client has (`ForwardInv`), hence
`ContentMovesForward`.

`InstancesUseBroadcast` is the other side of `WatcherImplementsBroadcast`: whatever the
database, the other instances and the clients do, an instance takes a step of
Broadcast or none, so ConfigSync and RevisionWatcher meet in the same promise.

`NoChangeIsNoChange` is the safety half of `Converges`. Without a restore the j-th
content has revision j - 1 (`NumberedInv`), the label is at most the revision of its
data, and the present content is the newest: a label equal to the database's
revision leaves the data no other content to be. A quiet restore leaves every client
with a label above the one it brings back (`RestoredInv`), and what is fetched after it
is the restored content. The hypothesis `RevisionsTellContents` is where the argument
ends, and the code with it: a restore under a low label, or writes that reuse
revision numbers, are the differences listed in section 5. With Broadcast's
invariant that a blocked request's baseline is the watermark,
`BlockedAreCurrent`: a long poll that still sleeps at an instance that has heard of the
database's revision misses nothing. Assumptions: `SyncAssumption`.

**TuiProofs.** Handlers are operators on models, so the invariant `ModelInv` is
about a model and the calls outstanding, with one lemma per handler: the detail asked
for and the detail in view are the selected key's, and an empty pane has a call or an
error behind it. From it `DetailIsTheSelections` and `EmptyPaneIsExplained`. The proof
shows which check carries the first: the comparison of the answer's key with
`detailKey`.

Its second half is about writes. `PreviewInv` adds that histories are append-only, that every
history in view or on its way is part of what the backend holds, that the
history cursor is inside it, and that what is pending is what the overlay shows:
its text, and its format when the texts of the overlay are equal.
From it `WritesAreShown`. `FreshInv` is about the sequence numbers, which
`WritesAreShown` does not need: no load is numbered above `detailSeq`, the newest one
is for `detailKey`, every write the model has heard of is in the database, and a
detail that is in view, or was read by the newest load, is no older than those
writes of its key. Most handlers are `Steady` (they report no write and show no new
detail); the two that are not, `OnDetail` and `OnWrite`, have a lemma each. From it
`OwnWritesAreShown`: an answer for the same key that was read before the write arrives
with an older number and is dropped. `CursorsStayInRange` rests on `Pointing`: the rows
are what `buildRows` makes of some list, so that the last one is a key's and not
a header, and the cursor is on a key's row; a list that replaces the rows
moves the cursor to such a row, as does every key that moves it. Assumptions:
`TuiAssumption`.

**DiffProofs** shows both properties of the diff for texts of any length. That the script
is the shortest has two sides. What `lcsDiff` keeps is as long as its table says
(`LcsDiffLeads`, along the walk), and no matching of increasing positions is longer
(`TableBounds`: drop the first pair, or see that one of the two first positions is
further on); both go by induction over the places of the table from its end
(`GridInduction`). For the trimmed ends, increasing positions leave room for one
another: the first `head` positions of a matching may be anywhere, but the ones after
them, up to the last `tail`, are inside the middle of both texts (`MatchingWithin`).
What a script keeps is a common subsequence of its texts (`KeptExists`, op by
op), so the two sides meet in `LcsLength`. For the hunks, `IInv` says that the reader of the
hunks made so far `Follows` the loop: what it has, and the old lines from where it is
to `aLine`, is the new text of the ops consumed. A skipped op is a line of both texts,
because every change is in `Keep`; a hunk is found at its header, because `Span` and
the reader undo each other also for an empty range. The recursive functions
`LinesOf`, `Table`, the walk and `Reader` are CHOOSEn by their equations, which
a table built place by place satisfies (`Recursion`, `LinesTable`, `ReaderTable`).
From it `CountersAgree`, `ShortestScript` and `HunksTurnOldIntoNew`. Assumptions:
`DiffAssumption` (the bounds are naturals).

Only model-checked: every liveness property (liveness under fairness is outside
what the provers do), `RunReturns` and the other leads-to properties among them.
Every invariant and every action property that a passing run checks is a theorem.

## 5. Not modelled, and why

* URLs, JSON, DSN rewriting, placeholders, flags, keys' and comments' spelling:
  functions on text, without state; the repository's tests cover them.
* What net/http does inside `Serve` and `Shutdown`, and what the drivers do: external,
  modelled by the outcomes the code handles.
* Typed decoding: reflection and codec libraries. Its cache is two operations of
  `sync.Map` on a map that lives as long as one view; `LoadOrStore`'s
  contract alone gives every reader the first value stored.
* Rendering, scrolling, sizes and status texts of the terminal interface; the tables
  and colours of the commands.
* Durations: jitter, intervals and timeouts are only "may happen".
* The repository's test support.

Differences between the code and its documents that no run is about:

* More than 64 prefixes are refused over HTTP (400) and accepted from `--dsn`.
* `docs/design/07-server.md:44` says 503 when the tables are missing; the handlers
  answer 500.
* An empty key is a 404 of the router over HTTP, so lsctl exits 4; on the database
  it exits 1.
* `docs/design/07-server.md:92-94` orders stop before `Shutdown` so that long polls do
  not hold it up; as every request's context descends from the one a signal
  ends, a signal alone releases them.
* A direct client whose label is lower than its data does not notice a restore
  to exactly that label until the next write (`client/dbsource/dbsource.go:90`);
  `Converges` is checked for restores that find the clients up to date.

## 6. Plan

The order followed the weight each part carries: the transaction and its
abstract log (Store, ConfigLog), the broadcast (RevisionWatcher), the client
process (Client), what a client holds (View), their composition (ConfigSync), the
terminal interface (Tui) with its diff (Diff), the process (Server), the commands
down to the transaction (Lsctl), and the theorems on all of them.

What would come next:

1. An abstract cache (a client holds some content the database had, and in the end
   the present one) that ConfigSync implements; its safety is in the theorems on
   labels and contents, its liveness would stay with TLC.
2. Restores while a client's label is low, as a run of its own.
