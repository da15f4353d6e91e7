-------------------------------- MODULE Tui --------------------------------
(***************************************************************************)
(* lsctl's terminal interface (cmd/lsctl/internal/ui): a model that one    *)
(* event loop updates with keystrokes and with the answers of asynchronous *)
(* backend calls, which finish in any order while other writers change the *)
(* database.  Following the Elm architecture of the code, each handler is  *)
(* an operator from model to model that also collects the commands it      *)
(* returns; an action runs one handler and starts its commands.            *)
(*                                                                         *)
(* A value is a text with its format, which not every overlay shows; a     *)
(* filter is the set of keys that contain it.  Scrolling, sizes and status *)
(* texts are left out.                                                     *)
(***************************************************************************)
EXTENDS Integers, FiniteSets, SequencesExt

CONSTANTS
    Order,       \* every key there may be, in the order List returns them
    Group,       \* the prefix up to the first colon of each key, or NoGroup
    NoGroup,
    Filters,     \* the sets of keys the filter texts select; All is the empty text
    Texts, Formats,
    Seeds,       \* the histories a key may have at first
    NoKey, NoValue, NoDetail, NoPend, NoOverlay,
    MaxStrokes,  \* bound on the keystrokes of the session
    MaxCalls,    \* bound on the calls outstanding when a key is pressed
    MaxTroubles  \* bound on the writes of other users and on failing calls

Keys   == Range(Order)
All    == Keys
Values == [text : Texts, format : Formats]

ASSUME TuiAssumption ==
    /\ Order \in Seq(Keys) /\ All \in Filters
    /\ NoKey \notin Keys /\ NoValue \notin Values
    /\ Seeds \subseteq Seq([value : Values, live : BOOLEAN])
    /\ MaxStrokes \in Nat /\ MaxCalls \in Nat /\ MaxTroubles \in Nat

VARIABLES
    db,       \* each key's history, oldest first: [value, live]
    troubles, \* how often other users wrote or a call failed
    landed,   \* the session's own writes that took effect: [key, version]
    m,        \* the Model
    calls,    \* commands started and messages not yet delivered
    strokes,  \* keystrokes so far
    ended     \* the program has quit

vars == <<db, troubles, landed, m, calls, strokes, ended>>

-----------------------------------------------------------------------------
\* What the backend holds.

Live(k) == k \in Keys /\ db[k] # <<>> /\ Last(db[k]).live

\* Newest first, as History returns it; version numbers start at 1.
HistoryOf(k) ==
    LET n == Len(db[k])
    IN  [i \in 1 .. n |-> [version |-> n + 1 - i, value |-> db[k][n + 1 - i].value]]

\* What Get returns; version identifies the write it shows.
DetailOf(k) == [key |-> k, value |-> Last(db[k]).value, version |-> Len(db[k])]

-----------------------------------------------------------------------------
\* Rows, cursors and the selection.

Header(g) == [header |-> TRUE, key |-> NoKey, group |-> g]
KeyRow(k) == [header |-> FALSE, key |-> k, group |-> Group[k]]

\* A key is listed under the header of its group, which is opened when the row
\* above belongs to another one.
WithKey(rows, k) ==
    LET opens == Group[k] # NoGroup /\ (rows # <<>> => Last(rows).group # Group[k])
    IN  Append(IF opens THEN Append(rows, Header(Group[k])) ELSE rows, KeyRow(k))

\* The rows after the first i keys, of which those in shown are listed.
RowsUpTo(shown) ==
    LET built[i \in 0 .. Len(Order)] ==
          IF i = 0 THEN <<>>
          ELSE IF Order[i] \in shown THEN WithKey(built[i - 1], Order[i])
          ELSE built[i - 1]
    IN  built

\* The keys that pass the filter, each run of one group under a header.
BuildRows(configs, filter) == RowsUpTo(configs \cap filter)[Len(Order)]

KeyRows(n) == {i \in 1 .. Len(n.rows) : ~n.rows[i].header}

\* Rows and history entries count from 1; the cursor of no row is 1 as well.
FirstKeyRow(n) == IF KeyRows(n) = {} THEN 1 ELSE Min(KeyRows(n))
LastKeyRow(n)  == IF KeyRows(n) = {} THEN 1 ELSE Max(KeyRows(n))

SelectedKey(n) == IF n.cur \in 1 .. Len(n.rows) THEN n.rows[n.cur].key ELSE NoKey

RowsOf(n, k) == {i \in KeyRows(n) : n.rows[i].key = k}

Clamp(v, lo, hi) == IF hi < lo THEN lo ELSE Min({Max({v, lo}), hi})

-----------------------------------------------------------------------------
\* The commands that start backend calls.

Emit(n, c) == [n EXCEPT !.cmds = @ \cup {c}]

LoadKeys(n) ==
    Emit([n EXCEPT !.keysSeq = @ + 1, !.loadingKeys = TRUE],
         [call |-> "list", seq |-> n.keysSeq + 1])

LoadDetail(n, k) ==
    Emit([n EXCEPT !.detailSeq = @ + 1, !.detailKey = k, !.loadingDetail = TRUE],
         [call |-> "get", seq |-> n.detailSeq + 1, key |-> k])

\* Fault: the old detail stays until the new one arrives.
SyncDetailKeeping(n, prev) ==
    LET k == SelectedKey(n)
    IN  CASE k = prev /\ (n.hasDetail \/ k = NoKey) -> n
          [] k = NoKey /\ prev # NoKey ->
                [n EXCEPT !.hcur = 1, !.hasDetail = FALSE, !.detail = NoDetail,
                          !.history = <<>>, !.detailSeq = @ + 1, !.detailKey = NoKey,
                          !.loadingDetail = FALSE]
          [] OTHER -> LoadDetail([n EXCEPT !.hcur = 1], k)

\* Fault: a detail that failed to load is not asked for again.
SyncDetailOnce(n, prev) ==
    LET k == SelectedKey(n)
        cleared == [n EXCEPT !.hcur = 1, !.hasDetail = FALSE,
                             !.detail = NoDetail, !.history = <<>>]
    IN  CASE k = prev -> n
          [] k = NoKey /\ prev # NoKey ->
                [cleared EXCEPT !.detailSeq = @ + 1, !.detailKey = NoKey,
                                !.loadingDetail = FALSE]
          [] OTHER -> LoadDetail(cleared, k)

\* A new selection clears the detail before its own is loaded.
SyncDetail(n, prev) ==
    LET k == SelectedKey(n)
        cleared == [n EXCEPT !.hcur = 1, !.hasDetail = FALSE,
                             !.detail = NoDetail, !.history = <<>>]
    IN  CASE k = prev /\ (n.hasDetail \/ k = NoKey) -> n
          [] k = NoKey /\ prev # NoKey ->
                [cleared EXCEPT !.detailSeq = @ + 1, !.detailKey = NoKey,
                                !.loadingDetail = FALSE]
          [] OTHER -> LoadDetail(cleared, k)

\* The cursor stays on its key, or falls back to the first one.
Rebuild(n) ==
    LET prev  == SelectedKey(n)
        built == [n EXCEPT !.rows = BuildRows(n.configs, n.filter)]
        same  == RowsOf(built, prev)
    IN  SyncDetail([built EXCEPT !.cur = IF same = {} THEN FirstKeyRow(built)
                                                      ELSE Min(same)],
                   prev)

-----------------------------------------------------------------------------
\* Overlays.

OpenOverlay(n, o) == [n EXCEPT !.mode = "overlay", !.overlay = o]

CloseOverlay(n) ==
    [n EXCEPT !.mode = "browse", !.overlay = NoOverlay, !.pend = NoPend]

\* A preview shows how the text of one key would change; it names the formats,
\* the current one and the next, only when the text stays.
Preview(k, from, to) ==
    [kind |-> "confirm", key |-> k, from |-> from.text, to |-> to.text,
     named |-> IF from.text = to.text THEN <<from.format, to.format>> ELSE <<>>]

Help                 == [kind |-> "help"]
Comparison(k, v, to) == [kind |-> "diff", key |-> k, from |-> v.text, to |-> to.text]

PendSet(k, v)      == [kind |-> "set", key |-> k, value |-> v, version |-> 0]
PendRollback(k, v) == [kind |-> "rollback", key |-> k, value |-> NoValue, version |-> v]

-----------------------------------------------------------------------------
\* Handlers of the messages.

OnKeys(n, msg) ==
    IF msg.seq # n.keysSeq THEN n
    ELSE IF msg.err THEN [n EXCEPT !.loadingKeys = FALSE, !.errMsg = "list"]
    ELSE Rebuild([n EXCEPT !.loadingKeys = FALSE, !.errMsg = "",
                           !.configs = msg.configs])

\* Fault: any answer for the selected key is taken, however old.
OnDetailAnySeq(n, msg) ==
    IF msg.key # n.detailKey THEN n
    ELSE IF msg.err
      THEN [n EXCEPT !.loadingDetail = FALSE, !.hasDetail = FALSE, !.errMsg = "get"]
      ELSE [n EXCEPT !.loadingDetail = FALSE, !.hasDetail = TRUE, !.errMsg = "",
                     !.detail = msg.detail, !.history = msg.history, !.hcur = 1]

OnDetail(n, msg) ==
    IF msg.seq # n.detailSeq \/ msg.key # n.detailKey THEN n
    ELSE IF msg.err
      THEN [n EXCEPT !.loadingDetail = FALSE, !.hasDetail = FALSE, !.errMsg = "get"]
      ELSE [n EXCEPT !.loadingDetail = FALSE, !.hasDetail = TRUE, !.errMsg = "",
                     !.detail = msg.detail, !.history = msg.history, !.hcur = 1]

\* A write reloads the list, and the detail when its key is still selected.
OnWrite(n, msg) ==
    IF msg.err THEN [n EXCEPT !.errMsg = "write"]
    ELSE LET reloaded ==
               LoadKeys([n EXCEPT !.errMsg = "",
                                  !.writes = @ \cup {[key |-> msg.key,
                                                      version |-> msg.version]}])
         IN  IF msg.key = SelectedKey(n) THEN LoadDetail(reloaded, msg.key)
                                         ELSE reloaded

\* Fault: the edit is taken whatever key is selected now.
AfterEditAnyKey(n, msg) ==
    IF msg.err THEN [n EXCEPT !.errMsg = "edit"]
    ELSE IF ~n.hasDetail \/ msg.value.text = n.detail.value.text THEN n
    ELSE OpenOverlay([n EXCEPT !.pend = PendSet(msg.key, msg.value)],
                     Preview(msg.key, n.detail.value, msg.value))

\* The editor's result becomes a preview, unless the selection changed or the
\* text did not; its format is the one the detail had when the editor started.
AfterEdit(n, msg) ==
    IF msg.err THEN [n EXCEPT !.errMsg = "edit"]
    ELSE IF \/ ~n.hasDetail
            \/ msg.key # n.detail.key
            \/ msg.value.text = n.detail.value.text THEN n
    ELSE OpenOverlay([n EXCEPT !.pend = PendSet(msg.key, msg.value)],
                     Preview(msg.key, n.detail.value, msg.value))

-----------------------------------------------------------------------------
\* Handlers of the keys.

MoveKeys(n, d) ==
    LET ahead == {i \in KeyRows(n) : IF d > 0 THEN i > n.cur ELSE i < n.cur}
    IN  IF ahead = {} THEN n
        ELSE SyncDetail([n EXCEPT !.cur = IF d > 0 THEN Min(ahead) ELSE Max(ahead)],
                        SelectedKey(n))

\* Fault: the cursor of the history runs past its last entry.
MoveUnclamped(n, d) ==
    CASE n.focus = "keys"    -> MoveKeys(n, d)
      [] n.focus = "value"   -> n
      [] n.focus = "history" -> [n EXCEPT !.hcur = Max({1, @ + d})]

Move(n, d) ==
    CASE n.focus = "keys"    -> MoveKeys(n, d)
      [] n.focus = "value"   -> n
      [] n.focus = "history" -> [n EXCEPT !.hcur = Clamp(@ + d, 1, Len(n.history))]

\* Home and End.
Jump(n, d) ==
    CASE n.focus = "keys" ->
            SyncDetail([n EXCEPT !.cur = IF d < 0 THEN FirstKeyRow(n) ELSE LastKeyRow(n)],
                       SelectedKey(n))
      [] n.focus = "value" -> n
      [] n.focus = "history" ->
            [n EXCEPT !.hcur = IF d < 0 THEN 1 ELSE Max({1, Len(n.history)})]

\* The version under the cursor, against the value in view.
SameText(n)   == n.history[n.hcur].value.text = n.detail.value.text
SameFormat(n) == n.history[n.hcur].value.format = n.detail.value.format

\* Only texts are compared.
ShowDiff(n) ==
    IF ~n.hasDetail \/ n.history = <<>> \/ SameText(n)
      THEN n
      ELSE OpenOverlay(n, Comparison(n.detail.key, n.history[n.hcur].value, n.detail.value))

\* Rolling back to the current value is refused.
AskRollback(n) ==
    IF ~n.hasDetail \/ n.history = <<>> \/ (SameText(n) /\ SameFormat(n))
      THEN n
      ELSE OpenOverlay([n EXCEPT !.pend = PendRollback(n.detail.key,
                                                       n.history[n.hcur].version)],
                       Preview(n.detail.key, n.detail.value, n.history[n.hcur].value))

Refresh(n) ==
    IF SelectedKey(n) = NoKey THEN LoadKeys(n)
                              ELSE LoadDetail(LoadKeys(n), SelectedKey(n))

\* There is no editor, or no file to edit, or the editor is started on the detail.
StartEdit(n) ==
    IF ~n.hasDetail THEN {n}
    ELSE {n, [n EXCEPT !.errMsg = "edit"],
          Emit(n, [call |-> "editor", id |-> strokes, key |-> n.detail.key,
                   format |-> n.detail.value.format])}

SetFilter(n, f) == Rebuild([n EXCEPT !.filter = f])

\* Every model a key of the browse mode may lead to.
BrowseKey(n) ==
    {OpenOverlay(n, Help), [n EXCEPT !.mode = "filter"], Refresh(n),
     Move(n, 1), Move(n, -1), Jump(n, 1), Jump(n, -1), ShowDiff(n),
     IF n.filter # All THEN SetFilter(n, All) ELSE n,
     IF n.focus = "history" THEN AskRollback(n) ELSE [n EXCEPT !.focus = "history"]}
    \cup StartEdit(n)
    \cup {[n EXCEPT !.focus = f] : f \in {"keys", "value", "history"} \ {n.focus}}

\* Enter keeps the filter, Escape drops it, typing narrows it and Backspace
\* widens it.
FilterKey(n) ==
    {[n EXCEPT !.mode = "browse"],
     IF n.filter = All THEN [n EXCEPT !.mode = "browse"]
                       ELSE SetFilter([n EXCEPT !.mode = "browse"], All)}
    \cup {SetFilter(n, f) : f \in {f \in Filters \ {All} : f \subseteq n.filter}}
    \cup {SetFilter(n, f) : f \in {f \in Filters : n.filter # All /\ n.filter \subseteq f}}

\* y confirms what is pending, n and Escape close the overlay.
OverlayKey(n) ==
    {CloseOverlay(n),
     IF n.pend = NoPend THEN n
     ELSE Emit(CloseOverlay(n), [call |-> "write", id |-> strokes, pend |-> n.pend])}

-----------------------------------------------------------------------------
\* The event loop.  An external editor holds it until it exits.

Calls(kind) == {c \in calls : c.call = kind}

Runs == ~ended /\ Calls("editing") = {}

NewModel ==
    [configs |-> {}, rows |-> <<>>, cur |-> 1, filter |-> All,
     detail |-> NoDetail, hasDetail |-> FALSE, history |-> <<>>, hcur |-> 1,
     focus |-> "keys", mode |-> "browse", overlay |-> NoOverlay, pend |-> NoPend,
     keysSeq |-> 0, detailSeq |-> 0, detailKey |-> NoKey,
     loadingKeys |-> FALSE, loadingDetail |-> FALSE,
     errMsg |-> "", writes |-> {}, cmds |-> {}]

Start(n) == m = [n EXCEPT !.cmds = {}] /\ calls = n.cmds

Init ==
    /\ db \in [Keys -> Seeds]
    /\ troubles = 0
    /\ landed = {}
    /\ Start(LoadKeys(NewModel))
    /\ strokes = 0
    /\ ended = FALSE

\* The model a handler returned is in place and its commands are started.
Become(n, delivered) ==
    /\ m' = [n EXCEPT !.cmds = {}]
    /\ calls' = (calls \ delivered) \cup n.cmds

Key ==
    /\ Runs
    /\ strokes < MaxStrokes /\ Cardinality(calls) < MaxCalls
    /\ strokes' = strokes + 1
    /\ \E n \in CASE m.mode = "browse"  -> BrowseKey(m)
               [] m.mode = "filter"  -> FilterKey(m)
               [] m.mode = "overlay" -> OverlayKey(m) : Become(n, {})
    /\ UNCHANGED <<db, troubles, landed, ended>>

\* Ctrl-C quits in every mode, q in the browse mode; the user presses no more.
QuitKey ==
    /\ Runs
    /\ strokes < MaxStrokes
    /\ strokes' = MaxStrokes
    /\ calls' = calls \cup {[call |-> "quitMsg"]}
    /\ UNCHANGED <<db, troubles, landed, m, ended>>

KeysMsg ==
    /\ Runs
    /\ \E msg \in Calls("keysMsg") : Become(OnKeys(m, msg), {msg})
    /\ UNCHANGED <<db, troubles, landed, strokes, ended>>

DetailMsg ==
    /\ Runs
    /\ \E msg \in Calls("detailMsg") : Become(OnDetail(m, msg), {msg})
    /\ UNCHANGED <<db, troubles, landed, strokes, ended>>

WriteMsg ==
    /\ Runs
    /\ \E msg \in Calls("writeMsg") : Become(OnWrite(m, msg), {msg})
    /\ UNCHANGED <<db, troubles, landed, strokes, ended>>

EditedMsg ==
    /\ Runs
    /\ \E msg \in Calls("editedMsg") : Become(AfterEdit(m, msg), {msg})
    /\ UNCHANGED <<db, troubles, landed, strokes, ended>>

QuitMsg ==
    /\ Runs
    /\ Calls("quitMsg") # {}
    /\ ended' = TRUE
    /\ UNCHANGED <<db, troubles, landed, m, calls, strokes>>

Update == KeysMsg \/ DetailMsg \/ WriteMsg \/ EditedMsg \/ QuitMsg

-----------------------------------------------------------------------------
\* The goroutines of the commands, and the other users.

Answer(c, msg) == calls' = (calls \ {c}) \cup {msg}

\* A call that fails and a write of another user are troubles.
Trouble(happens) ==
    /\ happens => troubles < MaxTroubles
    /\ troubles' = troubles + (IF happens THEN 1 ELSE 0)

ListAnswers ==
    /\ ~ended
    /\ \E c \in Calls("list"), err \in BOOLEAN :
          /\ Trouble(err)
          /\ Answer(c, [call |-> "keysMsg", seq |-> c.seq, err |-> err,
                        configs |-> IF err THEN {} ELSE {k \in Keys : Live(k)}])
    /\ UNCHANGED <<db, landed, m, strokes, ended>>

DetailReply(c, err, d, h) ==
    [call |-> "detailMsg", seq |-> c.seq, key |-> c.key, err |-> err,
     detail |-> d, history |-> h]

\* Get finds no such key or fails; otherwise History follows.
GetAnswers ==
    /\ ~ended
    /\ \E c \in Calls("get") :
          \/ /\ Trouble(Live(c.key))
             /\ Answer(c, DetailReply(c, TRUE, NoDetail, <<>>))
          \/ /\ Live(c.key)
             /\ Trouble(FALSE)
             /\ Answer(c, [call |-> "history", seq |-> c.seq, key |-> c.key,
                           detail |-> DetailOf(c.key)])
    /\ UNCHANGED <<db, landed, m, strokes, ended>>

\* A failed History leaves the value without one.
HistoryAnswers ==
    /\ ~ended
    /\ \E c \in Calls("history"), err \in BOOLEAN :
          /\ Trouble(err)
          /\ Answer(c, DetailReply(c, FALSE, c.detail,
                                   IF err THEN <<>> ELSE HistoryOf(c.key)))
    /\ UNCHANGED <<db, landed, m, strokes, ended>>

\* What a confirmed write stores.
Written(p) == IF p.kind = "set" THEN p.value ELSE db[p.key][p.version].value

WriteReply(c, err, v) ==
    [call |-> "writeMsg", id |-> c.id, key |-> c.pend.key, err |-> err, version |-> v]

\* The write takes effect; its answer may be lost to the timeout all the same.
WriteLands ==
    /\ ~ended
    /\ \E c \in Calls("write"), lost \in BOOLEAN :
          LET k == c.pend.key
              v == Len(db[k]) + 1
          IN  /\ Trouble(lost)
              /\ db' = [db EXCEPT ![k] = Append(@, [value |-> Written(c.pend), live |-> TRUE])]
              /\ Answer(c, WriteReply(c, lost, IF lost THEN 0 ELSE v))
              /\ landed' = IF lost THEN landed ELSE landed \cup {[key |-> k, version |-> v]}
    /\ UNCHANGED <<m, strokes, ended>>

WriteFails ==
    /\ ~ended
    /\ Trouble(TRUE)
    /\ \E c \in Calls("write") : Answer(c, WriteReply(c, TRUE, 0))
    /\ UNCHANGED <<db, landed, m, strokes, ended>>

EditorOpens ==
    /\ Runs
    /\ \E c \in Calls("editor") : Answer(c, [c EXCEPT !.call = "editing"])
    /\ UNCHANGED <<db, troubles, landed, m, strokes, ended>>

EditReply(c, err, v) ==
    [call |-> "editedMsg", id |-> c.id, key |-> c.key, err |-> err, value |-> v]

\* It failed, or left some text in the file; the format is not the editor's to say.
EditorExits ==
    /\ ~ended
    /\ \E c \in Calls("editing") :
          \/ /\ Trouble(TRUE)
             /\ Answer(c, EditReply(c, TRUE, NoValue))
          \/ /\ Trouble(FALSE)
             /\ \E t \in Texts :
                   Answer(c, EditReply(c, FALSE, [text |-> t, format |-> c.format]))
    /\ UNCHANGED <<db, landed, m, strokes, ended>>

Other(k, entry) ==
    /\ ~ended
    /\ Trouble(TRUE)
    /\ db' = [db EXCEPT ![k] = Append(@, entry)]
    /\ UNCHANGED <<landed, m, calls, strokes, ended>>

OtherSets == \E k \in Keys, v \in Values : Other(k, [value |-> v, live |-> TRUE])

OtherDeletes ==
    \E k \in Keys : Live(k) /\ Other(k, [value |-> Last(db[k]).value, live |-> FALSE])

Backend ==
    \/ ListAnswers \/ GetAnswers \/ HistoryAnswers \/ WriteLands \/ WriteFails
    \/ EditorOpens \/ EditorExits \/ OtherSets \/ OtherDeletes

Next == Key \/ QuitKey \/ Update \/ Backend

Spec == Init /\ [][Next]_vars

-----------------------------------------------------------------------------
\* Properties.

Entry   == [version : Nat, value : Values]
Pending == [kind : {"set", "rollback"}, key : Keys, value : Values \cup {NoValue},
            version : Nat]

\* The Model's fields hold values of their kinds (model.go: Model).
TypeOK ==
    /\ m.configs \subseteq Keys /\ m.filter \in Filters
    /\ m.detail \in [key : Keys, value : Values, version : Nat] \cup {NoDetail}
    /\ m.history \in Seq(Entry)
    /\ m.focus \in {"keys", "value", "history"}
    /\ m.mode \in {"browse", "filter", "overlay"}
    /\ m.mode = "overlay" <=> m.overlay # NoOverlay
    /\ m.pend \in Pending \cup {NoPend}
    /\ m.detailKey \in Keys \cup {NoKey}
    /\ m.errMsg \in {"", "list", "get", "write", "edit"}
    /\ m.cmds = {}
    /\ m.writes \subseteq landed

\* "Sequence numbers reject out-of-order responses that could show another key's
\* value" (model.go, Model): the value and the history in view are the selected
\* key's, whatever order answers come in and whatever lists replaced the rows.
DetailIsSelected == m.hasDetail => m.detail.key = SelectedKey(m)

\* Cursors point at something: never at a group header, never past the history
\* (m.history[m.hcur] in showDiff and askRollback would panic).
CursorsInRange ==
    /\ m.rows # <<>> => m.cur \in KeyRows(m)
    /\ m.history # <<>> => m.hcur \in 1 .. Len(m.history)

\* An empty value pane has its reason on the screen: an error, or a load whose
\* answer is still to come; and no load is waited for in vain.
EmptyPaneHasReason ==
    /\ SelectedKey(m) # NoKey /\ ~m.hasDetail =>
          m.loadingDetail \/ m.loadingKeys \/ m.errMsg # ""
    /\ m.loadingKeys => \E c \in calls : /\ c.call \in {"list", "keysMsg"}
                                          /\ c.seq = m.keysSeq
    /\ m.loadingDetail => \E c \in calls : /\ c.call \in {"get", "history", "detailMsg"}
                                            /\ c.seq = m.detailSeq
                                            /\ c.key = SelectedKey(m)

\* Once the reload after a write has answered, the detail is no older than the
\* writes the status line reported for its key.
OwnWritesShow ==
    m.hasDetail /\ ~m.loadingDetail =>
        \A w \in m.writes : w.key = m.detail.key => w.version <= m.detail.version

\* What an overlay shows is what the write p would store: its text, and its format
\* too when nothing else changes ("Equal text can decode differently after rollback
\* when the format changes", model.go: askRollback).
Shows(o, p) ==
    /\ o.kind = "confirm" /\ o.key = p.key /\ o.to = Written(p).text
    /\ o.from = o.to => o.named[2] = Written(p).format

\* Writes go through a preview and y (docs/design/08-lsctl.md): what a write
\* stores is the text the overlay showed when y was pressed (and the format, where it
\* named formats), for the key it named; and
\* a preview opens for the key selected at that moment, over the value in view and
\* with a change to show, so the text of an editor that exits after the selection
\* moved is discarded.
WritesArePreviewed ==
    [][ /\ \A c \in calls' \ calls : c.call = "write" =>
              m.mode = "overlay" /\ Shows(m.overlay, c.pend)
        /\ m'.pend # m.pend /\ m'.pend # NoPend =>
              /\ m'.pend.key = SelectedKey(m)
              /\ m.hasDetail /\ m'.overlay.from = m.detail.value.text
              /\ m'.overlay.from = m'.overlay.to =>
                     /\ m'.overlay.named[1] = m.detail.value.format
                     /\ m'.overlay.named[1] # m'.overlay.named[2] ]_vars

\* "Writes returns successful writes for display after the alt screen disappears"
\* (model.go): a session that ended reports every write the backend acknowledged.
ReplayIsComplete == ended => landed \subseteq m.writes
=============================================================================
