----------------------------- MODULE TuiProofs -----------------------------
(***************************************************************************)
(* The terminal interface for any keys, groups, filters and histories, any *)
(* number of keystrokes and calls outstanding, and answers in any order:   *)
(* what is shown is the selected key's, an empty pane has its reason, what *)
(* is written was shown, and shows afterwards.                             *)
(*                                                                         *)
(* Handlers are operators from model to model, so the argument is about    *)
(* models: each handler keeps ModelInv of a model and the calls that are   *)
(* outstanding, and an action is one handler.                              *)
(***************************************************************************)
EXTENDS Tui, WellFoundedInduction, TLAPS

Fields ==
    {"configs", "rows", "cur", "filter", "detail", "hasDetail", "history", "hcur", "focus",
     "mode", "overlay", "pend", "keysSeq", "detailSeq", "detailKey", "loadingKeys",
     "loadingDetail", "errMsg", "writes", "cmds"}

Panes == {"keys", "value", "history"}
Modes == {"browse", "filter", "overlay"}

Shape(n) == DOMAIN n = Fields /\ n.focus \in Panes /\ n.mode \in Modes

\* The calls a list and a detail are awaited from.
AwaitsList(cs, seq) == \E c \in cs : c.call \in {"list", "keysMsg"} /\ c.seq = seq

AwaitsDetail(cs, seq, k) ==
    \E c \in cs : c.call \in {"get", "history", "detailMsg"} /\ c.seq = seq /\ c.key = k

\* Every call is a record, and those that carry a detail carry their key's.
Faithful(c) ==
    /\ "call" \in DOMAIN c
    /\ c.call = "history" => c.detail.key = c.key
    /\ c.call = "detailMsg" /\ ~c.err => c.detail.key = c.key

\* What does not depend on the selection.
Base(n, cs) ==
    /\ Shape(n)
    /\ \A c \in n.cmds : Faithful(c)
    /\ n.loadingKeys => AwaitsList(cs \cup n.cmds, n.keysSeq)

\* What does: the detail asked for and the one in view are those of the key k, and
\* a pane that shows none has its reason.
Tied(n, k, cs) ==
    /\ n.detailKey = k
    /\ n.hasDetail => n.detail.key = k
    /\ n.loadingDetail => AwaitsDetail(cs \cup n.cmds, n.detailSeq, n.detailKey)

Selected(n, cs) ==
    /\ Tied(n, SelectedKey(n), cs)
    /\ SelectedKey(n) # NoKey /\ ~n.hasDetail =>
          n.loadingDetail \/ n.loadingKeys \/ n.errMsg # ""

ModelInv(n, cs) == Base(n, cs) /\ Selected(n, cs)

TuiInv == ModelInv(m, calls) /\ m.cmds = {} /\ \A c \in calls : Faithful(c)

-----------------------------------------------------------------------------
\* The fields ModelInv reads.
Alike(n, o) ==
    /\ o.rows = n.rows /\ o.cur = n.cur
    /\ o.detail = n.detail /\ o.hasDetail = n.hasDetail
    /\ o.keysSeq = n.keysSeq /\ o.detailSeq = n.detailSeq /\ o.detailKey = n.detailKey
    /\ o.loadingKeys = n.loadingKeys /\ o.loadingDetail = n.loadingDetail

\* A handler that leaves them alone keeps it.
LEMMA AlikeInv ==
  ASSUME NEW n, NEW o, NEW cs, ModelInv(n, cs), Shape(o), Alike(n, o),
         o.cmds = n.cmds, o.errMsg = n.errMsg \/ o.errMsg # ""
  PROVE  ModelInv(o, cs)
<1>1. SelectedKey(o) = SelectedKey(n)
  BY DEF Alike, SelectedKey
<1> QED
  BY <1>1 DEF ModelInv, Base, Selected, Tied, Alike

\* A list is asked for.
LEMMA LoadKeysInv ==
  ASSUME NEW n, NEW cs, Base(n, cs), Tied(n, SelectedKey(n), cs)
  PROVE  /\ ModelInv(LoadKeys(n), cs)
         /\ SelectedKey(LoadKeys(n)) = SelectedKey(n)
<1> DEFINE c == [call |-> "list", seq |-> n.keysSeq + 1]
           o == LoadKeys(n)
<1>1. Shape(n)
  BY DEF Base
<1>2. /\ Shape(o)
      /\ o.keysSeq = n.keysSeq + 1 /\ o.loadingKeys = TRUE
      /\ o.cmds = n.cmds \cup {c}
  BY <1>1 DEF LoadKeys, Emit, Fields, Shape, Panes, Modes
<1>3. /\ o.rows = n.rows /\ o.cur = n.cur /\ o.detail = n.detail
      /\ o.hasDetail = n.hasDetail /\ o.detailSeq = n.detailSeq
      /\ o.detailKey = n.detailKey /\ o.loadingDetail = n.loadingDetail
  BY <1>1 DEF LoadKeys, Emit, Fields, Shape, Panes, Modes
<1>4. SelectedKey(o) = SelectedKey(n)
  BY <1>3 DEF SelectedKey
<1>5. Faithful(c) /\ c.call = "list" /\ c.seq = n.keysSeq + 1
  BY DEF Faithful
<1>6. Base(o, cs)
  BY <1>2, <1>5 DEF Base, AwaitsList
<1>7. Selected(o, cs)
  BY <1>2, <1>3, <1>4 DEF Selected, Tied, AwaitsDetail
<1> QED
  BY <1>4, <1>6, <1>7 DEF ModelInv

\* The detail of the selected key is asked for.
LEMMA LoadDetailInv ==
  ASSUME NEW n, NEW cs, NEW k, Base(n, cs), k = SelectedKey(n),
         n.hasDetail => n.detail.key = k
  PROVE  ModelInv(LoadDetail(n, k), cs)
<1> DEFINE c == [call |-> "get", seq |-> n.detailSeq + 1, key |-> k]
           o == LoadDetail(n, k)
<1>1. Shape(n)
  BY DEF Base
<1>2. /\ Shape(o)
      /\ o.detailSeq = n.detailSeq + 1 /\ o.detailKey = k /\ o.loadingDetail = TRUE
      /\ o.cmds = n.cmds \cup {c}
  BY <1>1 DEF LoadDetail, Emit, Fields, Shape, Panes, Modes
<1>3. /\ o.rows = n.rows /\ o.cur = n.cur /\ o.detail = n.detail
      /\ o.hasDetail = n.hasDetail /\ o.keysSeq = n.keysSeq
      /\ o.loadingKeys = n.loadingKeys
  BY <1>1 DEF LoadDetail, Emit, Fields, Shape, Panes, Modes
<1>4. SelectedKey(o) = SelectedKey(n)
  BY <1>3 DEF SelectedKey
<1>5. Faithful(c) /\ c.call = "get" /\ c.seq = n.detailSeq + 1 /\ c.key = k
  BY DEF Faithful
<1>6. Base(o, cs)
  BY <1>2, <1>3, <1>5 DEF Base, AwaitsList
<1>7. Selected(o, cs)
  BY <1>2, <1>3, <1>4, <1>5 DEF Selected, Tied, AwaitsDetail
<1> QED
  BY <1>6, <1>7 DEF ModelInv

\* The selection may have moved away from prev, the key the detail was tied to.
LEMMA SyncDetailInv ==
  ASSUME NEW n, NEW cs, NEW prev, Base(n, cs), Tied(n, prev, cs)
  PROVE  ModelInv(SyncDetail(n, prev), cs)
<1> DEFINE k == SelectedKey(n)
           cleared == [n EXCEPT !.hcur = 1, !.hasDetail = FALSE,
                                !.detail = NoDetail, !.history = <<>>]
           nothing == [cleared EXCEPT !.detailSeq = @ + 1, !.detailKey = NoKey,
                                      !.loadingDetail = FALSE]
<1>1. Shape(n)
  BY DEF Base
<1>2. /\ Shape(cleared) /\ cleared.hasDetail = FALSE
      /\ cleared.rows = n.rows /\ cleared.cur = n.cur /\ cleared.cmds = n.cmds
      /\ cleared.keysSeq = n.keysSeq /\ cleared.loadingKeys = n.loadingKeys
  BY <1>1 DEF Fields, Shape, Panes, Modes
<1>3. SelectedKey(cleared) = k /\ Base(cleared, cs)
  BY <1>2 DEF SelectedKey, Base
<1>4. CASE k = prev /\ (n.hasDetail \/ k = NoKey)
  <2>1. SyncDetail(n, prev) = n
    BY <1>4 DEF SyncDetail
  <2> QED
    BY <1>4, <2>1 DEF ModelInv, Selected, Tied
<1>5. CASE k = NoKey /\ prev # NoKey
  <2>1. SyncDetail(n, prev) = nothing
    BY <1>5 DEF SyncDetail
  <2>2. /\ Shape(nothing) /\ nothing.hasDetail = FALSE
        /\ nothing.rows = n.rows /\ nothing.cur = n.cur /\ nothing.cmds = n.cmds
        /\ nothing.keysSeq = n.keysSeq /\ nothing.loadingKeys = n.loadingKeys
        /\ nothing.detailKey = NoKey /\ nothing.loadingDetail = FALSE
    BY <1>2 DEF Fields, Shape, Panes, Modes
  <2>3. SelectedKey(nothing) = NoKey /\ Base(nothing, cs)
    BY <1>5, <2>2 DEF SelectedKey, Base
  <2>4. ModelInv(nothing, cs)
    BY <2>2, <2>3 DEF ModelInv, Selected, Tied
  <2> QED
    BY <2>1, <2>4
<1>6. CASE ~(k = prev /\ (n.hasDetail \/ k = NoKey)) /\ ~(k = NoKey /\ prev # NoKey)
  <2>1. SyncDetail(n, prev) = LoadDetail(cleared, k)
    BY <1>6 DEF SyncDetail
  <2>2. ModelInv(LoadDetail(cleared, k), cs)
    BY <1>2, <1>3, LoadDetailInv
  <2> QED
    BY <2>1, <2>2
<1> QED
  BY <1>4, <1>5, <1>6

\* New rows or a new place of the cursor.
LEMMA ReselectInv ==
  ASSUME NEW n, NEW cs, NEW i, NEW r, Base(n, cs), Tied(n, SelectedKey(n), cs)
  PROVE  ModelInv(SyncDetail([[n EXCEPT !.rows = r] EXCEPT !.cur = i], SelectedKey(n)), cs)
<1> DEFINE o == [[n EXCEPT !.rows = r] EXCEPT !.cur = i]
<1>1. Shape(n)
  BY DEF Base
<1>2. /\ Shape(o) /\ o.cmds = n.cmds
      /\ o.detail = n.detail /\ o.hasDetail = n.hasDetail /\ o.keysSeq = n.keysSeq
      /\ o.detailSeq = n.detailSeq /\ o.detailKey = n.detailKey
      /\ o.loadingKeys = n.loadingKeys /\ o.loadingDetail = n.loadingDetail
  BY <1>1 DEF Fields, Shape, Panes, Modes
<1>3. Base(o, cs) /\ Tied(o, SelectedKey(n), cs)
  BY <1>2 DEF Base, Tied
<1> QED
  BY <1>3, SyncDetailInv

\* The list or the filter changed, and the rows with it.
LEMMA RebuildInv ==
  ASSUME NEW n, NEW cs, Base(n, cs), Tied(n, SelectedKey(n), cs)
  PROVE  ModelInv(Rebuild(n), cs)
  BY ReselectInv DEF Rebuild

\* The cursor moves among the same rows.
LEMMA CursorInv ==
  ASSUME NEW n, NEW cs, NEW i, ModelInv(n, cs)
  PROVE  ModelInv(SyncDetail([n EXCEPT !.cur = i], SelectedKey(n)), cs)
<1> DEFINE o == [n EXCEPT !.cur = i]
<1>1. Shape(n)
  BY DEF ModelInv, Base
<1>2. /\ Shape(o) /\ o.cmds = n.cmds
      /\ o.detail = n.detail /\ o.hasDetail = n.hasDetail /\ o.keysSeq = n.keysSeq
      /\ o.detailSeq = n.detailSeq /\ o.detailKey = n.detailKey
      /\ o.loadingKeys = n.loadingKeys /\ o.loadingDetail = n.loadingDetail
  BY <1>1 DEF Fields, Shape, Panes, Modes
<1>3. Base(o, cs) /\ Tied(o, SelectedKey(n), cs)
  BY <1>2 DEF ModelInv, Base, Selected, Tied
<1> QED
  BY <1>3, SyncDetailInv

\* Focus, mode, cursor of the history, overlay and what y would confirm.
LEMMA OverlayInv ==
  ASSUME NEW n, NEW cs, ModelInv(n, cs)
  PROVE  /\ \A x : ModelInv([n EXCEPT !.hcur = x], cs)
         /\ \A x \in Panes : ModelInv([n EXCEPT !.focus = x], cs)
         /\ \A x \in Modes : ModelInv([n EXCEPT !.mode = x], cs)
         /\ \A x : ModelInv([n EXCEPT !.pend = x], cs)
         /\ \A x : ModelInv(OpenOverlay(n, x), cs)
         /\ ModelInv(CloseOverlay(n), cs)
<1>1. Shape(n)
  BY DEF ModelInv, Base
<1>2. ASSUME NEW o, Shape(o), Alike(n, o), o.cmds = n.cmds, o.errMsg = n.errMsg
      PROVE  ModelInv(o, cs)
  BY <1>2, AlikeInv
<1>3. ASSUME NEW x PROVE ModelInv([n EXCEPT !.hcur = x], cs)
  <2> DEFINE o == [n EXCEPT !.hcur = x]
  <2>1. Shape(o) /\ Alike(n, o) /\ o.cmds = n.cmds /\ o.errMsg = n.errMsg
    BY <1>1 DEF Fields, Shape, Panes, Modes, Alike
  <2> QED
    BY <1>2, <2>1
<1>4. ASSUME NEW x \in Panes PROVE ModelInv([n EXCEPT !.focus = x], cs)
  <2> DEFINE o == [n EXCEPT !.focus = x]
  <2>1. Shape(o) /\ Alike(n, o) /\ o.cmds = n.cmds /\ o.errMsg = n.errMsg
    BY <1>1 DEF Fields, Shape, Panes, Modes, Alike
  <2> QED
    BY <1>2, <2>1
<1>5. ASSUME NEW x \in Modes PROVE ModelInv([n EXCEPT !.mode = x], cs)
  <2> DEFINE o == [n EXCEPT !.mode = x]
  <2>1. Shape(o) /\ Alike(n, o) /\ o.cmds = n.cmds /\ o.errMsg = n.errMsg
    BY <1>1 DEF Fields, Shape, Panes, Modes, Alike
  <2> QED
    BY <1>2, <2>1
<1>6. ASSUME NEW x PROVE ModelInv([n EXCEPT !.pend = x], cs)
  <2> DEFINE o == [n EXCEPT !.pend = x]
  <2>1. Shape(o) /\ Alike(n, o) /\ o.cmds = n.cmds /\ o.errMsg = n.errMsg
    BY <1>1 DEF Fields, Shape, Panes, Modes, Alike
  <2> QED
    BY <1>2, <2>1
<1>7. ASSUME NEW x PROVE ModelInv(OpenOverlay(n, x), cs)
  <2> DEFINE o == OpenOverlay(n, x)
  <2>1. Shape(o) /\ Alike(n, o) /\ o.cmds = n.cmds /\ o.errMsg = n.errMsg
    BY <1>1 DEF Fields, Shape, Panes, Modes, Alike, OpenOverlay
  <2> QED
    BY <1>2, <2>1
<1>8. ModelInv(CloseOverlay(n), cs)
  <2> DEFINE o == CloseOverlay(n)
  <2>1. Shape(o) /\ Alike(n, o) /\ o.cmds = n.cmds /\ o.errMsg = n.errMsg
    BY <1>1 DEF Fields, Shape, Panes, Modes, Alike, CloseOverlay
  <2> QED
    BY <1>2, <2>1
<1> QED
  BY <1>3, <1>4, <1>5, <1>6, <1>7, <1>8

\* A command that loads nothing: a write or the editor.
LEMMA EmitInv ==
  ASSUME NEW n, NEW cs, NEW c, ModelInv(n, cs), Faithful(c)
  PROVE  ModelInv(Emit(n, c), cs)
<1> DEFINE o == Emit(n, c)
<1>1. Shape(n)
  BY DEF ModelInv, Base
<1>2. /\ Shape(o) /\ o.cmds = n.cmds \cup {c} /\ o.errMsg = n.errMsg
      /\ Alike(n, o)
  BY <1>1 DEF Emit, Fields, Shape, Panes, Modes, Alike
<1>3. SelectedKey(o) = SelectedKey(n)
  BY <1>2 DEF Alike, SelectedKey
<1>4. Base(o, cs)
  BY <1>2 DEF ModelInv, Base, Alike, AwaitsList
<1>5. Selected(o, cs)
  BY <1>2, <1>3 DEF ModelInv, Selected, Tied, Alike, AwaitsDetail
<1> QED
  BY <1>4, <1>5 DEF ModelInv

\* An error goes to the status line.
LEMMA ErrorInv ==
  ASSUME NEW n, NEW cs, NEW e, ModelInv(n, cs), e # ""
  PROVE  ModelInv([n EXCEPT !.errMsg = e], cs)
<1> DEFINE o == [n EXCEPT !.errMsg = e]
<1>1. Shape(o) /\ Alike(n, o) /\ o.cmds = n.cmds /\ o.errMsg # ""
  BY DEF ModelInv, Base, Fields, Shape, Panes, Modes, Alike
<1> QED
  BY <1>1, AlikeInv

-----------------------------------------------------------------------------
\* Keys.

\* A step of the cursor in any pane.
LEMMA MoveInv ==
  ASSUME NEW n, NEW cs, ModelInv(n, cs), NEW d
  PROVE  ModelInv(Move(n, d), cs) /\ ModelInv(Jump(n, d), cs)
<1>0. n.focus \in Panes
  BY DEF ModelInv, Base, Shape
<1>1. ModelInv(MoveKeys(n, d), cs)
  BY CursorInv DEF MoveKeys
<1>2. CASE n.focus = "keys"
  <2>1. Move(n, d) = MoveKeys(n, d)
    BY <1>2 DEF Move
  <2>2. Jump(n, d) =
          SyncDetail([n EXCEPT !.cur = IF d < 0 THEN FirstKeyRow(n) ELSE LastKeyRow(n)],
                     SelectedKey(n))
    BY <1>2 DEF Jump
  <2>3. ModelInv(Jump(n, d), cs)
    BY <2>2, CursorInv
  <2> QED
    BY <1>1, <2>1, <2>3
<1>3. CASE n.focus = "value"
  BY <1>3 DEF Move, Jump
<1>4. CASE n.focus = "history"
  <2>1. /\ Move(n, d) = [n EXCEPT !.hcur = Clamp(@ + d, 1, Len(n.history))]
        /\ Jump(n, d) = [n EXCEPT !.hcur = IF d < 0 THEN 1 ELSE Max({1, Len(n.history)})]
    BY <1>4 DEF Move, Jump
  <2>2. \A x : ModelInv([n EXCEPT !.hcur = x], cs)
    BY OverlayInv
  <2>3. ModelInv(Move(n, d), cs)
    BY <2>1, <2>2
  <2>4. ModelInv(Jump(n, d), cs)
    BY <2>1, <2>2
  <2> QED
    BY <2>3, <2>4
<1> QED
  BY <1>0, <1>2, <1>3, <1>4 DEF Panes

\* The list, and the detail of the selected key, are loaded again.
LEMMA RefreshInv ==
  ASSUME NEW n, NEW cs, ModelInv(n, cs)
  PROVE  ModelInv(Refresh(n), cs)
<1>1. Base(n, cs) /\ Tied(n, SelectedKey(n), cs)
  BY DEF ModelInv, Selected
<1>2. ModelInv(LoadKeys(n), cs) /\ SelectedKey(LoadKeys(n)) = SelectedKey(n)
  BY <1>1, LoadKeysInv
<1>3. /\ Base(LoadKeys(n), cs)
      /\ LoadKeys(n).hasDetail => LoadKeys(n).detail.key = SelectedKey(n)
  BY <1>2 DEF ModelInv, Selected, Tied
<1>4. ModelInv(LoadDetail(LoadKeys(n), SelectedKey(n)), cs)
  BY <1>2, <1>3, LoadDetailInv
<1> QED
  BY <1>2, <1>4 DEF Refresh

\* The filter changes, in the browse mode or while it is typed.
LEMMA FilterInv ==
  ASSUME NEW n, NEW cs, ModelInv(n, cs), NEW f
  PROVE  ModelInv(SetFilter(n, f), cs)
<1> DEFINE o == [n EXCEPT !.filter = f]
<1>1. Shape(o) /\ Alike(n, o) /\ o.cmds = n.cmds
  BY DEF ModelInv, Base, Fields, Shape, Alike
<1>2. SelectedKey(o) = SelectedKey(n)
  BY <1>1 DEF Alike, SelectedKey
<1>3. Base(o, cs) /\ Tied(o, SelectedKey(o), cs)
  BY <1>1, <1>2 DEF ModelInv, Base, Selected, Tied, Alike
<1> QED
  BY <1>3, RebuildInv DEF SetFilter

\* The editor and the overlays of the browse mode.
LEMMA DialogInv ==
  ASSUME NEW n, NEW cs, ModelInv(n, cs)
  PROVE  /\ \A o \in StartEdit(n) : ModelInv(o, cs)
         /\ ModelInv(ShowDiff(n), cs) /\ ModelInv(AskRollback(n), cs)
<1>1. ASSUME NEW o \in StartEdit(n) PROVE ModelInv(o, cs)
  <2> DEFINE c == [call |-> "editor", id |-> strokes, key |-> n.detail.key,
                   format |-> n.detail.value.format]
  <2>1. Faithful(c)
    BY DEF Faithful
  <2>2. ModelInv(Emit(n, c), cs)
    BY <2>1, EmitInv
  <2>3. ModelInv([n EXCEPT !.errMsg = "edit"], cs)
    BY ErrorInv
  <2> QED
    BY <2>2, <2>3 DEF StartEdit
<1>2. ModelInv(ShowDiff(n), cs)
  BY OverlayInv DEF ShowDiff
<1>3. ModelInv(AskRollback(n), cs)
  <2>1. \A x, y : ModelInv(OpenOverlay([n EXCEPT !.pend = x], y), cs)
    BY OverlayInv
  <2> QED
    BY <2>1 DEF AskRollback
<1> QED
  BY <1>1, <1>2, <1>3

\* Every key keeps ModelInv.
LEMMA KeyInv ==
  ASSUME NEW n, NEW cs, ModelInv(n, cs),
         NEW o \in CASE n.mode = "browse"  -> BrowseKey(n)
                     [] n.mode = "filter"  -> FilterKey(n)
                     [] n.mode = "overlay" -> OverlayKey(n)
  PROVE  ModelInv(o, cs)
<1>0. n.mode \in Modes
  BY DEF ModelInv, Base, Shape
<1>1. CASE n.mode = "browse"
  <2>1. o \in BrowseKey(n)
    BY <1>1
  <2>2. \/ o \in {Move(n, 1), Move(n, -1), Jump(n, 1), Jump(n, -1)}
        \/ o \in {OpenOverlay(n, Help), [n EXCEPT !.mode = "filter"], Refresh(n),
                  ShowDiff(n)}
        \/ o \in StartEdit(n)
        \/ o \in {n, SetFilter(n, All), AskRollback(n)}
        \/ \E f \in Panes : o = [n EXCEPT !.focus = f]
    BY <2>1 DEF BrowseKey, Panes
  <2>3. CASE o \in {Move(n, 1), Move(n, -1), Jump(n, 1), Jump(n, -1)}
    BY <2>3, MoveInv
  <2>4. CASE o \in {OpenOverlay(n, Help), [n EXCEPT !.mode = "filter"], Refresh(n),
                    ShowDiff(n)}
    <3>1. ModelInv(OpenOverlay(n, Help), cs) /\ ModelInv([n EXCEPT !.mode = "filter"], cs)
      BY OverlayInv DEF Modes
    <3>2. ModelInv(Refresh(n), cs) /\ ModelInv(ShowDiff(n), cs)
      BY RefreshInv, DialogInv
    <3> QED
      BY <2>4, <3>1, <3>2
  <2>5. CASE o \in {n, SetFilter(n, All), AskRollback(n)} \/ o \in StartEdit(n)
    BY <2>5, FilterInv, DialogInv
  <2>6. CASE \E f \in Panes : o = [n EXCEPT !.focus = f]
    BY <2>6, OverlayInv
  <2> QED
    BY <2>2, <2>3, <2>4, <2>5, <2>6
<1>2. CASE n.mode = "filter"
  <2>1. o \in FilterKey(n)
    BY <1>2
  <2>2. ModelInv([n EXCEPT !.mode = "browse"], cs)
    BY OverlayInv DEF Modes
  <2>3. \/ o \in {[n EXCEPT !.mode = "browse"],
                  SetFilter([n EXCEPT !.mode = "browse"], All)}
        \/ \E f \in Filters : o = SetFilter(n, f)
    BY <2>1 DEF FilterKey
  <2> QED
    BY <2>2, <2>3, FilterInv
<1>3. CASE n.mode = "overlay"
  <2> DEFINE c == [call |-> "write", id |-> strokes, pend |-> n.pend]
  <2>1. o \in OverlayKey(n)
    BY <1>3
  <2>2. ModelInv(CloseOverlay(n), cs)
    BY OverlayInv
  <2>3. Faithful(c)
    BY DEF Faithful
  <2>4. ModelInv(Emit(CloseOverlay(n), c), cs)
    BY <2>2, <2>3, EmitInv
  <2> QED
    BY <2>1, <2>2, <2>4 DEF OverlayKey
<1> QED
  BY <1>0, <1>1, <1>2, <1>3 DEF Modes

-----------------------------------------------------------------------------
\* Messages.

\* A list arrives: the one awaited ends the load, any other is dropped.
LEMMA KeysMsgInv ==
  ASSUME NEW n, NEW cs, NEW msg, ModelInv(n, cs), msg.call = "keysMsg"
  PROVE  ModelInv(OnKeys(n, msg), cs \ {msg})
<1> DEFINE rest == cs \ {msg}
<1>0. Base(n, cs) /\ Selected(n, cs) /\ Shape(n)
  BY DEF ModelInv, Base
<1>1. Tied(n, SelectedKey(n), rest)
  BY <1>0 DEF Selected, Tied, AwaitsDetail
<1>2. CASE msg.seq # n.keysSeq
  <2>1. Base(n, rest)
    BY <1>0, <1>2 DEF Base, AwaitsList
  <2> QED
    BY <1>0, <1>1, <1>2, <2>1 DEF OnKeys, ModelInv, Selected
<1>3. CASE msg.seq = n.keysSeq /\ msg.err
  <2> DEFINE o == [n EXCEPT !.loadingKeys = FALSE, !.errMsg = "list"]
  <2>1. /\ Shape(o) /\ o.loadingKeys = FALSE /\ o.errMsg = "list" /\ o.cmds = n.cmds
        /\ o.rows = n.rows /\ o.cur = n.cur /\ o.detail = n.detail
        /\ o.hasDetail = n.hasDetail /\ o.detailSeq = n.detailSeq
        /\ o.detailKey = n.detailKey /\ o.loadingDetail = n.loadingDetail
    BY <1>0 DEF Fields, Shape
  <2>2. SelectedKey(o) = SelectedKey(n)
    BY <2>1 DEF SelectedKey
  <2>3. ModelInv(o, rest)
    BY <1>0, <1>1, <2>1, <2>2 DEF ModelInv, Base, Selected, Tied
  <2> QED
    BY <1>3, <2>3 DEF OnKeys
<1>4. CASE msg.seq = n.keysSeq /\ ~msg.err
  <2> DEFINE o == [n EXCEPT !.loadingKeys = FALSE, !.errMsg = "", !.configs = msg.configs]
  <2>1. /\ Shape(o) /\ o.loadingKeys = FALSE /\ o.cmds = n.cmds
        /\ o.rows = n.rows /\ o.cur = n.cur /\ o.detail = n.detail
        /\ o.hasDetail = n.hasDetail /\ o.detailSeq = n.detailSeq
        /\ o.detailKey = n.detailKey /\ o.loadingDetail = n.loadingDetail
    BY <1>0 DEF Fields, Shape
  <2>2. SelectedKey(o) = SelectedKey(n)
    BY <2>1 DEF SelectedKey
  <2>3. Base(o, rest) /\ Tied(o, SelectedKey(o), rest)
    BY <1>0, <1>1, <2>1, <2>2 DEF Base, Tied
  <2>4. OnKeys(n, msg) = Rebuild(o)
    BY <1>4 DEF OnKeys
  <2> QED
    BY <2>3, <2>4, RebuildInv
<1> QED
  BY <1>2, <1>3, <1>4

\* A detail arrives: it is taken only for the key the detail is tied to.
LEMMA DetailMsgInv ==
  ASSUME NEW n, NEW cs, NEW msg, ModelInv(n, cs), msg.call = "detailMsg", Faithful(msg)
  PROVE  ModelInv(OnDetail(n, msg), cs \ {msg})
<1> DEFINE rest == cs \ {msg}
<1>0. Base(n, cs) /\ Selected(n, cs) /\ Shape(n)
  BY DEF ModelInv, Base
<1>1. Base(n, rest)
  BY <1>0 DEF Base, AwaitsList
<1>2. CASE msg.seq # n.detailSeq \/ msg.key # n.detailKey
  <2>1. Tied(n, SelectedKey(n), rest)
    BY <1>0, <1>2 DEF Selected, Tied, AwaitsDetail
  <2> QED
    BY <1>0, <1>1, <1>2, <2>1 DEF OnDetail, ModelInv, Selected
<1>3. CASE ~(msg.seq # n.detailSeq \/ msg.key # n.detailKey) /\ msg.err
  <2> DEFINE o == [n EXCEPT !.loadingDetail = FALSE, !.hasDetail = FALSE, !.errMsg = "get"]
  <2>1. /\ Shape(o) /\ o.loadingDetail = FALSE /\ o.hasDetail = FALSE /\ o.errMsg = "get"
        /\ o.rows = n.rows /\ o.cur = n.cur /\ o.cmds = n.cmds
        /\ o.keysSeq = n.keysSeq /\ o.loadingKeys = n.loadingKeys
        /\ o.detailKey = n.detailKey
    BY <1>0 DEF Fields, Shape
  <2>2. SelectedKey(o) = SelectedKey(n)
    BY <2>1 DEF SelectedKey
  <2>3. ModelInv(o, rest)
    BY <1>0, <1>1, <2>1, <2>2 DEF ModelInv, Base, Selected, Tied
  <2> QED
    BY <1>3, <2>3 DEF OnDetail
<1>4. CASE ~(msg.seq # n.detailSeq \/ msg.key # n.detailKey) /\ ~msg.err
  <2> DEFINE o == [n EXCEPT !.loadingDetail = FALSE, !.hasDetail = TRUE, !.errMsg = "",
                            !.detail = msg.detail, !.history = msg.history, !.hcur = 1]
  <2>1. /\ Shape(o) /\ o.loadingDetail = FALSE /\ o.hasDetail = TRUE
        /\ o.detail = msg.detail
        /\ o.rows = n.rows /\ o.cur = n.cur /\ o.cmds = n.cmds
        /\ o.keysSeq = n.keysSeq /\ o.loadingKeys = n.loadingKeys
        /\ o.detailKey = n.detailKey
    BY <1>0 DEF Fields, Shape
  <2>2. SelectedKey(o) = SelectedKey(n)
    BY <2>1 DEF SelectedKey
  <2>3. msg.detail.key = n.detailKey
    BY <1>4 DEF Faithful
  <2>4. ModelInv(o, rest)
    BY <1>0, <1>1, <2>1, <2>2, <2>3 DEF ModelInv, Base, Selected, Tied
  <2> QED
    BY <1>4, <2>4 DEF OnDetail
<1> QED
  BY <1>2, <1>3, <1>4

\* A message that ends no load.
LEMMA OtherMsgInv ==
  ASSUME NEW n, NEW cs, NEW msg, ModelInv(n, cs), msg.call \in {"writeMsg", "editedMsg"}
  PROVE  ModelInv(n, cs \ {msg})
  BY DEF ModelInv, Base, Selected, Tied, AwaitsList, AwaitsDetail

\* A write is acknowledged or failed.
LEMMA WriteMsgInv ==
  ASSUME NEW n, NEW cs, NEW msg, ModelInv(n, cs)
  PROVE  ModelInv(OnWrite(n, msg), cs)
<1> DEFINE o == [n EXCEPT !.errMsg = "",
                          !.writes = @ \cup {[key |-> msg.key, version |-> msg.version]}]
           r == LoadKeys(o)
<1>1. CASE msg.err
  BY <1>1, ErrorInv DEF OnWrite
<1>2. CASE ~msg.err
  <2>1. Shape(o) /\ Alike(n, o) /\ o.cmds = n.cmds
    BY DEF ModelInv, Base, Fields, Shape, Alike
  <2>2. SelectedKey(o) = SelectedKey(n)
    BY <2>1 DEF Alike, SelectedKey
  <2>3. Base(o, cs) /\ Tied(o, SelectedKey(o), cs)
    BY <2>1, <2>2 DEF ModelInv, Base, Selected, Tied, Alike
  <2>4. ModelInv(r, cs) /\ SelectedKey(r) = SelectedKey(n)
    BY <2>2, <2>3, LoadKeysInv
  <2>5. Base(r, cs) /\ (r.hasDetail => r.detail.key = SelectedKey(n))
    BY <2>4 DEF ModelInv, Selected, Tied
  <2>6. msg.key = SelectedKey(n) => ModelInv(LoadDetail(r, msg.key), cs)
    BY <2>4, <2>5, LoadDetailInv
  <2>7. OnWrite(n, msg) = IF msg.key = SelectedKey(n) THEN LoadDetail(r, msg.key) ELSE r
    BY <1>2 DEF OnWrite
  <2> QED
    BY <2>4, <2>6, <2>7
<1> QED
  BY <1>1, <1>2

\* The editor is back.
LEMMA EditedMsgInv ==
  ASSUME NEW n, NEW cs, NEW msg, ModelInv(n, cs)
  PROVE  ModelInv(AfterEdit(n, msg), cs)
<1>1. ModelInv([n EXCEPT !.errMsg = "edit"], cs)
  BY ErrorInv
<1>2. \A x : ModelInv([n EXCEPT !.pend = x], cs)
  BY OverlayInv
<1>3. \A x, y : ModelInv(OpenOverlay([n EXCEPT !.pend = x], y), cs)
  BY <1>2, OverlayInv
<1> QED
  BY <1>1, <1>3 DEF AfterEdit

-----------------------------------------------------------------------------
\* Steps.

\* The event loop puts a handler's model in place and starts its commands.
LEMMA BecomeInv ==
  ASSUME NEW n, NEW ds, ModelInv(n, calls \ ds), Become(n, ds),
         \A c \in calls : Faithful(c)
  PROVE  TuiInv'
<1>1. m' = [n EXCEPT !.cmds = {}] /\ calls' = (calls \ ds) \cup n.cmds
  BY DEF Become
<1>2. Shape(m') /\ Alike(n, m') /\ m'.cmds = {} /\ m'.errMsg = n.errMsg
  BY <1>1 DEF ModelInv, Base, Fields, Shape, Alike
<1>3. SelectedKey(m') = SelectedKey(n)
  BY <1>2 DEF Alike, SelectedKey
<1>4. calls' \cup m'.cmds = (calls \ ds) \cup n.cmds
  BY <1>1, <1>2
<1>5. Base(m', calls')
  BY <1>2, <1>4 DEF ModelInv, Base, Alike
<1>6. Selected(m', calls')
  BY <1>2, <1>3, <1>4 DEF ModelInv, Selected, Tied, Alike
<1>7. \A c \in calls' : Faithful(c)
  BY <1>1 DEF ModelInv, Base
<1> QED
  BY <1>2, <1>5, <1>6, <1>7 DEF TuiInv, ModelInv, Base, Selected, Tied, SelectedKey,
     AwaitsList, AwaitsDetail, Shape, Faithful

\* A call goes on to its next stage: a load stays the load it is.
LEMMA AnswerInv ==
  ASSUME TuiInv, UNCHANGED m, NEW c \in calls, NEW msg, Answer(c, msg), Faithful(msg),
         c.call \notin {"keysMsg", "detailMsg"},
         c.call = "list" => msg.call = "keysMsg" /\ msg.seq = c.seq,
         c.call \in {"get", "history"} =>
            msg.call \in {"history", "detailMsg"} /\ msg.seq = c.seq /\ msg.key = c.key
  PROVE  TuiInv'
<1>1. calls' = (calls \ {c}) \cup {msg} /\ m' = m
  BY DEF Answer
<1>2. \A s : AwaitsList(calls, s) => AwaitsList(calls', s)
  BY <1>1 DEF AwaitsList
<1>3. \A s, k : AwaitsDetail(calls, s, k) => AwaitsDetail(calls', s, k)
  BY <1>1 DEF AwaitsDetail
<1>4. calls \cup m.cmds = calls /\ calls' \cup m'.cmds = calls'
  BY <1>1 DEF TuiInv
<1> QED
  BY <1>1, <1>2, <1>3, <1>4 DEF TuiInv, ModelInv, Base, Selected, Tied, SelectedKey

\* The session starts with a list that is being loaded.
LEMMA TuiInit == Init => TuiInv
<1> SUFFICES ASSUME Init PROVE TuiInv
  OBVIOUS
<1> DEFINE n == LoadKeys(NewModel)
<1>1. /\ Shape(NewModel) /\ NewModel.cmds = {} /\ NewModel.loadingKeys = FALSE
      /\ NewModel.hasDetail = FALSE /\ NewModel.detailKey = NoKey
      /\ NewModel.loadingDetail = FALSE /\ NewModel.rows = <<>> /\ NewModel.cur = 1
    BY DEF NewModel, Fields, Shape, Panes, Modes
<1>2. SelectedKey(NewModel) = NoKey
  BY <1>1 DEF SelectedKey
<1>3. Base(NewModel, {}) /\ Tied(NewModel, SelectedKey(NewModel), {})
  BY <1>1, <1>2 DEF Base, Tied
<1>4. ModelInv(n, {})
  BY <1>3, LoadKeysInv
<1>5. m = [n EXCEPT !.cmds = {}] /\ calls = n.cmds
  BY DEF Init, Start
<1>6. Shape(m) /\ Alike(n, m) /\ m.cmds = {} /\ m.errMsg = n.errMsg
  BY <1>4, <1>5 DEF ModelInv, Base, Fields, Shape, Alike
<1>7. SelectedKey(m) = SelectedKey(n)
  BY <1>6 DEF Alike, SelectedKey
<1>8. calls \cup m.cmds = {} \cup n.cmds
  BY <1>5, <1>6
<1>9. Base(m, calls) /\ Selected(m, calls)
  BY <1>4, <1>6, <1>7, <1>8 DEF ModelInv, Base, Selected, Tied, Alike
<1> QED
  BY <1>4, <1>5, <1>6, <1>9 DEF TuiInv, ModelInv, Base

\* Every step is a handler, a call that goes on, or somebody else's.
LEMMA TuiStep == TuiInv /\ [Next]_vars => TuiInv'
<1> SUFFICES ASSUME TuiInv, [Next]_vars PROVE TuiInv'
  OBVIOUS
<1>0. ModelInv(m, calls) /\ \A c \in calls : Faithful(c)
  BY DEF TuiInv
<1>1. UNCHANGED <<m, calls>> => TuiInv'
  BY DEF TuiInv, ModelInv, Base, Selected, Tied, SelectedKey, AwaitsList, AwaitsDetail,
         Shape, Faithful
<1>2. CASE Key
  <2>1. PICK n \in CASE m.mode = "browse"  -> BrowseKey(m)
                     [] m.mode = "filter"  -> FilterKey(m)
                     [] m.mode = "overlay" -> OverlayKey(m) : Become(n, {})
    BY <1>2 DEF Key
  <2>2. calls \ {} = calls
    OBVIOUS
  <2>3. ModelInv(n, calls)
    BY <1>0, KeyInv
  <2> QED
    BY <1>0, <2>1, <2>2, <2>3, BecomeInv
<1>3. CASE QuitKey
  <2>1. calls' = calls \cup {[call |-> "quitMsg"]} /\ m' = m
    BY <1>3 DEF QuitKey
  <2>2. Faithful([call |-> "quitMsg"])
    BY DEF Faithful
  <2>3. calls \cup m.cmds = calls /\ calls' \cup m'.cmds = calls'
    BY <2>1 DEF TuiInv
  <2> QED
    BY <1>0, <2>1, <2>2, <2>3 DEF TuiInv, ModelInv, Base, Selected, Tied, SelectedKey,
       AwaitsList, AwaitsDetail
<1>4. CASE KeysMsg
  <2>1. PICK msg \in Calls("keysMsg") : Become(OnKeys(m, msg), {msg})
    BY <1>4 DEF KeysMsg
  <2>2. ModelInv(OnKeys(m, msg), calls \ {msg})
    BY <1>0, <2>1, KeysMsgInv DEF Calls
  <2> QED
    BY <1>0, <2>1, <2>2, BecomeInv
<1>5. CASE DetailMsg
  <2>1. PICK msg \in Calls("detailMsg") : Become(OnDetail(m, msg), {msg})
    BY <1>5 DEF DetailMsg
  <2>2. ModelInv(OnDetail(m, msg), calls \ {msg})
    BY <1>0, <2>1, DetailMsgInv DEF Calls
  <2> QED
    BY <1>0, <2>1, <2>2, BecomeInv
<1>6. CASE WriteMsg
  <2>1. PICK msg \in Calls("writeMsg") : Become(OnWrite(m, msg), {msg})
    BY <1>6 DEF WriteMsg
  <2>2. ModelInv(m, calls \ {msg})
    BY <1>0, <2>1, OtherMsgInv DEF Calls
  <2>3. ModelInv(OnWrite(m, msg), calls \ {msg})
    BY <2>2, WriteMsgInv
  <2> QED
    BY <1>0, <2>1, <2>3, BecomeInv
<1>7. CASE EditedMsg
  <2>1. PICK msg \in Calls("editedMsg") : Become(AfterEdit(m, msg), {msg})
    BY <1>7 DEF EditedMsg
  <2>2. ModelInv(m, calls \ {msg})
    BY <1>0, <2>1, OtherMsgInv DEF Calls
  <2>3. ModelInv(AfterEdit(m, msg), calls \ {msg})
    BY <2>2, EditedMsgInv
  <2> QED
    BY <1>0, <2>1, <2>3, BecomeInv
<1>8. CASE QuitMsg
  BY <1>1, <1>8 DEF QuitMsg
<1>9. CASE ListAnswers
  <2>1. PICK c \in Calls("list"), err \in BOOLEAN :
          Answer(c, [call |-> "keysMsg", seq |-> c.seq, err |-> err,
                     configs |-> IF err THEN {} ELSE {k \in Keys : Live(k)}])
    BY <1>9 DEF ListAnswers
  <2> DEFINE msg == [call |-> "keysMsg", seq |-> c.seq, err |-> err,
                     configs |-> IF err THEN {} ELSE {k \in Keys : Live(k)}]
  <2>2. Faithful(msg) /\ msg.call = "keysMsg" /\ msg.seq = c.seq
    BY DEF Faithful
  <2>3. c \in calls /\ c.call = "list" /\ m' = m
    BY <1>9 DEF Calls, ListAnswers
  <2> QED
    BY <2>1, <2>2, <2>3, AnswerInv
<1>10. CASE GetAnswers
  <2>1. PICK c \in Calls("get") :
          \/ Answer(c, DetailReply(c, TRUE, NoDetail, <<>>))
          \/ Answer(c, [call |-> "history", seq |-> c.seq, key |-> c.key,
                        detail |-> DetailOf(c.key)])
    BY <1>10 DEF GetAnswers
  <2>2. c \in calls /\ c.call = "get" /\ m' = m
    BY <1>10 DEF Calls, GetAnswers
  <2> DEFINE failed == DetailReply(c, TRUE, NoDetail, <<>>)
             found  == [call |-> "history", seq |-> c.seq, key |-> c.key,
                        detail |-> DetailOf(c.key)]
  <2>3. /\ Faithful(failed) /\ failed.call = "detailMsg"
        /\ failed.seq = c.seq /\ failed.key = c.key
    BY DEF Faithful, DetailReply
  <2>4. /\ Faithful(found) /\ found.call = "history"
        /\ found.seq = c.seq /\ found.key = c.key
    BY DEF Faithful, DetailOf
  <2>5. CASE Answer(c, failed)
    BY <2>2, <2>3, <2>5, AnswerInv
  <2>6. CASE Answer(c, found)
    BY <2>2, <2>4, <2>6, AnswerInv
  <2> QED
    BY <2>1, <2>5, <2>6
<1>11. CASE HistoryAnswers
  <2>1. PICK c \in Calls("history"), err \in BOOLEAN :
          Answer(c, DetailReply(c, FALSE, c.detail, IF err THEN <<>> ELSE HistoryOf(c.key)))
    BY <1>11 DEF HistoryAnswers
  <2>2. c \in calls /\ c.call = "history" /\ m' = m
    BY <1>11 DEF Calls, HistoryAnswers
  <2> DEFINE msg == DetailReply(c, FALSE, c.detail,
                                IF err THEN <<>> ELSE HistoryOf(c.key))
  <2>3. c.detail.key = c.key
    BY <1>0, <2>2 DEF Faithful
  <2>4. /\ Faithful(msg) /\ msg.call = "detailMsg"
        /\ msg.seq = c.seq /\ msg.key = c.key
    BY <2>3 DEF Faithful, DetailReply
  <2> QED
    BY <2>1, <2>2, <2>4, AnswerInv
<1>12. CASE WriteLands \/ WriteFails
  <2>1. PICK c, err, v : c \in Calls("write") /\ Answer(c, WriteReply(c, err, v))
    BY <1>12 DEF WriteLands, WriteFails
  <2>2. c \in calls /\ c.call = "write" /\ m' = m
    BY <1>12, <2>1 DEF Calls, WriteLands, WriteFails
  <2>3. Faithful(WriteReply(c, err, v))
    BY DEF Faithful, WriteReply
  <2> QED
    BY <2>1, <2>2, <2>3, AnswerInv
<1>13. CASE EditorOpens
  <2>1. PICK c \in Calls("editor") : Answer(c, [c EXCEPT !.call = "editing"])
    BY <1>13 DEF EditorOpens
  <2>2. c \in calls /\ c.call = "editor" /\ m' = m
    BY <1>13 DEF Calls, EditorOpens
  <2>3. Faithful([c EXCEPT !.call = "editing"])
    BY <1>0, <2>2 DEF Faithful
  <2> QED
    BY <2>1, <2>2, <2>3, AnswerInv
<1>14. CASE EditorExits
  <2>1. PICK c, e, v : c \in Calls("editing") /\ Answer(c, EditReply(c, e, v))
    BY <1>14 DEF EditorExits
  <2>2. c \in calls /\ c.call = "editing" /\ m' = m
    BY <1>14, <2>1 DEF Calls, EditorExits
  <2>3. Faithful(EditReply(c, e, v))
    BY DEF Faithful, EditReply
  <2> QED
    BY <2>1, <2>2, <2>3, AnswerInv
<1>15. CASE OtherSets \/ OtherDeletes
  BY <1>1, <1>15 DEF OtherSets, OtherDeletes, Other
<1>16. CASE UNCHANGED vars
  BY <1>1, <1>16 DEF vars
<1> QED
  BY <1>2, <1>3, <1>4, <1>5, <1>6, <1>7, <1>8, <1>9, <1>10, <1>11, <1>12, <1>13, <1>14,
     <1>15, <1>16 DEF Next, Update, Backend

-----------------------------------------------------------------------------
\* Every handler keeps the detail tied to the selection, and every load awaited.
THEOREM TuiInvariant == Spec => []TuiInv
  BY TuiInit, TuiStep, PTL DEF Spec

\* The value and the history in view are the selected key's, in whatever order
\* answers arrive and however often the rows change under the cursor.
THEOREM DetailIsTheSelections == Spec => []DetailIsSelected
<1>1. TuiInv => DetailIsSelected
  BY DEF TuiInv, ModelInv, Selected, Tied, DetailIsSelected
<1> QED
  BY TuiInvariant, <1>1, PTL

\* An empty value pane has an error or an awaited load behind it, and every load
\* that is shown as running has its call outstanding.
THEOREM EmptyPaneIsExplained == Spec => []EmptyPaneHasReason
<1>1. TuiInv => EmptyPaneHasReason
  <2> SUFFICES ASSUME TuiInv PROVE EmptyPaneHasReason
    OBVIOUS
  <2>1. calls \cup m.cmds = calls
    BY DEF TuiInv
  <2>2. /\ m.loadingKeys => AwaitsList(calls, m.keysSeq)
        /\ m.loadingDetail => AwaitsDetail(calls, m.detailSeq, SelectedKey(m))
        /\ SelectedKey(m) # NoKey /\ ~m.hasDetail =>
              m.loadingDetail \/ m.loadingKeys \/ m.errMsg # ""
    BY <2>1 DEF TuiInv, ModelInv, Base, Selected, Tied
  <2> QED
    BY <2>2 DEF EmptyPaneHasReason, AwaitsList, AwaitsDetail
<1> QED
  BY TuiInvariant, <1>1, PTL

(***************************************************************************)
(* What the terminal interface writes was shown, and shows afterwards.     *)
(*                                                                         *)
(* A confirmed write stores the text of the preview it was confirmed in:   *)
(* for a rollback the text comes from a history that was loaded earlier,   *)
(* so the argument needs that histories are append-only and that the       *)
(* cursor is inside them.  Once the reload after a write has answered, the *)
(* detail is no older than the write: here the argument is about the       *)
(* sequence numbers, which let only the newest load through.  Last, the    *)
(* cursors: whatever list replaces the rows, the last row is a key's, so   *)
(* that there is a row to fall back to.                                    *)
(***************************************************************************)

Stored == [value : Values, live : BOOLEAN]

DbInv == db \in [Keys -> Seq(Stored)]

\* The history of a key as some answer had it.
HistoryInv(h, k) ==
    \A i \in 1 .. Len(h) :
        /\ h[i].version \in 1 .. Len(db[k])
        /\ db[k][h[i].version].value = h[i].value

\* A write that can be done.
PendInv(p) ==
    /\ p.key \in Keys
    /\ p.kind = "set" => p.value \in Values
    /\ p.kind # "set" => p.version \in 1 .. Len(db[p.key])

InView(n) ==
    /\ n.history \in Seq(Entry) /\ n.hcur \in Int
    /\ n.history # <<>> => n.hcur \in 1 .. Len(n.history)
    /\ n.hasDetail => /\ n.detail.key \in Keys /\ n.detail.value \in Values
                      /\ HistoryInv(n.history, n.detail.key)

\* What is pending is what the overlay shows.
Shown(n) ==
    n.pend # NoPend =>
        /\ PendInv(n.pend)
        /\ n.mode = "overlay" /\ Shows(n.overlay, n.pend)

CallInv(c) ==
    /\ c.call \in {"editor", "editing"} => "format" \in DOMAIN c /\ c.format \in Formats
    /\ c.call = "history" => c.key \in Keys /\ c.detail.value \in Values
    /\ c.call = "detailMsg" /\ ~c.err =>
          c.key \in Keys /\ c.detail.value \in Values /\ c.history \in Seq(Entry) /\ HistoryInv(c.history, c.key)
    /\ c.call = "editedMsg" /\ ~c.err => c.value \in Values
    /\ c.call = "write" => PendInv(c.pend)

PreviewInv ==
    TuiInv /\ DbInv /\ InView(m) /\ Shown(m) /\ \A c \in calls : CallInv(c)

-----------------------------------------------------------------------------
\* Histories.

\* Histories only grow.
Grows ==
    \A k \in Keys :
        /\ Len(db'[k]) >= Len(db[k])
        /\ \A i \in 1 .. Len(db[k]) : db'[k][i] = db[k][i]

\* A write appends one entry.
LEMMA AppendGrows ==
  ASSUME DbInv, NEW k \in Keys, NEW e \in Stored,
         db' = [db EXCEPT ![k] = Append(@, e)]
  PROVE  DbInv' /\ Grows
<1>1. \A j \in Keys : db[j] \in Seq(Stored)
  BY DEF DbInv
<1>2. Append(db[k], e) \in Seq(Stored)
  BY <1>1
<1>3. DbInv'
  BY <1>1, <1>2 DEF DbInv
<1>4. ASSUME NEW j \in Keys
      PROVE  /\ Len(db'[j]) >= Len(db[j])
             /\ \A i \in 1 .. Len(db[j]) : db'[j][i] = db[j][i]
  <2>1. Len(db[j]) \in Nat /\ db[j] \in Seq(Stored)
    BY <1>1
  <2>2. CASE j # k
    <3>1. db'[j] = db[j]
      BY <2>2 DEF DbInv
    <3> QED
      BY <2>1, <3>1
  <2>3. CASE j = k
    <3>1. db'[j] = Append(db[j], e)
      BY <2>3 DEF DbInv
    <3> QED
      BY <2>1, <3>1
  <2> QED
    BY <2>2, <2>3
<1> QED
  BY <1>3, <1>4 DEF Grows

\* What was read of a history stays true of it.
LEMMA GrowthKeeps ==
  ASSUME DbInv, Grows
  PROVE  /\ \A h : \A k \in Keys : HistoryInv(h, k) => HistoryInv(h, k)'
         /\ \A p : PendInv(p) => PendInv(p)' /\ Written(p)' = Written(p)
<1>0. \A k \in Keys : Len(db[k]) \in Nat
  BY DEF DbInv
<1>1. ASSUME NEW h, NEW k \in Keys, HistoryInv(h, k) PROVE HistoryInv(h, k)'
  <2> SUFFICES ASSUME NEW i \in 1 .. Len(h)
               PROVE  /\ h[i].version \in 1 .. Len(db'[k])
                      /\ db'[k][h[i].version].value = h[i].value
    BY DEF HistoryInv
  <2>1. h[i].version \in 1 .. Len(db[k]) /\ db[k][h[i].version].value = h[i].value
    BY <1>1 DEF HistoryInv
  <2> QED
    BY <2>1 DEF Grows
<1>2. ASSUME NEW p, PendInv(p) PROVE PendInv(p)' /\ Written(p)' = Written(p)
  <2>1. PendInv(p)'
    BY <1>0, <1>2 DEF PendInv, Grows
  <2>2. Written(p)' = Written(p)
    BY <1>2 DEF PendInv, Written, Grows
  <2> QED
    BY <2>1, <2>2
<1> QED
  BY <1>1, <1>2

-----------------------------------------------------------------------------
\* Handlers that leave the overlay and what is pending alone, and start no write.

Harmless(c) ==
    \/ c.call \in {"list", "get"}
    \/ c.call = "editor" /\ "format" \in DOMAIN c /\ c.format \in Formats

NoNewWrite(n, o) == \A c \in o.cmds : c \in n.cmds \/ Harmless(c)

Quiet(n, o) ==
    /\ Shape(o) /\ o.mode = n.mode /\ o.pend = n.pend /\ o.overlay = n.overlay
    /\ NoNewWrite(n, o)
    /\ InView(o)

SameView(n, o) ==
    /\ o.hasDetail = n.hasDetail /\ o.detail = n.detail
    /\ o.history = n.history /\ o.hcur = n.hcur

\* The view depends on the detail, the history and its cursor.
LEMMA SameViewInv ==
  ASSUME NEW n, NEW o, InView(n), SameView(n, o)
  PROVE  InView(o)
  BY DEF InView, SameView

\* Two quiet handlers in a row are quiet.
LEMMA QuietTwice ==
  ASSUME NEW n, NEW o, NEW r, Quiet(n, o), Quiet(o, r)
  PROVE  Quiet(n, r)
  BY DEF Quiet, NoNewWrite

\* A load is started.
LEMMA LoadsQuiet ==
  ASSUME NEW n, Shape(n), InView(n)
  PROVE  Quiet(n, LoadKeys(n)) /\ \A k : Quiet(n, LoadDetail(n, k))
<1>1. Quiet(n, LoadKeys(n))
  <2> DEFINE o == LoadKeys(n)
  <2>1. /\ Shape(o) /\ o.mode = n.mode /\ o.pend = n.pend /\ o.overlay = n.overlay
        /\ o.cmds = n.cmds \cup {[call |-> "list", seq |-> n.keysSeq + 1]}
        /\ SameView(n, o)
    BY DEF LoadKeys, Emit, Fields, Shape, SameView
  <2>2. NoNewWrite(n, o)
    BY <2>1 DEF NoNewWrite, Harmless
  <2> QED
    BY <2>1, <2>2, SameViewInv DEF Quiet
<1>2. ASSUME NEW k PROVE Quiet(n, LoadDetail(n, k))
  <2> DEFINE o == LoadDetail(n, k)
  <2>1. /\ Shape(o) /\ o.mode = n.mode /\ o.pend = n.pend /\ o.overlay = n.overlay
        /\ o.cmds = n.cmds \cup {[call |-> "get", seq |-> n.detailSeq + 1, key |-> k]}
        /\ SameView(n, o)
    BY DEF LoadDetail, Emit, Fields, Shape, SameView
  <2>2. NoNewWrite(n, o)
    BY <2>1 DEF NoNewWrite, Harmless
  <2> QED
    BY <2>1, <2>2, SameViewInv DEF Quiet
<1> QED
  BY <1>1, <1>2

\* The selection is followed.
LEMMA SyncDetailQuiet ==
  ASSUME NEW n, NEW prev, Shape(n), InView(n)
  PROVE  Quiet(n, SyncDetail(n, prev))
<1> DEFINE k == SelectedKey(n)
           cleared == [n EXCEPT !.hcur = 1, !.hasDetail = FALSE,
                                !.detail = NoDetail, !.history = <<>>]
           nothing == [cleared EXCEPT !.detailSeq = @ + 1, !.detailKey = NoKey,
                                      !.loadingDetail = FALSE]
<1>1. /\ Shape(cleared) /\ cleared.mode = n.mode /\ cleared.pend = n.pend
      /\ cleared.overlay = n.overlay /\ cleared.cmds = n.cmds
      /\ cleared.hasDetail = FALSE /\ cleared.history = <<>> /\ cleared.hcur = 1
  BY DEF Fields, Shape
<1>2. /\ Shape(nothing) /\ nothing.mode = n.mode /\ nothing.pend = n.pend
      /\ nothing.overlay = n.overlay /\ nothing.cmds = n.cmds
      /\ nothing.hasDetail = FALSE /\ nothing.history = <<>> /\ nothing.hcur = 1
  BY <1>1 DEF Fields, Shape
<1>3. ASSUME NEW o, o.hasDetail = FALSE, o.history = <<>>, o.hcur = 1 PROVE InView(o)
  BY <1>3 DEF InView
<1>4. Quiet(n, n) /\ Quiet(n, cleared) /\ Quiet(n, nothing)
  BY <1>1, <1>2, <1>3 DEF Quiet, NoNewWrite
<1>5. Quiet(n, LoadDetail(cleared, k))
  <2>1. Quiet(cleared, LoadDetail(cleared, k))
    BY <1>4, LoadsQuiet DEF Quiet
  <2> QED
    BY <1>4, <2>1, QuietTwice
<1>6. \/ SyncDetail(n, prev) = n
      \/ SyncDetail(n, prev) = nothing
      \/ SyncDetail(n, prev) = LoadDetail(cleared, k)
  <2>1. CASE k = prev /\ (n.hasDetail \/ k = NoKey)
    BY <2>1 DEF SyncDetail
  <2>2. CASE k = NoKey /\ prev # NoKey
    BY <2>2 DEF SyncDetail
  <2>3. CASE ~(k = prev /\ (n.hasDetail \/ k = NoKey)) /\ ~(k = NoKey /\ prev # NoKey)
    BY <2>3 DEF SyncDetail
  <2> QED
    BY <2>1, <2>2, <2>3
<1> QED
  BY <1>4, <1>5, <1>6

\* The rows or the cursor change, and the selection is followed.
LEMMA SelectionQuiet ==
  ASSUME NEW n, Shape(n), InView(n)
  PROVE  /\ Quiet(n, Rebuild(n))
         /\ \A i : Quiet(n, SyncDetail([n EXCEPT !.cur = i], SelectedKey(n)))
<1>1. ASSUME NEW r, NEW i, NEW prev
      PROVE  Quiet(n, SyncDetail([[n EXCEPT !.rows = r] EXCEPT !.cur = i], prev))
  <2> DEFINE o == [[n EXCEPT !.rows = r] EXCEPT !.cur = i]
  <2>1. /\ Shape(o) /\ o.mode = n.mode /\ o.pend = n.pend /\ o.overlay = n.overlay
        /\ o.cmds = n.cmds /\ SameView(n, o)
    BY DEF Fields, Shape, SameView
  <2>2. Quiet(n, o)
    BY <2>1, SameViewInv DEF Quiet, NoNewWrite
  <2>3. Quiet(o, SyncDetail(o, prev))
    BY <2>2, SyncDetailQuiet DEF Quiet
  <2> QED
    BY <2>2, <2>3, QuietTwice
<1>2. Quiet(n, Rebuild(n))
  BY <1>1 DEF Rebuild
<1>3. ASSUME NEW i, NEW prev
      PROVE  Quiet(n, SyncDetail([n EXCEPT !.cur = i], prev))
  <2> DEFINE o == [n EXCEPT !.cur = i]
  <2>1. /\ Shape(o) /\ o.mode = n.mode /\ o.pend = n.pend /\ o.overlay = n.overlay
        /\ o.cmds = n.cmds /\ SameView(n, o)
    BY DEF Fields, Shape, SameView
  <2>2. Quiet(n, o)
    BY <2>1, SameViewInv DEF Quiet, NoNewWrite
  <2>3. Quiet(o, SyncDetail(o, prev))
    BY <2>2, SyncDetailQuiet DEF Quiet
  <2> QED
    BY <2>2, <2>3, QuietTwice
<1> QED
  BY <1>2, <1>3

\* Max and Min of two integers.
LEMMA MaxMin ==
  ASSUME NEW a \in Int, NEW b \in Int
  PROVE  /\ Max({a, b}) = IF a >= b THEN a ELSE b
         /\ Min({a, b}) = IF a <= b THEN a ELSE b
<1>1. Max({a, b}) \in {a, b} /\ \A z \in {a, b} : Max({a, b}) >= z
  <2>1. \E x \in {a, b} : \A z \in {a, b} : x >= z
    OBVIOUS
  <2> QED
    BY <2>1 DEF Max
<1>2. Min({a, b}) \in {a, b} /\ \A z \in {a, b} : Min({a, b}) =< z
  <2>1. \E x \in {a, b} : \A z \in {a, b} : x =< z
    OBVIOUS
  <2> QED
    BY <2>1 DEF Min
<1> QED
  BY <1>1, <1>2

\* The history's cursor stays inside the history.
LEMMA ClampInside ==
  ASSUME NEW v \in Int, NEW n \in Nat \ {0}
  PROVE  Clamp(v, 1, n) \in 1 .. n /\ Max({1, n}) = n
<1>2. Max({1, n}) = n
  BY MaxMin
<1>3. PICK c \in Int : c = Max({v, 1}) /\ c >= 1
  BY MaxMin
<1>4. Min({c, n}) \in 1 .. n
  <2>1. c \in Int /\ n \in Int
    OBVIOUS
  <2>2. Min({c, n}) = IF c <= n THEN c ELSE n
    BY <2>1, MaxMin
  <2> QED
    BY <1>3, <2>2
<1>5. Clamp(v, 1, n) = Min({c, n})
  BY <1>3 DEF Clamp
<1> QED
  BY <1>2, <1>4, <1>5

\* A step of the cursor in any pane.
LEMMA MoveQuiet ==
  ASSUME NEW n, Shape(n), InView(n), NEW d \in Int
  PROVE  Quiet(n, Move(n, d)) /\ Quiet(n, Jump(n, d))
<1>1. CASE n.focus = "keys"
  <2>1. Quiet(n, MoveKeys(n, d))
    <3>1. Quiet(n, n)
      BY DEF Quiet, NoNewWrite
    <3> QED
      BY <3>1, SelectionQuiet DEF MoveKeys
  <2>2. Move(n, d) = MoveKeys(n, d)
    BY <1>1 DEF Move
  <2>3. Jump(n, d) =
          SyncDetail([n EXCEPT !.cur = IF d < 0 THEN FirstKeyRow(n) ELSE LastKeyRow(n)],
                     SelectedKey(n))
    BY <1>1 DEF Jump
  <2>4. Quiet(n, Jump(n, d))
    BY <2>3, SelectionQuiet
  <2> QED
    BY <2>1, <2>2, <2>4
<1>2. CASE n.focus = "value"
  BY <1>2 DEF Move, Jump, Quiet, NoNewWrite
<1>3. CASE n.focus = "history"
  <2>1. ASSUME NEW x \in Int, n.history # <<>> => x \in 1 .. Len(n.history)
        PROVE  Quiet(n, [n EXCEPT !.hcur = x])
    <3> DEFINE o == [n EXCEPT !.hcur = x]
    <3>1. /\ Shape(o) /\ o.mode = n.mode /\ o.pend = n.pend /\ o.overlay = n.overlay
          /\ o.cmds = n.cmds /\ o.hcur = x /\ o.history = n.history
          /\ o.detail = n.detail /\ o.hasDetail = n.hasDetail
      BY DEF Fields, Shape
    <3>2. InView(o)
      BY <2>1, <3>1 DEF InView
    <3> QED
      BY <3>1, <3>2 DEF Quiet, NoNewWrite
  <2> DEFINE L == Len(n.history)
             c == Clamp(n.hcur + d, 1, L)
             e == IF d < 0 THEN 1 ELSE Max({1, L})
  <2>2. n.hcur + d \in Int /\ L \in Nat /\ (n.history = <<>> <=> L = 0)
    BY DEF InView
  <2>3. CASE n.history = <<>>
    <3>1. c = 1
      BY <2>2, <2>3 DEF Clamp
    <3>2. e \in Int
      <4>1. PICK l \in Int : l = L
        BY <2>2
      <4>2. Max({1, l}) = IF 1 >= l THEN 1 ELSE l
        BY MaxMin
      <4>3. Max({1, l}) \in Int
        BY <4>2
      <4> QED
        BY <4>1, <4>3
    <3> HIDE DEF c, e
    <3>3. c \in Int
      BY <3>1
    <3>4. Quiet(n, [n EXCEPT !.hcur = c])
      BY <2>1, <2>3, <3>3, Zenon
    <3>5. Quiet(n, [n EXCEPT !.hcur = e])
      BY <2>1, <2>3, <3>2, Zenon
    <3>6. Move(n, d) = [n EXCEPT !.hcur = c] /\ Jump(n, d) = [n EXCEPT !.hcur = e]
      BY <1>3 DEF Move, Jump, c, e
    <3> QED
      BY <3>4, <3>5, <3>6
  <2>4. CASE n.history # <<>>
    <3>1. c \in 1 .. L /\ e \in 1 .. L
      <4>1. PICK l \in Nat \ {0}, v \in Int : l = L /\ v = n.hcur + d
        BY <2>2, <2>4
      <4>2. Clamp(v, 1, l) \in 1 .. l /\ Max({1, l}) = l
        BY ClampInside
      <4> QED
        BY <4>1, <4>2
    <3> HIDE DEF c, e
    <3>2. Quiet(n, [n EXCEPT !.hcur = c]) /\ Quiet(n, [n EXCEPT !.hcur = e])
      BY <2>1, <2>2, <3>1
    <3>3. Move(n, d) = [n EXCEPT !.hcur = c] /\ Jump(n, d) = [n EXCEPT !.hcur = e]
      BY <1>3 DEF Move, Jump, c, e
    <3> QED
      BY <3>2, <3>3
  <2> QED
    BY <2>3, <2>4
<1> QED
  BY <1>1, <1>2, <1>3 DEF Shape, Panes

\* The list is loaded again, or filtered otherwise; the editor opens.
LEMMA BrowseQuiet ==
  ASSUME NEW n, Shape(n), InView(n)
  PROVE  /\ Quiet(n, Refresh(n)) /\ \A o \in StartEdit(n) : Quiet(n, o)
         /\ \A f : Quiet(n, SetFilter(n, f))
<1>0. Quiet(n, n)
  BY DEF Quiet, NoNewWrite
<1>1. Quiet(n, Refresh(n))
  <2>1. Quiet(n, LoadKeys(n))
    BY LoadsQuiet
  <2>2. Quiet(LoadKeys(n), LoadDetail(LoadKeys(n), SelectedKey(n)))
    BY <2>1, LoadsQuiet DEF Quiet
  <2> QED
    BY <2>1, <2>2, QuietTwice DEF Refresh
<1>2. ASSUME NEW r \in StartEdit(n) PROVE Quiet(n, r)
  <2> DEFINE c == [call |-> "editor", id |-> strokes, key |-> n.detail.key,
                   format |-> n.detail.value.format]
             o == Emit(n, c)
             failed == [n EXCEPT !.errMsg = "edit"]
  <2>1. /\ Shape(o) /\ o.mode = n.mode /\ o.pend = n.pend /\ o.overlay = n.overlay
        /\ o.cmds = n.cmds \cup {c} /\ SameView(n, o)
    BY DEF Emit, Fields, Shape, SameView
  <2>2. ASSUME n.hasDetail PROVE NoNewWrite(n, o)
    <3>1. n.detail.value.format \in Formats
      BY <2>2 DEF InView, Values
    <3>2. Harmless(c)
      BY <3>1 DEF Harmless
    <3> HIDE DEF c
    <3> QED
      BY <2>1, <3>2 DEF NoNewWrite
  <2>3. n.hasDetail => Quiet(n, o)
    BY <2>1, <2>2, SameViewInv DEF Quiet
  <2>4. /\ Shape(failed) /\ failed.mode = n.mode /\ failed.pend = n.pend
        /\ failed.overlay = n.overlay /\ failed.cmds = n.cmds /\ SameView(n, failed)
    BY DEF Fields, Shape, SameView
  <2>5. Quiet(n, failed)
    BY <2>4, SameViewInv DEF Quiet, NoNewWrite
  <2> QED
    BY <1>0, <2>3, <2>5 DEF StartEdit
<1>3. ASSUME NEW f PROVE Quiet(n, SetFilter(n, f))
  <2> DEFINE o == [n EXCEPT !.filter = f]
  <2>1. /\ Shape(o) /\ o.mode = n.mode /\ o.pend = n.pend /\ o.overlay = n.overlay
        /\ o.cmds = n.cmds /\ SameView(n, o)
    BY DEF Fields, Shape, SameView
  <2>2. Quiet(n, o)
    BY <2>1, SameViewInv DEF Quiet, NoNewWrite
  <2>3. Quiet(o, Rebuild(o))
    BY <2>2, SelectionQuiet DEF Quiet
  <2> QED
    BY <2>2, <2>3, QuietTwice DEF SetFilter
<1> QED
  BY <1>1, <1>2, <1>3

-----------------------------------------------------------------------------
\* Handlers that open and confirm previews.

\* A preview opens for the selected key, over the value in view ...
Proposed(n, o) ==
    o.pend # n.pend /\ o.pend # NoPend =>
        /\ o.pend.key = SelectedKey(n)
        /\ n.hasDetail /\ o.overlay.from = n.detail.value.text
        /\ o.overlay.from = o.overlay.to =>
              /\ o.overlay.named[1] = n.detail.value.format
              /\ o.overlay.named[1] # o.overlay.named[2]

\* ... and a write that starts is the one the overlay shows.
Confirmed(n, o) ==
    \A c \in o.cmds :
        \/ Harmless(c)
        \/ /\ c.call = "write" /\ PendInv(c.pend)
           /\ n.mode = "overlay" /\ Shows(n.overlay, c.pend)

Good(n, o) == InView(o) /\ Shown(o) /\ Proposed(n, o) /\ Confirmed(n, o)

\* Before a handler runs.
Ready(n) ==
    /\ Shape(n) /\ InView(n) /\ Shown(n) /\ n.cmds = {}
    /\ n.hasDetail => n.detail.key = SelectedKey(n)

\* A quiet handler keeps what is pending and what shows it.
LEMMA QuietGood ==
  ASSUME NEW n, NEW o, Ready(n), Quiet(n, o)
  PROVE  Good(n, o)
  BY DEF Ready, Quiet, NoNewWrite, Good, Shown, Proposed, Confirmed

\* A handler may leave nothing pending.
LEMMA IdleGood ==
  ASSUME NEW n, NEW o, Ready(n), InView(o), NoNewWrite(n, o), o.pend = NoPend
  PROVE  Good(n, o)
  BY DEF Ready, NoNewWrite, Good, Shown, Proposed, Confirmed

\* Outside an overlay nothing is pending.
LEMMA NothingPending ==
  ASSUME NEW n, Ready(n), n.mode # "overlay"
  PROVE  n.pend = NoPend
  BY DEF Ready, Shown

\* A handler that starts nothing and keeps the view.
Left(n, o) == Shape(o) /\ InView(o) /\ o.cmds = n.cmds

\* What opening an overlay leaves alone.
LEMMA OpenFields ==
  ASSUME NEW n, Shape(n), InView(n), NEW x
  PROVE  Left(n, OpenOverlay(n, x)) /\ OpenOverlay(n, x).pend = n.pend
         /\ OpenOverlay(n, x).mode = "overlay" /\ OpenOverlay(n, x).overlay = x
<1> DEFINE o == OpenOverlay(n, x)
<1>1. Shape(o) /\ SameView(n, o) /\ o.cmds = n.cmds /\ o.pend = n.pend
      /\ o.mode = "overlay" /\ o.overlay = x
  BY DEF OpenOverlay, Fields, Shape, Panes, Modes, SameView
<1> QED
  BY <1>1, SameViewInv DEF Left

\* What closing one does.
LEMMA CloseFields ==
  ASSUME NEW n, Shape(n), InView(n)
  PROVE  Left(n, CloseOverlay(n)) /\ CloseOverlay(n).pend = NoPend
<1> DEFINE o == CloseOverlay(n)
<1>1. Shape(o) /\ SameView(n, o) /\ o.cmds = n.cmds /\ o.pend = NoPend
  BY DEF CloseOverlay, Fields, Shape, Panes, Modes, SameView
<1> QED
  BY <1>1, SameViewInv DEF Left

\* The focus moves.
LEMMA FocusFields ==
  ASSUME NEW n, Shape(n), InView(n), NEW x \in Panes
  PROVE  Left(n, [n EXCEPT !.focus = x]) /\ [n EXCEPT !.focus = x].pend = n.pend
<1> DEFINE o == [n EXCEPT !.focus = x]
<1>1. Shape(o) /\ SameView(n, o) /\ o.cmds = n.cmds /\ o.pend = n.pend
  BY DEF Fields, Shape, Panes, Modes, SameView
<1> QED
  BY <1>1, SameViewInv DEF Left

\* The filter is opened or closed.
LEMMA ModeFields ==
  ASSUME NEW n, Shape(n), InView(n), NEW x \in Modes
  PROVE  Left(n, [n EXCEPT !.mode = x]) /\ [n EXCEPT !.mode = x].pend = n.pend
<1> DEFINE o == [n EXCEPT !.mode = x]
<1>1. Shape(o) /\ SameView(n, o) /\ o.cmds = n.cmds /\ o.pend = n.pend
  BY DEF Fields, Shape, Panes, Modes, SameView
<1> QED
  BY <1>1, SameViewInv DEF Left

\* A write is proposed.
LEMMA PendFields ==
  ASSUME NEW n, Shape(n), InView(n), NEW x
  PROVE  Left(n, [n EXCEPT !.pend = x]) /\ [n EXCEPT !.pend = x].pend = x
<1> DEFINE o == [n EXCEPT !.pend = x]
<1>1. Shape(o) /\ SameView(n, o) /\ o.cmds = n.cmds /\ o.pend = x
  BY DEF Fields, Shape, Panes, Modes, SameView
<1> QED
  BY <1>1, SameViewInv DEF Left

\* A preview for the selected key, over the value in view.
LEMMA PreviewGood ==
  ASSUME NEW n, Ready(n), n.hasDetail, NEW p, PendInv(p), p.key = n.detail.key,
         NEW v, v = Written(p),
         v.text = n.detail.value.text => v.format # n.detail.value.format
  PROVE  Good(n, OpenOverlay([n EXCEPT !.pend = p], Preview(p.key, n.detail.value, v)))
<1> DEFINE q == [n EXCEPT !.pend = p]
           x == Preview(p.key, n.detail.value, v)
           o == OpenOverlay(q, x)
<1>1. Shape(q) /\ InView(q) /\ q.cmds = {} /\ q.pend = p
  BY PendFields DEF Ready, Left
<1> HIDE DEF q, x
<1>2. InView(o) /\ o.cmds = {} /\ o.pend = p /\ o.mode = "overlay" /\ o.overlay = x
  BY <1>1, OpenFields DEF Left
<1>3. /\ x.kind = "confirm" /\ x.key = p.key /\ x.from = n.detail.value.text /\ x.to = v.text
      /\ x.from = x.to => x.named = <<n.detail.value.format, v.format>>
  BY DEF Preview, x
<1> HIDE DEF o
<1>4. Good(n, o)
  BY <1>2, <1>3 DEF Ready, Good, Shown, Shows, Proposed, Confirmed
<1> QED
  BY <1>4 DEF o, q, x

\* A comparison shows and proposes nothing; a rollback proposes what it shows.
LEMMA RollbackGood ==
  ASSUME NEW n, Ready(n), n.pend = NoPend, DbInv
  PROVE  Good(n, ShowDiff(n)) /\ Good(n, AskRollback(n))
<1>0. Shape(n) /\ InView(n) /\ n.cmds = {}
  BY DEF Ready
<1>1. Good(n, n)
  BY <1>0, IdleGood DEF NoNewWrite
<1>2. ASSUME NEW x PROVE Good(n, OpenOverlay(n, x))
  <2>1. Left(n, OpenOverlay(n, x)) /\ OpenOverlay(n, x).pend = n.pend
    BY <1>0, OpenFields
  <2> QED
    BY <1>0, <2>1, IdleGood DEF Left, NoNewWrite
<1>3. Good(n, ShowDiff(n))
  BY <1>1, <1>2 DEF ShowDiff
<1>4. CASE ~n.hasDetail \/ n.history = <<>> \/ (SameText(n) /\ SameFormat(n))
  BY <1>1, <1>3, <1>4 DEF AskRollback
<1>5. CASE ~(~n.hasDetail \/ n.history = <<>> \/ (SameText(n) /\ SameFormat(n)))
  <2> DEFINE e == n.history[n.hcur]
             p == PendRollback(n.detail.key, e.version)
  <2>1. /\ n.hasDetail /\ n.detail.key \in Keys
        /\ e.version \in 1 .. Len(db[n.detail.key])
        /\ db[n.detail.key][e.version].value = e.value
        /\ e.value.text = n.detail.value.text => e.value.format # n.detail.value.format
    BY <1>0, <1>5 DEF InView, HistoryInv, SameText, SameFormat
  <2>2. p.key = n.detail.key /\ p.kind = "rollback" /\ p.version = e.version
    BY DEF PendRollback
  <2>3. PendInv(p) /\ e.value = Written(p)
    BY <2>1, <2>2 DEF PendInv, Written
  <2>4. AskRollback(n) = OpenOverlay([n EXCEPT !.pend = p],
                                     Preview(n.detail.key, n.detail.value, e.value))
    BY <1>5 DEF AskRollback
  <2>5. Good(n, OpenOverlay([n EXCEPT !.pend = p], Preview(p.key, n.detail.value, e.value)))
    <3> HIDE DEF p, e
    <3> QED
      BY <2>1, <2>2, <2>3, PreviewGood
  <2> QED
    BY <1>3, <2>2, <2>4, <2>5
<1> QED
  BY <1>4, <1>5

\* Every key.
LEMMA KeyGood ==
  ASSUME NEW n, Ready(n), DbInv,
         NEW o \in CASE n.mode = "browse"  -> BrowseKey(n)
                     [] n.mode = "filter"  -> FilterKey(n)
                     [] n.mode = "overlay" -> OverlayKey(n)
  PROVE  Good(n, o)
<1>0. Shape(n) /\ InView(n) /\ n.cmds = {} /\ n.mode \in Modes
  BY DEF Ready, Shape
<1>1. Quiet(n, n)
  BY <1>0 DEF Quiet, NoNewWrite
<1>2. CASE n.mode = "browse"
  <2>0. n.pend = NoPend
    BY <1>2, NothingPending
  <2>1. o \in BrowseKey(n)
    BY <1>2
  <2>2. \/ o \in {Move(n, 1), Move(n, -1), Jump(n, 1), Jump(n, -1)}
        \/ o \in {n, Refresh(n), SetFilter(n, All)}
        \/ o \in StartEdit(n)
        \/ o \in {ShowDiff(n), AskRollback(n)}
        \/ o \in {OpenOverlay(n, Help), [n EXCEPT !.mode = "filter"]}
        \/ \E f \in Panes : o = [n EXCEPT !.focus = f]
    BY <2>1 DEF BrowseKey, Panes
  <2>3. CASE o \in {Move(n, 1), Move(n, -1), Jump(n, 1), Jump(n, -1)}
    <3>1. \A d \in {1, -1} : Quiet(n, Move(n, d)) /\ Quiet(n, Jump(n, d))
      BY <1>0, MoveQuiet
    <3> QED
      BY <2>3, <3>1, QuietGood
  <2>4. CASE o \in {n, Refresh(n), SetFilter(n, All)} \/ o \in StartEdit(n)
    BY <1>0, <1>1, <2>4, BrowseQuiet, QuietGood
  <2>5. CASE o \in {ShowDiff(n), AskRollback(n)}
    BY <2>0, <2>5, RollbackGood
  <2>6. CASE o \in {OpenOverlay(n, Help), [n EXCEPT !.mode = "filter"]}
    <3>1. Left(n, OpenOverlay(n, Help)) /\ OpenOverlay(n, Help).pend = n.pend
      BY <1>0, OpenFields
    <3>2. "filter" \in Modes
      BY DEF Modes
    <3>3. /\ Left(n, [n EXCEPT !.mode = "filter"])
          /\ [n EXCEPT !.mode = "filter"].pend = n.pend
      BY <1>0, <3>2, ModeFields
    <3>4. Left(n, o) /\ o.pend = NoPend
      BY <2>0, <2>6, <3>1, <3>3
    <3> QED
      BY <1>0, <3>4, IdleGood DEF Left, NoNewWrite
  <2>7. CASE \E f \in Panes : o = [n EXCEPT !.focus = f]
    <3>1. PICK f \in Panes : o = [n EXCEPT !.focus = f]
      BY <2>7
    <3>2. Left(n, [n EXCEPT !.focus = f]) /\ [n EXCEPT !.focus = f].pend = n.pend
      BY <1>0, FocusFields
    <3>3. Left(n, o) /\ o.pend = NoPend
      BY <2>0, <3>1, <3>2
    <3> QED
      BY <1>0, <3>3, IdleGood DEF Left, NoNewWrite
  <2> QED
    BY <2>2, <2>3, <2>4, <2>5, <2>6, <2>7
<1>3. CASE n.mode = "filter"
  <2> DEFINE b == [n EXCEPT !.mode = "browse"]
  <2>0. n.pend = NoPend
    BY <1>3, NothingPending
  <2>1. o \in FilterKey(n)
    BY <1>3
  <2>2. o = b \/ o = SetFilter(b, All) \/ \E f \in Filters : o = SetFilter(n, f)
    BY <2>1 DEF FilterKey
  <2>3. Left(n, b) /\ b.pend = NoPend
    <3>1. "browse" \in Modes
      BY DEF Modes
    <3> QED
      BY <1>0, <2>0, <3>1, ModeFields
  <2>4. Good(n, b)
    BY <1>0, <2>3, IdleGood DEF Left, NoNewWrite
  <2>5. Good(n, SetFilter(b, All))
    <3>1. Quiet(b, SetFilter(b, All))
      BY <2>3, BrowseQuiet DEF Left
    <3> QED
      BY <1>0, <2>3, <3>1, IdleGood DEF Left, Quiet, NoNewWrite
  <2>6. ASSUME NEW f PROVE Good(n, SetFilter(n, f))
    BY <1>0, BrowseQuiet, QuietGood
  <2> QED
    BY <2>2, <2>4, <2>5, <2>6
<1>4. CASE n.mode = "overlay"
  <2> DEFINE b == CloseOverlay(n)
             c == [call |-> "write", id |-> strokes, pend |-> n.pend]
             w == Emit(b, c)
  <2>1. o \in OverlayKey(n)
    BY <1>4
  <2>2. \/ o = b
        \/ o = n
        \/ n.pend # NoPend /\ o = w
    BY <2>1 DEF OverlayKey
  <2>3. Left(n, b) /\ b.pend = NoPend
    BY <1>0, CloseFields
  <2>4. Good(n, b) /\ Good(n, n)
    BY <1>0, <1>1, <2>3, IdleGood, QuietGood DEF Left, NoNewWrite
  <2>5. CASE n.pend # NoPend /\ o = w
    <3> HIDE DEF b
    <3>1. /\ Shape(w) /\ SameView(b, w) /\ w.pend = NoPend /\ w.cmds = {c}
      BY <1>0, <2>3 DEF Left, Emit, Fields, Shape, Panes, Modes, SameView
    <3>2. InView(w)
      BY <2>3, <3>1, SameViewInv DEF Left
    <3>3. c.call = "write" /\ c.pend = n.pend
      OBVIOUS
    <3>4. Confirmed(n, w)
      BY <2>5, <3>1, <3>3 DEF Confirmed, Ready, Shown
    <3>5. Good(n, w)
      BY <3>1, <3>2, <3>4 DEF Good, Shown, Proposed
    <3> QED
      BY <2>5, <3>5
  <2> QED
    BY <2>2, <2>4, <2>5
<1> QED
  BY <1>0, <1>2, <1>3, <1>4 DEF Modes

-----------------------------------------------------------------------------
\* Messages.

\* A list arrives, or a write is acknowledged: both load and neither proposes.
LEMMA ReloadQuiet ==
  ASSUME NEW n, Shape(n), InView(n), NEW msg
  PROVE  Quiet(n, OnKeys(n, msg)) /\ Quiet(n, OnWrite(n, msg))
<1>0. Quiet(n, n)
  BY DEF Quiet, NoNewWrite
<1>1. ASSUME NEW o, Shape(o), o.mode = n.mode, o.pend = n.pend, o.overlay = n.overlay,
             o.cmds = n.cmds, SameView(n, o)
      PROVE  Quiet(n, o)
  BY <1>1, SameViewInv DEF Quiet, NoNewWrite
<1>2. Quiet(n, OnKeys(n, msg))
  <2> DEFINE failed == [n EXCEPT !.loadingKeys = FALSE, !.errMsg = "list"]
             o == [n EXCEPT !.loadingKeys = FALSE, !.errMsg = "",
                            !.configs = msg.configs]
  <2>1. /\ Shape(failed) /\ failed.mode = n.mode /\ failed.pend = n.pend
        /\ failed.overlay = n.overlay /\ failed.cmds = n.cmds /\ SameView(n, failed)
    BY DEF Fields, Shape, SameView
  <2>2. /\ Shape(o) /\ o.mode = n.mode /\ o.pend = n.pend
        /\ o.overlay = n.overlay /\ o.cmds = n.cmds /\ SameView(n, o)
    BY DEF Fields, Shape, SameView
  <2>3. Quiet(n, failed) /\ Quiet(n, o)
    BY <1>1, <2>1, <2>2
  <2>4. Quiet(n, Rebuild(o))
    <3>1. Quiet(o, Rebuild(o))
      BY <2>3, SelectionQuiet DEF Quiet
    <3> QED
      BY <2>3, <3>1, QuietTwice
  <2> QED
    BY <1>0, <2>3, <2>4 DEF OnKeys
<1>3. Quiet(n, OnWrite(n, msg))
  <2> DEFINE failed == [n EXCEPT !.errMsg = "write"]
             o == [n EXCEPT !.errMsg = "",
                            !.writes = @ \cup {[key |-> msg.key, version |-> msg.version]}]
             r == LoadKeys(o)
  <2>1. /\ Shape(failed) /\ failed.mode = n.mode /\ failed.pend = n.pend
        /\ failed.overlay = n.overlay /\ failed.cmds = n.cmds /\ SameView(n, failed)
    BY DEF Fields, Shape, SameView
  <2>2. /\ Shape(o) /\ o.mode = n.mode /\ o.pend = n.pend
        /\ o.overlay = n.overlay /\ o.cmds = n.cmds /\ SameView(n, o)
    BY DEF Fields, Shape, SameView
  <2>3. Quiet(n, failed) /\ Quiet(n, o)
    BY <1>1, <2>1, <2>2
  <2>4. Quiet(n, r)
    <3>1. Quiet(o, r)
      BY <2>3, LoadsQuiet DEF Quiet
    <3> QED
      BY <2>3, <3>1, QuietTwice
  <2>5. Quiet(n, LoadDetail(r, msg.key))
    <3>1. Quiet(r, LoadDetail(r, msg.key))
      BY <2>4, LoadsQuiet DEF Quiet
    <3> QED
      BY <2>4, <3>1, QuietTwice
  <2>6. OnWrite(n, msg) \in {failed, r, LoadDetail(r, msg.key)}
    BY DEF OnWrite
  <2> QED
    BY <2>3, <2>4, <2>5, <2>6
<1> QED
  BY <1>2, <1>3

\* A detail arrives with the history it was read with.
LEMMA DetailQuiet ==
  ASSUME NEW n, Shape(n), InView(n), NEW msg, msg.call = "detailMsg",
         Faithful(msg), CallInv(msg)
  PROVE  Quiet(n, OnDetail(n, msg))
<1> DEFINE failed == [n EXCEPT !.loadingDetail = FALSE, !.hasDetail = FALSE,
                               !.errMsg = "get"]
           o == [n EXCEPT !.loadingDetail = FALSE, !.hasDetail = TRUE, !.errMsg = "",
                          !.detail = msg.detail, !.history = msg.history, !.hcur = 1]
<1>0. Quiet(n, n)
  BY DEF Quiet, NoNewWrite
<1>1. Quiet(n, failed)
  <2>1. /\ Shape(failed) /\ failed.mode = n.mode /\ failed.pend = n.pend
        /\ failed.overlay = n.overlay /\ failed.cmds = n.cmds
        /\ failed.hasDetail = FALSE /\ failed.history = n.history
        /\ failed.hcur = n.hcur
    BY DEF Fields, Shape
  <2>2. InView(failed)
    BY <2>1 DEF InView
  <2> QED
    BY <2>1, <2>2 DEF Quiet, NoNewWrite
<1>2. ASSUME ~msg.err PROVE Quiet(n, o)
  <2>1. /\ Shape(o) /\ o.mode = n.mode /\ o.pend = n.pend
        /\ o.overlay = n.overlay /\ o.cmds = n.cmds
        /\ o.detail = msg.detail /\ o.history = msg.history /\ o.hcur = 1
    BY DEF Fields, Shape
  <2>2. /\ msg.detail.key = msg.key /\ msg.key \in Keys /\ msg.detail.value \in Values
        /\ msg.history \in Seq(Entry) /\ HistoryInv(msg.history, msg.key)
    BY <1>2 DEF Faithful, CallInv
  <2>3. msg.history # <<>> => 1 \in 1 .. Len(msg.history)
    BY <2>2
  <2>4. InView(o)
    BY <2>1, <2>2, <2>3 DEF InView
  <2> QED
    BY <2>1, <2>4 DEF Quiet, NoNewWrite
<1>3. \/ OnDetail(n, msg) \in {n, failed}
      \/ ~msg.err /\ OnDetail(n, msg) = o
  BY DEF OnDetail
<1> QED
  BY <1>0, <1>1, <1>2, <1>3

\* The editor's text is proposed for the key in view, or dropped.
LEMMA EditGood ==
  ASSUME NEW n, Ready(n), NEW msg, msg.call = "editedMsg", CallInv(msg)
  PROVE  Good(n, AfterEdit(n, msg))
<1> DEFINE failed == [n EXCEPT !.errMsg = "edit"]
           p == PendSet(msg.key, msg.value)
<1>0. Shape(n) /\ InView(n)
  BY DEF Ready
<1>1. Good(n, n)
  BY <1>0, QuietGood DEF Quiet, NoNewWrite
<1>2. Good(n, failed)
  <2>1. /\ Shape(failed) /\ failed.mode = n.mode /\ failed.pend = n.pend
        /\ failed.overlay = n.overlay /\ failed.cmds = n.cmds /\ SameView(n, failed)
    BY <1>0 DEF Fields, Shape, SameView
  <2>2. Quiet(n, failed)
    BY <1>0, <2>1, SameViewInv DEF Quiet, NoNewWrite
  <2> QED
    BY <2>2, QuietGood
<1>3. CASE \/ msg.err \/ ~n.hasDetail \/ msg.key # n.detail.key
           \/ msg.value.text = n.detail.value.text
  BY <1>1, <1>2, <1>3 DEF AfterEdit
<1>4. CASE ~(msg.err \/ ~n.hasDetail \/ msg.key # n.detail.key
               \/ msg.value.text = n.detail.value.text)
  <2>1. n.hasDetail /\ msg.key = n.detail.key /\ msg.key \in Keys /\ msg.value \in Values
    BY <1>0, <1>4 DEF InView, CallInv
  <2>2. p.key = msg.key /\ p.kind = "set" /\ p.value = msg.value
    BY DEF PendSet
  <2>3. PendInv(p) /\ msg.value = Written(p)
    BY <2>1, <2>2 DEF PendInv, Written
  <2>4. AfterEdit(n, msg) =
          OpenOverlay([n EXCEPT !.pend = p], Preview(p.key, n.detail.value, msg.value))
    BY <1>4, <2>2 DEF AfterEdit
  <2> HIDE DEF p
  <2>5. Good(n, OpenOverlay([n EXCEPT !.pend = p],
                            Preview(p.key, n.detail.value, msg.value)))
    BY <1>4, <2>1, <2>2, <2>3, PreviewGood
  <2> QED
    BY <2>4, <2>5
<1> QED
  BY <1>3, <1>4

-----------------------------------------------------------------------------
\* Steps.

\* What WritesArePreviewed says of one step.
Previewed ==
    /\ \A c \in calls' \ calls : c.call = "write" =>
          m.mode = "overlay" /\ Shows(m.overlay, c.pend)
    /\ m'.pend # m.pend /\ m'.pend # NoPend =>
          /\ m'.pend.key = SelectedKey(m)
          /\ m.hasDetail /\ m'.overlay.from = m.detail.value.text
          /\ m'.overlay.from = m'.overlay.to =>
                /\ m'.overlay.named[1] = m.detail.value.format
                /\ m'.overlay.named[1] # m'.overlay.named[2]

\* Between two steps the model is ready for the next one.
LEMMA ReadyModel ==
  ASSUME PreviewInv
  PROVE  Ready(m)
  BY DEF PreviewInv, TuiInv, ModelInv, Base, Selected, Tied, Ready

\* The event loop puts a handler's model in place and starts its commands.
LEMMA BecomeGood ==
  ASSUME PreviewInv, NEW n, NEW ds, Shape(n), Good(m, n), Become(n, ds), UNCHANGED db
  PROVE  /\ DbInv' /\ InView(m)' /\ Shown(m)' /\ \A c \in calls' : CallInv(c)'
         /\ Previewed
<1>1. m' = [n EXCEPT !.cmds = {}] /\ calls' = (calls \ ds) \cup n.cmds /\ db' = db
  BY DEF Become
<1>2. /\ m'.history = n.history /\ m'.hcur = n.hcur /\ m'.hasDetail = n.hasDetail
      /\ m'.detail = n.detail /\ m'.pend = n.pend /\ m'.mode = n.mode
      /\ m'.overlay = n.overlay
  BY <1>1 DEF Fields, Shape
<1>3. DbInv'
  BY <1>1 DEF PreviewInv, DbInv
<1>4. InView(m)'
  <2>1. InView(n)
    BY DEF Good
  <2>2. \A h, k : HistoryInv(h, k) => HistoryInv(h, k)'
    BY <1>1 DEF HistoryInv
  <2>3. /\ n.history \in Seq(Entry) /\ n.hcur \in Int
        /\ n.history # <<>> => n.hcur \in 1 .. Len(n.history)
        /\ n.hasDetail => /\ n.detail.key \in Keys /\ n.detail.value \in Values
                          /\ HistoryInv(n.history, n.detail.key)'
    BY <2>1, <2>2 DEF InView
  <2> QED
    BY <1>2, <2>3 DEF InView
<1>5. Shown(m)'
  BY <1>1, <1>2 DEF Good, Shown, Shows, PendInv, Written
<1>6. ASSUME NEW c \in calls' PROVE CallInv(c)'
  <2>1. CallInv(c)
    BY <1>1 DEF PreviewInv, Good, Confirmed, Harmless, CallInv
  <2> QED
    BY <1>1, <2>1 DEF CallInv, PendInv, HistoryInv
<1>7. Previewed
  BY <1>1, <1>2 DEF Good, Confirmed, Harmless, Proposed, Previewed
<1> QED
  BY <1>3, <1>4, <1>5, <1>6, <1>7

\* A call goes on to its next stage, and histories may have grown.
LEMMA AnswerGood ==
  ASSUME PreviewInv, UNCHANGED m, DbInv', Grows,
         calls' = calls \/ \E c, msg : /\ Answer(c, msg)
                                       /\ msg.call # "write" /\ CallInv(msg)'
  PROVE  /\ InView(m)' /\ Shown(m)' /\ \A c \in calls' : CallInv(c)'
         /\ Previewed
<1>0. DbInv /\ m' = m
  BY DEF PreviewInv
<1>1. InView(m)'
  <2>1. PICK h, k : h = m.history /\ k = m.detail.key
    OBVIOUS
  <2>2. m.hasDetail => k \in Keys /\ HistoryInv(h, k)
    BY <2>1 DEF PreviewInv, InView
  <2>3. m.hasDetail => HistoryInv(h, k)'
    BY <1>0, <2>2, GrowthKeeps
  <2>4. m'.history = h /\ m'.detail.key = k
    BY <1>0, <2>1
  <2>5. m.hasDetail => HistoryInv(m.history, m.detail.key)'
    BY <2>3, <2>4 DEF HistoryInv
  <2> QED
    BY <1>0, <2>1, <2>2, <2>5 DEF PreviewInv, InView
<1>2. Shown(m)'
  BY <1>0, GrowthKeeps DEF PreviewInv, Shown, Shows
<1>3. ASSUME NEW c \in calls PROVE CallInv(c)'
  <2>1. CallInv(c)
    BY DEF PreviewInv
  <2> QED
    BY <1>0, <2>1, GrowthKeeps DEF CallInv, PendInv, HistoryInv, Written
<1>4. \A c \in calls' : CallInv(c)'
  BY <1>3 DEF Answer
<1>5. Previewed
  BY <1>0 DEF Previewed, Answer
<1> QED
  BY <1>1, <1>2, <1>4, <1>5

\* What History answers.
LEMMA HistoryOfGood ==
  ASSUME DbInv, NEW k \in Keys
  PROVE  HistoryOf(k) \in Seq(Entry) /\ HistoryInv(HistoryOf(k), k)
<1>0. PICK s \in Seq(Stored) : s = db[k]
  BY DEF DbInv
<1>1. PICK n \in Nat : n = Len(s)
  BY <1>0
<1>2. HistoryOf(k) =
        [i \in 1 .. n |-> [version |-> n + 1 - i, value |-> s[n + 1 - i].value]]
  BY <1>0, <1>1 DEF HistoryOf
<1>3. ASSUME NEW i \in 1 .. n
      PROVE  n + 1 - i \in 1 .. n /\ n + 1 - i \in Nat /\ s[n + 1 - i].value \in Values
  <2>1. PICK j \in Int : j = n + 1 - i /\ j \in 1 .. n
    OBVIOUS
  <2>2. s[j] \in Stored
    BY <1>1, <2>1
  <2> QED
    BY <2>1, <2>2 DEF Stored
<1>4. ASSUME NEW i \in 1 .. n
      PROVE  [version |-> n + 1 - i, value |-> s[n + 1 - i].value] \in Entry
  BY <1>3 DEF Entry
<1>5. HistoryOf(k) \in [1 .. n -> Entry]
  BY <1>1, <1>2, <1>4
<1>6. HistoryOf(k) \in Seq(Entry) /\ Len(HistoryOf(k)) = n
  BY <1>1, <1>5
<1>7. HistoryInv(HistoryOf(k), k)
  <2> DEFINE h == HistoryOf(k)
  <2>1. ASSUME NEW i \in 1 .. n
        PROVE  h[i].version \in 1 .. n /\ s[h[i].version].value = h[i].value
    <3>1. h[i].version = n + 1 - i /\ h[i].value = s[n + 1 - i].value
      BY <1>2
    <3> HIDE DEF h
    <3> QED
      BY <1>3, <3>1
  <2>2. Len(h) = n
    BY <1>6
  <2> HIDE DEF h
  <2>3. HistoryInv(h, k)
    BY <1>0, <1>1, <2>1, <2>2 DEF HistoryInv
  <2> QED
    BY <2>3 DEF h
<1> QED
  BY <1>6, <1>7

\* Writes append to histories, and nothing else touches them.
LEMMA HistoriesGrow ==
  ASSUME PreviewInv, [Next]_vars
  PROVE  DbInv' /\ Grows
<1>0. DbInv /\ \A c \in calls : CallInv(c)
  BY DEF PreviewInv
<1>1. CASE UNCHANGED db
  BY <1>0, <1>1 DEF DbInv, Grows
<1>2. CASE WriteLands
  <2>1. PICK d \in Calls("write") :
          db' = [db EXCEPT ![d.pend.key] =
                   Append(@, [value |-> Written(d.pend), live |-> TRUE])]
    BY <1>2 DEF WriteLands
  <2>2. PendInv(d.pend)
    BY <1>0 DEF Calls, CallInv
  <2>3. Written(d.pend) \in Values /\ d.pend.key \in Keys
    <3>1. CASE d.pend.kind = "set"
      BY <2>2, <3>1 DEF PendInv, Written
    <3>2. CASE d.pend.kind # "set"
      <4>1. PICK j, i : /\ j \in Keys /\ j = d.pend.key /\ i = d.pend.version
                        /\ i \in 1 .. Len(db[j])
        BY <2>2, <3>2 DEF PendInv
      <4>2. db[j] \in Seq(Stored)
        BY <1>0, <4>1 DEF DbInv
      <4>3. db[j][i] \in Stored
        BY <4>1, <4>2
      <4> QED
        BY <3>2, <4>1, <4>3 DEF Written, Stored
    <3> QED
      BY <3>1, <3>2
  <2>4. [value |-> Written(d.pend), live |-> TRUE] \in Stored
    BY <2>3 DEF Stored
  <2> QED
    BY <1>0, <2>1, <2>3, <2>4, AppendGrows
<1>3. CASE OtherSets \/ OtherDeletes
  <2>1. PICK k \in Keys, v \in Values, l \in BOOLEAN : Other(k, [value |-> v, live |-> l])
    <3>1. CASE OtherSets
      BY <3>1 DEF OtherSets
    <3>2. CASE OtherDeletes
      <4>1. PICK k \in Keys : Live(k) /\ Other(k, [value |-> Last(db[k]).value, live |-> FALSE])
        BY <3>2 DEF OtherDeletes
      <4>2. db[k] \in Seq(Stored) /\ db[k] # <<>>
        BY <1>0, <4>1 DEF DbInv, Live
      <4>3. Last(db[k]) \in Stored
        BY <4>2 DEF Last
      <4> QED
        BY <4>1, <4>3 DEF Stored
    <3> QED
      BY <1>3, <3>1, <3>2
  <2>2. [value |-> v, live |-> l] \in Stored
    BY DEF Stored
  <2> QED
    BY <1>0, <2>1, <2>2, AppendGrows DEF Other
<1>4. WriteLands \/ OtherSets \/ OtherDeletes \/ UNCHANGED db
  BY DEF Next, vars, Key, QuitKey, Update, KeysMsg, DetailMsg, WriteMsg, EditedMsg, QuitMsg,
     Backend, ListAnswers, GetAnswers, HistoryAnswers, WriteFails, EditorOpens, EditorExits
<1> QED
  BY <1>1, <1>2, <1>3, <1>4

\* Nothing is shown and nothing is pending at first.
LEMMA PreviewInit == Init => PreviewInv
<1> SUFFICES ASSUME Init PROVE PreviewInv
  OBVIOUS
<1>1. TuiInv
  BY TuiInit
<1>2. DbInv
  BY TuiAssumption DEF Init, DbInv, Stored
<1> DEFINE n == LoadKeys(NewModel)
<1>3. /\ Shape(NewModel) /\ NewModel.cmds = {} /\ NewModel.hasDetail = FALSE
      /\ NewModel.history = <<>> /\ NewModel.hcur = 1 /\ NewModel.pend = NoPend
  BY DEF NewModel, Fields, Shape, Panes, Modes
<1>4. InView(NewModel)
  BY <1>3 DEF InView
<1>5. Shape(n) /\ InView(n) /\ n.pend = NoPend /\ \A c \in n.cmds : Harmless(c)
  BY <1>3, <1>4, LoadsQuiet DEF Quiet, NoNewWrite
<1>6. m = [n EXCEPT !.cmds = {}] /\ calls = n.cmds
  BY DEF Init, Start
<1>7. SameView(n, m) /\ m.pend = NoPend
  BY <1>5, <1>6 DEF Fields, Shape, SameView
<1>8. InView(m) /\ Shown(m)
  BY <1>5, <1>7, SameViewInv DEF Shown
<1>9. \A c \in calls : CallInv(c)
  BY <1>5, <1>6 DEF Harmless, CallInv
<1> QED
  BY <1>1, <1>2, <1>8, <1>9 DEF PreviewInv

\* Every step keeps what is pending shown, and previews what it writes.
LEMMA PreviewStep ==
  PreviewInv /\ [Next]_vars => PreviewInv' /\ Previewed
<1> SUFFICES ASSUME PreviewInv, [Next]_vars
             PROVE  PreviewInv' /\ Previewed
  OBVIOUS
<1>0. /\ TuiInv /\ DbInv /\ ModelInv(m, calls)
      /\ \A c \in calls : Faithful(c) /\ CallInv(c)
  BY DEF PreviewInv, TuiInv
<1>1. TuiInv'
  BY <1>0, TuiStep
<1>2. Ready(m)
  BY ReadyModel
<1>3. DbInv' /\ Grows
  BY HistoriesGrow
<1>4. ASSUME NEW n, NEW ds, ModelInv(n, calls \ ds), Good(m, n), Become(n, ds), UNCHANGED db
      PROVE  PreviewInv' /\ Previewed
  BY <1>1, <1>4, BecomeGood DEF ModelInv, Base, PreviewInv
<1>5. ASSUME UNCHANGED m, DbInv', Grows,
             calls' = calls \/ \E c, msg : /\ Answer(c, msg)
                                           /\ msg.call # "write" /\ CallInv(msg)'
      PROVE  PreviewInv' /\ Previewed
  BY <1>1, <1>5, AnswerGood DEF PreviewInv
<1>6. CASE Key
  <2>1. PICK n \in CASE m.mode = "browse"  -> BrowseKey(m)
                     [] m.mode = "filter"  -> FilterKey(m)
                     [] m.mode = "overlay" -> OverlayKey(m) : Become(n, {})
    BY <1>6 DEF Key
  <2>2. calls \ {} = calls /\ UNCHANGED db
    BY <1>6 DEF Key
  <2>3. ModelInv(n, calls)
    BY <1>0, KeyInv
  <2>4. Good(m, n)
    BY <1>0, <1>2, KeyGood
  <2> QED
    BY <1>4, <2>1, <2>2, <2>3, <2>4
<1>7. CASE QuitKey
  <2>1. calls' = calls \cup {[call |-> "quitMsg"]} /\ m' = m /\ UNCHANGED db
    BY <1>7 DEF QuitKey
  <2> DEFINE q == [call |-> "quitMsg"]
  <2>2. CallInv(q)' /\ q.call # "write"
    BY DEF CallInv
  <2>3. CASE calls \ {q} = calls
    BY <1>3, <1>5, <2>1, <2>2, <2>3 DEF Answer
  <2>4. CASE q \in calls
    <3>1. calls' = calls
      BY <2>1, <2>4
    <3> QED
      BY <1>3, <1>5, <2>1, <3>1
  <2> QED
    BY <2>3, <2>4
<1>8. CASE KeysMsg
  <2>1. PICK msg \in Calls("keysMsg") : Become(OnKeys(m, msg), {msg})
    BY <1>8 DEF KeysMsg
  <2>2. ModelInv(OnKeys(m, msg), calls \ {msg})
    BY <1>0, <2>1, KeysMsgInv DEF Calls
  <2>3. Good(m, OnKeys(m, msg)) /\ UNCHANGED db
    BY <1>2, <1>8, ReloadQuiet, QuietGood DEF Ready, KeysMsg
  <2> QED
    BY <1>4, <2>1, <2>2, <2>3
<1>9. CASE DetailMsg
  <2>1. PICK msg \in Calls("detailMsg") : Become(OnDetail(m, msg), {msg})
    BY <1>9 DEF DetailMsg
  <2>2. ModelInv(OnDetail(m, msg), calls \ {msg})
    BY <1>0, <2>1, DetailMsgInv DEF Calls
  <2>3. Quiet(m, OnDetail(m, msg))
    BY <1>0, <1>2, <2>1, DetailQuiet DEF Ready, Calls
  <2>4. Good(m, OnDetail(m, msg)) /\ UNCHANGED db
    BY <1>2, <1>9, <2>3, QuietGood DEF DetailMsg
  <2> QED
    BY <1>4, <2>1, <2>2, <2>4
<1>10. CASE WriteMsg
  <2>1. PICK msg \in Calls("writeMsg") : Become(OnWrite(m, msg), {msg})
    BY <1>10 DEF WriteMsg
  <2>2. ModelInv(m, calls \ {msg})
    BY <1>0, <2>1, OtherMsgInv DEF Calls
  <2>3. ModelInv(OnWrite(m, msg), calls \ {msg})
    BY <2>2, WriteMsgInv
  <2>4. Good(m, OnWrite(m, msg)) /\ UNCHANGED db
    BY <1>2, <1>10, ReloadQuiet, QuietGood DEF Ready, WriteMsg
  <2> QED
    BY <1>4, <2>1, <2>3, <2>4
<1>11. CASE EditedMsg
  <2>1. PICK msg \in Calls("editedMsg") : Become(AfterEdit(m, msg), {msg})
    BY <1>11 DEF EditedMsg
  <2>2. ModelInv(m, calls \ {msg})
    BY <1>0, <2>1, OtherMsgInv DEF Calls
  <2>3. ModelInv(AfterEdit(m, msg), calls \ {msg})
    BY <2>2, EditedMsgInv
  <2>4. Good(m, AfterEdit(m, msg)) /\ UNCHANGED db
    BY <1>0, <1>2, <1>11, <2>1, EditGood DEF Calls, EditedMsg
  <2> QED
    BY <1>4, <2>1, <2>3, <2>4
<1>12. CASE ListAnswers
  <2>1. PICK c \in Calls("list"), err \in BOOLEAN :
          Answer(c, [call |-> "keysMsg", seq |-> c.seq, err |-> err,
                     configs |-> IF err THEN {} ELSE {k \in Keys : Live(k)}])
    BY <1>12 DEF ListAnswers
  <2>0. PICK msg : /\ Answer(c, msg)
                   /\ msg = [call |-> "keysMsg", seq |-> c.seq, err |-> err,
                             configs |-> IF err THEN {} ELSE {k \in Keys : Live(k)}]
    BY <2>1
  <2>2. CallInv(msg)' /\ msg.call # "write"
    BY <2>0 DEF CallInv
  <2>3. m' = m /\ UNCHANGED db
    BY <1>12 DEF ListAnswers
  <2> QED
    BY <1>3, <1>5, <2>0, <2>2, <2>3
<1>13. CASE GetAnswers
  <2>1. PICK c \in Calls("get") :
          \/ Answer(c, DetailReply(c, TRUE, NoDetail, <<>>))
          \/ /\ Live(c.key)
             /\ Answer(c, [call |-> "history", seq |-> c.seq, key |-> c.key,
                           detail |-> DetailOf(c.key)])
    BY <1>13 DEF GetAnswers
  <2>2. m' = m /\ UNCHANGED db
    BY <1>13 DEF GetAnswers
  <2>3. PICK msg : /\ Answer(c, msg)
                   /\ \/ msg.call = "detailMsg" /\ msg.err
                      \/ /\ msg.call = "history" /\ msg.key \in Keys
                         /\ msg.detail.value \in Values
    <3>1. CASE Answer(c, DetailReply(c, TRUE, NoDetail, <<>>))
      BY <3>1 DEF DetailReply
    <3>2. CASE Live(c.key) /\ Answer(c, [call |-> "history", seq |-> c.seq, key |-> c.key,
                                         detail |-> DetailOf(c.key)])
      <4>1. PICK k \in Keys : k = c.key /\ db[k] \in Seq(Stored) /\ db[k] # <<>>
        BY <1>0, <3>2 DEF DbInv, Live
      <4>2. Last(db[k]) \in Stored
        BY <4>1 DEF Last
      <4>3. DetailOf(k).value \in Values
        BY <4>2 DEF DetailOf, Stored
      <4> QED
        BY <3>2, <4>1, <4>3
    <3> QED
      BY <2>1, <3>1, <3>2
  <2>4. CallInv(msg)' /\ msg.call # "write"
    BY <2>3 DEF CallInv
  <2> QED
    BY <1>3, <1>5, <2>2, <2>3, <2>4
<1>14. CASE HistoryAnswers
  <2>1. PICK c \in Calls("history"), err \in BOOLEAN :
          Answer(c, DetailReply(c, FALSE, c.detail, IF err THEN <<>> ELSE HistoryOf(c.key)))
    BY <1>14 DEF HistoryAnswers
  <2>2. c.key \in Keys /\ c.detail.value \in Values /\ m' = m /\ db' = db
    BY <1>0, <1>14 DEF Calls, CallInv, HistoryAnswers
  <2>0. PICK h, msg : /\ h = IF err THEN <<>> ELSE HistoryOf(c.key)
                      /\ msg = DetailReply(c, FALSE, c.detail, h)
    OBVIOUS
  <2>3. h \in Seq(Entry) /\ HistoryInv(h, c.key)
    <3>1. <<>> \in Seq(Entry) /\ HistoryInv(<<>>, c.key)
      BY DEF HistoryInv
    <3> QED
      BY <1>0, <2>0, <2>2, <3>1, HistoryOfGood
  <2>4. /\ msg.call = "detailMsg" /\ msg.key = c.key /\ msg.history = h
        /\ msg.detail = c.detail
    BY <2>0 DEF DetailReply
  <2>5. CallInv(msg)
    BY <2>2, <2>3, <2>4 DEF CallInv
  <2>6. CallInv(msg)'
    BY <2>2, <2>4, <2>5 DEF CallInv, HistoryInv, PendInv
  <2>7. Answer(c, msg) /\ msg.call # "write"
    BY <2>0, <2>1, <2>4
  <2> QED
    BY <1>3, <1>5, <2>2, <2>6, <2>7
<1>15. CASE WriteLands \/ WriteFails
  <2>1. PICK c, err, v : c \in Calls("write") /\ Answer(c, WriteReply(c, err, v))
    BY <1>15 DEF WriteLands, WriteFails
  <2>2. CallInv(WriteReply(c, err, v))' /\ WriteReply(c, err, v).call # "write"
    BY DEF CallInv, WriteReply
  <2>3. m' = m
    BY <1>15 DEF WriteLands, WriteFails
  <2> QED
    BY <1>3, <1>5, <2>1, <2>2, <2>3
<1>16. CASE EditorOpens
  <2>1. PICK c \in Calls("editor") : Answer(c, [c EXCEPT !.call = "editing"])
    BY <1>16 DEF EditorOpens
  <2>2. /\ [c EXCEPT !.call = "editing"].call = "editing"
        /\ "format" \in DOMAIN [c EXCEPT !.call = "editing"]
        /\ [c EXCEPT !.call = "editing"].format \in Formats
    BY <1>0, <2>1 DEF Calls, Faithful, CallInv
  <2>3. CallInv([c EXCEPT !.call = "editing"])'
    BY <2>2 DEF CallInv
  <2>4. m' = m /\ UNCHANGED db
    BY <1>16 DEF EditorOpens
  <2> QED
    BY <1>3, <1>5, <2>1, <2>2, <2>3, <2>4
<1>17. CASE EditorExits
  <2>1. PICK c, e, v :
          /\ c \in Calls("editing") /\ Answer(c, EditReply(c, e, v))
          /\ e \/ \E t \in Texts : v = [text |-> t, format |-> c.format]
    BY <1>17 DEF EditorExits
  <2> DEFINE msg == EditReply(c, e, v)
  <2>2. CallInv(msg)' /\ msg.call # "write"
    <3>1. c.format \in Formats
      BY <1>0, <2>1 DEF Calls, CallInv
    <3>2. e \/ v \in Values
      BY <2>1, <3>1 DEF Values
    <3> QED
      BY <3>2 DEF CallInv, EditReply
  <2>3. m' = m /\ UNCHANGED db
    BY <1>17 DEF EditorExits
  <2> QED
    BY <1>3, <1>5, <2>1, <2>2, <2>3
<1>18. CASE OtherSets \/ OtherDeletes
  BY <1>3, <1>5, <1>18 DEF OtherSets, OtherDeletes, Other
<1>19. CASE QuitMsg \/ UNCHANGED vars
  <2>1. calls' = calls /\ m' = m /\ UNCHANGED db
    BY <1>19 DEF QuitMsg, vars
  <2> QED
    BY <1>3, <1>5, <2>1
<1> QED
  BY <1>6, <1>7, <1>8, <1>9, <1>10, <1>11, <1>12, <1>13, <1>14, <1>15, <1>16, <1>17,
     <1>18, <1>19 DEF Next, Update, Backend

-----------------------------------------------------------------------------
\* What is pending is what the overlay shows, and every history in view or on its way
\* is part of what the backend holds.
THEOREM PreviewInvariant == Spec => []PreviewInv
  BY PreviewInit, PreviewStep, PTL DEF Spec

\* A write stores the text the overlay showed when y was pressed, for the key it named
\* (and the format, where the overlay named formats because the texts were equal),
\* and a preview opens for the key selected at that moment over the value in view.
THEOREM WritesAreShown == Spec => WritesArePreviewed
<1>1. PreviewInv /\ [Next]_vars => [Previewed]_vars
  BY PreviewStep DEF vars
<1>2. Spec => [][Previewed]_vars
  BY <1>1, PreviewInvariant, PTL DEF Spec
<1> QED
  BY <1>2 DEF Previewed, WritesArePreviewed

-----------------------------------------------------------------------------
\* Handlers that report no write and show no new detail.

\* A load of the detail, at any stage, is no newer than the model's sequence number,
\* and the newest one is for the model's key.
NotAhead(n, c) ==
    /\ c.seq \in Nat /\ c.seq <= n.detailSeq
    /\ c.seq = n.detailSeq => c.key = n.detailKey

Steady(n, o) ==
    /\ Shape(o) /\ o.writes = n.writes
    /\ o.detailSeq \in Nat
    /\ o.detailSeq > n.detailSeq \/ (o.detailSeq = n.detailSeq /\ o.detailKey = n.detailKey)
    /\ \A c \in o.cmds :
          \/ c \in n.cmds
          \/ c.call \in {"list", "editor", "write"}
          \/ c.call = "get" /\ NotAhead(o, c)
    /\ o.hasDetail /\ ~o.loadingDetail =>
          n.hasDetail /\ ~n.loadingDetail /\ o.detail = n.detail

\* A model a handler starts from.
Counted(n) == Shape(n) /\ n.detailSeq \in Nat

\* What Steady reads of a model, its commands apart.
SameDetail(n, o) ==
    /\ o.writes = n.writes
    /\ o.detailSeq = n.detailSeq /\ o.detailKey = n.detailKey
    /\ o.hasDetail = n.hasDetail /\ o.loadingDetail = n.loadingDetail
    /\ o.detail = n.detail

\* A handler that leaves that alone is steady.
LEMMA SameSteady ==
  ASSUME NEW n, NEW o, Counted(n), Shape(o), SameDetail(n, o), o.cmds = n.cmds
  PROVE  Steady(n, o) /\ Counted(o)
  BY DEF Counted, SameDetail, Steady

\* Two steady handlers in a row are steady.
LEMMA SteadyTwice ==
  ASSUME NEW n, NEW o, NEW r, Counted(n), Steady(n, o), Steady(o, r)
  PROVE  Steady(n, r)
<1>1. n.detailSeq \in Nat /\ o.detailSeq \in Nat /\ r.detailSeq \in Nat
  BY DEF Counted, Steady
<1>2. r.detailSeq > n.detailSeq \/ (r.detailSeq = n.detailSeq /\ r.detailKey = n.detailKey)
  BY <1>1 DEF Steady
<1>3. ASSUME NEW c, NotAhead(o, c) PROVE NotAhead(r, c)
  BY <1>1, <1>3 DEF Steady, NotAhead
<1> QED
  BY <1>2, <1>3 DEF Steady

\* A load of the list or of the detail is started, or the editor, or a write.
LEMMA StartsSteady ==
  ASSUME NEW n, Counted(n)
  PROVE  /\ Steady(n, LoadKeys(n)) /\ \A k : Steady(n, LoadDetail(n, k))
         /\ \A c : c.call \in {"editor", "write"} => Steady(n, Emit(n, c))
<1>1. Steady(n, LoadKeys(n))
  <2> DEFINE o == LoadKeys(n)
  <2>1. /\ Shape(o) /\ SameDetail(n, o)
        /\ o.cmds = n.cmds \cup {[call |-> "list", seq |-> n.keysSeq + 1]}
    BY DEF Counted, LoadKeys, Emit, Fields, Shape, SameDetail
  <2> QED
    BY <2>1 DEF Counted, Steady, SameDetail
<1>2. ASSUME NEW k PROVE Steady(n, LoadDetail(n, k))
  <2> DEFINE o == LoadDetail(n, k)
             c == [call |-> "get", seq |-> n.detailSeq + 1, key |-> k]
  <2>1. /\ Shape(o) /\ o.writes = n.writes /\ o.loadingDetail = TRUE
        /\ o.detailSeq = n.detailSeq + 1 /\ o.detailKey = k
        /\ o.cmds = n.cmds \cup {c}
    BY DEF Counted, LoadDetail, Emit, Fields, Shape
  <2>2. c.call = "get" /\ c.seq = n.detailSeq + 1 /\ c.key = k
    OBVIOUS
  <2>3. NotAhead(o, c)
    BY <2>1, <2>2 DEF Counted, NotAhead
  <2> QED
    BY <2>1, <2>2, <2>3 DEF Counted, Steady
<1>3. ASSUME NEW c, c.call \in {"editor", "write"} PROVE Steady(n, Emit(n, c))
  <2> DEFINE o == Emit(n, c)
  <2>1. Shape(o) /\ SameDetail(n, o) /\ o.cmds = n.cmds \cup {c}
    BY DEF Counted, Emit, Fields, Shape, SameDetail
  <2> QED
    BY <1>3, <2>1 DEF Counted, Steady, SameDetail
<1> QED
  BY <1>1, <1>2, <1>3

\* The selection is followed.
LEMMA SyncDetailSteady ==
  ASSUME NEW n, NEW prev, Counted(n)
  PROVE  Steady(n, SyncDetail(n, prev))
<1> DEFINE k == SelectedKey(n)
           cleared == [n EXCEPT !.hcur = 1, !.hasDetail = FALSE,
                                !.detail = NoDetail, !.history = <<>>]
           nothing == [cleared EXCEPT !.detailSeq = @ + 1, !.detailKey = NoKey,
                                      !.loadingDetail = FALSE]
<1>1. /\ Shape(cleared) /\ cleared.writes = n.writes /\ cleared.cmds = n.cmds
      /\ cleared.hasDetail = FALSE /\ cleared.detailSeq = n.detailSeq
      /\ cleared.detailKey = n.detailKey
  BY DEF Counted, Fields, Shape
<1>2. /\ Shape(nothing) /\ nothing.writes = n.writes /\ nothing.cmds = n.cmds
      /\ nothing.hasDetail = FALSE /\ nothing.detailSeq = n.detailSeq + 1
  BY <1>1 DEF Fields, Shape
<1>3. Steady(n, n) /\ Steady(n, cleared) /\ Steady(n, nothing) /\ Counted(cleared)
  BY <1>1, <1>2 DEF Counted, Steady
<1>4. Steady(n, LoadDetail(cleared, k))
  <2>1. Steady(cleared, LoadDetail(cleared, k))
    BY <1>3, StartsSteady
  <2> QED
    BY <1>3, <2>1, SteadyTwice
<1>5. \/ SyncDetail(n, prev) = n
      \/ SyncDetail(n, prev) = nothing
      \/ SyncDetail(n, prev) = LoadDetail(cleared, k)
  <2>1. CASE k = prev /\ (n.hasDetail \/ k = NoKey)
    BY <2>1 DEF SyncDetail
  <2>2. CASE k = NoKey /\ prev # NoKey
    BY <2>2 DEF SyncDetail
  <2>3. CASE ~(k = prev /\ (n.hasDetail \/ k = NoKey)) /\ ~(k = NoKey /\ prev # NoKey)
    BY <2>3 DEF SyncDetail
  <2> QED
    BY <2>1, <2>2, <2>3
<1> QED
  BY <1>3, <1>4, <1>5

\* The rows or the cursor change, and the selection is followed.
LEMMA SelectionSteady ==
  ASSUME NEW n, Counted(n)
  PROVE  /\ Steady(n, Rebuild(n))
         /\ \A f : Steady(n, SetFilter(n, f))
         /\ \A i : Steady(n, SyncDetail([n EXCEPT !.cur = i], SelectedKey(n)))
<1>1. ASSUME NEW p, Counted(p), NEW o, Shape(o), SameDetail(p, o), o.cmds = p.cmds, NEW prev
      PROVE  Steady(p, SyncDetail(o, prev))
  <2>1. Steady(p, o) /\ Steady(o, SyncDetail(o, prev))
    BY <1>1, SameSteady, SyncDetailSteady
  <2> QED
    BY <1>1, <2>1, SteadyTwice
<1>2. ASSUME NEW p, Counted(p) PROVE Steady(p, Rebuild(p))
  <2> DEFINE b == [p EXCEPT !.rows = BuildRows(p.configs, p.filter)]
             s == RowsOf(b, SelectedKey(p))
             o == [b EXCEPT !.cur = IF s = {} THEN FirstKeyRow(b) ELSE Min(s)]
  <2>1. Shape(b) /\ SameDetail(p, b) /\ b.cmds = p.cmds
    BY <1>2 DEF Counted, Fields, Shape, SameDetail
  <2> HIDE DEF b, s
  <2>2. Shape(o) /\ SameDetail(p, o) /\ o.cmds = p.cmds
    BY <2>1 DEF Fields, Shape, SameDetail
  <2>3. Steady(p, SyncDetail(o, SelectedKey(p)))
    BY <1>1, <1>2, <2>2
  <2> QED
    BY <2>3 DEF Rebuild, b, s
<1>3. ASSUME NEW f PROVE Steady(n, SetFilter(n, f))
  <2> DEFINE o == [n EXCEPT !.filter = f]
  <2>1. Shape(o) /\ SameDetail(n, o) /\ o.cmds = n.cmds
    BY DEF Counted, Fields, Shape, SameDetail
  <2>2. Steady(n, o) /\ Steady(o, Rebuild(o))
    BY <1>2, <2>1, SameSteady
  <2> QED
    BY <2>2, SteadyTwice DEF SetFilter
<1>4. ASSUME NEW i PROVE Steady(n, SyncDetail([n EXCEPT !.cur = i], SelectedKey(n)))
  <2> DEFINE o == [n EXCEPT !.cur = i]
  <2>1. Shape(o) /\ SameDetail(n, o) /\ o.cmds = n.cmds
    BY DEF Counted, Fields, Shape, SameDetail
  <2> QED
    BY <1>1, <2>1
<1> QED
  BY <1>2, <1>3, <1>4

\* Fields of the model that have no part in it.
LEMMA FieldsSteady ==
  ASSUME NEW n, Counted(n)
  PROVE  /\ \A x : Steady(n, [n EXCEPT !.hcur = x])
         /\ \A x : Steady(n, OpenOverlay(n, x))
         /\ \A x, y : Steady(n, OpenOverlay([n EXCEPT !.pend = y], x))
         /\ \A x : Steady(n, [n EXCEPT !.errMsg = x])
         /\ \A x \in Panes : Steady(n, [n EXCEPT !.focus = x])
         /\ \A x \in Modes : Steady(n, [n EXCEPT !.mode = x]) /\ Counted([n EXCEPT !.mode = x])
         /\ Steady(n, CloseOverlay(n)) /\ Counted(CloseOverlay(n))
<1>1. ASSUME NEW x PROVE Steady(n, [n EXCEPT !.hcur = x])
  <2>1. /\ Shape([n EXCEPT !.hcur = x]) /\ SameDetail(n, [n EXCEPT !.hcur = x])
        /\ [n EXCEPT !.hcur = x].cmds = n.cmds
    BY DEF Counted, Fields, Shape, SameDetail
  <2> QED
    BY <2>1, SameSteady
<1>2. ASSUME NEW p, Counted(p), NEW x PROVE Steady(p, OpenOverlay(p, x))
  <2>1. /\ Shape(OpenOverlay(p, x)) /\ SameDetail(p, OpenOverlay(p, x))
        /\ OpenOverlay(p, x).cmds = p.cmds
    BY <1>2 DEF Counted, OpenOverlay, Fields, Shape, Modes, SameDetail
  <2> QED
    BY <1>2, <2>1, SameSteady
<1>3. ASSUME NEW x, NEW y PROVE Steady(n, OpenOverlay([n EXCEPT !.pend = y], x))
  <2> DEFINE o == [n EXCEPT !.pend = y]
  <2>1. Shape(o) /\ SameDetail(n, o) /\ o.cmds = n.cmds
    BY DEF Counted, Fields, Shape, SameDetail
  <2>2. Steady(n, o) /\ Steady(o, OpenOverlay(o, x))
    BY <1>2, <2>1, SameSteady
  <2> QED
    BY <2>2, SteadyTwice
<1>4. ASSUME NEW x PROVE Steady(n, [n EXCEPT !.errMsg = x])
  <2>1. /\ Shape([n EXCEPT !.errMsg = x]) /\ SameDetail(n, [n EXCEPT !.errMsg = x])
        /\ [n EXCEPT !.errMsg = x].cmds = n.cmds
    BY DEF Counted, Fields, Shape, SameDetail
  <2> QED
    BY <2>1, SameSteady
<1>5. ASSUME NEW x \in Panes PROVE Steady(n, [n EXCEPT !.focus = x])
  <2>1. /\ Shape([n EXCEPT !.focus = x]) /\ SameDetail(n, [n EXCEPT !.focus = x])
        /\ [n EXCEPT !.focus = x].cmds = n.cmds
    BY DEF Counted, Fields, Shape, SameDetail
  <2> QED
    BY <2>1, SameSteady
<1>6. ASSUME NEW x \in Modes
      PROVE  Steady(n, [n EXCEPT !.mode = x]) /\ Counted([n EXCEPT !.mode = x])
  <2>1. /\ Shape([n EXCEPT !.mode = x]) /\ SameDetail(n, [n EXCEPT !.mode = x])
        /\ [n EXCEPT !.mode = x].cmds = n.cmds
    BY DEF Counted, Fields, Shape, SameDetail
  <2> QED
    BY <2>1, SameSteady
<1>7. Steady(n, CloseOverlay(n)) /\ Counted(CloseOverlay(n))
  <2>1. /\ Shape(CloseOverlay(n)) /\ SameDetail(n, CloseOverlay(n))
        /\ CloseOverlay(n).cmds = n.cmds
    BY DEF Counted, CloseOverlay, Fields, Shape, Modes, SameDetail
  <2> QED
    BY <2>1, SameSteady
<1> QED
  BY <1>1, <1>2, <1>3, <1>4, <1>5, <1>6, <1>7

\* Every key.
LEMMA KeySteady ==
  ASSUME NEW n, Counted(n),
         NEW o \in CASE n.mode = "browse"  -> BrowseKey(n)
                     [] n.mode = "filter"  -> FilterKey(n)
                     [] n.mode = "overlay" -> OverlayKey(n)
  PROVE  Steady(n, o)
<1>0. Steady(n, n) /\ n.mode \in Modes /\ n.focus \in Panes
  BY DEF Counted, Steady, Shape
<1>1. CASE n.mode = "browse"
  <2>1. o \in BrowseKey(n)
    BY <1>1
  <2>2. \/ o \in {Move(n, 1), Move(n, -1), Jump(n, 1), Jump(n, -1)}
        \/ o \in {n, Refresh(n), SetFilter(n, All)}
        \/ o \in StartEdit(n)
        \/ o \in {ShowDiff(n), AskRollback(n)}
        \/ o \in {OpenOverlay(n, Help), [n EXCEPT !.mode = "filter"]}
        \/ \E f \in Panes : o = [n EXCEPT !.focus = f]
    BY <2>1 DEF BrowseKey, Panes
  <2>3. ASSUME NEW d \in Int PROVE Steady(n, Move(n, d)) /\ Steady(n, Jump(n, d))
    <3>1. CASE n.focus = "keys"
      <4>1. Steady(n, MoveKeys(n, d))
        BY <1>0, SelectionSteady DEF MoveKeys
      <4>2. Move(n, d) = MoveKeys(n, d)
        BY <3>1 DEF Move
      <4>3. Jump(n, d) =
              SyncDetail([n EXCEPT !.cur = IF d < 0 THEN FirstKeyRow(n) ELSE LastKeyRow(n)],
                         SelectedKey(n))
        BY <3>1 DEF Jump
      <4> QED
        BY <4>1, <4>2, <4>3, SelectionSteady
    <3>2. CASE n.focus = "value"
      BY <1>0, <3>2 DEF Move, Jump
    <3>3. CASE n.focus = "history"
      <4>1. /\ Move(n, d) = [n EXCEPT !.hcur = Clamp(@ + d, 1, Len(n.history))]
            /\ Jump(n, d) = [n EXCEPT !.hcur = IF d < 0 THEN 1 ELSE Max({1, Len(n.history)})]
        BY <3>3 DEF Move, Jump
      <4>2. \A x : Steady(n, [n EXCEPT !.hcur = x])
        BY FieldsSteady
      <4>3. Steady(n, Move(n, d))
        BY <4>1, <4>2
      <4>4. Steady(n, Jump(n, d))
        BY <4>1, <4>2
      <4> QED
        BY <4>3, <4>4
    <3> QED
      BY <1>0, <3>1, <3>2, <3>3 DEF Panes
  <2>4. Steady(n, Refresh(n))
    <3>1. Steady(n, LoadKeys(n))
      BY StartsSteady
    <3>2. Steady(LoadKeys(n), LoadDetail(LoadKeys(n), SelectedKey(n)))
      BY <3>1, StartsSteady DEF Steady, Counted
    <3> QED
      BY <3>1, <3>2, SteadyTwice DEF Refresh
  <2>5. ASSUME NEW r \in StartEdit(n) PROVE Steady(n, r)
    <3> DEFINE c == [call |-> "editor", id |-> strokes, key |-> n.detail.key,
                     format |-> n.detail.value.format]
    <3>1. c.call \in {"editor", "write"}
      OBVIOUS
    <3>2. Steady(n, Emit(n, c))
      BY <3>1, StartsSteady
    <3>3. r \in {n, [n EXCEPT !.errMsg = "edit"], Emit(n, c)}
      BY <2>5 DEF StartEdit
    <3> HIDE DEF c
    <3> QED
      BY <1>0, <3>2, <3>3, FieldsSteady
  <2>6. Steady(n, ShowDiff(n)) /\ Steady(n, AskRollback(n))
    BY <1>0, FieldsSteady DEF ShowDiff, AskRollback
  <2>7. /\ Steady(n, SetFilter(n, All)) /\ Steady(n, OpenOverlay(n, Help))
        /\ Steady(n, [n EXCEPT !.mode = "filter"])
        /\ \A f \in Panes : Steady(n, [n EXCEPT !.focus = f])
    BY SelectionSteady, FieldsSteady DEF Modes
  <2>8. \A d \in {1, -1} : Steady(n, Move(n, d)) /\ Steady(n, Jump(n, d))
    BY <2>3
  <2> QED
    BY <1>0, <2>2, <2>4, <2>5, <2>6, <2>7, <2>8
<1>2. CASE n.mode = "filter"
  <2> DEFINE b == [n EXCEPT !.mode = "browse"]
  <2>1. o \in FilterKey(n)
    BY <1>2
  <2>2. o = b \/ o = SetFilter(b, All) \/ \E f \in Filters : o = SetFilter(n, f)
    BY <2>1 DEF FilterKey
  <2>3. Steady(n, b) /\ Counted(b)
    BY FieldsSteady DEF Modes
  <2>4. Steady(n, SetFilter(b, All))
    <3>1. Steady(b, SetFilter(b, All))
      BY <2>3, SelectionSteady
    <3> QED
      BY <2>3, <3>1, SteadyTwice
  <2>5. \A f : Steady(n, SetFilter(n, f))
    BY SelectionSteady
  <2> QED
    BY <2>2, <2>3, <2>4, <2>5
<1>3. CASE n.mode = "overlay"
  <2> DEFINE b == CloseOverlay(n)
             c == [call |-> "write", id |-> strokes, pend |-> n.pend]
  <2>1. o \in OverlayKey(n)
    BY <1>3
  <2>2. o \in {b, n, Emit(b, c)}
    BY <2>1 DEF OverlayKey
  <2>3. Steady(n, b) /\ Counted(b)
    BY FieldsSteady
  <2>4. Steady(n, Emit(b, c))
    <3>1. c.call \in {"editor", "write"}
      OBVIOUS
    <3>2. Steady(b, Emit(b, c))
      BY <2>3, <3>1, StartsSteady
    <3> QED
      BY <2>3, <3>2, SteadyTwice
  <2> QED
    BY <1>0, <2>2, <2>3, <2>4
<1> QED
  BY <1>0, <1>1, <1>2, <1>3 DEF Modes

\* A list, or an editor's text.
LEMMA MsgSteady ==
  ASSUME NEW n, Counted(n), NEW msg
  PROVE  Steady(n, OnKeys(n, msg)) /\ Steady(n, AfterEdit(n, msg))
<1>0. Steady(n, n)
  BY DEF Counted, Steady
<1>1. Steady(n, OnKeys(n, msg))
  <2> DEFINE failed == [n EXCEPT !.loadingKeys = FALSE, !.errMsg = "list"]
             o == [n EXCEPT !.loadingKeys = FALSE, !.errMsg = "",
                            !.configs = msg.configs]
  <2>1. /\ Shape(failed) /\ SameDetail(n, failed) /\ failed.cmds = n.cmds
        /\ Shape(o) /\ SameDetail(n, o) /\ o.cmds = n.cmds
    BY DEF Counted, Fields, Shape, SameDetail
  <2>2. Steady(n, failed) /\ Steady(n, o) /\ Counted(o)
    BY <2>1, SameSteady
  <2>3. Steady(n, Rebuild(o))
    <3>1. Steady(o, Rebuild(o))
      BY <2>2, SelectionSteady
    <3> QED
      BY <2>2, <3>1, SteadyTwice
  <2> QED
    BY <1>0, <2>2, <2>3 DEF OnKeys
<1>2. Steady(n, AfterEdit(n, msg))
  BY <1>0, FieldsSteady DEF AfterEdit
<1> QED
  BY <1>1, <1>2

-----------------------------------------------------------------------------
\* The session's own writes.

\* What a reply on its way, or one that was processed, says of a write is in the
\* database.
Landed(w) == w.key \in Keys /\ w.version \in Nat /\ w.version <= Len(db[w.key])

Loads == {"get", "history", "detailMsg"}

\* A detail that was read, on its way to the model.
Read(c) == c.call = "history" \/ (c.call = "detailMsg" /\ ~c.err)

\* A detail is no older than the writes of its key.
Fresh(n, d) == \A w \in n.writes : w.key = d.key => w.version <= d.version

FreshCall(n, c) ==
    /\ c.call \in Loads => NotAhead(n, c)
    /\ Read(c) /\ c.seq = n.detailSeq => Fresh(n, c.detail)
    /\ c.call = "writeMsg" /\ ~c.err => Landed(c)

\* The detail the model awaits or shows is no older than the writes it has heard of.
FreshModel(n) ==
    /\ n.detailSeq \in Nat
    /\ \A w \in n.writes : Landed(w)
    /\ n.hasDetail /\ ~n.loadingDetail => Fresh(n, n.detail)

FreshInv == PreviewInv /\ FreshModel(m) /\ \A c \in calls : FreshCall(m, c)

\* A call keeps its freshness over a steady handler.
LEMMA SteadyCall ==
  ASSUME NEW n, NEW o, FreshModel(n), Steady(n, o), NEW c, FreshCall(n, c)
  PROVE  FreshCall(o, c)
<1>1. n.detailSeq \in Nat /\ o.detailSeq \in Nat
  BY DEF FreshModel, Steady
<1>2. c.call \in Loads => NotAhead(o, c)
  BY <1>1 DEF FreshCall, Steady, NotAhead
<1>3. ASSUME Read(c), c.seq = o.detailSeq PROVE Fresh(o, c.detail)
  <2>1. NotAhead(n, c)
    BY <1>3 DEF FreshCall, Read, Loads
  <2>2. c.seq = n.detailSeq
    BY <1>1, <1>3, <2>1 DEF Steady, NotAhead
  <2> QED
    BY <1>3, <2>2 DEF FreshCall, Fresh, Steady
<1> QED
  BY <1>2, <1>3 DEF FreshCall

\* And so does the model, with the calls it starts.
LEMMA SteadyFresh ==
  ASSUME NEW n, NEW o, FreshModel(n), n.cmds = {}, Steady(n, o)
  PROVE  FreshModel(o) /\ \A c \in o.cmds : FreshCall(o, c)
<1>1. FreshModel(o)
  BY DEF FreshModel, Fresh, Steady
<1>2. ASSUME NEW c \in o.cmds PROVE FreshCall(o, c)
  BY <1>2 DEF Steady, FreshCall, Read, Loads
<1> QED
  BY <1>1, <1>2

\* A detail that is taken is the newest asked for.
LEMMA DetailFresh ==
  ASSUME NEW n, Counted(n), FreshModel(n), NEW msg, msg.call = "detailMsg",
         FreshCall(n, msg), NEW o, o = OnDetail(n, msg)
  PROVE  /\ FreshModel(o) /\ o.cmds = n.cmds
         /\ \A c : FreshCall(n, c) => FreshCall(o, c)
<1> DEFINE failed == [n EXCEPT !.loadingDetail = FALSE, !.hasDetail = FALSE,
                               !.errMsg = "get"]
           taken == [n EXCEPT !.loadingDetail = FALSE, !.hasDetail = TRUE, !.errMsg = "",
                              !.detail = msg.detail, !.history = msg.history, !.hcur = 1]
<1>1. ASSUME NEW r, r.writes = n.writes, r.detailSeq = n.detailSeq,
             r.detailKey = n.detailKey, NEW c, FreshCall(n, c)
      PROVE  FreshCall(r, c)
  BY <1>1 DEF FreshCall, NotAhead, Fresh
<1>2. /\ failed.writes = n.writes /\ failed.detailSeq = n.detailSeq
      /\ failed.detailKey = n.detailKey /\ failed.cmds = n.cmds
      /\ failed.hasDetail = FALSE
  BY DEF Counted, Fields, Shape
<1>3. /\ taken.writes = n.writes /\ taken.detailSeq = n.detailSeq
      /\ taken.detailKey = n.detailKey /\ taken.cmds = n.cmds
      /\ taken.detail = msg.detail
  BY DEF Counted, Fields, Shape
<1> HIDE DEF failed, taken
<1>4. \/ o = n
      \/ o = failed
      \/ o = taken /\ msg.seq = n.detailSeq /\ ~msg.err
  BY DEF OnDetail, failed, taken
<1>5. CASE o = n
  BY <1>5
<1>6. CASE o = failed
  BY <1>1, <1>2, <1>6 DEF FreshModel
<1>7. CASE o = taken /\ msg.seq = n.detailSeq /\ ~msg.err
  <2>1. Fresh(n, msg.detail)
    BY <1>7 DEF FreshCall, Read
  <2>2. FreshModel(o)
    BY <1>3, <1>7, <2>1 DEF FreshModel, Fresh
  <2> QED
    BY <1>1, <1>3, <1>7, <2>2
<1> QED
  BY <1>4, <1>5, <1>6, <1>7

\* An acknowledged write asks for its key's detail again, unless another key is
\* selected.
LEMMA WriteFresh ==
  ASSUME NEW n, Counted(n), FreshModel(n), n.cmds = {}, NEW msg, msg.call = "writeMsg",
         FreshCall(n, msg), n.detailKey = SelectedKey(n),
         n.hasDetail => n.detail.key = SelectedKey(n), NEW o, o = OnWrite(n, msg)
  PROVE  /\ FreshModel(o) /\ \A c \in o.cmds : FreshCall(o, c)
         /\ \A c : FreshCall(n, c) /\ Faithful(c) => FreshCall(o, c)
<1>1. CASE msg.err
  <2>1. Steady(n, o)
    BY <1>1, FieldsSteady DEF OnWrite
  <2> QED
    BY <2>1, SteadyFresh, SteadyCall
<1>2. CASE ~msg.err
  <2> DEFINE w == [key |-> msg.key, version |-> msg.version]
             p == [n EXCEPT !.errMsg = "", !.writes = @ \cup {w}]
             r == LoadKeys(p)
  <2>0. w.key = msg.key /\ w.version = msg.version /\ Landed(w)
    BY <1>2 DEF FreshCall, Landed
  <2>1. /\ Shape(p) /\ p.writes = n.writes \cup {w} /\ p.cmds = {}
        /\ p.detailSeq = n.detailSeq /\ p.detailKey = n.detailKey
        /\ p.hasDetail = n.hasDetail /\ p.loadingDetail = n.loadingDetail
        /\ p.detail = n.detail
    BY DEF Counted, Fields, Shape
  <2>2. o = IF msg.key = SelectedKey(n) THEN LoadDetail(r, msg.key) ELSE r
    BY <1>2 DEF OnWrite
  <2> HIDE DEF w, p
  <2>3. Steady(p, r)
    BY <2>1, StartsSteady DEF Counted
  <2>4. \A v \in p.writes : Landed(v)
    BY <2>0, <2>1 DEF FreshModel
  <2>5. CASE msg.key = SelectedKey(n)
    <3>1. Counted(r)
      BY <2>3 DEF Counted, Steady
    <3>2. o = LoadDetail(r, msg.key)
      BY <2>2, <2>5
    <3>3. Steady(p, o)
      BY <2>1, <2>3, <3>1, <3>2, StartsSteady, SteadyTwice DEF Counted
    <3>4. /\ r.detailSeq = n.detailSeq
          /\ o.detailSeq = r.detailSeq + 1 /\ o.loadingDetail = TRUE
      BY <2>1, <3>1, <3>2 DEF Counted, LoadKeys, LoadDetail, Emit, Fields, Shape
    <3>5. o.writes = p.writes /\ o.detailSeq \in Nat /\ n.detailSeq \in Nat
      BY <3>3 DEF Steady, Counted
    <3>6. FreshModel(o)
      BY <2>4, <3>4, <3>5 DEF FreshModel
    <3>7. ASSUME NEW c \in o.cmds PROVE FreshCall(o, c)
      BY <2>1, <3>3, <3>7 DEF Steady, FreshCall, Read, Loads
    <3>8. ASSUME NEW c, FreshCall(n, c) PROVE FreshCall(o, c)
      BY <3>4, <3>5, <3>8 DEF FreshCall, NotAhead, Read, Loads
    <3> QED
      BY <3>6, <3>7, <3>8
  <2>6. CASE msg.key # SelectedKey(n)
    <3>1. FreshModel(p)
      BY <2>0, <2>1, <2>4, <2>6 DEF FreshModel, Fresh
    <3>2. ASSUME NEW c, FreshCall(n, c), Faithful(c) PROVE FreshCall(p, c)
      <4>1. c.call \in Loads => NotAhead(p, c)
        BY <2>1, <3>2 DEF FreshCall, NotAhead
      <4>2. ASSUME Read(c), c.seq = p.detailSeq PROVE Fresh(p, c.detail)
        <5>1. c.key = n.detailKey /\ c.detail.key = c.key
          BY <2>1, <3>2, <4>2 DEF FreshCall, Read, Loads, NotAhead, Faithful
        <5> QED
          BY <2>0, <2>1, <2>6, <3>2, <4>2, <5>1 DEF FreshCall, Fresh
      <4> QED
        BY <3>2, <4>1, <4>2 DEF FreshCall
    <3>3. o = r
      BY <2>2, <2>6
    <3> QED
      BY <2>1, <2>3, <3>1, <3>2, <3>3, SteadyFresh, SteadyCall
  <2> QED
    BY <2>5, <2>6
<1> QED
  BY <1>1, <1>2

\* The event loop puts a handler's model in place and starts its commands.
LEMMA BecomeFresh ==
  ASSUME NEW n, NEW ds, Shape(n), FreshModel(n), \A c \in n.cmds : FreshCall(n, c),
         \A c \in calls \ ds : FreshCall(n, c), Become(n, ds), UNCHANGED db
  PROVE  FreshModel(m)' /\ \A c \in calls' : FreshCall(m, c)'
<1>1. m' = [n EXCEPT !.cmds = {}] /\ calls' = (calls \ ds) \cup n.cmds /\ db' = db
  BY DEF Become
<1>2. /\ m'.writes = n.writes /\ m'.detailSeq = n.detailSeq /\ m'.detailKey = n.detailKey
      /\ m'.hasDetail = n.hasDetail /\ m'.loadingDetail = n.loadingDetail
      /\ m'.detail = n.detail
  BY <1>1 DEF Fields, Shape
<1>3. FreshModel(m)'
  BY <1>1, <1>2 DEF FreshModel, Landed, Fresh
<1>4. ASSUME NEW c \in calls' PROVE FreshCall(m, c)'
  <2>1. FreshCall(n, c)
    BY <1>1
  <2> QED
    BY <1>1, <1>2, <2>1 DEF FreshCall, NotAhead, Fresh, Landed
<1> QED
  BY <1>3, <1>4

\* A call goes on to its next stage, and histories may have grown.
LEMMA AnswerFresh ==
  ASSUME FreshInv, m' = m, DbInv', Grows,
         calls' = calls \/ \E c, msg : Answer(c, msg) /\ FreshCall(m, msg)'
  PROVE  FreshModel(m)' /\ \A c \in calls' : FreshCall(m, c)'
<1>0. DbInv
  BY DEF FreshInv, PreviewInv
<1>1. ASSUME NEW w, Landed(w) PROVE Landed(w)'
  <2>1. Len(db[w.key]) \in Nat /\ Len(db'[w.key]) \in Nat
    BY <1>0, <1>1 DEF DbInv, Landed
  <2> QED
    BY <1>1, <2>1 DEF Landed, Grows
<1>2. FreshModel(m)'
  BY <1>1 DEF FreshInv, FreshModel, Fresh
<1>3. ASSUME NEW c \in calls PROVE FreshCall(m, c)'
  <2>1. FreshCall(m, c)
    BY DEF FreshInv
  <2>2. Landed(c) => Landed(c)'
    BY <1>1
  <2> QED
    BY <2>1, <2>2 DEF FreshCall, NotAhead, Fresh
<1> QED
  BY <1>2, <1>3 DEF Answer

\* Nothing was written and nothing is shown at first.
LEMMA FreshInit == Init => FreshInv
<1> SUFFICES ASSUME Init PROVE FreshInv
  OBVIOUS
<1> DEFINE n == LoadKeys(NewModel)
<1>1. /\ Counted(NewModel) /\ NewModel.cmds = {} /\ NewModel.writes = {}
      /\ NewModel.hasDetail = FALSE
  BY DEF NewModel, Fields, Shape, Panes, Modes, Counted
<1>2. FreshModel(NewModel)
  BY <1>1 DEF FreshModel, Counted
<1>3. Steady(NewModel, n)
  BY <1>1, StartsSteady
<1>4. Shape(n) /\ FreshModel(n) /\ \A c \in n.cmds : FreshCall(n, c)
  BY <1>1, <1>2, <1>3, SteadyFresh DEF Steady
<1>5. m = [n EXCEPT !.cmds = {}] /\ calls = n.cmds
  BY DEF Init, Start
<1>6. /\ m.writes = n.writes /\ m.detailSeq = n.detailSeq /\ m.detailKey = n.detailKey
      /\ m.hasDetail = n.hasDetail /\ m.loadingDetail = n.loadingDetail
      /\ m.detail = n.detail
  BY <1>4, <1>5 DEF Fields, Shape
<1>7. FreshModel(m) /\ \A c \in calls : FreshCall(m, c)
  BY <1>4, <1>5, <1>6 DEF FreshModel, FreshCall, NotAhead, Fresh
<1> QED
  BY <1>7, PreviewInit DEF FreshInv

\* Every step keeps what is shown, or on its way, up to date.
LEMMA FreshStep == FreshInv /\ [Next]_vars => FreshInv'
<1> SUFFICES ASSUME FreshInv, [Next]_vars PROVE FreshInv'
  OBVIOUS
<1>0. /\ PreviewInv /\ TuiInv /\ DbInv /\ ModelInv(m, calls) /\ m.cmds = {}
      /\ \A c \in calls : Faithful(c) /\ CallInv(c)
  BY DEF FreshInv, PreviewInv, TuiInv
<1>1. /\ Counted(m) /\ FreshModel(m) /\ \A c \in calls : FreshCall(m, c)
  BY <1>0 DEF FreshInv, FreshModel, Counted, ModelInv, Base
<1>2. PreviewInv' /\ DbInv' /\ Grows
  BY <1>0, PreviewStep, HistoriesGrow
<1>3. ASSUME NEW n, NEW ds, Shape(n), FreshModel(n), \A c \in n.cmds : FreshCall(n, c),
             \A c \in calls \ ds : FreshCall(n, c), Become(n, ds), UNCHANGED db
      PROVE  FreshInv'
  BY <1>2, <1>3, BecomeFresh DEF FreshInv
<1>4. ASSUME NEW n, NEW ds, Steady(m, n), Become(n, ds), UNCHANGED db
      PROVE  FreshInv'
  <2>1. FreshModel(n) /\ \A c \in n.cmds : FreshCall(n, c)
    BY <1>0, <1>1, <1>4, SteadyFresh
  <2>2. \A c \in calls : FreshCall(n, c)
    BY <1>1, <1>4, SteadyCall
  <2> QED
    BY <1>3, <1>4, <2>1, <2>2 DEF Steady
<1>5. ASSUME m' = m,
             calls' = calls \/ \E c, msg : Answer(c, msg) /\ FreshCall(m, msg)'
      PROVE  FreshInv'
  BY <1>2, <1>5, AnswerFresh DEF FreshInv
<1>6. CASE Key
  <2>1. PICK n \in CASE m.mode = "browse"  -> BrowseKey(m)
                     [] m.mode = "filter"  -> FilterKey(m)
                     [] m.mode = "overlay" -> OverlayKey(m) : Become(n, {})
    BY <1>6 DEF Key
  <2>2. Steady(m, n) /\ UNCHANGED db
    BY <1>1, <1>6, <2>1, KeySteady DEF Key
  <2> QED
    BY <1>4, <2>1, <2>2
<1>7. CASE QuitKey
  <2> DEFINE q == [call |-> "quitMsg"]
  <2>1. calls' = calls \cup {q} /\ m' = m
    BY <1>7 DEF QuitKey
  <2>2. FreshCall(m, q)'
    BY DEF FreshCall, Read, Loads
  <2>3. CASE q \in calls
    BY <1>5, <2>1, <2>3
  <2>4. CASE q \notin calls
    <3>1. Answer(q, q)
      BY <2>1, <2>4 DEF Answer
    <3> QED
      BY <1>5, <2>1, <2>2, <3>1
  <2> QED
    BY <2>3, <2>4
<1>8. CASE KeysMsg
  <2>1. PICK msg \in Calls("keysMsg") : Become(OnKeys(m, msg), {msg})
    BY <1>8 DEF KeysMsg
  <2>2. UNCHANGED db
    BY <1>8 DEF KeysMsg
  <2> QED
    BY <1>1, <1>4, <2>1, <2>2, MsgSteady
<1>9. CASE DetailMsg
  <2>1. PICK msg \in Calls("detailMsg") : Become(OnDetail(m, msg), {msg})
    BY <1>9 DEF DetailMsg
  <2>2. msg \in calls /\ msg.call = "detailMsg" /\ FreshCall(m, msg)
    BY <1>1, <2>1 DEF Calls
  <2>3. PICK n : n = OnDetail(m, msg)
    OBVIOUS
  <2>4. /\ FreshModel(n) /\ n.cmds = {}
        /\ \A c \in calls : FreshCall(n, c)
    BY <1>0, <1>1, <2>2, <2>3, DetailFresh
  <2>5. Shape(n) /\ UNCHANGED db
    BY <1>0, <1>9, <2>2, <2>3, DetailMsgInv DEF ModelInv, Base, DetailMsg
  <2> QED
    BY <1>3, <2>1, <2>3, <2>4, <2>5
<1>10. CASE WriteMsg
  <2>1. PICK msg \in Calls("writeMsg") : Become(OnWrite(m, msg), {msg})
    BY <1>10 DEF WriteMsg
  <2>2. msg \in calls /\ msg.call = "writeMsg" /\ FreshCall(m, msg)
    BY <1>1, <2>1 DEF Calls
  <2>3. PICK n : n = OnWrite(m, msg)
    OBVIOUS
  <2>4. m.detailKey = SelectedKey(m) /\ (m.hasDetail => m.detail.key = SelectedKey(m))
    BY <1>0 DEF ModelInv, Selected, Tied
  <2>5. /\ FreshModel(n) /\ \A c \in n.cmds : FreshCall(n, c)
        /\ \A c \in calls : FreshCall(n, c)
    BY <1>0, <1>1, <2>2, <2>3, <2>4, WriteFresh
  <2>6. Shape(n) /\ UNCHANGED db
    BY <1>0, <1>10, <2>3, WriteMsgInv DEF ModelInv, Base, WriteMsg
  <2> QED
    BY <1>3, <2>1, <2>3, <2>5, <2>6
<1>11. CASE EditedMsg
  <2>1. PICK msg \in Calls("editedMsg") : Become(AfterEdit(m, msg), {msg})
    BY <1>11 DEF EditedMsg
  <2>2. UNCHANGED db
    BY <1>11 DEF EditedMsg
  <2> QED
    BY <1>1, <1>4, <2>1, <2>2, MsgSteady
<1>12. CASE GetAnswers
  <2>1. PICK c \in Calls("get") :
          \/ Answer(c, DetailReply(c, TRUE, NoDetail, <<>>))
          \/ /\ Live(c.key)
             /\ Answer(c, [call |-> "history", seq |-> c.seq, key |-> c.key,
                           detail |-> DetailOf(c.key)])
    BY <1>12 DEF GetAnswers
  <2>2. m' = m /\ db' = db
    BY <1>12 DEF GetAnswers
  <2>3. NotAhead(m, c)
    BY <1>1 DEF Calls, FreshCall, Loads
  <2>4. PICK msg :
          /\ Answer(c, msg) /\ msg.seq = c.seq /\ msg.key = c.key
          /\ \/ msg.call = "detailMsg" /\ msg.err
             \/ msg.call = "history" /\ c.key \in Keys /\ msg.detail = DetailOf(c.key)
    <3>1. CASE Answer(c, DetailReply(c, TRUE, NoDetail, <<>>))
      BY <3>1 DEF DetailReply
    <3>2. CASE Live(c.key) /\ Answer(c, [call |-> "history", seq |-> c.seq, key |-> c.key,
                                         detail |-> DetailOf(c.key)])
      BY <3>2 DEF Live
    <3> QED
      BY <2>1, <3>1, <3>2
  <2>5. Read(msg) => Fresh(m, msg.detail)
    <3> SUFFICES ASSUME Read(msg), NEW w \in m.writes, w.key = msg.detail.key
                 PROVE  w.version <= msg.detail.version
      BY DEF Fresh
    <3>1. msg.detail.key = c.key /\ msg.detail.version = Len(db[c.key])
      BY <2>4 DEF Read, DetailOf
    <3>2. Landed(w)
      BY <1>1 DEF FreshModel
    <3> QED
      BY <3>1, <3>2 DEF Landed
  <2>6. FreshCall(m, msg)
    BY <2>3, <2>4, <2>5 DEF FreshCall, NotAhead
  <2>7. FreshCall(m, msg)'
    BY <2>2, <2>6 DEF FreshCall, NotAhead, Fresh, Landed
  <2> QED
    BY <1>5, <2>2, <2>4, <2>7
<1>13. CASE HistoryAnswers
  <2>1. PICK c, h, msg :
          /\ c \in Calls("history") /\ Answer(c, msg)
          /\ msg = DetailReply(c, FALSE, c.detail, h)
    BY <1>13 DEF HistoryAnswers
  <2>2. m' = m
    BY <1>13 DEF HistoryAnswers
  <2>3. c.call = "history" /\ FreshCall(m, c)
    BY <1>1, <2>1 DEF Calls
  <2>4. /\ msg.call = "detailMsg" /\ msg.seq = c.seq /\ msg.key = c.key
        /\ msg.detail = c.detail
    BY <2>1 DEF DetailReply
  <2>5. FreshCall(m, msg)'
    BY <2>2, <2>3, <2>4 DEF FreshCall, NotAhead, Fresh, Read, Loads
  <2> QED
    BY <1>5, <2>1, <2>2, <2>5
<1>14. CASE WriteLands
  <2>1. PICK c, lost, k, v :
          /\ c \in Calls("write") /\ lost \in BOOLEAN
          /\ k = c.pend.key /\ v = Len(db[k]) + 1
          /\ db' = [db EXCEPT ![k] = Append(@, [value |-> Written(c.pend), live |-> TRUE])]
          /\ Answer(c, WriteReply(c, lost, IF lost THEN 0 ELSE v))
    BY <1>14 DEF WriteLands
  <2>2. m' = m
    BY <1>14 DEF WriteLands
  <2>3. k \in Keys /\ db[k] \in Seq(Stored)
    BY <1>0, <2>1 DEF Calls, CallInv, PendInv, DbInv
  <2>4. v \in Nat /\ v = Len(db'[k])
    <3>1. db'[k] = Append(db[k], [value |-> Written(c.pend), live |-> TRUE])
      BY <1>0, <2>1, <2>3 DEF DbInv
    <3>2. \A s \in Seq(Stored) : \A x : Len(s) \in Nat /\ Len(Append(s, x)) = Len(s) + 1
      OBVIOUS
    <3>3. Len(db[k]) \in Nat /\ Len(db'[k]) = Len(db[k]) + 1
      BY <2>3, <3>1, <3>2
    <3> QED
      BY <2>1, <3>3
  <2>5. PICK msg : msg = WriteReply(c, lost, IF lost THEN 0 ELSE v)
    OBVIOUS
  <2>6. msg.call = "writeMsg" /\ msg.key = k /\ (~msg.err => msg.version = v)
    BY <2>1, <2>5 DEF WriteReply
  <2>7. FreshCall(m, msg)'
    BY <2>3, <2>4, <2>6 DEF FreshCall, Landed, Read, Loads
  <2> QED
    BY <1>5, <2>1, <2>2, <2>5, <2>7
<1>15. CASE WriteFails
  <2>1. PICK c : Answer(c, WriteReply(c, TRUE, 0))
    BY <1>15 DEF WriteFails
  <2>2. m' = m
    BY <1>15 DEF WriteFails
  <2>3. FreshCall(m, WriteReply(c, TRUE, 0))'
    BY DEF FreshCall, WriteReply, Read, Loads
  <2> QED
    BY <1>5, <2>1, <2>2, <2>3
<1>16. CASE ListAnswers
  <2>1. PICK c, e, k :
          Answer(c, [call |-> "keysMsg", seq |-> c.seq, err |-> e, configs |-> k])
    BY <1>16 DEF ListAnswers
  <2>2. m' = m
    BY <1>16 DEF ListAnswers
  <2>3. FreshCall(m, [call |-> "keysMsg", seq |-> c.seq, err |-> e, configs |-> k])'
    BY DEF FreshCall, Read, Loads
  <2> QED
    BY <1>5, <2>1, <2>2, <2>3
<1>17. CASE EditorOpens
  <2>1. PICK c \in Calls("editor") : Answer(c, [c EXCEPT !.call = "editing"])
    BY <1>17 DEF EditorOpens
  <2>2. PICK msg : msg = [c EXCEPT !.call = "editing"] /\ msg.call = "editing"
    BY <1>0, <2>1 DEF Calls, Faithful
  <2>3. m' = m
    BY <1>17 DEF EditorOpens
  <2>4. FreshCall(m, msg)'
    BY <2>2 DEF FreshCall, Read, Loads
  <2> QED
    BY <1>5, <2>1, <2>2, <2>3, <2>4
<1>18. CASE EditorExits
  <2>1. PICK c, e, v : Answer(c, EditReply(c, e, v))
    BY <1>18 DEF EditorExits
  <2>2. m' = m
    BY <1>18 DEF EditorExits
  <2>3. FreshCall(m, EditReply(c, e, v))'
    BY DEF FreshCall, Read, Loads, EditReply
  <2> QED
    BY <1>5, <2>1, <2>2, <2>3
<1>19. CASE OtherSets \/ OtherDeletes \/ QuitMsg \/ UNCHANGED vars
  <2>1. calls' = calls /\ m' = m
    BY <1>19 DEF OtherSets, OtherDeletes, Other, QuitMsg, vars
  <2> QED
    BY <1>5, <2>1
<1> QED
  BY <1>6, <1>7, <1>8, <1>9, <1>10, <1>11, <1>12, <1>13, <1>14, <1>15, <1>16, <1>17,
     <1>18, <1>19 DEF Next, Update, Backend

-----------------------------------------------------------------------------
\* A detail that is awaited for the model, or shown by it, is no older than the writes
\* the model has heard of; every write it has heard of is in the database.
THEOREM FreshInvariant == Spec => []FreshInv
  BY FreshInit, FreshStep, PTL DEF Spec

\* Once the reload after a write has answered, the detail is no older than the writes
\* the status line reported for its key.
THEOREM OwnWritesAreShown == Spec => []OwnWritesShow
<1>1. FreshInv => OwnWritesShow
  BY DEF FreshInv, FreshModel, Fresh, OwnWritesShow
<1> QED
  BY <1>1, FreshInvariant, PTL

-----------------------------------------------------------------------------
\* The cursors.

\* Rows as they are built: the last one is a key's.
AnyRow == {Header(Group[k]) : k \in Keys} \cup {KeyRow(k) : k \in Keys}

Listed(rows) == rows \in Seq(AnyRow) /\ (rows # <<>> => ~rows[Len(rows)].header)

Pointing(n) ==
    Shape(n) /\ Listed(n.rows) /\ (n.rows # <<>> => n.cur \in KeyRows(n))

\* A set of naturals has a least element.
LEMMA LeastNat ==
  ASSUME NEW T, T \subseteq Nat, T # {}
  PROVE  \E x \in T : \A y \in T : x <= y
<1>1. PICK x \in T : \A y \in T : ~ (<<y, x>> \in OpToRel(<, Nat))
  BY NatLessThanWellFounded, WFMin
<1>2. \A y \in T : <<y, x>> \in Nat \X Nat
  OBVIOUS
<1>3. \A y \in T : y < x => <<y, x>> \in OpToRel(<, Nat)
  BY <1>2 DEF OpToRel
<1>4. \A y \in T : ~(y < x)
  BY <1>1, <1>3, Zenon
<1> QED
  BY <1>4

\* A set with 0 and the successor of each of its elements has every natural.
LEMMA SetInduction ==
  ASSUME NEW T, 0 \in T, \A n \in Nat : n \in T => n + 1 \in T
  PROVE  Nat \subseteq T
<1> SUFFICES ASSUME Nat \ T # {} PROVE FALSE
  OBVIOUS
<1>1. PICK x \in Nat \ T : \A y \in Nat \ T : x <= y
  BY LeastNat
<1>2. x - 1 \in Nat /\ x - 1 \notin Nat \ T
  BY <1>1
<1> QED
  BY <1>2

\* The first and the last of some rows are among them.
LEMMA FirstAndLast ==
  ASSUME NEW n \in Nat, NEW s, s \subseteq 1 .. n, s # {}
  PROVE  Min(s) \in s /\ Max(s) \in s
<1>1. s \subseteq Nat
  OBVIOUS
<1>2. Min(s) \in s
  BY <1>1, LeastNat DEF Min
<1>3. Max(s) \in s
  <2> DEFINE T == {n - x : x \in s}
  <2>1. T \subseteq Nat /\ T # {}
    <3>1. \A x \in s : x \in Nat /\ x <= n
      OBVIOUS
    <3>2. \A x \in s : n - x \in Nat
      BY <3>1
    <3> QED
      BY <3>2
  <2>2. PICK d \in T : \A e \in T : d <= e
    BY <2>1, LeastNat
  <2>3. PICK x \in s : d = n - x
    OBVIOUS
  <2>4. ASSUME NEW y \in s PROVE x >= y
    <3>1. n - x <= n - y
      BY <2>2, <2>3
    <3> QED
      BY <3>1
  <2> QED
    BY <2>4 DEF Max
<1> QED
  BY <1>2, <1>3

\* Another key is listed.
LEMMA WithKeyListed ==
  ASSUME NEW rows, Listed(rows), NEW k \in Keys
  PROVE  Listed(WithKey(rows, k))
<1> DEFINE r == Append(rows, Header(Group[k]))
<1>1. Header(Group[k]) \in AnyRow /\ KeyRow(k) \in AnyRow /\ ~KeyRow(k).header
  BY DEF AnyRow, KeyRow
<1>2. r \in Seq(AnyRow) /\ rows \in Seq(AnyRow)
  BY <1>1 DEF Listed
<1>3. ASSUME NEW s \in Seq(AnyRow) PROVE Listed(Append(s, KeyRow(k)))
  <2>1. Append(s, KeyRow(k)) \in Seq(AnyRow) /\ Len(Append(s, KeyRow(k))) = Len(s) + 1
    BY <1>1
  <2>2. Append(s, KeyRow(k))[Len(s) + 1] = KeyRow(k)
    BY <1>1
  <2> QED
    BY <1>1, <2>1, <2>2 DEF Listed
<1>4. \/ WithKey(rows, k) = Append(r, KeyRow(k))
      \/ WithKey(rows, k) = Append(rows, KeyRow(k))
  BY DEF WithKey
<1> QED
  BY <1>2, <1>3, <1>4

\* The rows that may be listed, and what RowsUpTo computes from the table before.
Rows == {r \in Seq(AnyRow) : Listed(r)}

AfterKey(shown, rows, k) == IF k \in shown THEN WithKey(rows, k) ELSE rows

\* A table of the rows after each of the first n keys.
IsTable(shown, n, f) ==
    /\ f \in [0 .. n -> Rows] /\ f[0] = <<>>
    /\ \A i \in 1 .. n : f[i] = AfterKey(shown, f[i - 1], Order[i])

LEMMA NoRows == <<>> \in Rows
  BY DEF Rows, Listed

LEMMA NextRows ==
  ASSUME NEW shown, NEW r \in Rows, NEW k \in Keys
  PROVE  AfterKey(shown, r, k) \in Rows
<1>1. Listed(WithKey(r, k))
  BY WithKeyListed DEF Rows
<1> QED
  BY <1>1 DEF Rows, AfterKey, Listed

\* The table exists.
LEMMA TableExists ==
  ASSUME NEW shown
  PROVE  \A n \in Nat : n <= Len(Order) => \E f : IsTable(shown, n, f)
<1> DEFINE T == {n \in Nat : n <= Len(Order) => \E f : IsTable(shown, n, f)}
<1>0. Len(Order) \in Nat /\ \A i \in 1 .. Len(Order) : Order[i] \in Keys
  BY TuiAssumption DEF TuiAssumption
<1>1. 0 \in T
  <2> DEFINE f == [i \in 0 .. 0 |-> <<>>]
  <2>1. f \in [0 .. 0 -> Rows] /\ f[0] = <<>>
    BY NoRows
  <2>2. IsTable(shown, 0, f)
    BY <2>1 DEF IsTable
  <2> QED
    BY <2>2
<1>2. ASSUME NEW n \in Nat, n \in T PROVE n + 1 \in T
  <2> SUFFICES ASSUME n + 1 <= Len(Order) PROVE \E f : IsTable(shown, n + 1, f)
    OBVIOUS
  <2>1. PICK f : IsTable(shown, n, f)
    BY <1>0, <1>2
  <2> DEFINE x == AfterKey(shown, f[n], Order[n + 1])
             h == [i \in 0 .. n + 1 |-> IF i = n + 1 THEN x ELSE f[i]]
  <2>2. f \in [0 .. n -> Rows] /\ f[0] = <<>>
    BY <2>1 DEF IsTable
  <2>3. x \in Rows
    <3>1. f[n] \in Rows /\ Order[n + 1] \in Keys
      BY <1>0, <2>2
    <3> QED
      BY <3>1, NextRows
  <2>4. h[n + 1] = x /\ \A i \in 0 .. n : h[i] = f[i]
    OBVIOUS
  <2>5. h \in [0 .. n + 1 -> Rows]
    <3>1. ASSUME NEW i \in 0 .. n + 1
          PROVE  (IF i = n + 1 THEN x ELSE f[i]) \in Rows
      <4>1. CASE i = n + 1
        BY <2>3, <4>1
      <4>2. CASE i # n + 1
        <5>1. i \in 0 .. n
          BY <4>2
        <5> QED
          BY <2>2, <4>2, <5>1
      <4> QED
        BY <4>1, <4>2
    <3> QED
      BY <3>1
  <2> HIDE DEF h
  <2>6. h[0] = <<>>
    BY <2>2, <2>4
  <2>7. ASSUME NEW i \in 1 .. n + 1 PROVE h[i] = AfterKey(shown, h[i - 1], Order[i])
    <3>1. CASE i = n + 1
      <4>1. i - 1 = n /\ n \in 0 .. n
        BY <3>1
      <4> QED
        BY <2>4, <3>1, <4>1
    <3>2. CASE i # n + 1
      <4>1. i \in 1 .. n /\ i \in 0 .. n /\ i - 1 \in 0 .. n
        BY <3>2
      <4>2. h[i] = f[i] /\ h[i - 1] = f[i - 1]
        BY <2>4, <4>1
      <4> QED
        BY <2>1, <4>1, <4>2 DEF IsTable
    <3> QED
      BY <3>1, <3>2
  <2>8. IsTable(shown, n + 1, h)
    BY <2>5, <2>6, <2>7 DEF IsTable
  <2> QED
    BY <2>8
<1> HIDE DEF T
<1>3. Nat \subseteq T
  BY <1>1, <1>2, SetInduction
<1> QED
  BY <1>3 DEF T

\* Whatever passes the filter, BuildRows lists it.
LEMMA BuildListed ==
  ASSUME NEW configs, NEW filter
  PROVE  Listed(BuildRows(configs, filter))
<1> DEFINE shown == configs \cap filter
           n == Len(Order)
           Is(f) == f = [i \in 0 .. n |->
                            IF i = 0 THEN <<>>
                            ELSE IF Order[i] \in shown THEN WithKey(f[i - 1], Order[i])
                            ELSE f[i - 1]]
           table == CHOOSE f : Is(f)
           T == {i \in Nat : i <= n => table[i] \in Rows}
<1>0. n \in Nat /\ \A i \in 1 .. n : Order[i] \in Keys
  BY TuiAssumption DEF TuiAssumption
<1>1. BuildRows(configs, filter) = table[n]
  BY Zenon DEF BuildRows, RowsUpTo
<1>2. PICK f : IsTable(shown, n, f)
  <2>1. n <= Len(Order)
    BY <1>0
  <2> HIDE DEF shown, n
  <2> QED
    BY <1>0, <2>1, TableExists
<1>3. Is(f)
  <2> DEFINE h == [i \in 0 .. n |->
                      IF i = 0 THEN <<>>
                      ELSE IF Order[i] \in shown THEN WithKey(f[i - 1], Order[i])
                      ELSE f[i - 1]]
  <2>1. ASSUME NEW i \in 0 .. n PROVE f[i] = h[i]
    <3>1. CASE i = 0
      BY <1>2, <3>1 DEF IsTable
    <3>2. CASE i # 0
      <4>1. i \in 1 .. n
        BY <1>0, <3>2
      <4> QED
        BY <1>2, <3>2, <4>1 DEF IsTable, AfterKey
    <3> QED
      BY <3>1, <3>2
  <2>2. f \in [0 .. n -> Rows]
    BY <1>2 DEF IsTable
  <2> HIDE DEF shown, n
  <2> QED
    BY <2>1, <2>2
<1>4. Is(table)
  <2> HIDE DEF Is
  <2> QED
    BY <1>3, Zenon
<1>5. \A i \in 0 .. n : table[i] = IF i = 0 THEN <<>> ELSE AfterKey(shown, table[i - 1], Order[i])
  <2> HIDE DEF table, shown, n
  <2>1. table = [i \in 0 .. n |->
                    IF i = 0 THEN <<>>
                    ELSE IF Order[i] \in shown THEN WithKey(table[i - 1], Order[i])
                    ELSE table[i - 1]]
    BY <1>4, Zenon
  <2> QED
    BY <2>1 DEF AfterKey
<1> HIDE DEF table, shown
<1>6. 0 \in T
  BY <1>0, <1>5, NoRows
<1>7. ASSUME NEW i \in Nat, i \in T PROVE i + 1 \in T
  <2> SUFFICES ASSUME i + 1 <= n PROVE table[i + 1] \in Rows
    OBVIOUS
  <2>1. table[i] \in Rows /\ Order[i + 1] \in Keys
    BY <1>0, <1>7
  <2>2. table[i + 1] = AfterKey(shown, table[i], Order[i + 1])
    <3>1. i + 1 \in 0 .. n /\ i + 1 # 0 /\ (i + 1) - 1 = i
      BY <1>0
    <3> QED
      BY <1>5, <3>1
  <2> QED
    BY <2>1, <2>2, NextRows
<1> HIDE DEF T
<1>8. n \in T
  BY <1>0, <1>6, <1>7, SetInduction
<1> QED
  BY <1>0, <1>1, <1>8 DEF T, Rows

-----------------------------------------------------------------------------
\* Handlers that leave the rows and the cursor alone.
Still(n, o) == Shape(o) /\ o.rows = n.rows /\ o.cur = n.cur

LEMMA StillPoints ==
  ASSUME NEW n, NEW o, Pointing(n), Still(n, o)
  PROVE  Pointing(o)
  BY DEF Pointing, Still, KeyRows

LEMMA StillTwice ==
  ASSUME NEW n, NEW o, NEW r, Still(n, o), Still(o, r)
  PROVE  Still(n, r)
  BY DEF Still

\* Calls are started.
LEMMA LoadsStill ==
  ASSUME NEW n, Shape(n)
  PROVE  /\ Still(n, n) /\ Still(n, LoadKeys(n)) /\ \A k : Still(n, LoadDetail(n, k))
         /\ \A c : Still(n, Emit(n, c))
<1>1. Still(n, n)
  BY DEF Still
<1>2. Still(n, LoadKeys(n))
  BY DEF LoadKeys, Emit, Fields, Shape, Still
<1>3. \A k : Still(n, LoadDetail(n, k))
  BY DEF LoadDetail, Emit, Fields, Shape, Still
<1>4. \A c : Still(n, Emit(n, c))
  BY DEF Emit, Fields, Shape, Still
<1> QED
  BY <1>1, <1>2, <1>3, <1>4

\* The selection is followed.
LEMMA SyncDetailStill ==
  ASSUME NEW n, NEW prev, Shape(n)
  PROVE  Still(n, SyncDetail(n, prev))
<1> DEFINE k == SelectedKey(n)
           cleared == [n EXCEPT !.hcur = 1, !.hasDetail = FALSE,
                                !.detail = NoDetail, !.history = <<>>]
           nothing == [cleared EXCEPT !.detailSeq = @ + 1, !.detailKey = NoKey,
                                      !.loadingDetail = FALSE]
<1>1. Still(n, cleared)
  BY DEF Fields, Shape, Still
<1>2. Still(n, nothing)
  BY <1>1 DEF Fields, Shape, Still
<1>3. Still(n, LoadDetail(cleared, k))
  <2>1. Shape(cleared)
    BY <1>1 DEF Still
  <2> HIDE DEF cleared
  <2>2. Still(cleared, LoadDetail(cleared, k))
    BY <2>1, LoadsStill
  <2> QED
    BY <1>1, <2>2, StillTwice
<1>4. \/ SyncDetail(n, prev) = n
      \/ SyncDetail(n, prev) = nothing
      \/ SyncDetail(n, prev) = LoadDetail(cleared, k)
  <2>1. CASE k = prev /\ (n.hasDetail \/ k = NoKey)
    BY <2>1 DEF SyncDetail
  <2>2. CASE k = NoKey /\ prev # NoKey
    BY <2>2 DEF SyncDetail
  <2>3. CASE ~(k = prev /\ (n.hasDetail \/ k = NoKey)) /\ ~(k = NoKey /\ prev # NoKey)
    BY <2>3 DEF SyncDetail
  <2> QED
    BY <2>1, <2>2, <2>3
<1>5. Still(n, n)
  BY DEF Still
<1> HIDE DEF nothing, cleared
<1> QED
  BY <1>2, <1>3, <1>4, <1>5

\* Fields of the model that have no part in it.
LEMMA FieldsStill ==
  ASSUME NEW n, Shape(n)
  PROVE  /\ \A x : Still(n, [n EXCEPT !.hcur = x])
         /\ \A x : Still(n, OpenOverlay(n, x))
         /\ \A x, y : Still(n, OpenOverlay([n EXCEPT !.pend = y], x))
         /\ \A x : Still(n, [n EXCEPT !.errMsg = x])
         /\ \A x : Still(n, [n EXCEPT !.filter = x])
         /\ \A x \in Panes : Still(n, [n EXCEPT !.focus = x])
         /\ \A x \in Modes : Still(n, [n EXCEPT !.mode = x])
         /\ Still(n, CloseOverlay(n))
<1>1. \A x : Still(n, [n EXCEPT !.hcur = x])
  BY DEF Fields, Shape, Still
<1>2. \A x : Still(n, OpenOverlay(n, x))
  BY DEF OpenOverlay, Fields, Shape, Modes, Still
<1>3. \A x, y : Still(n, OpenOverlay([n EXCEPT !.pend = y], x))
  BY DEF OpenOverlay, Fields, Shape, Modes, Still
<1>4. \A x : Still(n, [n EXCEPT !.errMsg = x])
  BY DEF Fields, Shape, Still
<1>5. \A x : Still(n, [n EXCEPT !.filter = x])
  BY DEF Fields, Shape, Still
<1>6. \A x \in Panes : Still(n, [n EXCEPT !.focus = x])
  BY DEF Fields, Shape, Still
<1>7. \A x \in Modes : Still(n, [n EXCEPT !.mode = x])
  BY DEF Fields, Shape, Still
<1>8. Still(n, CloseOverlay(n))
  BY DEF CloseOverlay, Fields, Shape, Modes, Still
<1> QED
  BY <1>1, <1>2, <1>3, <1>4, <1>5, <1>6, <1>7, <1>8

-----------------------------------------------------------------------------
\* Handlers that move the cursor or build the rows anew.

\* The cursor is put on a key's row, and the selection is followed.
LEMMA CursorPoints ==
  ASSUME NEW n, Shape(n), Listed(n.rows), NEW i, n.rows # <<>> => i \in KeyRows(n), NEW prev
  PROVE  Pointing(SyncDetail([n EXCEPT !.cur = i], prev))
<1> DEFINE o == [n EXCEPT !.cur = i]
<1>1. Shape(o) /\ o.rows = n.rows /\ o.cur = i
  BY DEF Fields, Shape
<1>2. Pointing(o)
  BY <1>1 DEF Pointing, KeyRows
<1> HIDE DEF o
<1>3. Still(o, SyncDetail(o, prev))
  BY <1>1, SyncDetailStill
<1>4. Pointing(SyncDetail(o, prev))
  BY <1>2, <1>3, StillPoints
<1> QED
  BY <1>4 DEF o

\* There is a key's row to go to.
LEMMA FirstAndLastKeyRow ==
  ASSUME NEW n, Listed(n.rows), n.rows # <<>>
  PROVE  FirstKeyRow(n) \in KeyRows(n) /\ LastKeyRow(n) \in KeyRows(n)
<1>1. Len(n.rows) \in Nat /\ Len(n.rows) \in 1 .. Len(n.rows)
  BY DEF Listed
<1>2. KeyRows(n) # {} /\ KeyRows(n) \subseteq 1 .. Len(n.rows)
  BY <1>1 DEF Listed, KeyRows
<1> QED
  BY <1>1, <1>2, FirstAndLast DEF FirstKeyRow, LastKeyRow

LEMMA RebuildPoints ==
  ASSUME NEW n, Shape(n)
  PROVE  Pointing(Rebuild(n))
<1> DEFINE rows == BuildRows(n.configs, n.filter)
           b == [n EXCEPT !.rows = rows]
           s == RowsOf(b, SelectedKey(n))
           i == IF s = {} THEN FirstKeyRow(b) ELSE Min(s)
<1>1. Listed(rows)
  BY BuildListed
<1> HIDE DEF rows
<1>2. Shape(b) /\ b.rows = rows
  BY DEF Fields, Shape
<1> HIDE DEF b
<1>3. ASSUME b.rows # <<>> PROVE i \in KeyRows(b)
  <2>1. CASE s = {}
    BY <1>1, <1>2, <1>3, <2>1, FirstAndLastKeyRow
  <2>2. CASE s # {}
    <3>1. s \subseteq 1 .. Len(b.rows) /\ Len(b.rows) \in Nat /\ s \subseteq KeyRows(b)
      BY <1>1, <1>2 DEF RowsOf, KeyRows, Listed
    <3> HIDE DEF s
    <3>2. Min(s) \in s
      BY <2>2, <3>1, FirstAndLast
    <3> QED
      BY <2>2, <3>1, <3>2
  <2> QED
    BY <2>1, <2>2
<1> HIDE DEF i
<1>4. Listed(b.rows)
  BY <1>1, <1>2
<1>5. Pointing(SyncDetail([b EXCEPT !.cur = i], SelectedKey(n)))
  BY <1>2, <1>3, <1>4, CursorPoints
<1>6. Rebuild(n) = SyncDetail([b EXCEPT !.cur = i], SelectedKey(n))
  BY DEF Rebuild, i, s, b, rows
<1> QED
  BY <1>5, <1>6

LEMMA FilterPoints ==
  ASSUME NEW n, Shape(n), NEW f
  PROVE  Pointing(SetFilter(n, f))
<1>1. Shape([n EXCEPT !.filter = f])
  BY FieldsStill DEF Still
<1> QED
  BY <1>1, RebuildPoints DEF SetFilter

LEMMA MovePoints ==
  ASSUME NEW n, Pointing(n), NEW d \in Int
  PROVE  Pointing(Move(n, d)) /\ Pointing(Jump(n, d))
<1>0. Still(n, n) /\ Shape(n) /\ Listed(n.rows) /\ Len(n.rows) \in Nat
  BY DEF Still, Pointing, Listed
<1>1. Pointing(MoveKeys(n, d))
  <2> DEFINE ahead == {i \in KeyRows(n) : IF d > 0 THEN i > n.cur ELSE i < n.cur}
             i == IF d > 0 THEN Min(ahead) ELSE Max(ahead)
  <2>1. CASE ahead = {}
    BY <2>1 DEF MoveKeys
  <2>2. CASE ahead # {}
    <3>1. ahead \subseteq KeyRows(n) /\ ahead \subseteq 1 .. Len(n.rows)
      BY DEF KeyRows
    <3>2. MoveKeys(n, d) = SyncDetail([n EXCEPT !.cur = i], SelectedKey(n))
      BY <2>2 DEF MoveKeys
    <3> HIDE DEF ahead
    <3>3. i \in KeyRows(n)
      BY <1>0, <2>2, <3>1, FirstAndLast
    <3> HIDE DEF i
    <3> QED
      BY <1>0, <3>2, <3>3, CursorPoints
  <2> QED
    BY <2>1, <2>2
<1>2. CASE n.focus = "keys"
  <2> DEFINE i == IF d < 0 THEN FirstKeyRow(n) ELSE LastKeyRow(n)
  <2>1. Move(n, d) = MoveKeys(n, d)
    BY <1>2 DEF Move
  <2>2. Jump(n, d) = SyncDetail([n EXCEPT !.cur = i], SelectedKey(n))
    BY <1>2 DEF Jump
  <2>3. n.rows # <<>> => i \in KeyRows(n)
    BY <1>0, FirstAndLastKeyRow
  <2> HIDE DEF i
  <2> QED
    BY <1>0, <1>1, <2>1, <2>2, <2>3, CursorPoints
<1>3. CASE n.focus = "value"
  BY <1>3 DEF Move, Jump
<1>4. CASE n.focus = "history"
  <2>1. /\ Move(n, d) = [n EXCEPT !.hcur = Clamp(@ + d, 1, Len(n.history))]
        /\ Jump(n, d) = [n EXCEPT !.hcur = IF d < 0 THEN 1 ELSE Max({1, Len(n.history)})]
    BY <1>4 DEF Move, Jump
  <2>2. \A x : Still(n, [n EXCEPT !.hcur = x])
    BY <1>0, FieldsStill
  <2>3. Still(n, Move(n, d))
    BY <2>1, <2>2
  <2>4. Still(n, Jump(n, d))
    BY <2>1, <2>2
  <2> QED
    BY <2>3, <2>4, StillPoints
<1> QED
  BY <1>0, <1>2, <1>3, <1>4 DEF Shape, Panes

\* Every key.
LEMMA KeyPoints ==
  ASSUME NEW n, Pointing(n),
         NEW o \in CASE n.mode = "browse"  -> BrowseKey(n)
                     [] n.mode = "filter"  -> FilterKey(n)
                     [] n.mode = "overlay" -> OverlayKey(n)
  PROVE  Pointing(o)
<1>0. Shape(n)
  BY DEF Pointing
<1>1. ASSUME NEW r, Still(n, r) PROVE Pointing(r)
  BY <1>1, StillPoints
<1>2. CASE n.mode = "browse"
  <2>1. o \in BrowseKey(n)
    BY <1>2
  <2>2. \/ o \in {Move(n, 1), Move(n, -1), Jump(n, 1), Jump(n, -1)}
        \/ o \in {n, Refresh(n)} \cup StartEdit(n)
        \/ o = SetFilter(n, All)
        \/ o \in {ShowDiff(n), AskRollback(n)}
        \/ o \in {OpenOverlay(n, Help), [n EXCEPT !.mode = "filter"]}
        \/ \E f \in Panes : o = [n EXCEPT !.focus = f]
    BY <2>1 DEF BrowseKey, Panes
  <2>3. Still(n, Refresh(n))
    <3>1. Still(n, LoadKeys(n)) /\ Shape(LoadKeys(n))
      BY <1>0, LoadsStill DEF Still
    <3>2. Still(LoadKeys(n), LoadDetail(LoadKeys(n), SelectedKey(n)))
      BY <3>1, LoadsStill
    <3> QED
      BY <3>1, <3>2, StillTwice DEF Refresh
  <2>4. Still(n, n) /\ \A r \in StartEdit(n) : Still(n, r)
    BY <1>0, LoadsStill, FieldsStill DEF StartEdit
  <2>5. Still(n, ShowDiff(n)) /\ Still(n, AskRollback(n))
    BY <1>0, <2>4, FieldsStill DEF ShowDiff, AskRollback
  <2>6. /\ Still(n, OpenOverlay(n, Help)) /\ Still(n, [n EXCEPT !.mode = "filter"])
        /\ \A f \in Panes : Still(n, [n EXCEPT !.focus = f])
    BY <1>0, FieldsStill DEF Modes
  <2>7. \A d \in {1, -1} : Pointing(Move(n, d)) /\ Pointing(Jump(n, d))
    BY MovePoints
  <2>8. Pointing(SetFilter(n, All))
    BY <1>0, FilterPoints
  <2> QED
    BY <1>1, <2>2, <2>3, <2>4, <2>5, <2>6, <2>7, <2>8
<1>3. CASE n.mode = "filter"
  <2> DEFINE b == [n EXCEPT !.mode = "browse"]
  <2>1. o \in FilterKey(n)
    BY <1>3
  <2>2. o = b \/ o = SetFilter(b, All) \/ \E f \in Filters : o = SetFilter(n, f)
    BY <2>1 DEF FilterKey
  <2>3. Still(n, b) /\ Shape(b)
    BY <1>0, FieldsStill DEF Modes, Still
  <2> HIDE DEF b
  <2> QED
    BY <1>0, <1>1, <2>2, <2>3, FilterPoints
<1>4. CASE n.mode = "overlay"
  <2> DEFINE b == CloseOverlay(n)
             c == [call |-> "write", id |-> strokes, pend |-> n.pend]
  <2>1. o \in OverlayKey(n)
    BY <1>4
  <2>2. o \in {b, n, Emit(b, c)}
    BY <2>1 DEF OverlayKey
  <2>3. Still(n, b) /\ Shape(b)
    BY <1>0, FieldsStill DEF Still
  <2>4. Still(n, Emit(b, c))
    BY <2>3, LoadsStill, StillTwice
  <2> QED
    BY <1>1, <2>2, <2>3, <2>4
<1> QED
  BY <1>0, <1>2, <1>3, <1>4 DEF Shape, Modes

\* Every message.
LEMMA MsgPoints ==
  ASSUME NEW n, Pointing(n), NEW msg
  PROVE  /\ Pointing(OnKeys(n, msg)) /\ Pointing(OnDetail(n, msg))
         /\ Pointing(OnWrite(n, msg)) /\ Pointing(AfterEdit(n, msg))
<1>0. Shape(n) /\ Still(n, n)
  BY DEF Pointing, Still
<1>1. Pointing(OnKeys(n, msg))
  <2> DEFINE failed == [n EXCEPT !.loadingKeys = FALSE, !.errMsg = "list"]
             o == [n EXCEPT !.loadingKeys = FALSE, !.errMsg = "",
                            !.configs = msg.configs]
  <2>1. Still(n, failed) /\ Shape(o)
    BY <1>0 DEF Fields, Shape, Still
  <2>2. Pointing(failed) /\ Pointing(Rebuild(o))
    BY <2>1, StillPoints, RebuildPoints
  <2> QED
    BY <2>2 DEF OnKeys
<1>2. Pointing(OnDetail(n, msg))
  <2> DEFINE failed == [n EXCEPT !.loadingDetail = FALSE, !.hasDetail = FALSE, !.errMsg = "get"]
             o == [n EXCEPT !.loadingDetail = FALSE, !.hasDetail = TRUE, !.errMsg = "",
                            !.detail = msg.detail, !.history = msg.history, !.hcur = 1]
  <2>1. Still(n, failed) /\ Still(n, o)
    BY <1>0 DEF Fields, Shape, Still
  <2>2. Pointing(failed) /\ Pointing(o)
    BY <2>1, StillPoints
  <2> QED
    BY <2>2 DEF OnDetail
<1>3. Pointing(OnWrite(n, msg))
  <2> DEFINE o == [n EXCEPT !.errMsg = "",
                            !.writes = @ \cup {[key |-> msg.key, version |-> msg.version]}]
  <2>1. Still(n, o) /\ Shape(o)
    BY <1>0 DEF Fields, Shape, Still
  <2>2. OnWrite(n, msg) \in {[n EXCEPT !.errMsg = "write"], LoadKeys(o),
                             LoadDetail(LoadKeys(o), msg.key)}
    BY DEF OnWrite
  <2> HIDE DEF o
  <2>3. Still(n, LoadKeys(o)) /\ Shape(LoadKeys(o))
    BY <2>1, LoadsStill DEF Still
  <2>4. Still(n, LoadDetail(LoadKeys(o), msg.key))
    BY <2>3, LoadsStill, StillTwice
  <2>5. Still(n, [n EXCEPT !.errMsg = "write"])
    BY <1>0, FieldsStill
  <2> QED
    BY <2>2, <2>3, <2>4, <2>5, StillPoints
<1>4. Still(n, AfterEdit(n, msg))
  BY <1>0, FieldsStill DEF AfterEdit
<1> QED
  BY <1>1, <1>2, <1>3, <1>4, StillPoints

-----------------------------------------------------------------------------
LEMMA PointingInit == Init => Pointing(m)
<1> SUFFICES ASSUME Init PROVE Pointing(m)
  OBVIOUS
<1>1. Shape(m) /\ m.rows = <<>>
  BY DEF Init, Start, LoadKeys, Emit, NewModel, Shape, Fields, Panes, Modes
<1> QED
  BY <1>1 DEF Pointing, Listed

LEMMA PointingStep == Pointing(m) /\ [Next]_vars => Pointing(m)'
<1> SUFFICES ASSUME Pointing(m), [Next]_vars PROVE Pointing(m)'
  OBVIOUS
<1>1. ASSUME NEW o, NEW d, Pointing(o), Become(o, d) PROVE Pointing(m)'
  <2>1. Shape(m)' /\ m'.rows = o.rows /\ m'.cur = o.cur
    BY <1>1 DEF Become, Pointing, Fields, Shape
  <2> QED
    BY <1>1, <2>1 DEF Pointing, KeyRows
<1>2. CASE Key
  <2>1. PICK o \in CASE m.mode = "browse"  -> BrowseKey(m)
                     [] m.mode = "filter"  -> FilterKey(m)
                     [] m.mode = "overlay" -> OverlayKey(m) : Become(o, {})
    BY <1>2 DEF Key
  <2> QED
    BY <1>1, <2>1, KeyPoints
<1>3. CASE KeysMsg \/ DetailMsg \/ WriteMsg \/ EditedMsg
  <2>1. \E msg : \/ Become(OnKeys(m, msg), {msg}) \/ Become(OnDetail(m, msg), {msg})
                 \/ Become(OnWrite(m, msg), {msg}) \/ Become(AfterEdit(m, msg), {msg})
    BY <1>3 DEF KeysMsg, DetailMsg, WriteMsg, EditedMsg
  <2> QED
    BY <1>1, <2>1, MsgPoints
<1>4. CASE QuitKey \/ QuitMsg \/ Backend \/ UNCHANGED vars
  <2>1. m' = m
    BY <1>4 DEF QuitKey, QuitMsg, Backend, ListAnswers, GetAnswers, HistoryAnswers,
                WriteLands, WriteFails, EditorOpens, EditorExits, OtherSets, OtherDeletes,
                Other, vars
  <2> QED
    BY <2>1
<1> QED
  BY <1>2, <1>3, <1>4 DEF Next, Update

\* The cursor of the keys is on a key's row, never on a header, and the cursor of the
\* history inside it, whatever lists replace the rows under it.
THEOREM CursorsStayInRange == Spec => []CursorsInRange
<1>1. PreviewInv /\ Pointing(m) => CursorsInRange
  BY DEF PreviewInv, InView, Pointing, CursorsInRange
<1> QED
  BY <1>1, PreviewInvariant, PointingInit, PointingStep, PTL DEF Spec
=============================================================================
