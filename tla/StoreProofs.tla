---------------------------- MODULE StoreProofs ----------------------------
(***************************************************************************)
(* DB.write for any number of writers, keys, payloads and revisions, under *)
(* either isolation level.  The argument: BumpUpdate comes first, so only  *)
(* the holder of the row lock is past it; nothing is committed while it is *)
(* held except by its holder, so every read view is still the committed    *)
(* state when a decision is taken on it.                                   *)
(***************************************************************************)
EXTENDS Store, FiniteSetTheorems, SequenceTheorems, TLAPS

Locked   == {"bump select", "get", "resolve", "write", "append", "commit"}
Raised   == {"get", "resolve", "write", "append", "commit"}
Chosen   == {"write", "append", "commit"}
Numbered == {"append", "commit"}

\* What a transaction knows at each of its statements.
TxInv(w) ==
    /\ pc[w] # "idle" => req[w] \in Request
    /\ pc[w] \in Locked <=> holder = w
    /\ pc[w] \in Locked => revision \in Nat
    /\ view[w] # NoView => pc[w] \in Locked /\ view[w] = Committed
    /\ pc[w] \in Raised => rev[w] = revision + 1
    /\ pc[w] = "resolve" => payload[w] = config[req[w].key]
    /\ pc[w] \in Chosen =>
          /\ payload[w] \in Valid
          /\ req[w].op = "delete" => payload[w] = config[req[w].key]
    /\ pc[w] \in Numbered => version[w] = MaxVersion(history, req[w].key) + 1

AllTxInv == \A w \in Writers : TxInv(w)

RowsOf(rows, k) == {r \in rows : r.key = k}

\* The three tables, between any two commits.
RowsInv ==
    /\ IsFiniteSet(history)
    /\ RevisionCountsWrites
    /\ VersionsContiguous
    /\ \A r, s \in history : r.key = s.key /\ r.version = s.version => r = s

StoreInv == TypeOK /\ AllTxInv /\ RowsInv

-----------------------------------------------------------------------------
\* Lemmas about the operators.

\* COALESCE(MAX(version), 0) of the versions 1..n is n.
LEMMA MaxOfVersions ==
  ASSUME NEW n \in Nat
  PROVE  Max((1 .. n) \cup {0}) = n
<1> DEFINE S == (1 .. n) \cup {0}
<1>1. n \in S /\ \A y \in S : n >= y
  OBVIOUS
<1>2. \A x \in S : (\A y \in S : x >= y) => x = n
  OBVIOUS
<1> QED
  BY <1>1, <1>2 DEF Max

\* So, while versions leave no hole, MaxVersion is the number of the key's rows.
LEMMA MaxVersionCounts ==
  ASSUME RowsInv, NEW k \in Keys
  PROVE  /\ IsFiniteSet(RowsOf(history, k))
         /\ Cardinality(RowsOf(history, k)) \in Nat
         /\ Versions(history, k) = 1 .. Cardinality(RowsOf(history, k))
         /\ MaxVersion(history, k) = Cardinality(RowsOf(history, k))
<1>1. IsFiniteSet(RowsOf(history, k))
  BY FS_Subset DEF RowsOf, RowsInv
<1>2. Cardinality(RowsOf(history, k)) \in Nat
  BY <1>1, FS_CardinalityType
<1>3. Versions(history, k) = 1 .. Cardinality(RowsOf(history, k))
  BY DEF RowsInv, VersionsContiguous, RowsOf
<1> QED
  BY <1>1, <1>2, <1>3, MaxOfVersions DEF MaxVersion

\* Assigning a natural number to one writer's local.
LEMMA SetLocal ==
  ASSUME NEW f \in [Writers -> Nat], NEW w \in Writers, NEW n \in Nat
  PROVE  [f EXCEPT ![w] = n] \in [Writers -> Nat]
  OBVIOUS

\* The fields of a call.
LEMMA RequestFields ==
  ASSUME NEW r \in Request
  PROVE  /\ r.key \in Keys
         /\ r.op \in Ops
         /\ r.op = "set" => r.payload \in Payloads
  BY DEF Request, Ops

\* Whatever the isolation level, a SELECT sees the committed rows.
LEMMA VisibleIsCommitted ==
  ASSUME NEW w \in Writers, TxInv(w)
  PROVE  /\ Visible(w) = Committed
         /\ OpenedView(w) # NoView => OpenedView(w) = Committed
  BY DEF TxInv, Visible, OpenedView

\* So a transaction sees the history as it is.
LEMMA VisibleHistory ==
  ASSUME NEW w \in Writers, TxInv(w)
  PROVE  Visible(w).history = history
<1>1. Visible(w) = Committed
  BY VisibleIsCommitted
<1> QED
  BY <1>1 DEF Committed

\* What the view is after a SELECT has its type.
LEMMA OpenedViewType ==
  ASSUME TypeOK, NEW w \in Writers, TxInv(w)
  PROVE  OpenedView(w) \in View \cup {NoView}
<1>1. Committed \in View
  BY DEF TypeOK, Committed, View
<1> QED
  BY <1>1, VisibleIsCommitted

-----------------------------------------------------------------------------
\* Types.

\* An empty database, before Migrate, and nobody writing.
LEMMA InitInv == Init => StoreInv
<1> SUFFICES ASSUME Init PROVE StoreInv
  OBVIOUS
<1> USE DEF Init
<1>1. TypeOK
  BY DEF TypeOK, NoRow
<1>2. AllTxInv
  BY StoreAssumption DEF StoreAssumption, AllTxInv, TxInv, Locked, Raised, Chosen, Numbered
<1>3. RowsInv
  <2>1. IsFiniteSet(history) /\ RevisionCountsWrites
    BY FS_EmptySet DEF RevisionCountsWrites, NoRow
  <2>2. ASSUME NEW k \in Keys
        PROVE  Versions(history, k) = 1 .. Cardinality({r \in history : r.key = k})
    <3>1. {r \in history : r.key = k} = {} /\ Versions(history, k) = {}
      BY DEF Versions
    <3> QED
      BY <3>1, FS_EmptySet
  <2> QED
    BY <2>1, <2>2 DEF RowsInv, VersionsContiguous
<1> QED
  BY <1>1, <1>2, <1>3 DEF StoreInv

\* Ending a transaction, with any of its results, keeps the types of its locals.
LEMMA EndTypes ==
  ASSUME TypeOK, NEW w \in Writers,
         NEW result \in {"ok", "not found", "invalid", "error"}, End(w, result)
  PROVE  /\ holder' \in Writers \cup {NoWriter}
         /\ pc' \in [Writers -> {"idle", "bump", "bump select", "get", "resolve",
                                 "write", "append", "commit"}]
         /\ req' \in [Writers -> Request \cup {Idle}]
         /\ view' \in [Writers -> View \cup {NoView}]
         /\ rev' \in [Writers -> Nat]
         /\ payload' \in [Writers -> Payloads \cup {NoPayload}]
         /\ version' \in [Writers -> Nat]
         /\ outcome' \in [Writers -> {"none", "ok", "not found", "invalid", "error"}]
  BY DEF TypeOK, End

\* A failed call leaves the tables alone.
LEMMA FailTypes ==
  ASSUME TypeOK, NEW w \in Writers,
         NEW result \in {"ok", "not found", "invalid", "error"}, Fail(w, result)
  PROVE  TypeOK'
<1>1. End(w, result) /\ UNCHANGED <<revision, config, history, acked>>
  BY DEF Fail, tables
<1> QED
  BY <1>1, EndTypes DEF TypeOK

\* The row a commit publishes is a row of the history table.
LEMMA PublishedTypes ==
  ASSUME StoreInv, NEW w \in Writers, Published(w)
  PROVE  /\ req[w] \in Request /\ req[w].key \in Keys
         /\ holder = w
         /\ revision \in Nat /\ rev[w] = revision + 1 /\ revision' = revision + 1
         /\ revision' \in Nat
         /\ payload[w] \in Valid
         /\ version[w] \in Nat \ {0}
         /\ version[w] = Cardinality(RowsOf(history, req[w].key)) + 1
         /\ history' \subseteq Row
         /\ config' \in [Keys -> Valid \cup {NoPayload}]
<1>1. pc[w] = "commit" /\ TxInv(w) /\ TypeOK /\ RowsInv
  BY DEF Published, StoreInv, AllTxInv
<1>2. req[w] \in Request /\ req[w].key \in Keys /\ req[w].op \in Ops
  BY <1>1, RequestFields DEF TxInv
<1>3. /\ holder = w /\ revision \in Nat /\ rev[w] = revision + 1
      /\ payload[w] \in Valid
      /\ version[w] = MaxVersion(history, req[w].key) + 1
  BY <1>1 DEF TxInv, Locked, Raised, Chosen, Numbered
<1>4. version[w] = Cardinality(RowsOf(history, req[w].key)) + 1 /\ version[w] \in Nat \ {0}
  BY <1>1, <1>2, <1>3, MaxVersionCounts
<1>5. [key |-> req[w].key, version |-> version[w],
       op |-> req[w].op, payload |-> payload[w]] \in Row
  BY <1>2, <1>3, <1>4 DEF Row
<1>6. history' \subseteq Row
  BY <1>1, <1>5 DEF Published, TypeOK
<1>7. config' \in [Keys -> Valid \cup {NoPayload}]
  BY <1>1, <1>3 DEF Published, TypeOK
<1> QED
  BY <1>2, <1>3, <1>4, <1>6, <1>7 DEF Published

\* Every statement of write keeps the types of the tables and of its locals.
LEMMA TypeStep == StoreInv /\ [Next]_vars => TypeOK'
<1> SUFFICES ASSUME StoreInv, [Next]_vars PROVE TypeOK'
  OBVIOUS
<1>0. TypeOK /\ RowsInv /\ \A w \in Writers : TxInv(w)
  BY DEF StoreInv, AllTxInv
<1>1. CASE Migrate
  BY <1>0, <1>1 DEF Migrate, TypeOK, locals
<1>2. ASSUME NEW w \in Writers, NEW r \in Request, Begin(w, r) PROVE TypeOK'
  BY <1>0, <1>2 DEF Begin, TypeOK, tables
<1>3. ASSUME NEW w \in Writers, BumpUpdate(w) PROVE TypeOK'
  <2>1. revision \in Nat
    BY <1>0, <1>3 DEF BumpUpdate, TypeOK
  <2>2. pc' \in [Writers -> {"idle", "bump", "bump select", "get", "resolve",
                             "write", "append", "commit"}]
        /\ rev' \in [Writers -> Nat]
    <3>1. CASE Isolation = "repeatable read"
      BY <1>0, <1>3, <3>1 DEF BumpUpdate, TypeOK
    <3>2. CASE Isolation # "repeatable read"
      <4>1. pc' = [pc EXCEPT ![w] = "get"] /\ rev' = [rev EXCEPT ![w] = revision + 1]
        BY <1>3, <3>2 DEF BumpUpdate
      <4>2. revision + 1 \in Nat
        BY <2>1
      <4>3. rev \in [Writers -> Nat]
        BY <1>0 DEF TypeOK
      <4> QED
        BY <1>0, <4>1, <4>2, <4>3, SetLocal DEF TypeOK
    <3> QED
      BY <3>1, <3>2
  <2> QED
    BY <1>0, <1>3, <2>2 DEF BumpUpdate, TypeOK, tables
<1>4. ASSUME NEW w \in Writers, BumpSelect(w) PROVE TypeOK'
  <2>1. revision \in Nat
    BY <1>0, <1>4 DEF BumpSelect, TxInv, Locked
  <2>2. view' \in [Writers -> View \cup {NoView}]
    BY <1>0, <1>4, OpenedViewType DEF BumpSelect, TypeOK
  <2>3. rev' \in [Writers -> Nat]
    <3>1. rev \in [Writers -> Nat] /\ rev' = [rev EXCEPT ![w] = revision + 1]
      BY <1>0, <1>4 DEF BumpSelect, TypeOK
    <3>2. revision + 1 \in Nat
      BY <2>1
    <3> QED
      BY <3>1, <3>2, SetLocal
  <2> QED
    BY <1>0, <1>4, <2>2, <2>3 DEF BumpSelect, TypeOK, tables
<1>5. ASSUME NEW w \in Writers, GetConfig(w) PROVE TypeOK'
  <2>1. req[w].key \in Keys
    BY <1>0, <1>5, RequestFields DEF GetConfig, TxInv
  <2>2. Visible(w).config[req[w].key] \in Payloads \cup {NoPayload}
    <3>1. Visible(w).config = config
      BY <1>0, VisibleIsCommitted DEF Committed
    <3>2. config[req[w].key] \in Valid \cup {NoPayload}
      BY <1>0, <2>1 DEF TypeOK
    <3> QED
      BY <3>1, <3>2, StoreAssumption DEF StoreAssumption
  <2>3. view' \in [Writers -> View \cup {NoView}]
    BY <1>0, <1>5, OpenedViewType DEF GetConfig, TypeOK
  <2> QED
    BY <1>0, <1>5, <2>2, <2>3 DEF GetConfig, TypeOK, tables
<1>6. ASSUME NEW w \in Writers, Resolve(w) PROVE TypeOK'
  <2>1. PICK p \in Valid : payload' = [payload EXCEPT ![w] = p]
    BY <1>6 DEF Resolve
  <2>2. p \in Payloads
    BY StoreAssumption DEF StoreAssumption
  <2> QED
    BY <1>0, <1>6, <2>1, <2>2, OpenedViewType DEF Resolve, TypeOK, tables
<1>7. ASSUME NEW w \in Writers, WriteRow(w) PROVE TypeOK'
  <2>1. req[w].key \in Keys
    BY <1>0, <1>7, RequestFields DEF WriteRow, TxInv
  <2>2. MaxVersion(Visible(w).history, req[w].key) \in Nat
    BY <1>0, <2>1, VisibleIsCommitted, MaxVersionCounts DEF Committed
  <2>3. view' \in [Writers -> View \cup {NoView}]
    BY <1>0, <1>7, OpenedViewType DEF WriteRow, TypeOK
  <2>4. version' \in [Writers -> Nat]
    <3>1. /\ version \in [Writers -> Nat]
          /\ version' = [version EXCEPT ![w] = MaxVersion(Visible(w).history, req[w].key) + 1]
      BY <1>0, <1>7 DEF WriteRow, TypeOK
    <3>2. MaxVersion(Visible(w).history, req[w].key) + 1 \in Nat
      BY <2>2
    <3> QED
      BY <3>1, <3>2, SetLocal
  <2> QED
    BY <1>0, <1>7, <2>3, <2>4 DEF WriteRow, TypeOK, tables
<1>8. ASSUME NEW w \in Writers, AppendHistory(w) PROVE TypeOK'
  BY <1>0, <1>8 DEF AppendHistory, TypeOK, tables, locals
<1>9. ASSUME NEW w \in Writers,
             NotMigrated(w) \/ ResolveNotFound(w) \/ ResolveInvalid(w) \/ Abort(w)
      PROVE  TypeOK'
  BY <1>0, <1>9, FailTypes DEF NotMigrated, ResolveNotFound, ResolveInvalid, Abort
<1>10. ASSUME NEW w \in Writers, Commit(w) PROVE TypeOK'
  <2>1. Published(w) /\ End(w, "ok")
    BY <1>10 DEF Commit
  <2>2. acked' \subseteq Ack
    <3>1. req[w].op \in Ops
      BY <2>1, PublishedTypes, RequestFields
    <3>2. [key |-> req[w].key, op |-> req[w].op, payload |-> payload[w],
           revision |-> rev[w], version |-> version[w]] \in Ack
      BY <2>1, <3>1, PublishedTypes DEF Ack
    <3> QED
      BY <1>0, <1>10, <3>2 DEF Commit, TypeOK
  <2> QED
    <3>1. /\ revision' \in {NoRow} \cup Nat
          /\ config' \in [Keys -> Valid \cup {NoPayload}]
          /\ history' \subseteq Row
      BY <2>1, PublishedTypes
    <3> QED
      BY <1>0, <2>1, <2>2, <3>1, EndTypes DEF TypeOK
<1>11. ASSUME NEW w \in Writers, CommitLost(w) PROVE TypeOK'
  <2>1. Published(w) /\ End(w, "error") /\ acked' = acked
    BY <1>11 DEF CommitLost
  <2>2. /\ revision' \in {NoRow} \cup Nat
        /\ config' \in [Keys -> Valid \cup {NoPayload}]
        /\ history' \subseteq Row
    BY <2>1, PublishedTypes
  <2> QED
    BY <1>0, <2>1, <2>2, EndTypes DEF TypeOK
<1>12. CASE UNCHANGED vars
  BY <1>0, <1>12 DEF vars, tables, locals, TypeOK
<1> QED
  BY <1>1, <1>2, <1>3, <1>4, <1>5, <1>6, <1>7, <1>8, <1>9, <1>10, <1>11, <1>12
     DEF Next, Statement

-----------------------------------------------------------------------------
\* What each transaction knows.

\* A step that leaves the tables, a writer's locals and its hold on the lock alone
\* leaves what it knows true.
LEMMA FrameKeepsTx ==
  ASSUME NEW v \in Writers, TxInv(v), UNCHANGED <<revision, config, history>>,
         pc'[v] = pc[v], req'[v] = req[v], view'[v] = view[v], rev'[v] = rev[v],
         payload'[v] = payload[v], version'[v] = version[v],
         holder' = v <=> holder = v
  PROVE  TxInv(v)'
  BY DEF TxInv, Committed

\* A writer that ended its transaction knows nothing and holds nothing.
LEMMA EndTx ==
  ASSUME TypeOK, NEW w \in Writers, NEW result, End(w, result)
  PROVE  TxInv(w)' /\ holder' # w
<1>1. pc'[w] = "idle" /\ view'[w] = NoView /\ holder' # w
  BY StoreAssumption DEF StoreAssumption, End, TypeOK
<1> QED
  BY <1>1 DEF TxInv, Locked, Raised, Chosen, Numbered

\* A failure undoes the transaction and nobody else notices.
LEMMA FailTx ==
  ASSUME StoreInv, NEW w \in Writers, NEW result, Fail(w, result), NEW v \in Writers
  PROVE  TxInv(v)'
<1>1. TypeOK /\ TxInv(v) /\ End(w, result) /\ UNCHANGED <<revision, config, history>>
  BY DEF StoreInv, AllTxInv, Fail, tables
<1>2. CASE v = w
  BY <1>1, <1>2, EndTx
<1>3. CASE v # w
  <2>1. /\ pc'[v] = pc[v] /\ req'[v] = req[v] /\ view'[v] = view[v] /\ rev'[v] = rev[v]
        /\ payload'[v] = payload[v] /\ version'[v] = version[v]
    BY <1>1, <1>3 DEF End, TypeOK
  <2>2. holder' = v <=> holder = v
    BY <1>1, <1>3, StoreAssumption DEF End, StoreAssumption
  <2> QED
    BY <1>1, <2>1, <2>2, FrameKeepsTx
<1> QED
  BY <1>2, <1>3

\* A commit happens under the row lock, hence with no other transaction past its
\* first statement: no read view and no revision anybody has taken goes stale.
LEMMA PublishTx ==
  ASSUME StoreInv, NEW w \in Writers, Published(w), NEW result, End(w, result),
         NEW v \in Writers
  PROVE  TxInv(v)'
<1>1. TypeOK /\ TxInv(v) /\ holder = w
  BY PublishedTypes DEF StoreInv, AllTxInv
<1>2. CASE v = w
  BY <1>1, <1>2, EndTx
<1>3. CASE v # w
  <2>1. pc[v] \notin Locked /\ view[v] = NoView
    BY <1>1, <1>3 DEF TxInv
  <2>2. pc'[v] = pc[v] /\ req'[v] = req[v] /\ view'[v] = view[v]
    BY <1>1, <1>3 DEF End, TypeOK
  <2>3. holder' # v
    BY <1>1, StoreAssumption DEF End, StoreAssumption
  <2> QED
    BY <1>1, <2>1, <2>2, <2>3 DEF TxInv, Locked, Raised, Chosen, Numbered
<1> QED
  BY <1>2, <1>3

\* Every step of write leaves every transaction with what it should know.
LEMMA TxStep == StoreInv /\ [Next]_vars => AllTxInv'
<1> SUFFICES ASSUME StoreInv, [Next]_vars, NEW v \in Writers PROVE TxInv(v)'
  BY DEF AllTxInv
<1>0. TypeOK /\ RowsInv /\ TxInv(v) /\ \A w \in Writers : TxInv(w)
  BY DEF StoreInv, AllTxInv
<1>1. CASE Migrate
  <2>1. CASE revision # NoRow
    <3>1. UNCHANGED vars
      BY <1>1, <2>1 DEF Migrate, vars, tables
    <3> QED
      BY <1>0, <3>1, FrameKeepsTx DEF vars, tables, locals
  <2> SUFFICES ASSUME revision = NoRow PROVE TxInv(v)'
    BY <2>1
  <2>a. revision \notin Nat
    BY DEF NoRow
  <2>2. pc[v] \notin Locked /\ view[v] = NoView
    BY <1>0, <2>a DEF TxInv
  <2>3. pc' = pc /\ req' = req /\ view' = view /\ holder' = holder
    BY <1>1 DEF Migrate, locals
  <2> QED
    BY <1>0, <2>2, <2>3 DEF TxInv, Locked, Raised, Chosen, Numbered
<1>2. ASSUME NEW w \in Writers, NEW r \in Request, Begin(w, r) PROVE TxInv(v)'
  <2>1. CASE v = w
    BY <1>0, <1>2, <2>1 DEF Begin, TypeOK, TxInv, Locked, Raised, Chosen, Numbered
  <2>2. CASE v # w
    BY <1>0, <1>2, <2>2, FrameKeepsTx DEF Begin, TypeOK, tables
  <2> QED
    BY <2>1, <2>2
<1>3. ASSUME NEW w \in Writers, BumpUpdate(w) PROVE TxInv(v)'
  <2>0. revision \in Nat /\ UNCHANGED <<revision, config, history>> /\ holder = NoWriter
    BY <1>0, <1>3 DEF BumpUpdate, TypeOK, tables
  <2>1. CASE v = w
    <3>1. holder' = w /\ req'[w] = req[w] /\ req[w] \in Request /\ view'[w] = view[w]
      BY <1>0, <1>3 DEF BumpUpdate, TxInv
    <3>2. view[w] = NoView
      BY <1>0, <1>3 DEF BumpUpdate, TxInv, Locked
    <3>3. CASE Isolation = "repeatable read"
      <4>1. pc'[w] = "bump select"
        BY <1>0, <1>3, <3>3 DEF BumpUpdate, TypeOK
      <4> QED
        BY <2>0, <2>1, <3>1, <3>2, <4>1 DEF TxInv, Locked, Raised, Chosen, Numbered
    <3>4. CASE Isolation # "repeatable read"
      <4>1. pc'[w] = "get" /\ rev'[w] = revision + 1
        BY <1>0, <1>3, <3>4 DEF BumpUpdate, TypeOK
      <4> QED
        BY <2>0, <2>1, <3>1, <3>2, <4>1 DEF TxInv, Locked, Raised, Chosen, Numbered
    <3> QED
      BY <3>3, <3>4
  <2>2. CASE v # w
    <3>1. holder # v /\ holder' # v
      BY <1>3, <2>0, <2>2, StoreAssumption DEF BumpUpdate, StoreAssumption
    <3>2. pc'[v] = pc[v] /\ rev'[v] = rev[v]
      <4>1. CASE Isolation = "repeatable read"
        BY <1>0, <1>3, <2>2, <4>1 DEF BumpUpdate, TypeOK
      <4>2. CASE Isolation # "repeatable read"
        BY <1>0, <1>3, <2>2, <4>2 DEF BumpUpdate, TypeOK
      <4> QED
        BY <4>1, <4>2
    <3>3. UNCHANGED <<req, view, payload, version>>
      BY <1>3 DEF BumpUpdate
    <3> QED
      BY <1>0, <2>0, <3>1, <3>2, <3>3, FrameKeepsTx
  <2> QED
    BY <2>1, <2>2
<1>4. ASSUME NEW w \in Writers, BumpSelect(w) PROVE TxInv(v)'
  <2>0. UNCHANGED <<revision, config, history, holder, req, payload, version>>
    BY <1>4 DEF BumpSelect, tables
  <2>1. CASE v = w
    <3>1. pc'[w] = "get" /\ rev'[w] = revision + 1 /\ view'[w] = OpenedView(w)
      BY <1>0, <1>4 DEF BumpSelect, TypeOK
    <3>2. holder = w /\ revision \in Nat /\ req[w] \in Request
      BY <1>0, <1>4 DEF BumpSelect, TxInv, Locked
    <3> QED
      BY <1>0, <2>0, <2>1, <3>1, <3>2, VisibleIsCommitted
         DEF TxInv, Committed, Locked, Raised, Chosen, Numbered
  <2>2. CASE v # w
    BY <1>0, <1>4, <2>0, <2>2, FrameKeepsTx DEF BumpSelect, TypeOK
  <2> QED
    BY <2>1, <2>2
<1>5. ASSUME NEW w \in Writers, GetConfig(w) PROVE TxInv(v)'
  <2>0. UNCHANGED <<revision, config, history, holder, req, rev, version>>
    BY <1>5 DEF GetConfig, tables
  <2>1. CASE v = w
    <3>1. /\ pc'[w] = "resolve" /\ view'[w] = OpenedView(w)
          /\ payload'[w] = Visible(w).config[req[w].key]
      BY <1>0, <1>5 DEF GetConfig, TypeOK
    <3>2. payload'[w] = config[req[w].key]
      BY <1>0, <3>1, VisibleIsCommitted DEF Committed
    <3>3. holder = w /\ revision \in Nat /\ req[w] \in Request /\ rev[w] = revision + 1
      BY <1>0, <1>5 DEF GetConfig, TxInv, Locked, Raised
    <3> QED
      BY <1>0, <2>0, <2>1, <3>1, <3>2, <3>3, VisibleIsCommitted
         DEF TxInv, Committed, Locked, Raised, Chosen, Numbered
  <2>2. CASE v # w
    BY <1>0, <1>5, <2>0, <2>2, FrameKeepsTx DEF GetConfig, TypeOK
  <2> QED
    BY <2>1, <2>2
<1>6. ASSUME NEW w \in Writers, Resolve(w) PROVE TxInv(v)'
  <2>0. UNCHANGED <<revision, config, history, holder, req, rev, version>>
    BY <1>6 DEF Resolve, tables
  <2>1. PICK p \in Resolved(w) \cap Valid : payload' = [payload EXCEPT ![w] = p]
    BY <1>6 DEF Resolve
  <2>2. CASE v = w
    <3>1. pc'[w] = "write" /\ view'[w] = OpenedView(w) /\ payload'[w] = p
      BY <1>0, <1>6, <2>1 DEF Resolve, TypeOK
    <3>2. req[w].op = "delete" => p = config[req[w].key]
      BY <1>0, <1>6, <2>1 DEF Resolve, Resolved, TxInv
    <3>3. holder = w /\ revision \in Nat /\ req[w] \in Request /\ rev[w] = revision + 1
      BY <1>0, <1>6 DEF Resolve, TxInv, Locked, Raised
    <3> QED
      BY <1>0, <2>0, <2>1, <2>2, <3>1, <3>2, <3>3, VisibleIsCommitted
         DEF TxInv, Committed, Locked, Raised, Chosen, Numbered
  <2>3. CASE v # w
    BY <1>0, <1>6, <2>0, <2>1, <2>3, FrameKeepsTx DEF Resolve, TypeOK
  <2> QED
    BY <2>2, <2>3
<1>7. ASSUME NEW w \in Writers, WriteRow(w) PROVE TxInv(v)'
  <2>0. UNCHANGED <<revision, config, history, holder, req, rev, payload>>
    BY <1>7 DEF WriteRow, tables
  <2>1. CASE v = w
    <3>1. /\ pc'[w] = "append" /\ view'[w] = OpenedView(w)
          /\ version'[w] = MaxVersion(Visible(w).history, req[w].key) + 1
      BY <1>0, <1>7 DEF WriteRow, TypeOK
    <3>2. version'[w] = MaxVersion(history, req[w].key) + 1
      BY <1>0, <3>1, VisibleIsCommitted DEF Committed
    <3>3. /\ holder = w /\ revision \in Nat /\ req[w] \in Request /\ rev[w] = revision + 1
          /\ payload[w] \in Valid
          /\ req[w].op = "delete" => payload[w] = config[req[w].key]
      BY <1>0, <1>7 DEF WriteRow, TxInv, Locked, Raised, Chosen
    <3> QED
      BY <1>0, <2>0, <2>1, <3>1, <3>2, <3>3, VisibleIsCommitted
         DEF TxInv, Committed, Locked, Raised, Chosen, Numbered
  <2>2. CASE v # w
    BY <1>0, <1>7, <2>0, <2>2, FrameKeepsTx DEF WriteRow, TypeOK
  <2> QED
    BY <2>1, <2>2
<1>8. ASSUME NEW w \in Writers, AppendHistory(w) PROVE TxInv(v)'
  <2>0. UNCHANGED <<revision, config, history, holder, req, view, rev, payload, version>>
    BY <1>8 DEF AppendHistory, tables, locals
  <2>1. CASE v = w
    BY <1>0, <1>8, <2>0, <2>1
       DEF AppendHistory, TypeOK, TxInv, Committed, Locked, Raised, Chosen, Numbered
  <2>2. CASE v # w
    BY <1>0, <1>8, <2>0, <2>2, FrameKeepsTx DEF AppendHistory, TypeOK
  <2> QED
    BY <2>1, <2>2
<1>9. ASSUME NEW w \in Writers,
             NotMigrated(w) \/ ResolveNotFound(w) \/ ResolveInvalid(w) \/ Abort(w)
      PROVE  TxInv(v)'
  BY <1>9, FailTx DEF NotMigrated, ResolveNotFound, ResolveInvalid, Abort
<1>10. ASSUME NEW w \in Writers, Commit(w) \/ CommitLost(w) PROVE TxInv(v)'
  BY <1>10, PublishTx DEF Commit, CommitLost
<1>11. CASE UNCHANGED vars
  BY <1>0, <1>11, FrameKeepsTx DEF vars, tables, locals
<1> QED
  BY <1>1, <1>2, <1>3, <1>4, <1>5, <1>6, <1>7, <1>8, <1>9, <1>10, <1>11
     DEF Next, Statement

-----------------------------------------------------------------------------
\* The tables.

\* The row a transaction appends.
NewRow(w) == [key |-> req[w].key, version |-> version[w],
              op |-> req[w].op, payload |-> payload[w]]

\* A commit appends the next version of its key and touches no other key's rows.
LEMMA PublishedRows ==
  ASSUME StoreInv, NEW w \in Writers, Published(w)
  PROVE  /\ NewRow(w) \notin history
         /\ history' = history \cup {NewRow(w)}
         /\ version[w] \notin Versions(history, req[w].key)
         /\ IsFiniteSet(history') /\ Cardinality(history') = Cardinality(history) + 1
         /\ Cardinality(RowsOf(history', req[w].key)) = version[w]
         /\ Versions(history', req[w].key) = 1 .. version[w]
         /\ MaxVersion(history', req[w].key) = version[w]
         /\ \A k \in Keys \ {req[w].key} :
               /\ RowsOf(history', k) = RowsOf(history, k)
               /\ Versions(history', k) = Versions(history, k)
<1> DEFINE key == req[w].key
           n   == Cardinality(RowsOf(history, key))
           row == NewRow(w)
<1>0. RowsInv /\ key \in Keys /\ version[w] = n + 1
  BY PublishedTypes DEF StoreInv
<1>1. /\ IsFiniteSet(RowsOf(history, key)) /\ n \in Nat
      /\ Versions(history, key) = 1 .. n
  BY <1>0, MaxVersionCounts
<1>2. row.key = key /\ row.version = n + 1
  BY <1>0 DEF NewRow
<1>3. n + 1 \notin Versions(history, key)
  BY <1>1
<1>4. row \notin history /\ row \notin RowsOf(history, key)
  BY <1>2, <1>3 DEF Versions, RowsOf
<1>5. history' = history \cup {row}
  BY DEF Published, NewRow
<1>6. IsFiniteSet(history') /\ Cardinality(history') = Cardinality(history) + 1
  BY <1>0, <1>4, <1>5, FS_AddElement DEF RowsInv
<1>7. RowsOf(history', key) = RowsOf(history, key) \cup {row}
  BY <1>2, <1>5 DEF RowsOf
<1>8. Cardinality(RowsOf(history', key)) = n + 1
  BY <1>1, <1>4, <1>7, FS_AddElement
<1>9. Versions(history', key) = 1 .. n + 1
  <2>1. Versions(history', key) = Versions(history, key) \cup {n + 1}
    BY <1>2, <1>5 DEF Versions
  <2> QED
    BY <1>1, <2>1
<1>10. MaxVersion(history', key) = n + 1
  <2>1. n + 1 \in Nat
    BY <1>1
  <2> QED
    BY <1>9, <2>1, MaxOfVersions DEF MaxVersion
<1>11. ASSUME NEW k \in Keys \ {key}
       PROVE  /\ RowsOf(history', k) = RowsOf(history, k)
              /\ Versions(history', k) = Versions(history, k)
  BY <1>2, <1>5 DEF RowsOf, Versions
<1> QED
  BY <1>0, <1>3, <1>4, <1>5, <1>6, <1>8, <1>9, <1>10, <1>11

\* The watermark counts the rows, versions leave no hole, and no two rows of a key
\* share one.
LEMMA PublishKeepsRows ==
  ASSUME StoreInv, NEW w \in Writers, Published(w)
  PROVE  RowsInv'
<1>0. RowsInv
  BY DEF StoreInv
<1>1. revision \in Nat /\ revision' = revision + 1 /\ version[w] \in Nat
  BY PublishedTypes
<1>2. RevisionCountsWrites'
  BY <1>0, <1>1, PublishedRows DEF RowsInv, RevisionCountsWrites, NoRow
<1>3. VersionsContiguous'
  <2> SUFFICES ASSUME NEW k \in Keys
               PROVE  Versions(history', k) = 1 .. Cardinality(RowsOf(history', k))
    BY DEF VersionsContiguous, RowsOf
  <2>1. CASE k = req[w].key
    BY <2>1, PublishedRows
  <2>2. CASE k # req[w].key
    BY <1>0, <2>2, PublishedRows, MaxVersionCounts
  <2> QED
    BY <2>1, <2>2
<1>4. ASSUME NEW r \in history', NEW s \in history', r.key = s.key, r.version = s.version
      PROVE  r = s
  <2>1. history' = history \cup {NewRow(w)}
    BY PublishedRows
  <2>2. \A t \in history : t.key = req[w].key => t.version # version[w]
    BY PublishedRows DEF Versions
  <2>3. NewRow(w).key = req[w].key /\ NewRow(w).version = version[w]
    BY DEF NewRow
  <2> QED
    BY <1>0, <1>4, <2>1, <2>2, <2>3 DEF RowsInv
<1> QED
  BY <1>2, <1>3, <1>4, PublishedRows DEF RowsInv

\* A step that is neither a commit nor a migration leaves the tables alone.
LEMMA TablesStep ==
  ASSUME StoreInv, [Next]_vars
  PROVE  \/ UNCHANGED <<revision, config, history, acked>>
         \/ revision = NoRow /\ revision' = 0 /\ UNCHANGED <<config, history, acked>>
         \/ \E w \in Writers : Commit(w) \/ CommitLost(w)
<1>1. CASE Migrate
  BY <1>1 DEF Migrate
<1>2. ASSUME NEW w \in Writers, NEW r \in Request, Begin(w, r)
      PROVE  UNCHANGED <<revision, config, history, acked>>
  BY <1>2 DEF Begin, tables
<1>3. ASSUME NEW w \in Writers, Statement(w), ~Commit(w), ~CommitLost(w)
      PROVE  UNCHANGED <<revision, config, history, acked>>
  BY <1>3 DEF Statement, BumpUpdate, BumpSelect, NotMigrated, GetConfig, ResolveNotFound,
       ResolveInvalid, Resolve, WriteRow, AppendHistory, Abort, Fail, tables
<1>4. CASE UNCHANGED vars
  BY <1>4 DEF vars, tables
<1> QED
  BY <1>1, <1>2, <1>3, <1>4 DEF Next

\* The tables stay in order through every step.
LEMMA RowsStep == StoreInv /\ [Next]_vars => RowsInv'
<1> SUFFICES ASSUME StoreInv, [Next]_vars PROVE RowsInv'
  OBVIOUS
<1>1. ASSUME UNCHANGED <<revision, history>> PROVE RowsInv'
  BY <1>1 DEF StoreInv, RowsInv, RevisionCountsWrites, VersionsContiguous
<1>2. CASE revision = NoRow /\ revision' = 0 /\ UNCHANGED history
  <2>1. history = {}
    BY <1>2 DEF StoreInv, RowsInv, RevisionCountsWrites
  <2>2. RevisionCountsWrites'
    BY <1>2, <2>1, FS_EmptySet DEF RevisionCountsWrites, NoRow
  <2> QED
    BY <1>2, <2>2 DEF StoreInv, RowsInv, VersionsContiguous
<1>3. ASSUME NEW w \in Writers, Commit(w) \/ CommitLost(w) PROVE RowsInv'
  BY <1>3, PublishKeepsRows DEF Commit, CommitLost
<1> QED
  BY <1>1, <1>2, <1>3, TablesStep

-----------------------------------------------------------------------------
\* The invariant, and what it says.

\* Types, what each transaction knows, and the order of the tables are together
\* inductive: the row lock taken by the first statement carries all three.
THEOREM StoreInvariant == Spec => []StoreInv
<1>1. StoreInv /\ [Next]_vars => StoreInv'
  BY TypeStep, TxStep, RowsStep DEF StoreInv
<1> QED
  BY InitInv, <1>1, PTL DEF Spec

\* The columns of the three tables and the locals of write keep their types.
THEOREM StoreTypes == Spec => []TypeOK
  BY StoreInvariant, PTL DEF StoreInv

\* BumpRevision's promise: "revisions follow commit order with no gaps".  The
\* watermark is the number of rows ever appended.
THEOREM RevisionsHaveNoGap == Spec => []RevisionCountsWrites
<1>1. StoreInv => RevisionCountsWrites
  BY DEF StoreInv, RowsInv
<1> QED
  BY StoreInvariant, <1>1, PTL

\* "Versions start at 1 per key" and have no gap either, for any interleaving of
\* any number of writers.
THEOREM VersionsHaveNoGap == Spec => []VersionsContiguous
<1>1. StoreInv => VersionsContiguous
  BY DEF StoreInv, RowsInv
<1> QED
  BY StoreInvariant, <1>1, PTL

\* write never runs into uk_key_version: MAX(version) + 1 is free when the INSERT
\* comes, whatever view the SELECT read.
THEOREM NoVersionConflict == Spec => []VersionIsFree
<1>1. StoreInv => VersionIsFree
  <2> SUFFICES ASSUME StoreInv, NEW w \in Writers, pc[w] = "append"
               PROVE  version[w] \notin Versions(history, req[w].key)
    BY DEF VersionIsFree
  <2>1. TxInv(w) /\ RowsInv
    BY DEF StoreInv, AllTxInv
  <2>2. req[w].key \in Keys /\ version[w] = MaxVersion(history, req[w].key) + 1
    BY <2>1, RequestFields DEF TxInv, Numbered
  <2> QED
    BY <2>1, <2>2, MaxVersionCounts
<1> QED
  BY StoreInvariant, <1>1, PTL

\* Every step appends one row and raises the watermark by one, or leaves both: a
\* failed or aborted call leaves no trace (withTx's deferred Rollback).
THEOREM StepsAppendOneRow == Spec => HistoryMovesWithRevision
<1>1. StoreInv /\ [Next]_vars =>
        [ \/ UNCHANGED tables
          \/ revision = NoRow /\ revision' = 0 /\ UNCHANGED <<config, history>>
          \/ /\ history \subseteq history'
             /\ Cardinality(history') = Cardinality(history) + 1
             /\ revision' = revision + 1 ]_vars
  <2> SUFFICES ASSUME StoreInv, [Next]_vars
               PROVE  \/ UNCHANGED tables
                      \/ revision = NoRow /\ revision' = 0 /\ UNCHANGED <<config, history>>
                      \/ /\ history \subseteq history'
                         /\ Cardinality(history') = Cardinality(history) + 1
                         /\ revision' = revision + 1
    OBVIOUS
  <2>1. ASSUME NEW w \in Writers, Commit(w) \/ CommitLost(w)
        PROVE  /\ history \subseteq history'
               /\ Cardinality(history') = Cardinality(history) + 1
               /\ revision' = revision + 1
    <3>1. Published(w)
      BY <2>1 DEF Commit, CommitLost
    <3> QED
      BY <3>1, PublishedRows, PublishedTypes
  <2> QED
    BY <2>1, TablesStep DEF tables
<1> QED
  BY StoreInvariant, <1>1, PTL DEF Spec, HistoryMovesWithRevision

\* Only ResolveNotFound answers ErrNotFound.
LEMMA NotFoundStep ==
  ASSUME StoreInv, [Next]_vars, NEW w \in Writers,
         outcome'[w] = "not found", outcome[w] # "not found"
  PROVE  ResolveNotFound(w)
<1>0. outcome \in [Writers -> {"none", "ok", "not found", "invalid", "error"}]
  BY DEF StoreInv, TypeOK
<1>1. outcome' # outcome
  OBVIOUS
<1>2. ~Migrate /\ ~UNCHANGED vars
  BY <1>1 DEF Migrate, vars
<1>3. ASSUME NEW v \in Writers, NEW r \in Request, Begin(v, r) PROVE FALSE
  BY <1>0, <1>3 DEF Begin
<1>4. ASSUME NEW v \in Writers, Statement(v) PROVE ResolveNotFound(w)
  <2>1. ~BumpUpdate(v) /\ ~BumpSelect(v) /\ ~GetConfig(v) /\ ~Resolve(v)
        /\ ~WriteRow(v) /\ ~AppendHistory(v)
    BY <1>1 DEF BumpUpdate, BumpSelect, GetConfig, Resolve, WriteRow, AppendHistory
  <2>2. ~NotMigrated(v) /\ ~ResolveInvalid(v) /\ ~Commit(v) /\ ~CommitLost(v) /\ ~Abort(v)
    BY <1>0 DEF NotMigrated, ResolveInvalid, Commit, CommitLost, Abort, Fail, End
  <2>3. ResolveNotFound(v)
    BY <1>4, <2>1, <2>2 DEF Statement
  <2>4. v = w
    BY <1>0, <2>3 DEF ResolveNotFound, Fail, End
  <2> QED
    BY <2>3, <2>4
<1> QED
  BY <1>2, <1>3, <1>4 DEF Next

\* An ErrNotFound of Delete or Rollback is never the fault of a stale read view.
THEOREM NotFoundIsTrue == Spec => NotFoundIsCurrent
<1>1. StoreInv /\ [Next]_vars =>
        [ \A w \in Writers :
            outcome'[w] = "not found" /\ outcome[w] # "not found" =>
                \/ req[w].op = "delete" /\ config[req[w].key] = NoPayload
                \/ /\ req[w].op = "rollback"
                   /\ req[w].version \notin Versions(history, req[w].key) ]_vars
  <2> SUFFICES ASSUME StoreInv, [Next]_vars, NEW w \in Writers,
                      outcome'[w] = "not found", outcome[w] # "not found"
               PROVE  \/ req[w].op = "delete" /\ config[req[w].key] = NoPayload
                      \/ /\ req[w].op = "rollback"
                         /\ req[w].version \notin Versions(history, req[w].key)
    OBVIOUS
  <2>1. pc[w] = "resolve" /\ Resolved(w) = {} /\ TxInv(w)
    BY NotFoundStep DEF ResolveNotFound, StoreInv, AllTxInv
  <2>2. req[w].op \in Ops /\ payload[w] = config[req[w].key]
    BY <2>1, RequestFields DEF TxInv
  <2>3. CASE req[w].op = "set"
    BY <2>1, <2>3 DEF Resolved
  <2>4. CASE req[w].op = "delete"
    BY <2>1, <2>2, <2>4 DEF Resolved
  <2>5. CASE req[w].op = "rollback"
    <3>1. \A r \in Visible(w).history : ~(r.key = req[w].key /\ r.version = req[w].version)
      BY <2>1, <2>5 DEF Resolved
    <3>2. Visible(w).history = history
      BY <2>1, VisibleHistory
    <3> QED
      BY <2>5, <3>1, <3>2 DEF Versions
  <2> QED
    BY <2>2, <2>3, <2>4, <2>5 DEF Ops
<1> QED
  BY StoreInvariant, <1>1, PTL DEF Spec, NotFoundIsCurrent

-----------------------------------------------------------------------------
\* The current row and the last version.

\* With no two rows of a key sharing a version, choosing one by both finds it.
LEMMA ChooseRow ==
  ASSUME NEW rows, NEW row \in rows,
         \A r \in rows : r.key = row.key /\ r.version = row.version => r = row
  PROVE  (CHOOSE r \in rows : r.key = row.key /\ r.version = row.version) = row
  OBVIOUS

\* Commit writes lite_config and lite_config_history in one transaction, with the
\* same payload.
LEMMA PublishKeepsConfig ==
  ASSUME StoreInv, ConfigIsLastVersion, NEW w \in Writers, Published(w)
  PROVE  ConfigIsLastVersion'
<1> DEFINE key == req[w].key
           row == NewRow(w)
<1>0. /\ key \in Keys /\ version[w] \in Nat \ {0}
      /\ config \in [Keys -> Valid \cup {NoPayload}]
  BY PublishedTypes DEF StoreInv, TypeOK
<1>1. row.key = key /\ row.version = version[w] /\ row.op = req[w].op
      /\ row.payload = payload[w]
  BY DEF NewRow
<1> SUFFICES ASSUME NEW k \in Keys
             PROVE  config'[k] =
                      IF Versions(history', k) = {} \/ Last(k)'.op = "delete"
                        THEN NoPayload
                        ELSE Last(k)'.payload
  BY DEF ConfigIsLastVersion
<1>2. CASE k = key
  <2>1. config'[k] = IF row.op = "delete" THEN NoPayload ELSE row.payload
    BY <1>0, <1>1, <1>2 DEF Published
  <2>2. Versions(history', k) # {}
    <3>1. Versions(history', req[w].key) = 1 .. version[w]
      BY PublishedRows
    <3>2. 1 \in 1 .. version[w]
      BY <1>0
    <3> QED
      BY <1>2, <3>1, <3>2
  <2>3. Last(k)' = row
    <3>1. row \in history' /\ MaxVersion(history', k) = row.version
      BY <1>1, <1>2, PublishedRows
    <3>2. \A r \in history' : r.key = row.key /\ r.version = row.version => r = row
      BY <3>1, PublishKeepsRows DEF RowsInv
    <3>3. (CHOOSE r \in history' : r.key = row.key /\ r.version = row.version) = row
      BY <3>1, <3>2, ChooseRow
    <3> QED
      BY <1>1, <1>2, <3>1, <3>3 DEF Last
  <2> QED
    BY <2>1, <2>2, <2>3
<1>3. CASE k # key
  <2>1. config'[k] = config[k]
    BY <1>0, <1>3 DEF Published
  <2>2. /\ Versions(history', k) = Versions(history, k)
        /\ RowsOf(history', k) = RowsOf(history, k)
    BY <1>3, PublishedRows
  <2>3. MaxVersion(history', k) = MaxVersion(history, k)
    BY <2>2 DEF MaxVersion
  <2>4. \A r : (r \in history' /\ r.key = k /\ r.version = MaxVersion(history, k))
              <=> (r \in history /\ r.key = k /\ r.version = MaxVersion(history, k))
    BY <2>2 DEF RowsOf
  <2>5. Last(k)' = Last(k)
    BY <2>3, <2>4 DEF Last
  <2> QED
    BY <2>1, <2>2, <2>5 DEF ConfigIsLastVersion
<1> QED
  BY <1>2, <1>3

\* Only a commit touches either table, and it keeps them in agreement.
LEMMA ConfigStep == StoreInv /\ ConfigIsLastVersion /\ [Next]_vars => ConfigIsLastVersion'
<1> SUFFICES ASSUME StoreInv, ConfigIsLastVersion, [Next]_vars PROVE ConfigIsLastVersion'
  OBVIOUS
<1>1. ASSUME UNCHANGED <<config, history>> PROVE ConfigIsLastVersion'
  BY <1>1 DEF ConfigIsLastVersion, Last
<1>2. ASSUME NEW w \in Writers, Commit(w) \/ CommitLost(w) PROVE ConfigIsLastVersion'
  BY <1>2, PublishKeepsConfig DEF Commit, CommitLost
<1> QED
  BY <1>1, <1>2, TablesStep

\* The two tables agree after any sequence of writes by any number of writers: the
\* current row is what the key's last history row says.
THEOREM TablesAgree == Spec => []ConfigIsLastVersion
<1>1. Init => ConfigIsLastVersion
  BY DEF Init, ConfigIsLastVersion, Versions
<1> QED
  BY StoreInvariant, <1>1, ConfigStep, PTL DEF Spec

-----------------------------------------------------------------------------
\* What callers were told.

\* A Result never names a revision that is still to come.
AcksInv ==
    /\ ResultsAreTrue
    /\ \A a \in acked : revision \in Nat /\ a.revision <= revision

\* The Result of Commit.
NewAck(w) == [key |-> req[w].key, op |-> req[w].op, payload |-> payload[w],
              revision |-> rev[w], version |-> version[w]]

\* A commit's Result names its own row, and the highest revision and version so far.
LEMMA CommitKeepsAcks ==
  ASSUME StoreInv, AcksInv, NEW w \in Writers, Published(w),
         acked' = acked \/ acked' = acked \cup {NewAck(w)}
  PROVE  AcksInv'
<1> DEFINE new == NewAck(w)
<1>0. /\ revision \in Nat /\ revision' = revision + 1 /\ rev[w] = revision'
      /\ version[w] \in Nat
  BY PublishedTypes DEF Published
<1>1. /\ new.revision = revision + 1 /\ new.version = version[w]
      /\ new.key = req[w].key /\ new.op = req[w].op /\ new.payload = payload[w]
  BY <1>0 DEF NewAck
<1>2. acked \subseteq Ack /\ \A a \in acked : a.revision \in Nat /\ a.version \in Nat
  BY DEF StoreInv, TypeOK, Ack
<1>3. \A a \in acked : a.revision < new.revision
  BY <1>0, <1>1, <1>2 DEF AcksInv
<1>4. ASSUME NEW a \in acked, a.key = new.key PROVE a.version < new.version
  <2>1. a.version \in Versions(history, req[w].key)
    BY <1>1, <1>4 DEF AcksInv, ResultsAreTrue, Versions
  <2>2. Versions(history', req[w].key) = 1 .. version[w]
        /\ version[w] \notin Versions(history, req[w].key)
        /\ history' = history \cup {NewRow(w)}
    BY PublishedRows
  <2>3. a.version \in 1 .. version[w] /\ a.version # version[w]
    BY <2>1, <2>2 DEF Versions
  <2> QED
    BY <1>0, <1>1, <2>3
<1>5. ASSUME NEW a \in acked'
      PROVE  \E r \in history' : /\ r.key = a.key /\ r.version = a.version
                                /\ r.op = a.op /\ r.payload = a.payload
  <2>1. history' = history \cup {NewRow(w)}
    BY PublishedRows
  <2>2. CASE a \in acked
    BY <2>1, <2>2 DEF AcksInv, ResultsAreTrue
  <2>3. CASE a = new
    <3>1. /\ NewRow(w) \in history'
          /\ NewRow(w).key = new.key /\ NewRow(w).version = new.version
          /\ NewRow(w).op = new.op /\ NewRow(w).payload = new.payload
      BY <1>1, <2>1 DEF NewRow
    <3> QED
      BY <2>3, <3>1
  <2> QED
    BY <2>2, <2>3
<1>6. ASSUME NEW a \in acked', NEW b \in acked'
      PROVE  /\ a.revision = b.revision => a = b
             /\ a.key = b.key /\ a.revision < b.revision => a.version < b.version
  <2>1. CASE a \in acked /\ b \in acked
    BY <2>1 DEF AcksInv, ResultsAreTrue
  <2>2. CASE a \in acked /\ b = new
    BY <1>0, <1>1, <1>2, <1>3, <1>4, <2>2
  <2>3. CASE a = new /\ b \in acked
    BY <1>0, <1>1, <1>2, <1>3, <2>3
  <2>4. CASE a = new /\ b = new
    BY <1>0, <1>1, <2>4
  <2> QED
    BY <2>1, <2>2, <2>3, <2>4
<1>7. \A a \in acked' : revision' \in Nat /\ a.revision <= revision'
  BY <1>0, <1>1, <1>2, <1>3
<1> QED
  BY <1>5, <1>6, <1>7 DEF AcksInv, ResultsAreTrue

\* Every Result that Set, Delete or Rollback returned stays true, for any number of
\* writers: its row is there, no other Result has its revision, and revisions order
\* the versions of a key (store.go, the Result of write).
THEOREM ResultsStayTrue == Spec => []ResultsAreTrue
<1>1. Init => AcksInv
  BY DEF Init, AcksInv, ResultsAreTrue
<1>2. StoreInv /\ AcksInv /\ [Next]_vars => AcksInv'
  <2> SUFFICES ASSUME StoreInv, AcksInv, [Next]_vars PROVE AcksInv'
    OBVIOUS
  <2>1. CASE UNCHANGED <<revision, config, history, acked>>
    BY <2>1 DEF AcksInv, ResultsAreTrue
  <2>2. CASE revision = NoRow /\ revision' = 0 /\ UNCHANGED <<config, history, acked>>
    <3>1. acked = {}
      BY <2>2 DEF AcksInv, NoRow
    <3> QED
      BY <2>2, <3>1 DEF AcksInv, ResultsAreTrue
  <2>3. ASSUME NEW w \in Writers, Commit(w) \/ CommitLost(w) PROVE AcksInv'
    BY <2>3, CommitKeepsAcks DEF Commit, CommitLost, NewAck
  <2> QED
    BY <2>1, <2>2, <2>3, TablesStep
<1>3. AcksInv => ResultsAreTrue
  BY DEF AcksInv
<1> QED
  BY StoreInvariant, <1>1, <1>2, <1>3, PTL DEF Spec

(***************************************************************************)
(* Store implements ConfigLog: the commit of a transaction is one atomic   *)
(* change of the log; any other statement, a failure or a lost connection  *)
(* is nothing seen from outside.                                           *)
(***************************************************************************)

\* A rollback past resolve writes what some row of its key's history holds.
RestoresRow(w) ==
    pc[w] \in Chosen /\ req[w].op = "rollback" =>
        \E r \in history : r.key = req[w].key /\ r.payload = payload[w]

LogInv == StoreInv /\ \A w \in Writers : RestoresRow(w)

\* History only grows.
LEMMA RowsStay ==
  ASSUME StoreInv, [Next]_vars
  PROVE  history \subseteq history'
<1>1. ASSUME NEW w \in Writers, Commit(w) \/ CommitLost(w) PROVE history \subseteq history'
  BY <1>1 DEF Commit, CommitLost, Published
<1> QED
  BY <1>1, TablesStep

\* A writer's own statements move its locals; only resolve chooses a payload.
LEMMA ChosenStep ==
  ASSUME StoreInv, [Next]_vars, NEW w \in Writers, pc'[w] \in Chosen
  PROVE  \/ Resolve(w)
         \/ pc[w] \in Chosen /\ req'[w] = req[w] /\ payload'[w] = payload[w]
<1> USE DEF Chosen
<1>0. TypeOK
  BY DEF StoreInv
<1>1. CASE Migrate \/ UNCHANGED vars
  BY <1>1 DEF Migrate, vars, locals
<1>2. ASSUME NEW v \in Writers, NEW r \in Request, Begin(v, r)
      PROVE  pc[w] \in Chosen /\ req'[w] = req[w] /\ payload'[w] = payload[w]
  BY <1>0, <1>2 DEF Begin, TypeOK
<1>3. ASSUME NEW v \in Writers, Statement(v)
      PROVE  \/ Resolve(w)
             \/ pc[w] \in Chosen /\ req'[w] = req[w] /\ payload'[w] = payload[w]
  <2>1. CASE End(v, "ok") \/ End(v, "error") \/ End(v, "not found") \/ End(v, "invalid")
    BY <1>0, <2>1 DEF End, TypeOK
  <2>2. CASE BumpUpdate(v)
    BY <1>0, <2>2 DEF BumpUpdate, TypeOK
  <2>3. CASE BumpSelect(v)
    BY <1>0, <2>3 DEF BumpSelect, TypeOK
  <2>4. CASE GetConfig(v)
    BY <1>0, <2>4 DEF GetConfig, TypeOK
  <2>5. CASE Resolve(v)
    BY <1>0, <2>5 DEF Resolve, TypeOK
  <2>6. CASE WriteRow(v)
    BY <1>0, <2>6 DEF WriteRow, TypeOK
  <2>7. CASE AppendHistory(v)
    BY <1>0, <2>7 DEF AppendHistory, locals, TypeOK
  <2> QED
    BY <1>3, <2>1, <2>2, <2>3, <2>4, <2>5, <2>6, <2>7
    DEF Statement, NotMigrated, ResolveNotFound, ResolveInvalid, Commit, CommitLost, Abort, Fail
<1> QED
  BY <1>1, <1>2, <1>3 DEF Next

\* What a rollback restores stays in the history until it commits.
LEMMA LogStep == LogInv /\ [Next]_vars => LogInv'
<1> SUFFICES ASSUME LogInv, [Next]_vars PROVE LogInv'
  OBVIOUS
<1>1. StoreInv'
  BY TypeStep, TxStep, RowsStep DEF LogInv, StoreInv
<1>2. ASSUME NEW w \in Writers, pc'[w] \in Chosen, req'[w].op = "rollback"
      PROVE  \E r \in history' : r.key = req'[w].key /\ r.payload = payload'[w]
  <2>1. CASE Resolve(w)
    <3>1. /\ req'[w] = req[w] /\ payload'[w] \in Resolved(w) /\ TxInv(w)
      BY <2>1 DEF Resolve, LogInv, StoreInv, AllTxInv, TypeOK
    <3>2. PICK r \in history : r.key = req[w].key /\ payload'[w] = r.payload
      BY <1>2, <3>1, VisibleHistory DEF Resolved
    <3> QED
      BY <3>1, <3>2, RowsStay DEF LogInv
  <2>2. CASE pc[w] \in Chosen /\ req'[w] = req[w] /\ payload'[w] = payload[w]
    BY <1>2, <2>2, RowsStay DEF LogInv, RestoresRow
  <2> QED
    BY <1>2, <2>1, <2>2, ChosenStep DEF LogInv
<1> QED
  BY <1>1, <1>2 DEF LogInv, RestoresRow

-----------------------------------------------------------------------------
\* The log a history is.

\* The entry of a row.
EntryOf(row) == [op |-> row.op, payload |-> row.payload]

\* The row of a version is the only one with it.
LEMMA RowAt ==
  ASSUME RowsInv, NEW r \in history
  PROVE  (CHOOSE s \in history : s.key = r.key /\ s.version = r.version) = r
<1>1. \A s \in history : s.key = r.key /\ s.version = r.version => s = r
  BY DEF RowsInv
<1> QED
  BY <1>1, ChooseRow

\* The versions of a key are the positions of its log.
LEMMA LogDomain ==
  ASSUME RowsInv, NEW k \in Keys
  PROVE  /\ Cardinality(RowsOf(history, k)) \in Nat
         /\ LogOf[k] = [v \in 1 .. Cardinality(RowsOf(history, k)) |->
                          EntryOf(CHOOSE r \in history : r.key = k /\ r.version = v)]
  BY MaxVersionCounts DEF LogOf, EntryOf, RowsOf

\* The log of a key is a sequence, and each row of the key is its entry.
LEMMA LogAt ==
  ASSUME TypeOK, RowsInv, NEW k \in Keys
  PROVE  /\ LogOf[k] \in Seq({EntryOf(r) : r \in history})
         /\ Len(LogOf[k]) = Cardinality(RowsOf(history, k))
         /\ \A r \in history : r.key = k =>
               r.version \in 1 .. Len(LogOf[k]) /\ LogOf[k][r.version] = EntryOf(r)
<1> DEFINE n == Cardinality(RowsOf(history, k))
           at(v) == CHOOSE r \in history : r.key = k /\ r.version = v
<1>1. n \in Nat /\ LogOf[k] = [v \in 1 .. n |-> EntryOf(at(v))]
  BY LogDomain
<1>2. \A v \in 1 .. n : at(v) \in history
  <2> SUFFICES ASSUME NEW v \in 1 .. n PROVE at(v) \in history
    OBVIOUS
  <2>1. v \in Versions(history, k)
    BY MaxVersionCounts
  <2>2. \E r \in history : r.key = k /\ r.version = v
    BY <2>1 DEF Versions
  <2> QED
    BY <2>2
<1>3. LogOf[k] \in [1 .. n -> {EntryOf(r) : r \in history}]
  BY <1>1, <1>2
<1>4. LogOf[k] \in Seq({EntryOf(r) : r \in history}) /\ Len(LogOf[k]) = n
  BY <1>1, <1>3
<1>5. ASSUME NEW r \in history, r.key = k
      PROVE  r.version \in 1 .. n /\ LogOf[k][r.version] = EntryOf(r)
  <2>1. r.version \in 1 .. n
    BY <1>5, MaxVersionCounts DEF Versions
  <2>2. at(r.version) = r
    BY <1>5, RowAt
  <2> QED
    BY <1>1, <2>1, <2>2
<1> QED
  BY <1>4, <1>5

\* A commit appends one entry to the log of its key and leaves the other logs alone.
LEMMA PublishedLog ==
  ASSUME StoreInv, NEW w \in Writers, Published(w)
  PROVE  LogOf' = [LogOf EXCEPT ![req[w].key] = Append(@, EntryOf(NewRow(w)))]
<1> DEFINE key == req[w].key
           n   == Cardinality(RowsOf(history, key))
           e   == EntryOf(NewRow(w))
           at(v) == CHOOSE r \in history : r.key = key /\ r.version = v
           new(v) == CHOOSE r \in history' : r.key = key /\ r.version = v
<1>0. /\ RowsInv /\ RowsInv' /\ key \in Keys
      /\ version[w] = n + 1 /\ version[w] \in Nat
  BY PublishKeepsRows, PublishedTypes DEF StoreInv
<1>1. n \in Nat /\ LogOf[key] = [v \in 1 .. n |-> EntryOf(at(v))]
  BY <1>0, LogDomain
<1>2. Cardinality(RowsOf(history', key)) = n + 1
  BY <1>0, PublishedRows
<1>3. LogOf'[key] = [v \in 1 .. n + 1 |-> EntryOf(new(v))]
  <2>1. LogOf'[key] = [v \in 1 .. Cardinality(RowsOf(history', key)) |->
                         LET row == new(v) IN [op |-> row.op, payload |-> row.payload]]
    BY <1>0 DEF LogOf, RowsOf
  <2> QED
    BY <1>2, <2>1 DEF EntryOf
<1>4. history' = history \cup {NewRow(w)}
      /\ NewRow(w).key = key /\ NewRow(w).version = n + 1
  BY <1>0, PublishedRows DEF NewRow
<1>5. ASSUME NEW v \in 1 .. n PROVE new(v) = at(v)
  <2>1. v # n + 1
    BY <1>1
  <2>2. \A r : (r \in history' /\ r.key = key /\ r.version = v)
              <=> (r \in history /\ r.key = key /\ r.version = v)
    BY <1>4, <2>1
  <2> QED
    BY <2>2
<1>6. new(n + 1) = NewRow(w)
  <2>1. \A r \in history' : r.key = key /\ r.version = n + 1 => r = NewRow(w)
    BY <1>0, <1>4 DEF RowsInv
  <2> QED
    BY <1>4, <2>1
<1>7. LogOf'[key] = Append(LogOf[key], e)
  <2>1. LogOf[key] \in Seq({EntryOf(r) : r \in history}) /\ Len(LogOf[key]) = n
    BY <1>0, <1>1, LogAt DEF StoreInv
  <2>2. LogOf[key] \in Seq({EntryOf(r) : r \in history'}) /\ e \in {EntryOf(r) : r \in history'}
    BY <1>4, <2>1
  <2> DEFINE app == Append(LogOf[key], e)
  <2>3. /\ app \in Seq({EntryOf(r) : r \in history'}) /\ Len(app) = n + 1
        /\ app[n + 1] = e
        /\ \A v \in 1 .. n : app[v] = LogOf[key][v]
    BY <2>1, <2>2, AppendProperties
  <2>4. app = [v \in 1 .. n + 1 |-> app[v]]
    <3> HIDE DEF app
    <3>1. app = [v \in 1 .. Len(app) |-> app[v]]
      BY <2>3
    <3> QED
      BY <2>3, <3>1
  <2>5. ASSUME NEW v \in 1 .. n + 1 PROVE app[v] = EntryOf(new(v))
    <3>1. CASE v = n + 1
      BY <1>6, <2>3, <3>1
    <3>2. CASE v \in 1 .. n
      BY <1>1, <1>5, <2>3, <3>2
    <3> QED
      BY <1>1, <3>1, <3>2
  <2> HIDE DEF app
  <2>6. app = [v \in 1 .. n + 1 |-> EntryOf(new(v))]
    BY <2>4, <2>5
  <2> QED
    BY <1>3, <2>6 DEF app
<1>8. ASSUME NEW k \in Keys \ {key} PROVE LogOf'[k] = LogOf[k]
  <2>1. RowsOf(history', k) = RowsOf(history, k)
    BY PublishedRows
  <2>2. \A v, r : (r \in history' /\ r.key = k /\ r.version = v)
              <=> (r \in history /\ r.key = k /\ r.version = v)
    BY <2>1 DEF RowsOf
  <2>3. \A v : (CHOOSE r \in history' : r.key = k /\ r.version = v)
              = (CHOOSE r \in history : r.key = k /\ r.version = v)
    BY <2>2
  <2> QED
    BY <2>1, <2>3 DEF LogOf, RowsOf
<1> QED
  <2>1. LogOf = [k \in Keys |-> LogOf[k]] /\ LogOf' = [k \in Keys |-> LogOf'[k]]
    BY DEF LogOf
  <2> QED
    BY <1>0, <1>7, <1>8, <2>1

-----------------------------------------------------------------------------
\* The refinement.

\* A commit, acknowledged or not, is one step of the log.
LEMMA CommitIsPublish ==
  ASSUME LogInv, NEW w \in Writers, Published(w)
  PROVE  Log!LogNext
<1> DEFINE key == req[w].key
<1>0. /\ StoreInv /\ TxInv(w) /\ TypeOK /\ RowsInv /\ pc[w] = "commit"
      /\ RestoresRow(w)
  BY DEF LogInv, StoreInv, AllTxInv, Published
<1>1. /\ key \in Keys /\ req[w].op \in Ops /\ req[w] \in Request
      /\ revision \in Nat /\ revision' = revision + 1 /\ payload[w] \in Valid
      /\ revision # NoRow /\ revision' # NoRow
  BY <1>0, PublishedTypes, RequestFields DEF NoRow
<1>2. /\ config' = [config EXCEPT ![key] =
                      IF req[w].op = "delete" THEN NoPayload ELSE payload[w]]
      /\ LogOf' = [LogOf EXCEPT ![key] = Append(@, [op |-> req[w].op, payload |-> payload[w]])]
  BY <1>0, PublishedLog DEF Published, EntryOf, NewRow
<1>3. Log!Publish(key, req[w].op, payload[w])
  BY <1>1, <1>2 DEF Log!Publish
<1>4. CASE req[w].op = "set"
  BY <1>1, <1>3, <1>4 DEF Log!Set, Log!LogNext
<1>5. CASE req[w].op = "delete"
  <2>1. payload[w] = config[key] /\ config[key] # NoPayload
    BY <1>0, <1>1, <1>5, StoreAssumption DEF TxInv, Chosen, StoreAssumption
  <2> QED
    BY <1>1, <1>3, <1>5, <2>1 DEF Log!Delete, Log!LogNext
<1>6. CASE req[w].op = "rollback"
  <2>1. PICK r \in history : r.key = key /\ r.payload = payload[w]
    BY <1>0, <1>6 DEF RestoresRow, Chosen
  <2>2. r.version \in 1 .. Len(LogOf[key]) /\ LogOf[key][r.version] = EntryOf(r)
    BY <1>0, <1>1, <2>1, LogAt
  <2>3. LogOf[key][r.version].payload = payload[w]
    BY <2>1, <2>2 DEF EntryOf
  <2> QED
    BY <1>1, <1>3, <1>6, <2>2, <2>3 DEF Log!Rollback, Log!LogNext
<1> QED
  BY <1>1, <1>4, <1>5, <1>6 DEF Ops

\* Migrate's seed row is the revision 0 the log starts with.
LEMMA InitIsLogInit == Init => Log!LogInit
<1> SUFFICES ASSUME Init PROVE Log!LogInit
  OBVIOUS
<1>1. /\ revision = NoRow /\ history = {}
      /\ config = [k \in Keys |-> NoPayload]
  BY DEF Init
<1>2. LogOf = [k \in Keys |-> << >>]
  <2>1. ASSUME NEW k \in Keys PROVE Cardinality({r \in history : r.key = k}) = 0
    <3>1. {r \in history : r.key = k} = {}
      BY <1>1
    <3> QED
      BY <3>1, FS_EmptySet
  <2>2. ASSUME NEW k \in Keys PROVE LogOf[k] = << >>
    BY <2>1 DEF LogOf
  <2> QED
    BY <2>2 DEF LogOf
<1> QED
  BY <1>1, <1>2 DEF Log!LogInit

\* Seven statements under one row lock, failures between any two of them, lost
\* connections and lost commit answers look like the atomic log, for every number
\* of writers (store.go, write: "One transaction").
THEOREM StoreImplementsLog == Spec => ImplementsLog
<1>1. Init => LogInv
  <2>1. Init => \A w \in Writers : RestoresRow(w)
    BY DEF Init, RestoresRow, Chosen
  <2> QED
    BY <2>1, InitInv DEF LogInv
<1>2. LogInv /\ [Next]_vars => [Log!LogNext]_Log!logVars
  <2> SUFFICES ASSUME LogInv, [Next]_vars PROVE [Log!LogNext]_Log!logVars
    OBVIOUS
  <2>0. StoreInv
    BY DEF LogInv
  <2>1. CASE UNCHANGED <<revision, config, history, acked>>
    BY <2>1 DEF Log!logVars, LogOf
  <2>2. CASE revision = NoRow /\ revision' = 0 /\ UNCHANGED <<config, history, acked>>
    BY <2>2 DEF Log!logVars, LogOf, NoRow
  <2>3. ASSUME NEW w \in Writers, Commit(w) \/ CommitLost(w) PROVE Log!LogNext
    BY <2>3, CommitIsPublish DEF Commit, CommitLost
  <2> QED
    BY <2>0, <2>1, <2>2, <2>3, TablesStep
<1> QED
  BY <1>1, <1>2, LogStep, InitIsLogInit, PTL DEF Spec, ImplementsLog, Log!LogSpec
=============================================================================
