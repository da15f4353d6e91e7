-------------------------------- MODULE View --------------------------------
(***************************************************************************)
(* Which configs a client holds, and which it is told of: the prefixes an  *)
(* application asks for, through normalizePrefixes, the HTTP query, the    *)
(* escaped LIKE conditions of ListPrefixes, the snapshot (client/view.go), *)
(* Group's binary search over it (client/group.go), OnChange per prefix    *)
(* and the fallback file of an earlier process, which may have run with    *)
(* other prefixes.                                                         *)
(*                                                                         *)
(* Every step is one whole call; how the calls of one process interleave   *)
(* is the subject of Client.  Keys and prefixes are sequences of           *)
(* bytes, because LIKE and the order of keys look into them.               *)
(***************************************************************************)
EXTENDS Integers, SequencesExt

Percent    == 37
Backslash  == 92
Underscore == 95

CONSTANTS
    Keys,          \* the keys there may be
    PrefixArgs,    \* the arguments of WithPrefixes there may be
    GroupArgs,     \* the arguments of Group there may be
    Values,        \* contents of a config: a value with its format
    Absent,        \* in place of a value: the key is not there
    NoClient,      \* in place of a view: New has not returned a client
    NoFile,        \* in place of the file: none was written
    MaxPrefixes,   \* maxPrefixes of the server
    MaxRevision    \* bound on the writes

Text == Seq(0 .. 255)

\* ValidateKey: at most MaxKeyLen bytes, without the wildcard % and the escape character.
ASSUME ViewAssumption ==
    /\ IsFiniteSet(Keys) /\ Keys \subseteq Text \ {<<>>}
    /\ \A k \in Keys : \A n \in DOMAIN k : k[n] \notin {Percent, Backslash}
    /\ PrefixArgs \subseteq Seq(Text) /\ GroupArgs \subseteq Text
    /\ Absent \notin Values
    /\ MaxPrefixes \in Nat /\ MaxRevision \in Nat

VARIABLES
    rows,      \* lite_config: the value of every key, or Absent
    revision,  \* the watermark
    remote,    \* whether the client's source is the HTTP one
    prefixes,  \* opt.prefixes
    seeded,    \* whether this process has written the fallback file
    view,      \* the client's snapshot, or NoClient
    file,      \* what the fallback file holds, or NoFile
    told,      \* the calls of onChange by the last step
    \* not in the code: under which prefixes view was fetched, and the copies of
    \* an application that keeps one for each of its prefixes and reads again
    \* just the keys it is told of under that prefix
    origin, mirror

client == <<remote, prefixes, seeded, view, file, told, origin, mirror>>
vars   == <<rows, revision, client>>

HasPrefix(k, p) == IsPrefix(p, k)

\* strings.Compare(s, t) < 0.
Before(s, t) ==
    \E n \in 0 .. Len(t) - 1 :
        /\ n <= Len(s)
        /\ SubSeq(s, 1, n) = SubSeq(t, 1, n)
        /\ n = Len(s) \/ s[n + 1] < t[n + 1]

-----------------------------------------------------------------------------
\* From an application's prefixes to the rows.

\* The prefixes without repetitions, the first of each kept; an empty one makes
\* the others redundant.
Dedup(ps) == FoldLeft(LAMBDA acc, p : IF Contains(acc, p) THEN acc ELSE Append(acc, p),
                      <<>>, ps)

\* Fault: a prefix given twice stays.
NormalizedRepeating(ps) == IF Contains(ps, <<>>) THEN <<>> ELSE ps

Normalized(ps) == IF Contains(ps, <<>>) THEN <<>> ELSE Dedup(ps)

\* What the server makes of the query: no prefix, or an empty one, is everything.
ServerPrefixes(ps) ==
    IF ps = <<>> \/ Contains(ps, <<>>) THEN <<<<>>>> ELSE Dedup(ps)

\* Fault: the wildcards of LIKE are not escaped.
LikePrefixRaw(p) == Append(p, Percent)

LikePrefix(p) ==
    FlattenSeq([n \in 1 .. Len(p) |->
        IF p[n] \in {Percent, Underscore, Backslash} THEN <<Backslash, p[n]>> ELSE <<p[n]>>])
      \o <<Percent>>

\* LIKE ... ESCAPE '\' of the database, on a column that is compared by bytes:
\* whether the pattern from place i on matches the text from place j on.
Like(s, pattern) ==
    LET match[c \in (1 .. Len(pattern) + 1) \X (1 .. Len(s) + 1)] ==
            LET i == c[1]
                j == c[2]
            IN  IF i > Len(pattern) THEN j > Len(s)
                ELSE IF pattern[i] = Percent
                  THEN match[<<i + 1, j>>] \/ (j <= Len(s) /\ match[<<i, j + 1>>])
                ELSE IF pattern[i] = Backslash /\ i < Len(pattern)
                  THEN j <= Len(s) /\ s[j] = pattern[i + 1] /\ match[<<i + 2, j + 1>>]
                ELSE j <= Len(s) /\ pattern[i] \in {Underscore, s[j]} /\ match[<<i + 1, j + 1>>]
    IN  match[<<1, 1>>]

\* One statement over all prefixes; none, or an empty one, selects every row.
ListPrefixes(ps) ==
    {k \in Keys :
        /\ rows[k] # Absent
        /\ \/ ps = <<>>
           \/ \E n \in DOMAIN ps : ps[n] = <<>> \/ Like(k, LikePrefix(ps[n]))}

\* A full fetch of this moment.
Snapshot(rev, configs) == [Revision |-> rev, Configs |-> configs]

Fetch(ps) ==
    LET selected == ListPrefixes(IF remote' THEN ServerPrefixes(ps) ELSE ps)
    IN  Snapshot(revision, [k \in selected |-> rows[k]])

\* The server refuses a query of too many prefixes.
Accepted(ps) == remote' => Len(ps) <= MaxPrefixes

-----------------------------------------------------------------------------
\* The snapshot.

\* slices.Sort: the n-th key is the one with n - 1 keys before it.
Below(S, k) == {j \in S : Before(j, k)}
Sorted(S) == [n \in 1 .. Cardinality(S) |-> CHOOSE k \in S : Cardinality(Below(S, k)) = n - 1]

NewView(s) ==
    [revision |-> s.Revision, byKey |-> s.Configs, keys |-> Sorted(DOMAIN s.Configs)]

EmptyView == [revision |-> -1, byKey |-> <<>>, keys |-> <<>>]

ToWire(v) == Snapshot(v.revision, [k \in Range(v.keys) |-> v.byKey[k]])

\* slices.BinarySearchFunc: where the keys cease to be less, if they do so once.
Search(less) ==
    LET find[range \in {r \in (0 .. Len(less)) \X (0 .. Len(less)) : r[1] <= r[2]}] ==
            LET lo  == range[1]
                hi  == range[2]
                mid == (lo + hi) \div 2
            IN  IF lo = hi THEN lo
                ELSE IF less[mid + 1] THEN find[<<mid + 1, hi>>] ELSE find[<<lo, mid>>]
    IN  find[<<0, Len(less)>>]

\* Fault: the end of the run is searched like its beginning.
PrefixRangeEmpty(v, p) ==
    [lo |-> Search([n \in DOMAIN v.keys |-> Before(v.keys[n], p)]),
     hi |-> Search([n \in DOMAIN v.keys |-> v.keys[n] = p \/ Before(v.keys[n], p)])]

PrefixRange(v, p) ==
    [lo |-> Search([n \in DOMAIN v.keys |-> Before(v.keys[n], p)]),
     hi |-> Search([n \in DOMAIN v.keys |-> HasPrefix(v.keys[n], p) \/ Before(v.keys[n], p)])]

Diff(old, new) ==
    {k \in DOMAIN new.byKey :
        k \in DOMAIN old.byKey => old.byKey[k] # new.byKey[k]}
      \cup (DOMAIN old.byKey \ DOMAIN new.byKey)

FilterPrefix(ks, p) == {k \in ks : HasPrefix(k, p)}

NotifyPrefixes(ps) == IF ps = <<>> THEN <<<<>>>> ELSE ps

\* Fault: a key is reported under the first of its prefixes only.
NotifyOnce(ps, changed) ==
    LET under(n) == FilterPrefix(changed, NotifyPrefixes(ps)[n]) \
                      UNION {FilterPrefix(changed, NotifyPrefixes(ps)[i]) : i \in 1 .. n - 1}
        due == {n \in DOMAIN NotifyPrefixes(ps) : under(n) # {}}
    IN  [n \in due |-> [prefix |-> NotifyPrefixes(ps)[n], keys |-> under(n)]]

\* The calls of onChange, each at the place of its prefix among those of the
\* client; a prefix under which nothing changed has none.
Notify(ps, changed) ==
    LET due == {n \in DOMAIN NotifyPrefixes(ps) :
                   FilterPrefix(changed, NotifyPrefixes(ps)[n]) # {}}
    IN  [n \in due |-> [prefix |-> NotifyPrefixes(ps)[n],
                        keys   |-> FilterPrefix(changed, NotifyPrefixes(ps)[n])]]

\* Group.Keys and Group.Raw.
GroupKeys(v, p) ==
    LET range == PrefixRange(v, p)
    IN  [n \in 1 .. range.hi - range.lo |->
            SubSeq(v.keys[range.lo + n], Len(p) + 1, Len(v.keys[range.lo + n]))]

Raw(v, k) == IF k \in DOMAIN v.byKey THEN v.byKey[k] ELSE Absent

\* The prefixes an application has its copies for, and what it reads to begin with.
Sought(ps)    == IF ps = <<>> THEN {<<>>} ELSE Range(ps)
Copies(v, ps) == [p \in Sought(ps) |-> [k \in Keys |-> Raw(v, k)]]

-----------------------------------------------------------------------------
Init ==
    /\ rows \in [Keys -> Values \cup {Absent}]
    /\ revision = 0
    /\ remote = FALSE /\ prefixes = <<>> /\ seeded = FALSE
    /\ view = NoClient /\ file = NoFile
    /\ told = <<>> /\ origin = <<>>
    /\ mirror = <<>>

\* A committed write.
Write(k, v) ==
    /\ revision < MaxRevision
    /\ rows[k] = Absent => v # Absent
    /\ rows' = [rows EXCEPT ![k] = v]
    /\ revision' = revision + 1
    /\ told' = <<>>
    /\ UNCHANGED <<remote, prefixes, seeded, view, file, origin, mirror>>

\* apply: swap, compare, write the file.
Apply(old, ps) ==
    LET next    == NewView(Fetch(ps))
        changed == Diff(old, next)
    IN  /\ view' = next
        /\ origin' = ps
        /\ seeded' = TRUE
        /\ file' = IF changed # {} \/ ~seeded THEN [wire |-> ToWire(next), origin |-> ps] ELSE file

\* New, of which the source is reachable: no call of onChange.
NewFetched(args, r) ==
    /\ view = NoClient
    /\ remote' = r
    /\ prefixes' = Normalized(args)
    /\ Accepted(prefixes')
    /\ Apply(EmptyView, prefixes')
    /\ told' = <<>>
    /\ mirror' = Copies(view', prefixes')
    /\ UNCHANGED <<rows, revision>>

\* New, of which the first fetch fails: the file is taken as it is.
NewFromFile(args, r) ==
    /\ view = NoClient
    /\ file # NoFile
    /\ remote' = r
    /\ prefixes' = Normalized(args)
    /\ view' = NewView(file.wire)
    /\ origin' = file.origin
    /\ told' = <<>>
    /\ mirror' = Copies(view', prefixes')
    /\ UNCHANGED <<rows, revision, seeded, file>>

\* New, of which the first fetch fails without a file, under WithStartupDegrade.
NewDegraded(args, r) ==
    /\ view = NoClient
    /\ file = NoFile
    /\ remote' = r
    /\ prefixes' = Normalized(args)
    /\ view' = EmptyView
    /\ origin' = prefixes'
    /\ told' = <<>>
    /\ mirror' = Copies(view', prefixes')
    /\ UNCHANGED <<rows, revision, seeded, file>>

\* A poll of the refresh loop that finds the revision moved.
Poll ==
    /\ view # NoClient
    /\ revision # view.revision
    /\ UNCHANGED <<rows, revision, remote, prefixes>>
    /\ Accepted(prefixes)
    /\ Apply(view, prefixes)
    /\ told' = Notify(prefixes, Diff(view, view'))
    /\ mirror' = [p \in Sought(prefixes) |-> [k \in Keys |->
           IF \E n \in DOMAIN told' : told'[n].prefix = p /\ k \in told'[n].keys
             THEN Raw(view', k) ELSE mirror[p][k]]]

\* The process ends; the file stays.
Exit ==
    /\ view # NoClient
    /\ view' = NoClient
    /\ remote' = FALSE /\ prefixes' = <<>> /\ seeded' = FALSE
    /\ told' = <<>> /\ origin' = <<>>
    /\ mirror' = <<>>
    /\ UNCHANGED <<rows, revision, file>>

Next ==
    \/ \E k \in Keys, v \in Values \cup {Absent} : Write(k, v)
    \/ \E args \in PrefixArgs, r \in BOOLEAN :
           NewFetched(args, r) \/ NewFromFile(args, r) \/ NewDegraded(args, r)
    \/ Poll
    \/ Exit

Spec == Init /\ [][Next]_vars

-----------------------------------------------------------------------------
\* Properties.

\* What an application that passed these prefixes asked for, by definition.
Asked(ps) == {k \in Keys : ps = <<>> \/ \E n \in DOMAIN ps : HasPrefix(k, ps[n])}

\* A view lists its keys in strict order, as Group's search needs, also one read
\* from a file (view.go: newView).
TypeOK ==
    /\ rows \in [Keys -> Values \cup {Absent}]
    /\ revision \in 0 .. MaxRevision
    /\ remote \in BOOLEAN /\ seeded \in BOOLEAN
    /\ prefixes \in Seq(Text)
    /\ \A v \in {view} \cup (IF file = NoFile THEN {} ELSE {NewView(file.wire)}) :
           v # NoClient =>
             /\ v.revision \in -1 .. MaxRevision
             /\ v.byKey \in [Range(v.keys) -> Values]
             /\ \A n \in 2 .. Len(v.keys) : Before(v.keys[n - 1], v.keys[n])

\* A client whose revision is the database's holds exactly the rows under the
\* prefixes it was fetched with, with a direct source and over HTTP, wildcards in
\* prefixes and keys included (dialect.go: likePrefix; handler.go: prefixes).
ViewIsSelection ==
    view # NoClient /\ view.revision = revision =>
        /\ DOMAIN view.byKey = {k \in Asked(origin) : rows[k] # Absent}
        /\ \A k \in DOMAIN view.byKey : view.byKey[k] = rows[k]

\* Whatever prefix a group is asked for, its keys are those of the view with that
\* prefix, each once and in order, and reading one finds it (group.go: "relative
\* keys suitable for Get").
GroupIsExact ==
    view # NoClient =>
        \A p \in GroupArgs :
            LET ks == GroupKeys(view, p)
            IN  /\ {p \o ks[n] : n \in DOMAIN ks} = {k \in DOMAIN view.byKey : HasPrefix(k, p)}
                /\ \A n \in DOMAIN ks : Raw(view, p \o ks[n]) # Absent
                /\ \A n \in 2 .. Len(ks) : Before(ks[n - 1], ks[n])

\* An application that keeps a copy for each of its prefixes, and reads again only
\* the keys onChange names with that prefix, has under every prefix what the client
\* has: no change is left out under any of them, over any number of polls, with
\* prefixes that nest or repeat and after a cold start (client.go: notify).
MirrorFollows ==
    view # NoClient =>
        \A p \in Sought(prefixes) : \A k \in Keys :
            HasPrefix(k, p) => mirror[p][k] = Raw(view, k)

\* And it is told nothing else: onChange is called once for each prefix with a
\* change, with keys under it that do not read as before, and never by New
\* (client.go: apply, normalizePrefixes).
OnChangeIsPrecise ==
    [][\A n \in DOMAIN told' :
          /\ view # NoClient
          /\ \A k \in told'[n].keys :
                 HasPrefix(k, told'[n].prefix) /\ Raw(view, k) # Raw(view', k)
          /\ \A q \in DOMAIN told' : told'[q].prefix = told'[n].prefix => q = n]_vars
=============================================================================
