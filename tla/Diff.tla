-------------------------------- MODULE Diff --------------------------------
(***************************************************************************)
(* The line diff that lsctl shows before a write and in "lsctl diff"       *)
(* (cmd/lsctl/internal/render/diff.go): an edit script between two texts   *)
(* by the longest common subsequence of the lines between their common     *)
(* ends, then the loop that gathers it into hunks with line numbers.       *)
(*                                                                         *)
(* A text is the sequence of its lines, as splitLines leaves them.  A hunk *)
(* is its two spans and its ops; how they are written is left out.         *)
(***************************************************************************)
EXTENDS Integers, SequencesExt

CONSTANTS
    Lines,         \* the lines there may be
    MaxLines,      \* bound on the length of a text
    MaxContext,    \* bound on ctxLines
    MaxDiffCells   \* maxDiffCells: larger tables are not built

ASSUME DiffAssumption ==
    /\ MaxLines \in Nat /\ MaxDiffCells \in Nat
    /\ MaxContext \in Nat

VARIABLES
    a, b, ctxLines,  \* the arguments, a negative ctxLines taken for 0
    pc,              \* "diffLines", "hunks" or "done"
    ops,             \* what diffLines returned
    i,               \* how many of ops the loop of hunks has consumed
    aLine, bLine,    \* the next line of either text
    out              \* the hunks so far

vars == <<a, b, ctxLines, pc, ops, i, aLine, bLine, out>>

Texts == BoundedSeq(Lines, MaxLines)

Op   == [kind : {"same", "removed", "added"}, text : Lines]
OpsOf(kind, lines) == [n \in 1 .. Len(lines) |-> [kind |-> kind, text |-> lines[n]]]

\* The lines of a script's ops of the given kinds.
LinesOf(script, kinds) ==
    LET upTo[n \in 0 .. Len(script)] ==
          IF n = 0 THEN <<>>
          ELSE IF script[n].kind \in kinds THEN Append(upTo[n - 1], script[n].text)
          ELSE upTo[n - 1]
    IN  upTo[Len(script)]

\* The text a script starts from, the one it leads to, and what they share.
Old(script)  == LinesOf(script, {"same", "removed"})
New(script)  == LinesOf(script, {"same", "added"})
Same(script) == LinesOf(script, {"same"})

-----------------------------------------------------------------------------
\* diffLines.

\* tbl[<<p, q>>]: how long a common subsequence s from its p-th line on and t from
\* its q-th line on have.
Grid(s, t) == (1 .. Len(s) + 1) \X (1 .. Len(t) + 1)

Table(s, t) ==
    LET tbl[c \in Grid(s, t)] ==
          LET p == c[1]
              q == c[2]
          IN  IF p > Len(s) \/ q > Len(t) THEN 0
              ELSE IF s[p] = t[q] THEN tbl[<<p + 1, q + 1>>] + 1
              ELSE IF tbl[<<p + 1, q>>] >= tbl[<<p, q + 1>>] THEN tbl[<<p + 1, q>>]
              ELSE tbl[<<p, q + 1>>]
    IN  tbl

From(s, p) == SubSeq(s, p, Len(s))

\* Fault: the walk takes the direction that keeps less.
RemovesAstray(tbl, p, q) == tbl[<<p + 1, q>>] <= tbl[<<p, q + 1>>]

\* A removal comes first when both rests are equally long.
Removes(tbl, p, q) == tbl[<<p + 1, q>>] >= tbl[<<p, q + 1>>]

\* From the tops of both texts along the longer common rest.
LcsDiff(s, t) ==
    LET tbl == Table(s, t)
        walk[c \in Grid(s, t)] ==
          LET p == c[1]
              q == c[2]
          IN  IF p > Len(s) \/ q > Len(t)
                THEN OpsOf("removed", From(s, p)) \o OpsOf("added", From(t, q))
              ELSE IF s[p] = t[q]
                THEN OpsOf("same", <<s[p]>>) \o walk[<<p + 1, q + 1>>]
              ELSE IF Removes(tbl, p, q)
                THEN OpsOf("removed", <<s[p]>>) \o walk[<<p + 1, q>>]
              ELSE OpsOf("added", <<t[q]>>) \o walk[<<p, q + 1>>]
    IN  walk[<<1, 1>>]

\* How many lines two texts share at their beginning, and how many of the others
\* at their end.
CommonHead(s, t) ==
    Max({n \in 0 .. Min({Len(s), Len(t)}) : SubSeq(s, 1, n) = SubSeq(t, 1, n)})

CommonTail(s, t) ==
    Max({n \in 0 .. Min({Len(s), Len(t)}) :
            From(s, Len(s) - n + 1) = From(t, Len(t) - n + 1)})

\* A middle of which one side is empty is all removals or all additions, which
\* LcsDiff gives as well; one whose table is too large is replaced as a whole.
DiffLines(s, t) ==
    LET head == CommonHead(s, t)
        tail == CommonTail(From(s, head + 1), From(t, head + 1))
        Middle(r) == SubSeq(r, head + 1, Len(r) - tail)
    IN  OpsOf("same", SubSeq(s, 1, head))
          \o (IF Len(Middle(s)) * Len(Middle(t)) > MaxDiffCells
                THEN OpsOf("removed", Middle(s)) \o OpsOf("added", Middle(t))
                ELSE LcsDiff(Middle(s), Middle(t)))
          \o OpsOf("same", From(s, Len(s) - tail + 1))

-----------------------------------------------------------------------------
\* hunks.

\* The ops shown: every change with ctxLines ops on either side.
Keep ==
    {k \in 1 .. Len(ops) : \E c \in (k - ctxLines) .. (k + ctxLines) :
        c \in 1 .. Len(ops) /\ ops[c].kind # "same"}

\* Fault: an empty span starts at the line it stands before.
SpanForward(start, count) == [start |-> start, count |-> count]

\* "start,0" names the line before the empty range.
Span(start, count) ==
    [start |-> IF count = 0 THEN start - 1 ELSE start, count |-> count]

Init ==
    /\ a \in Texts /\ b \in Texts
    /\ ctxLines \in 0 .. MaxContext
    /\ pc = "diffLines"
    /\ ops = <<>> /\ i = 0
    /\ aLine = 1 /\ bLine = 1
    /\ out = <<>>

\* UnifiedDiff hands the script of its two texts to hunks.
Compare ==
    /\ pc = "diffLines"
    /\ ops' = DiffLines(a, b)
    /\ pc' = "hunks"
    /\ UNCHANGED <<a, b, ctxLines, i, aLine, bLine, out>>

\* An op that is not shown still counts its line.
Skip ==
    /\ pc = "hunks"
    /\ i < Len(ops)
    /\ i + 1 \notin Keep
    /\ i' = i + 1
    /\ aLine' = aLine + Len(Old(<<ops[i + 1]>>))
    /\ bLine' = bLine + Len(New(<<ops[i + 1]>>))
    /\ UNCHANGED <<a, b, ctxLines, pc, ops, out>>

\* A hunk is a maximal run of shown ops.
Hunk ==
    /\ pc = "hunks"
    /\ i + 1 \in Keep
    /\ LET end  == Min({e \in i + 1 .. Len(ops) : e + 1 \notin Keep})
           body == SubSeq(ops, i + 1, end)
       IN  /\ i' = end
           /\ aLine' = aLine + Len(Old(body))
           /\ bLine' = bLine + Len(New(body))
           /\ out' = Append(out, [aSpan |-> Span(aLine, Len(Old(body))),
                                  bSpan |-> Span(bLine, Len(New(body))),
                                  body  |-> body])
    /\ UNCHANGED <<a, b, ctxLines, pc, ops>>

Return ==
    /\ pc = "hunks"
    /\ i = Len(ops)
    /\ pc' = "done"
    /\ UNCHANGED <<a, b, ctxLines, ops, i, aLine, bLine, out>>

Next == Compare \/ Skip \/ Hunk \/ Return

Spec == Init /\ [][Next]_vars

-----------------------------------------------------------------------------
\* Properties.

\* The common subsequences of two texts, by definition: what increasing positions
\* pick out of both.
Increasing(f) == \A j, k \in DOMAIN f : j < k => f[j] < f[k]

Positions ==
    [n \in 0 .. MaxLines |->
        UNION {{f \in [1 .. l -> 1 .. n] : Increasing(f)} : l \in 0 .. n}]

Subsequences(s) == {[k \in DOMAIN f |-> s[f[k]]] : f \in Positions[Len(s)]}

LcsLength(s, t) == Max({Len(c) : c \in Subsequences(s) \cap Subsequences(t)})

\* The line a span begins with, or would if it had any.
FirstLine(span) == IF span.count = 0 THEN span.start + 1 ELSE span.start

\* What a reader who applies the hunks to the old text has after another one: it
\* is looked for at the line its header names, and the text before it is copied.
Applied(old, acc, h) ==
    LET first  == FirstLine(h.aSpan)
        next   == Min({first + h.aSpan.count, Len(old) + 1})
        copied == SubSeq(old, acc.from, Min({first - 1, Len(old)}))
    IN  [from |-> next,
         text |-> acc.text \o copied \o New(h.body),
         fits |-> /\ acc.fits
                  /\ first >= acc.from
                  /\ FirstLine(h.bSpan) = Len(acc.text) + Len(copied) + 1
                  /\ h.bSpan.count = Len(New(h.body))
                  /\ h.aSpan.count = Len(Old(h.body))
                  /\ Old(h.body) = SubSeq(old, first, next - 1)]

Reader(old, hunks) ==
    LET after[n \in 0 .. Len(hunks)] ==
          IF n = 0 THEN [from |-> 1, text |-> <<>>, fits |-> TRUE]
          ELSE Applied(old, after[n - 1], hunks[n])
    IN  after[Len(hunks)]

Patched(old, hunks) ==
    LET end == Reader(old, hunks) IN [end EXCEPT !.text = @ \o From(old, end.from)]

\* The loop's counters and the ops consumed agree (diff.go: hunks).
TypeOK ==
    /\ a \in Seq(Lines) /\ b \in Seq(Lines)
    /\ ops \in Seq(Op)
    /\ i \in 0 .. Len(ops)
    /\ aLine = 1 + Len(Old(SubSeq(ops, 1, i)))
    /\ bLine = 1 + Len(New(SubSeq(ops, 1, i)))

\* Within maxDiffCells the script keeps as many lines as any could: trimming the
\* common ends costs nothing and the walk never leaves the longest rest.
ScriptIsShortest ==
    pc # "diffLines" /\ Len(a) * Len(b) <= MaxDiffCells =>
        Len(Same(ops)) = LcsLength(a, b)

\* What y confirms is what the screen showed: applied where their headers say, the
\* hunks turn the old text into the new one, however its ends were trimmed and
\* also where the table would have been too large; none means equal texts.
HunksApply ==
    pc = "done" =>
        /\ Patched(a, out).fits
        /\ Patched(a, out).text = b
        /\ out = <<>> <=> a = b
=============================================================================
