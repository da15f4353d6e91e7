----------------------------- MODULE DiffProofs -----------------------------
(***************************************************************************)
(* The line diff on texts of any length, with any context and any limit on *)
(* the table.                                                              *)
(*                                                                         *)
(* The first half is about the operators: the lines of a script, the table *)
(* and the walk of lcsDiff, the common ends.  The second follows the loop  *)
(* of hunks with a reader who applies each hunk as it is made: what the    *)
(* reader has, and the old lines skipped since, are the new text so far.   *)
(***************************************************************************)
EXTENDS Diff, SequenceTheorems, WellFoundedInduction, TLAPS

(***************************************************************************)
(* Induction on the natural numbers, of a set and of recursive functions.  *)
(***************************************************************************)

\* A set of naturals that is not empty has a least element.
LEMMA LeastNat ==
  ASSUME NEW T, T \subseteq Nat, T # {}
  PROVE  \E x \in T : \A y \in T : x <= y
<1>1. PICK x \in T : \A y \in T : ~ (<<y, x>> \in OpToRel(<, Nat))
  BY NatLessThanWellFounded, WFMin
<1>2. \A y \in T : <<y, x>> \in Nat \X Nat
  OBVIOUS
<1>3. \A y \in T : y < x => <<y, x>> \in OpToRel(<, Nat)
  BY <1>2 DEF OpToRel
<1>4. \A y \in T : ~(y < x)
  BY <1>1, <1>3, Zenon
<1> QED
  BY <1>4

\* A set with 0 and the successor of each of its elements has every natural.
LEMMA SetInduction ==
  ASSUME NEW T, 0 \in T, \A n \in Nat : n \in T => n + 1 \in T
  PROVE  Nat \subseteq T
<1> SUFFICES ASSUME Nat \ T # {} PROVE FALSE
  OBVIOUS
<1>1. PICK x \in Nat \ T : \A y \in Nat \ T : x <= y
  BY LeastNat
<1>2. x - 1 \in Nat /\ x - 1 \notin Nat \ T
  BY <1>1
<1> QED
  BY <1>2

\* F makes a table of D out of a table of D, and what it puts at a place depends
\* only on places of lower rank.
Determines(F, D, V, rank, N) ==
    /\ V # {} /\ N \in Nat /\ rank \in [D -> 0 .. N]
    /\ F \in [[D -> V] -> [D -> V]]
    /\ \A g, h \in [D -> V], x \in D :
           (\A y \in D : rank[y] < rank[x] => g[y] = h[y]) => F[g][x] = F[h][x]

\* A function may be defined by what it is at arguments of lower rank.
LEMMA Recursion ==
  ASSUME NEW F, NEW D, NEW V, NEW rank, NEW N, Determines(F, D, V, rank, N)
  PROVE  \E f \in [D -> V] : F[f] = f
<1> USE DEF Determines
<1> DEFINE Fixed(g, n) == \A x \in D : rank[x] < n => F[g][x] = g[x]
           T == {n \in Nat : \E g \in [D -> V] : Fixed(g, n)}
<1>1. 0 \in T
  <2>1. PICK v \in V : TRUE
    OBVIOUS
  <2>2. [x \in D |-> v] \in [D -> V]
    OBVIOUS
  <2>3. Fixed([x \in D |-> v], 0)
    OBVIOUS
  <2> QED
    BY <2>2, <2>3
<1>2. ASSUME NEW n \in Nat, n \in T PROVE n + 1 \in T
  <2>1. PICK g \in [D -> V] : Fixed(g, n)
    BY <1>2
  <2>2. F[g] \in [D -> V]
    OBVIOUS
  <2>3. ASSUME NEW x \in D, rank[x] < n + 1 PROVE F[F[g]][x] = F[g][x]
    <3>1. \A y \in D : rank[y] < rank[x] => rank[y] < n
      BY <2>3
    <3>2. \A y \in D : rank[y] < rank[x] => F[g][y] = g[y]
      BY <2>1, <3>1
    <3> QED
      BY <2>2, <3>2
  <2>4. Fixed(F[g], n + 1)
    BY <2>3
  <2> QED
    BY <2>2, <2>4
<1>3. N + 1 \in T
  <2> HIDE DEF T
  <2> QED
    BY <1>1, <1>2, SetInduction
<1>4. PICK f \in [D -> V] : Fixed(f, N + 1)
  BY <1>3
<1>5. \A x \in D : F[f][x] = f[x]
  BY <1>4
<1>6. F[f] \in [D -> V]
  OBVIOUS
<1> QED
  BY <1>5, <1>6

\* The least and the greatest of some numbers.
LEMMA LeastAndGreatest ==
  ASSUME NEW n \in Nat, NEW s, s \subseteq 0 .. n, s # {}
  PROVE  /\ Min(s) \in s /\ \A x \in s : Min(s) <= x
         /\ Max(s) \in s /\ \A x \in s : x <= Max(s)
<1>1. s \subseteq Nat
  OBVIOUS
<1>2. Min(s) \in s /\ \A x \in s : Min(s) <= x
  BY <1>1, LeastNat DEF Min
<1>3. Max(s) \in s /\ \A x \in s : x <= Max(s)
  <2> DEFINE T == {n - x : x \in s}
  <2>1. T \subseteq Nat /\ T # {}
    <3>1. \A x \in s : x \in Nat /\ x <= n
      OBVIOUS
    <3>2. \A x \in s : n - x \in Nat
      BY <3>1
    <3> QED
      BY <3>2
  <2>2. PICK d \in T : \A e \in T : d <= e
    BY <2>1, LeastNat
  <2>3. PICK x \in s : d = n - x
    OBVIOUS
  <2>4. ASSUME NEW y \in s PROVE x >= y
    <3>1. n - x <= n - y
      BY <2>2, <2>3
    <3> QED
      BY <3>1
  <2> QED
    BY <2>4 DEF Max
<1> QED
  BY <1>2, <1>3

LEMMA LesserOfTwo ==
  ASSUME NEW x \in Int, NEW y \in Int
  PROVE  Min({x, y}) = IF x <= y THEN x ELSE y
  BY DEF Min

(***************************************************************************)
(* The lines of a script.                                                  *)
(***************************************************************************)

\* The table of LinesOf.
IsUpTo(script, kinds, f) ==
    /\ f[0] = <<>>
    /\ \A n \in 1 .. Len(script) :
          f[n] = IF script[n].kind \in kinds THEN Append(f[n - 1], script[n].text)
                                             ELSE f[n - 1]

LEMMA LinesTable ==
  ASSUME NEW script, NEW kinds, Len(script) \in Nat
  PROVE  \E f : IsUpTo(script, kinds, f) /\ LinesOf(script, kinds) = f[Len(script)]
<1> DEFINE N == Len(script)
           Body(g, n) == IF n = 0 THEN <<>>
                         ELSE IF script[n].kind \in kinds THEN Append(g[n - 1], script[n].text)
                         ELSE g[n - 1]
           Is(f, n) == f = [k \in 0 .. n |-> Body(f, k)]
           T == {n \in Nat : \E f : Is(f, n)}
           table == CHOOSE f : Is(f, N)
<1>1. 0 \in T
  <2> DEFINE f == [k \in 0 .. 0 |-> <<>>]
  <2>1. f = [k \in 0 .. 0 |-> Body(f, k)]
    OBVIOUS
  <2> QED
    BY <2>1
<1>2. ASSUME NEW n \in Nat, n \in T PROVE n + 1 \in T
  <2>1. PICK f : Is(f, n)
    BY <1>2
  <2>2. \A k \in 0 .. n : f[k] = Body(f, k)
    BY <2>1
  <2> HIDE DEF Body
  <2> DEFINE g == [k \in 0 .. n + 1 |-> IF k = n + 1 THEN Body(f, n + 1) ELSE f[k]]
  <2>3. \A k \in 0 .. n : g[k] = f[k]
    OBVIOUS
  <2>4. g[n + 1] = Body(f, n + 1)
    OBVIOUS
  <2>5. ASSUME NEW k \in 0 .. n + 1 PROVE g[k] = Body(g, k)
    <3>1. k # 0 => k - 1 \in 0 .. n
      BY <2>5
    <3>2. k # 0 => g[k - 1] = f[k - 1]
      BY <2>3, <3>1
    <3>3. Body(g, k) = Body(f, k)
      <4> HIDE DEF g
      <4> QED
        BY <3>2 DEF Body
    <3>4. k # n + 1 => k \in 0 .. n
      BY <2>5
    <3> HIDE DEF g
    <3> QED
      BY <2>2, <2>3, <2>4, <3>3, <3>4
  <2>6. g = [k \in 0 .. n + 1 |-> Body(g, k)]
    BY <2>5
  <2> HIDE DEF g
  <2>7. Is(g, n + 1)
    BY <2>6
  <2> HIDE DEF Is
  <2> QED
    BY <2>7
<1>3. N \in T
  <2> HIDE DEF T
  <2> QED
    BY <1>1, <1>2, SetInduction
<1>4. LinesOf(script, kinds) = table[N]
  BY Zenon DEF LinesOf
<1>5. Is(table, N)
  <2>1. \E f : Is(f, N)
    BY <1>3
  <2> HIDE DEF Is
  <2> QED
    BY <2>1, Zenon
<1>6. \A n \in 0 .. N : table[n] = Body(table, n)
  <2> HIDE DEF table, Body, N
  <2> QED
    BY <1>5
<1> HIDE DEF table
<1>7. IsUpTo(script, kinds, table)
  BY <1>6 DEF IsUpTo
<1> QED
  BY <1>4, <1>7

LEMMA LinesOfEmpty ==
  ASSUME NEW kinds
  PROVE  LinesOf(<<>>, kinds) = <<>>
<1>1. Len(<<>>) = 0
  OBVIOUS
<1>2. \E f : IsUpTo(<<>>, kinds, f) /\ LinesOf(<<>>, kinds) = f[0]
  <2>1. Len(<<>>) \in Nat
    OBVIOUS
  <2> QED
    BY <1>1, <2>1, LinesTable
<1> QED
  BY <1>2 DEF IsUpTo

LEMMA LinesOfAppend ==
  ASSUME NEW script \in Seq(Op), NEW o \in Op, NEW kinds
  PROVE  LinesOf(Append(script, o), kinds) =
           IF o.kind \in kinds THEN Append(LinesOf(script, kinds), o.text)
                               ELSE LinesOf(script, kinds)
<1> DEFINE n == Len(script)
           longer == Append(script, o)
<1>1. /\ n \in Nat /\ Len(longer) = n + 1 /\ longer[n + 1] = o
      /\ \A k \in 1 .. n : longer[k] = script[k]
  OBVIOUS
<1> HIDE DEF n, longer
<1>2. PICK f : IsUpTo(script, kinds, f) /\ LinesOf(script, kinds) = f[n]
  BY <1>1, LinesTable DEF n
<1>3. PICK g : IsUpTo(longer, kinds, g) /\ LinesOf(longer, kinds) = g[n + 1]
  BY <1>1, LinesTable
<1> DEFINE T == {k \in Nat : k <= n => f[k] = g[k]}
<1>4. 0 \in T
  BY <1>2, <1>3 DEF IsUpTo
<1>5. ASSUME NEW k \in Nat, k \in T PROVE k + 1 \in T
  <2> SUFFICES ASSUME k + 1 <= n PROVE f[k + 1] = g[k + 1]
    OBVIOUS
  <2>1. k + 1 \in 1 .. n /\ k + 1 \in 1 .. n + 1 /\ (k + 1) - 1 = k /\ f[k] = g[k]
    BY <1>1, <1>5
  <2>2. longer[k + 1] = script[k + 1]
    BY <1>1, <2>1
  <2>3. f[k + 1] = IF script[k + 1].kind \in kinds THEN Append(f[k], script[k + 1].text)
                                                   ELSE f[k]
    BY <1>2, <2>1 DEF IsUpTo, n
  <2>4. g[k + 1] = IF longer[k + 1].kind \in kinds THEN Append(g[k], longer[k + 1].text)
                                                   ELSE g[k]
    BY <1>1, <1>3, <2>1 DEF IsUpTo
  <2> QED
    BY <2>1, <2>2, <2>3, <2>4
<1>6. f[n] = g[n]
  <2> HIDE DEF T
  <2>1. n \in T
    BY <1>1, <1>4, <1>5, SetInduction
  <2> QED
    BY <1>1, <2>1 DEF T
<1>7. g[n + 1] = IF o.kind \in kinds THEN Append(g[n], o.text) ELSE g[n]
  <2>1. n + 1 \in 1 .. Len(longer) /\ (n + 1) - 1 = n
    BY <1>1
  <2> QED
    BY <1>1, <1>3, <2>1 DEF IsUpTo
<1> QED
  BY <1>2, <1>3, <1>6, <1>7 DEF longer

\* A sequence that is not empty is its front and its last element.
LEMMA FrontAndLast ==
  ASSUME NEW S, NEW s \in Seq(S), NEW n \in Nat, n + 1 <= Len(s)
  PROVE  /\ SubSeq(s, 1, n) \in Seq(S) /\ s[n + 1] \in S
         /\ SubSeq(s, 1, n + 1) = Append(SubSeq(s, 1, n), s[n + 1])
<1>1. s[n + 1] \in S
  BY ElementOfSeq
<1>2. SubSeq(s, 1, n) \in Seq(S)
  <2>1. \A k \in 1 .. n : s[k] \in S
    BY ElementOfSeq
  <2> QED
    BY <2>1, SubSeqProperties
<1>3. SubSeq(s, 1, n + 1) = SubSeq(s, 1, n) \o <<s[n + 1]>>
  <2>1. 1 \in 1 .. Len(s) /\ n + 1 \in 1 .. Len(s) /\ (n + 1) - 1 = n
    OBVIOUS
  <2> QED
    BY <2>1, SubSeqRecursiveSecond
<1> QED
  BY <1>1, <1>2, <1>3, AppendIsConcat

\* The lines of a script are lines.
LEMMA LinesOfAreLines ==
  ASSUME NEW script \in Seq(Op), NEW kinds
  PROVE  LinesOf(script, kinds) \in Seq(Lines)
<1> DEFINE T == {n \in Nat : n <= Len(script) => LinesOf(SubSeq(script, 1, n), kinds) \in Seq(Lines)}
<1>1. 0 \in T
  <2>1. SubSeq(script, 1, 0) = <<>>
    BY SubSeqEmpty
  <2> QED
    BY <2>1, LinesOfEmpty, EmptySeq
<1>2. ASSUME NEW n \in Nat, n \in T PROVE n + 1 \in T
  <2> SUFFICES ASSUME n + 1 <= Len(script)
               PROVE  LinesOf(SubSeq(script, 1, n + 1), kinds) \in Seq(Lines)
    OBVIOUS
  <2> DEFINE front == SubSeq(script, 1, n)
             o == script[n + 1]
  <2>1. front \in Seq(Op) /\ o \in Op /\ SubSeq(script, 1, n + 1) = Append(front, o)
    BY FrontAndLast
  <2>2. LinesOf(front, kinds) \in Seq(Lines)
    <3>1. Len(script) \in Nat
      OBVIOUS
    <3> QED
      BY <1>2, <3>1
  <2> HIDE DEF front, o
  <2>3. o.text \in Lines
    BY <2>1 DEF Op
  <2>4. Append(LinesOf(front, kinds), o.text) \in Seq(Lines)
    BY <2>2, <2>3
  <2>5. LinesOf(Append(front, o), kinds) =
          IF o.kind \in kinds THEN Append(LinesOf(front, kinds), o.text) ELSE LinesOf(front, kinds)
    BY <2>1, LinesOfAppend
  <2> QED
    BY <2>1, <2>2, <2>4, <2>5
<1>3. Len(script) \in T
  <2> HIDE DEF T
  <2>1. Len(script) \in Nat
    OBVIOUS
  <2> QED
    BY <1>1, <1>2, <2>1, SetInduction
<1>4. SubSeq(script, 1, Len(script)) = script
  BY SubSeqFull
<1>5. Len(script) \in Nat
  OBVIOUS
<1>6. LinesOf(SubSeq(script, 1, Len(script)), kinds) \in Seq(Lines)
  <2>1. Len(script) <= Len(script)
    BY <1>5
  <2> QED
    BY <1>3, <2>1, Zenon
<1> QED
  BY <1>4, <1>6, Zenon

\* One script after another.
LEMMA LinesOfConcat ==
  ASSUME NEW x \in Seq(Op), NEW y \in Seq(Op), NEW kinds
  PROVE  LinesOf(x \o y, kinds) = LinesOf(x, kinds) \o LinesOf(y, kinds)
<1> DEFINE To(n) == SubSeq(y, 1, n)
           T == {n \in Nat : n <= Len(y) =>
                    LinesOf(x \o To(n), kinds) = LinesOf(x, kinds) \o LinesOf(To(n), kinds)}
<1>0. LinesOf(x, kinds) \in Seq(Lines)
  BY LinesOfAreLines
<1>1. 0 \in T
  <2>1. To(0) = <<>>
    BY SubSeqEmpty
  <2>2. x \o <<>> = x /\ LinesOf(x, kinds) \o <<>> = LinesOf(x, kinds)
    BY <1>0, ConcatEmptySeq
  <2> QED
    BY <2>1, <2>2, LinesOfEmpty
<1>2. ASSUME NEW n \in Nat, n \in T PROVE n + 1 \in T
  <2> SUFFICES ASSUME n + 1 <= Len(y)
               PROVE  LinesOf(x \o To(n + 1), kinds) =
                        LinesOf(x, kinds) \o LinesOf(To(n + 1), kinds)
    OBVIOUS
  <2> DEFINE front == To(n)
             o == y[n + 1]
  <2>1. front \in Seq(Op) /\ o \in Op /\ To(n + 1) = Append(front, o)
    BY FrontAndLast
  <2>2. LinesOf(x \o front, kinds) = LinesOf(x, kinds) \o LinesOf(front, kinds)
    <3>1. Len(y) \in Nat
      OBVIOUS
    <3> QED
      BY <1>2, <3>1
  <2> HIDE DEF front, o, To
  <2>3. x \o front \in Seq(Op) /\ x \o Append(front, o) = Append(x \o front, o)
    BY <2>1
  <2>4. \A z \in Seq(Op) : LinesOf(Append(z, o), kinds) =
             IF o.kind \in kinds THEN Append(LinesOf(z, kinds), o.text) ELSE LinesOf(z, kinds)
    BY <2>1, LinesOfAppend
  <2>5. LinesOf(front, kinds) \in Seq(Lines) /\ o.text \in Lines
    BY <2>1, LinesOfAreLines DEF Op
  <2>6. LinesOf(x, kinds) \o Append(LinesOf(front, kinds), o.text) =
          Append(LinesOf(x, kinds) \o LinesOf(front, kinds), o.text)
    BY <1>0, <2>5
  <2>7. CASE o.kind \in kinds
    BY <2>1, <2>2, <2>3, <2>4, <2>6, <2>7
  <2>8. CASE o.kind \notin kinds
    BY <2>1, <2>2, <2>3, <2>4, <2>8
  <2> QED
    BY <2>7, <2>8
<1>3. Len(y) \in T
  <2> HIDE DEF T
  <2>1. Len(y) \in Nat
    OBVIOUS
  <2> QED
    BY <1>1, <1>2, <2>1, SetInduction
<1>4. To(Len(y)) = y
  BY SubSeqFull
<1> HIDE DEF To
<1> QED
  BY <1>3, <1>4

\* The same fact as one formula, for the provers to instantiate at once.
LinesSplit(x, y, kinds) == LinesOf(x \o y, kinds) = LinesOf(x, kinds) \o LinesOf(y, kinds)

LEMMA LinesOfSplit ==
  ASSUME NEW x \in Seq(Op), NEW y \in Seq(Op), NEW kinds
  PROVE  LinesSplit(x, y, kinds)
<1>1. LinesOf(x \o y, kinds) = LinesOf(x, kinds) \o LinesOf(y, kinds)
  BY LinesOfConcat
<1> QED
  BY <1>1 DEF LinesSplit

\* Lines marked with one kind.
LEMMA LinesOfMarked ==
  ASSUME NEW lines \in Seq(Lines), NEW kind \in {"same", "removed", "added"}, NEW kinds
  PROVE  /\ OpsOf(kind, lines) \in Seq(Op)
         /\ Len(OpsOf(kind, lines)) = Len(lines)
         /\ LinesOf(OpsOf(kind, lines), kinds) = IF kind \in kinds THEN lines ELSE <<>>
<1>0. \A x \in Seq(Lines) : OpsOf(kind, x) \in Seq(Op) /\ Len(OpsOf(kind, x)) = Len(x)
  BY DEF OpsOf, Op
<1> DEFINE To(n) == SubSeq(lines, 1, n)
           T == {n \in Nat : n <= Len(lines) =>
                    LinesOf(OpsOf(kind, To(n)), kinds) = IF kind \in kinds THEN To(n) ELSE <<>>}
<1>1. 0 \in T
  <2>1. To(0) = <<>>
    BY SubSeqEmpty
  <2>2. OpsOf(kind, <<>>) = <<>>
    BY DEF OpsOf
  <2> QED
    BY <2>1, <2>2, LinesOfEmpty
<1>2. ASSUME NEW n \in Nat, n \in T PROVE n + 1 \in T
  <2> SUFFICES ASSUME n + 1 <= Len(lines)
               PROVE  LinesOf(OpsOf(kind, To(n + 1)), kinds) =
                        IF kind \in kinds THEN To(n + 1) ELSE <<>>
    OBVIOUS
  <2> DEFINE front == To(n)
             l == lines[n + 1]
             o == [kind |-> kind, text |-> l]
  <2>1. front \in Seq(Lines) /\ l \in Lines /\ To(n + 1) = Append(front, l)
    BY FrontAndLast
  <2>2. LinesOf(OpsOf(kind, front), kinds) = IF kind \in kinds THEN front ELSE <<>>
    <3>1. Len(lines) \in Nat
      OBVIOUS
    <3> QED
      BY <1>2, <3>1
  <2> HIDE DEF front, l, To
  <2>3. OpsOf(kind, Append(front, l)) = Append(OpsOf(kind, front), o)
    BY <2>1 DEF OpsOf
  <2>4. o \in Op /\ OpsOf(kind, front) \in Seq(Op)
    BY <1>0, <2>1 DEF Op
  <2>5. LinesOf(Append(OpsOf(kind, front), o), kinds) =
          IF o.kind \in kinds THEN Append(LinesOf(OpsOf(kind, front), kinds), o.text)
                              ELSE LinesOf(OpsOf(kind, front), kinds)
    BY <2>4, LinesOfAppend
  <2>6. o.kind = kind /\ o.text = l
    OBVIOUS
  <2> HIDE DEF o
  <2> QED
    BY <2>1, <2>2, <2>3, <2>5, <2>6
<1>3. Len(lines) \in T
  <2> HIDE DEF T
  <2>1. Len(lines) \in Nat
    OBVIOUS
  <2> QED
    BY <1>1, <1>2, <2>1, SetInduction
<1>4. To(Len(lines)) = lines
  BY SubSeqFull
<1> HIDE DEF To
<1> QED
  BY <1>0, <1>3, <1>4

(***************************************************************************)
(* The table and the walk of lcsDiff.                                      *)
(***************************************************************************)

\* The places of the table, those of the rest of two texts after a place.
Below(c, d) == d[1] + d[2] > c[1] + c[2]

IsGrid(D, P, L) == P \in Nat /\ L \in Nat /\ D = (1 .. P + 1) \X (1 .. L + 1)

\* What holds at a place if it holds below holds everywhere.
LEMMA GridInduction ==
  ASSUME NEW P, NEW L, NEW D, IsGrid(D, P, L), NEW T,
         \A c \in D : (\A d \in D : Below(c, d) => d \in T) => c \in T
  PROVE  D \subseteq T
<1> USE DEF IsGrid
<1> DEFINE Rank(c) == (P + 1 - c[1]) + (L + 1 - c[2])
           M == {n \in Nat : \A c \in D : Rank(c) <= n => c \in T}
<1>1. \A c \in D : c[1] \in 1 .. P + 1 /\ c[2] \in 1 .. L + 1
  OBVIOUS
<1>2. \A c \in D : Rank(c) \in 0 .. P + L
  BY <1>1
<1>3. \A c, d \in D : Below(c, d) => Rank(d) < Rank(c)
  BY <1>1 DEF Below
<1> HIDE DEF Rank
<1>4. \A c \in D : (\A d \in D : Below(c, d) => d \in T) => c \in T
  OBVIOUS
<1>5. 0 \in M
  <2> SUFFICES ASSUME NEW c \in D, Rank(c) <= 0 PROVE c \in T
    OBVIOUS
  <2>1. \A d \in D : ~Below(c, d)
    <3> SUFFICES ASSUME NEW d \in D, Below(c, d) PROVE FALSE
      OBVIOUS
    <3>1. Rank(d) < Rank(c) /\ Rank(d) \in 0 .. P + L /\ Rank(c) \in 0 .. P + L
      BY <1>2, <1>3
    <3> QED
      BY <3>1
  <2> QED
    BY <1>4, <2>1
<1>6. ASSUME NEW n \in Nat, n \in M PROVE n + 1 \in M
  <2> SUFFICES ASSUME NEW c \in D, Rank(c) <= n + 1 PROVE c \in T
    OBVIOUS
  <2>1. ASSUME NEW d \in D, Below(c, d) PROVE d \in T
    <3>1. Rank(d) < Rank(c) /\ Rank(d) \in 0 .. P + L /\ Rank(c) \in 0 .. P + L
      BY <1>2, <1>3, <2>1
    <3>2. Rank(d) <= n
      BY <3>1
    <3> QED
      BY <1>6, <3>2
  <2> QED
    BY <1>4, <2>1
<1>7. P + L \in M
  <2> HIDE DEF M
  <2>1. P + L \in Nat
    OBVIOUS
  <2> QED
    BY <1>5, <1>6, <2>1, SetInduction
<1>8. \A c \in D : Rank(c) <= P + L
  BY <1>2
<1> QED
  BY <1>7, <1>8

\* Two functions on the places agree below a place, or at it.
AgreeBelow(D, g, h, c) == \A d \in D : Below(c, d) => g[d] = h[d]
AgreeAt(g, h, c) == g[c] = h[c]

\* A function on the places may be defined by what it is below.
GridDetermines(F, D, V) ==
    /\ V # {} /\ F \in [[D -> V] -> [D -> V]]
    /\ \A g, h \in [D -> V], c \in D : AgreeBelow(D, g, h, c) => AgreeAt(F[g], F[h], c)

LEMMA GridRecursion ==
  ASSUME NEW P, NEW L, NEW D, IsGrid(D, P, L), NEW V, NEW F, GridDetermines(F, D, V)
  PROVE  \E f \in [D -> V] : F[f] = f
<1> USE DEF IsGrid
<1>0. V # {} /\ F \in [[D -> V] -> [D -> V]]
  BY Zenon DEF GridDetermines
<1>agree. \A g, h \in [D -> V], c \in D : AgreeBelow(D, g, h, c) => AgreeAt(F[g], F[h], c)
  BY Zenon DEF GridDetermines
<1> DEFINE rank == [c \in D |-> (P + 1 - c[1]) + (L + 1 - c[2])]
<1>1. \A c \in D : c[1] \in 1 .. P + 1 /\ c[2] \in 1 .. L + 1
  OBVIOUS
<1>2. rank \in [D -> 0 .. P + L]
  <2>1. \A c \in D : (P + 1 - c[1]) + (L + 1 - c[2]) \in 0 .. P + L
    BY <1>1
  <2> QED
    BY <2>1
<1>3. \A c, d \in D : Below(c, d) => rank[d] < rank[c]
  BY <1>1 DEF Below
<1> HIDE DEF rank
<1>4. Determines(F, D, V, rank, P + L)
  <2>1. P + L \in Nat
    OBVIOUS
  <2>2. ASSUME NEW g \in [D -> V], NEW h \in [D -> V], NEW c \in D,
               \A d \in D : rank[d] < rank[c] => g[d] = h[d]
        PROVE  F[g][c] = F[h][c]
    <3>1. AgreeBelow(D, g, h, c)
      BY <1>3, <2>2 DEF AgreeBelow
    <3> QED
      <4>1. AgreeAt(F[g], F[h], c)
        BY <1>agree, <3>1, Zenon
      <4> QED
        BY <4>1 DEF AgreeAt
  <2> QED
    BY <1>0, <1>2, <2>1, <2>2, Zenon DEF Determines
<1>5. Determines(F, D, V, rank, P + L) => \E f \in [D -> V] : F[f] = f
  <2> SUFFICES ASSUME Determines(F, D, V, rank, P + L) PROVE \E f \in [D -> V] : F[f] = f
    OBVIOUS
  <2> QED
    BY Recursion, SMT
<1> QED
  BY <1>4, <1>5

\* Whoever is at a place before both ends may step on.
AtEnd(s, t, c) == c[1] > Len(s) \/ c[2] > Len(t)

LEMMA GridSteps ==
  ASSUME NEW s, NEW t, Len(s) \in Nat, Len(t) \in Nat, NEW c \in Grid(s, t)
  PROVE  /\ c[1] \in 1 .. Len(s) + 1 /\ c[2] \in 1 .. Len(t) + 1 /\ c = <<c[1], c[2]>>
         /\ ~AtEnd(s, t, c) =>
              /\ c[1] \in 1 .. Len(s) /\ c[2] \in 1 .. Len(t)
              /\ <<c[1] + 1, c[2] + 1>> \in Grid(s, t) /\ Below(c, <<c[1] + 1, c[2] + 1>>)
              /\ <<c[1] + 1, c[2]>> \in Grid(s, t) /\ Below(c, <<c[1] + 1, c[2]>>)
              /\ <<c[1], c[2] + 1>> \in Grid(s, t) /\ Below(c, <<c[1], c[2] + 1>>)
<1>1. c[1] \in 1 .. Len(s) + 1 /\ c[2] \in 1 .. Len(t) + 1 /\ c = <<c[1], c[2]>>
  BY DEF Grid
<1>2. ASSUME ~AtEnd(s, t, c) PROVE c[1] \in 1 .. Len(s) /\ c[2] \in 1 .. Len(t)
  BY <1>1, <1>2 DEF AtEnd
<1>3. ASSUME ~AtEnd(s, t, c)
      PROVE  /\ <<c[1] + 1, c[2] + 1>> \in Grid(s, t)
             /\ <<c[1] + 1, c[2]>> \in Grid(s, t)
             /\ <<c[1], c[2] + 1>> \in Grid(s, t)
  BY <1>1, <1>2, <1>3 DEF Grid
<1>4. /\ Below(c, <<c[1] + 1, c[2] + 1>>)
      /\ Below(c, <<c[1] + 1, c[2]>>)
      /\ Below(c, <<c[1], c[2] + 1>>)
  BY <1>1 DEF Below
<1> QED
  BY <1>1, <1>2, <1>3, <1>4

\* What the table has at a place, from what it has after it.
Entry(s, t, f, c) ==
    IF AtEnd(s, t, c) THEN 0
    ELSE IF s[c[1]] = t[c[2]] THEN f[<<c[1] + 1, c[2] + 1>>] + 1
    ELSE IF f[<<c[1] + 1, c[2]>>] >= f[<<c[1], c[2] + 1>>] THEN f[<<c[1] + 1, c[2]>>]
    ELSE f[<<c[1], c[2] + 1>>]

LEMMA TableIs ==
  ASSUME NEW s, NEW t, Len(s) \in Nat, Len(t) \in Nat
  PROVE  /\ Table(s, t) \in [Grid(s, t) -> Nat]
         /\ \A c \in Grid(s, t) : Table(s, t)[c] = Entry(s, t, Table(s, t), c)
<1> DEFINE D == Grid(s, t)
           F == [g \in [D -> Nat] |-> [c \in D |-> Entry(s, t, g, c)]]
           table == CHOOSE f : f = [c \in D |-> Entry(s, t, f, c)]
<1>1. Table(s, t) = table
  BY Zenon DEF Table, Entry, AtEnd
<1>2. ASSUME NEW g \in [D -> Nat], NEW c \in D PROVE Entry(s, t, g, c) \in Nat
  <2>1. CASE AtEnd(s, t, c)
    BY <2>1 DEF Entry
  <2>2. CASE ~AtEnd(s, t, c)
    <3>1. /\ g[<<c[1] + 1, c[2] + 1>>] \in Nat /\ g[<<c[1] + 1, c[2]>>] \in Nat
          /\ g[<<c[1], c[2] + 1>>] \in Nat
      BY <2>2, GridSteps
    <3> QED
      BY <2>2, <3>1 DEF Entry
  <2> QED
    BY <2>1, <2>2
<1>3. ASSUME NEW g \in [D -> Nat], NEW h \in [D -> Nat], NEW c \in D,
             \A d \in D : Below(c, d) => g[d] = h[d]
      PROVE  Entry(s, t, g, c) = Entry(s, t, h, c)
  <2>1. CASE AtEnd(s, t, c)
    BY <2>1 DEF Entry
  <2>2. CASE ~AtEnd(s, t, c)
    <3>1. /\ g[<<c[1] + 1, c[2] + 1>>] = h[<<c[1] + 1, c[2] + 1>>]
          /\ g[<<c[1] + 1, c[2]>>] = h[<<c[1] + 1, c[2]>>]
          /\ g[<<c[1], c[2] + 1>>] = h[<<c[1], c[2] + 1>>]
      BY <1>3, <2>2, GridSteps
    <3> QED
      BY <2>2, <3>1 DEF Entry
  <2> QED
    BY <2>1, <2>2
<1>4. F \in [[D -> Nat] -> [D -> Nat]]
  BY <1>2
<1>5. \A g, h \in [D -> Nat], c \in D :
         (\A d \in D : Below(c, d) => g[d] = h[d]) => F[g][c] = F[h][c]
  BY <1>3
<1>6. IsGrid(D, Len(s), Len(t))
  BY DEF Grid, IsGrid
<1>7. PICK f \in [D -> Nat] : F[f] = f
  <2> HIDE DEF F, D
  <2>1. GridDetermines(F, D, Nat)
    BY <1>4, <1>5 DEF GridDetermines, AgreeBelow, AgreeAt
  <2> QED
    BY <1>6, <2>1, GridRecursion
<1>8. f = [c \in D |-> Entry(s, t, f, c)]
  BY <1>7
<1>9. table = [c \in D |-> Entry(s, t, table, c)]
  <2> HIDE DEF D
  <2> QED
    BY <1>8, Zenon
<1> HIDE DEF table
<1>10. \A c \in D : table[c] = Entry(s, t, table, c)
  <2> HIDE DEF D
  <2> QED
    BY <1>9
<1>11. table = f
  \* both satisfy the equation
  <2> DEFINE T == {c \in D : table[c] = f[c]}
  <2>1. ASSUME NEW c \in D, \A d \in D : Below(c, d) => d \in T PROVE c \in T
    <3>1. CASE AtEnd(s, t, c)
      BY <1>8, <1>10, <3>1 DEF Entry
    <3>2. CASE ~AtEnd(s, t, c)
      <4>1. /\ table[<<c[1] + 1, c[2] + 1>>] = f[<<c[1] + 1, c[2] + 1>>]
            /\ table[<<c[1] + 1, c[2]>>] = f[<<c[1] + 1, c[2]>>]
            /\ table[<<c[1], c[2] + 1>>] = f[<<c[1], c[2] + 1>>]
        BY <2>1, <3>2, GridSteps
      <4>2. Entry(s, t, table, c) = Entry(s, t, f, c)
        BY <3>2, <4>1 DEF Entry
      <4> QED
        BY <1>8, <1>10, <4>2
    <3> QED
      BY <3>1, <3>2
  <2>2. D \subseteq T
    <3> HIDE DEF T, D
    <3> QED
      BY <1>6, <2>1, GridInduction
  <2> QED
    BY <1>8, <1>9, <2>2
<1> QED
  BY <1>1, <1>10, <1>11

\* x is a script that leads from the text o to the text n and keeps k lines.
Leads(x, o, n, k) ==
    /\ x \in Seq(Op) /\ o \in Seq(Lines) /\ n \in Seq(Lines) /\ k \in Nat
    /\ Old(x) = o /\ New(x) = n /\ Len(Same(x)) = k

LEMMA LeadsConcat ==
  ASSUME NEW x, NEW o, NEW n, NEW k, Leads(x, o, n, k),
         NEW y, NEW p, NEW m, NEW l, Leads(y, p, m, l)
  PROVE  Leads(x \o y, o \o p, n \o m, k + l)
<1>1. x \o y \in Seq(Op) /\ o \o p \in Seq(Lines) /\ n \o m \in Seq(Lines) /\ k + l \in Nat
  BY DEF Leads
<1>2. Old(x \o y) = o \o p
  BY LinesOfConcat DEF Leads, Old
<1>3. New(x \o y) = n \o m
  BY LinesOfConcat DEF Leads, New
<1>4. Same(x \o y) = Same(x) \o Same(y)
  BY LinesOfConcat DEF Leads, Same
<1>5. Same(x) \in Seq(Lines) /\ Same(y) \in Seq(Lines)
  BY LinesOfAreLines DEF Leads, Same
<1>6. Len(Same(x \o y)) = k + l
  <2>1. Len(Same(x) \o Same(y)) = Len(Same(x)) + Len(Same(y))
    BY <1>5
  <2> QED
    BY <1>4, <2>1 DEF Leads
<1> QED
  BY <1>1, <1>2, <1>3, <1>6 DEF Leads

LEMMA LeadsMarked ==
  ASSUME NEW l \in Seq(Lines)
  PROVE  /\ Leads(OpsOf("same", l), l, l, Len(l))
         /\ Leads(OpsOf("removed", l), l, <<>>, 0)
         /\ Leads(OpsOf("added", l), <<>>, l, 0)
<1>1. Len(l) \in Nat /\ <<>> \in Seq(Lines) /\ Len(<<>>) = 0
  OBVIOUS
<1>2. Leads(OpsOf("same", l), l, l, Len(l))
  <2> DEFINE x == OpsOf("same", l)
  <2>1. x \in Seq(Op) /\ Old(x) = l /\ New(x) = l /\ Same(x) = l
    BY LinesOfMarked DEF Old, New, Same
  <2> QED
    BY <1>1, <2>1 DEF Leads
<1>3. Leads(OpsOf("removed", l), l, <<>>, 0)
  <2> DEFINE x == OpsOf("removed", l)
  <2>1. x \in Seq(Op) /\ Old(x) = l /\ New(x) = <<>> /\ Same(x) = <<>>
    BY LinesOfMarked DEF Old, New, Same
  <2> QED
    BY <1>1, <2>1 DEF Leads
<1>4. Leads(OpsOf("added", l), <<>>, l, 0)
  <2> DEFINE x == OpsOf("added", l)
  <2>1. x \in Seq(Op) /\ Old(x) = <<>> /\ New(x) = l /\ Same(x) = <<>>
    BY LinesOfMarked DEF Old, New, Same
  <2> QED
    BY <1>1, <2>1 DEF Leads
<1> QED
  BY <1>2, <1>3, <1>4

\* What remains of a text from one of its lines on.
LEMMA FromSplit ==
  ASSUME NEW S, NEW s \in Seq(S)
  PROVE  /\ \A p \in 1 .. Len(s) + 1 : From(s, p) \in Seq(S) /\ Len(From(s, p)) = Len(s) + 1 - p
         /\ \A p \in 1 .. Len(s) : s[p] \in S /\ From(s, p) = <<s[p]>> \o From(s, p + 1)
<1>1. ASSUME NEW p \in 1 .. Len(s) + 1
      PROVE  From(s, p) \in Seq(S) /\ Len(From(s, p)) = Len(s) + 1 - p
  <2>1. p \in Int /\ Len(s) \in Nat /\ \A k \in p .. Len(s) : s[k] \in S
    BY ElementOfSeq
  <2>2. /\ SubSeq(s, p, Len(s)) \in Seq(S)
        /\ Len(SubSeq(s, p, Len(s))) = IF p <= Len(s) THEN Len(s) - p + 1 ELSE 0
    BY <2>1, SubSeqProperties
  <2> QED
    BY <2>1, <2>2 DEF From
<1>2. ASSUME NEW p \in 1 .. Len(s) PROVE s[p] \in S /\ From(s, p) = <<s[p]>> \o From(s, p + 1)
  <2>1. Len(s) \in p .. Len(s)
    OBVIOUS
  <2> QED
    BY <2>1, SubSeqRecursiveFirst, ElementOfSeq DEF From
<1> QED
  BY <1>1, <1>2

\* The walk's script at a place, from its scripts after it.
Walked(s, t, w, c) ==
    LET p == c[1]
        q == c[2]
    IN  IF p > Len(s) \/ q > Len(t)
          THEN OpsOf("removed", From(s, p)) \o OpsOf("added", From(t, q))
        ELSE IF s[p] = t[q]
          THEN OpsOf("same", <<s[p]>>) \o w[<<p + 1, q + 1>>]
        ELSE IF Removes(Table(s, t), p, q)
          THEN OpsOf("removed", <<s[p]>>) \o w[<<p + 1, q>>]
        ELSE OpsOf("added", <<t[q]>>) \o w[<<p, q + 1>>]

\* Beyond the end of one text, the rest of both is dropped and taken.
LEMMA WalkedAtEnd ==
  ASSUME NEW s, NEW t, NEW w, NEW c, AtEnd(s, t, c)
  PROVE  Walked(s, t, w, c) = OpsOf("removed", From(s, c[1])) \o OpsOf("added", From(t, c[2]))
  BY Zenon DEF Walked, AtEnd

LEMMA WalkExists ==
  ASSUME NEW s \in Seq(Lines), NEW t \in Seq(Lines)
  PROVE  \E w : /\ LcsDiff(s, t) = w[<<1, 1>>]
                /\ \A c \in Grid(s, t) : w[c] = Walked(s, t, w, c)
<1> DEFINE D == Grid(s, t)
           F == [g \in [D -> Seq(Op)] |-> [c \in D |-> Walked(s, t, g, c)]]
           walk == CHOOSE w : w = [c \in D |-> Walked(s, t, w, c)]
<1>0. Len(s) \in Nat /\ Len(t) \in Nat
  OBVIOUS
<1>1. LcsDiff(s, t) = walk[<<1, 1>>]
  BY Zenon DEF LcsDiff, Walked
<1>2. ASSUME NEW g \in [D -> Seq(Op)], NEW c \in D PROVE Walked(s, t, g, c) \in Seq(Op)
  <2>1. c[1] \in 1 .. Len(s) + 1 /\ c[2] \in 1 .. Len(t) + 1
    BY <1>0, GridSteps
  <2>2. CASE AtEnd(s, t, c)
    <3>1. From(s, c[1]) \in Seq(Lines) /\ From(t, c[2]) \in Seq(Lines)
      BY <2>1, FromSplit
    <3>2. OpsOf("removed", From(s, c[1])) \in Seq(Op) /\ OpsOf("added", From(t, c[2])) \in Seq(Op)
      BY <3>1, LeadsMarked DEF Leads
    <3>3. OpsOf("removed", From(s, c[1])) \o OpsOf("added", From(t, c[2])) \in Seq(Op)
      BY <3>2
    <3> QED
      BY <2>2, <3>3, WalkedAtEnd
  <2>3. CASE ~AtEnd(s, t, c)
    <3>1. /\ g[<<c[1] + 1, c[2] + 1>>] \in Seq(Op) /\ g[<<c[1] + 1, c[2]>>] \in Seq(Op)
          /\ g[<<c[1], c[2] + 1>>] \in Seq(Op)
      BY <1>0, <2>3, GridSteps
    <3>2. c[1] \in 1 .. Len(s) /\ c[2] \in 1 .. Len(t)
      BY <1>0, <2>3, GridSteps
    <3>3. <<s[c[1]]>> \in Seq(Lines) /\ <<t[c[2]]>> \in Seq(Lines)
      BY <3>2, FromSplit
    <3>4. /\ OpsOf("same", <<s[c[1]]>>) \in Seq(Op) /\ OpsOf("removed", <<s[c[1]]>>) \in Seq(Op)
          /\ OpsOf("added", <<t[c[2]]>>) \in Seq(Op)
      BY <3>3, LeadsMarked DEF Leads
    <3>5. /\ OpsOf("same", <<s[c[1]]>>) \o g[<<c[1] + 1, c[2] + 1>>] \in Seq(Op)
          /\ OpsOf("removed", <<s[c[1]]>>) \o g[<<c[1] + 1, c[2]>>] \in Seq(Op)
          /\ OpsOf("added", <<t[c[2]]>>) \o g[<<c[1], c[2] + 1>>] \in Seq(Op)
      BY <3>1, <3>4
    <3>6. \/ Walked(s, t, g, c) = OpsOf("same", <<s[c[1]]>>) \o g[<<c[1] + 1, c[2] + 1>>]
          \/ Walked(s, t, g, c) = OpsOf("removed", <<s[c[1]]>>) \o g[<<c[1] + 1, c[2]>>]
          \/ Walked(s, t, g, c) = OpsOf("added", <<t[c[2]]>>) \o g[<<c[1], c[2] + 1>>]
      BY <2>3, Zenon DEF Walked, AtEnd
    <3> QED
      BY <3>5, <3>6, Zenon
  <2> QED
    BY <2>2, <2>3
<1>3. ASSUME NEW g \in [D -> Seq(Op)], NEW h \in [D -> Seq(Op)], NEW c \in D,
             \A d \in D : Below(c, d) => g[d] = h[d]
      PROVE  Walked(s, t, g, c) = Walked(s, t, h, c)
  <2>1. CASE AtEnd(s, t, c)
    BY <2>1, Zenon DEF Walked, AtEnd
  <2>2. CASE ~AtEnd(s, t, c)
    <3>1. /\ g[<<c[1] + 1, c[2] + 1>>] = h[<<c[1] + 1, c[2] + 1>>]
          /\ g[<<c[1] + 1, c[2]>>] = h[<<c[1] + 1, c[2]>>]
          /\ g[<<c[1], c[2] + 1>>] = h[<<c[1], c[2] + 1>>]
      BY <1>0, <1>3, <2>2, GridSteps
    <3> QED
      BY <2>2, <3>1, Zenon DEF Walked
  <2> QED
    BY <2>1, <2>2
<1>4. F \in [[D -> Seq(Op)] -> [D -> Seq(Op)]]
  BY <1>2
<1>5. \A g, h \in [D -> Seq(Op)], c \in D :
         (\A d \in D : Below(c, d) => g[d] = h[d]) => F[g][c] = F[h][c]
  BY <1>3
<1>6. IsGrid(D, Len(s), Len(t))
  BY <1>0 DEF Grid, IsGrid
<1>7. PICK f \in [D -> Seq(Op)] : F[f] = f
  <2> HIDE DEF F, D
  <2>1. Seq(Op) # {}
    BY EmptySeq
  <2>2. GridDetermines(F, D, Seq(Op))
    BY <1>4, <1>5, <2>1 DEF GridDetermines, AgreeBelow, AgreeAt
  <2> QED
    BY <1>6, <2>2, GridRecursion
<1>8. f = [c \in D |-> Walked(s, t, f, c)]
  BY <1>7
<1>9. walk = [c \in D |-> Walked(s, t, walk, c)]
  <2> HIDE DEF D
  <2> QED
    BY <1>8, Zenon
<1> HIDE DEF walk
<1>10. \A c \in D : walk[c] = Walked(s, t, walk, c)
  <2> HIDE DEF D
  <2> QED
    BY <1>9
<1> QED
  BY <1>1, <1>10

\* lcsDiff leads from one text to the other and keeps as many lines as its table says.
LEMMA LcsDiffLeads ==
  ASSUME NEW s \in Seq(Lines), NEW t \in Seq(Lines)
  PROVE  Leads(LcsDiff(s, t), s, t, Table(s, t)[<<1, 1>>])
<1> DEFINE D == Grid(s, t)
           tbl == Table(s, t)
<1>0. Len(s) \in Nat /\ Len(t) \in Nat
  OBVIOUS
<1>1. PICK w : /\ LcsDiff(s, t) = w[<<1, 1>>]
               /\ \A c \in D : w[c] = Walked(s, t, w, c)
  BY WalkExists
<1>2. tbl \in [D -> Nat] /\ \A c \in D : tbl[c] = Entry(s, t, tbl, c)
  BY <1>0, TableIs
<1> HIDE DEF tbl, D
<1> DEFINE T == {c \in D : Leads(w[c], From(s, c[1]), From(t, c[2]), tbl[c])}
<1>3. ASSUME NEW c \in D, \A d \in D : Below(c, d) => d \in T
      PROVE  c \in T
  <2> DEFINE p == c[1]
             q == c[2]
  <2>1. p \in 1 .. Len(s) + 1 /\ q \in 1 .. Len(t) + 1
    BY <1>0, GridSteps DEF D
  <2>2. w[c] = Walked(s, t, w, c) /\ tbl[c] = Entry(s, t, tbl, c)
    BY <1>1, <1>2
  <2>3. From(s, p) \in Seq(Lines) /\ From(t, q) \in Seq(Lines)
    BY <2>1, FromSplit
  <2>4. CASE AtEnd(s, t, c)
    <3>1. w[c] = OpsOf("removed", From(s, p)) \o OpsOf("added", From(t, q))
      <4>1. Walked(s, t, w, c) = OpsOf("removed", From(s, p)) \o OpsOf("added", From(t, q))
        BY <2>4, Zenon DEF Walked, AtEnd
      <4> QED
        BY <2>2, <4>1
    <3>2. tbl[c] = 0
      BY <2>2, <2>4 DEF Entry
    <3>3. Leads(w[c], From(s, p) \o <<>>, <<>> \o From(t, q), 0 + 0)
      BY <2>3, <3>1, LeadsMarked, LeadsConcat
    <3>4. From(s, p) \o <<>> = From(s, p) /\ <<>> \o From(t, q) = From(t, q)
      BY <2>3, ConcatEmptySeq
    <3> QED
      BY <3>2, <3>3, <3>4
  <2>5. CASE ~AtEnd(s, t, c)
    <3>1. /\ p \in 1 .. Len(s) /\ q \in 1 .. Len(t)
          /\ <<p + 1, q + 1>> \in D /\ Below(c, <<p + 1, q + 1>>)
          /\ <<p + 1, q>> \in D /\ Below(c, <<p + 1, q>>)
          /\ <<p, q + 1>> \in D /\ Below(c, <<p, q + 1>>)
      BY <1>0, <2>5, GridSteps DEF D
    <3>2. /\ From(s, p) = <<s[p]>> \o From(s, p + 1) /\ From(t, q) = <<t[q]>> \o From(t, q + 1)
          /\ <<s[p]>> \in Seq(Lines) /\ <<t[q]>> \in Seq(Lines)
      <4>1. s[p] \in Lines /\ From(s, p) = <<s[p]>> \o From(s, p + 1)
        BY <3>1, FromSplit
      <4>2. t[q] \in Lines /\ From(t, q) = <<t[q]>> \o From(t, q + 1)
        BY <3>1, FromSplit
      <4> QED
        BY <4>1, <4>2
    <3>3. Len(<<s[p]>>) = 1
      OBVIOUS
    <3>4. CASE s[p] = t[q]
      <4>1. <<p + 1, q + 1>> \in T
        BY <1>3, <3>1
      <4>2. Leads(w[<<p + 1, q + 1>>], From(s, p + 1), From(t, q + 1), tbl[<<p + 1, q + 1>>])
        BY <4>1
      <4>3. Leads(OpsOf("same", <<s[p]>>), <<s[p]>>, <<s[p]>>, 1)
        BY <3>2, <3>3, LeadsMarked
      <4>4. w[c] = OpsOf("same", <<s[p]>>) \o w[<<p + 1, q + 1>>]
        <5>1. Walked(s, t, w, c) = OpsOf("same", <<s[p]>>) \o w[<<p + 1, q + 1>>]
          BY <2>5, <3>4, Zenon DEF Walked, AtEnd
        <5> QED
          BY <2>2, <5>1
      <4>5. tbl[c] = 1 + tbl[<<p + 1, q + 1>>]
        BY <1>2, <2>2, <2>5, <3>1, <3>4 DEF Entry
      <4>6. Leads(w[c], <<s[p]>> \o From(s, p + 1), <<s[p]>> \o From(t, q + 1), tbl[c])
        BY <4>2, <4>3, <4>4, <4>5, LeadsConcat
      <4> QED
        BY <3>2, <3>4, <4>6
    <3>5. CASE s[p] # t[q] /\ Removes(tbl, p, q)
      <4>1. <<p + 1, q>> \in T
        BY <1>3, <3>1
      <4>2. Leads(w[<<p + 1, q>>], From(s, p + 1), From(t, q), tbl[<<p + 1, q>>])
        BY <4>1
      <4>3. Leads(OpsOf("removed", <<s[p]>>), <<s[p]>>, <<>>, 0)
        BY <3>2, LeadsMarked
      <4>4. w[c] = OpsOf("removed", <<s[p]>>) \o w[<<p + 1, q>>]
        <5>1. Walked(s, t, w, c) = OpsOf("removed", <<s[p]>>) \o w[<<p + 1, q>>]
          BY <2>5, <3>5, Zenon DEF Walked, AtEnd, tbl
        <5> QED
          BY <2>2, <5>1
      <4>5. tbl[c] = 0 + tbl[<<p + 1, q>>]
        BY <1>2, <2>2, <2>5, <3>1, <3>5 DEF Entry, Removes
      <4>6. Leads(w[c], <<s[p]>> \o From(s, p + 1), <<>> \o From(t, q), tbl[c])
        BY <4>2, <4>3, <4>4, <4>5, LeadsConcat
      <4>7. <<>> \o From(t, q) = From(t, q)
        BY <2>3, ConcatEmptySeq
      <4> QED
        BY <3>2, <4>6, <4>7
    <3>6. CASE s[p] # t[q] /\ ~Removes(tbl, p, q)
      <4>1. <<p, q + 1>> \in T
        BY <1>3, <3>1
      <4>2. Leads(w[<<p, q + 1>>], From(s, p), From(t, q + 1), tbl[<<p, q + 1>>])
        BY <4>1
      <4>3. Leads(OpsOf("added", <<t[q]>>), <<>>, <<t[q]>>, 0)
        BY <3>2, LeadsMarked
      <4>4. w[c] = OpsOf("added", <<t[q]>>) \o w[<<p, q + 1>>]
        <5>1. Walked(s, t, w, c) = OpsOf("added", <<t[q]>>) \o w[<<p, q + 1>>]
          BY <2>5, <3>6, Zenon DEF Walked, AtEnd, tbl
        <5> QED
          BY <2>2, <5>1
      <4>5. tbl[c] = 0 + tbl[<<p, q + 1>>]
        BY <1>2, <2>2, <2>5, <3>1, <3>6 DEF Entry, Removes
      <4>6. Leads(w[c], <<>> \o From(s, p), <<t[q]>> \o From(t, q + 1), tbl[c])
        BY <4>2, <4>3, <4>4, <4>5, LeadsConcat
      <4>7. <<>> \o From(s, p) = From(s, p)
        BY <2>3, ConcatEmptySeq
      <4> QED
        BY <3>2, <4>6, <4>7
    <3> QED
      BY <3>4, <3>5, <3>6
  <2> QED
    BY <2>4, <2>5
<1>4. D \subseteq T
  <2> HIDE DEF T
  <2>1. IsGrid(D, Len(s), Len(t))
    BY <1>0 DEF Grid, IsGrid, D
  <2> QED
    BY <1>3, <2>1, GridInduction
<1>5. <<1, 1>> \in D
  BY <1>0 DEF D, Grid
<1>6. <<1, 1>> \in T
  BY <1>4, <1>5
<1>7. From(s, 1) = s /\ From(t, 1) = t
  BY SubSeqFull DEF From
<1>8. Leads(w[<<1, 1>>], From(s, 1), From(t, 1), tbl[<<1, 1>>])
  BY <1>6
<1> QED
  BY <1>1, <1>7, <1>8 DEF tbl

\* Increasing positions f and g at which two texts have the same l lines.
Matching(s, t, l, f, g) ==
    /\ l \in Nat /\ f \in [1 .. l -> 1 .. Len(s)] /\ g \in [1 .. l -> 1 .. Len(t)]
    /\ Increasing(f) /\ Increasing(g)
    /\ \A k \in 1 .. l : s[f[k]] = t[g[k]]

\* Matchings from a place on have at most n positions.
Bounds(s, t, c, n) ==
    \A l, f, g : Matching(s, t, l, f, g) /\ (\A k \in 1 .. l : f[k] >= c[1] /\ g[k] >= c[2])
                    => l <= n

\* An increasing function without its first place.
LEMMA IncreasingRest ==
  ASSUME NEW n \in Nat, NEW l \in Nat, l # 0, NEW f \in [1 .. l -> 1 .. n], Increasing(f)
  PROVE  LET r == [k \in 1 .. l - 1 |-> f[k + 1]]
         IN  /\ r \in [1 .. l - 1 -> 1 .. n] /\ Increasing(r)
             /\ \A k \in 1 .. l - 1 : r[k] = f[k + 1] /\ r[k] > f[1]
<1> DEFINE r == [k \in 1 .. l - 1 |-> f[k + 1]]
<1>1. \A k \in 1 .. l - 1 : k + 1 \in 1 .. l
  OBVIOUS
<1>2. r \in [1 .. l - 1 -> 1 .. n]
  BY <1>1
<1>3. ASSUME NEW j \in 1 .. l - 1, NEW k \in 1 .. l - 1, j < k PROVE r[j] < r[k]
  <2>1. j + 1 \in 1 .. l /\ k + 1 \in 1 .. l /\ j + 1 < k + 1
    BY <1>3
  <2>2. f[j + 1] < f[k + 1]
    BY <2>1 DEF Increasing
  <2> QED
    BY <2>2
<1>4. Increasing(r)
  BY <1>3 DEF Increasing
<1>5. ASSUME NEW k \in 1 .. l - 1 PROVE r[k] = f[k + 1] /\ r[k] > f[1]
  <2>1. 1 \in 1 .. l /\ k + 1 \in 1 .. l /\ 1 < k + 1
    OBVIOUS
  <2>2. f[1] < f[k + 1] /\ f[1] \in 1 .. n /\ f[k + 1] \in 1 .. n
    BY <2>1 DEF Increasing
  <2> QED
    BY <2>2
<1> QED
  BY <1>2, <1>4, <1>5

\* The table is not too low: no matching from a place on is longer than it says.
LEMMA TableBounds ==
  ASSUME NEW s, NEW t, Len(s) \in Nat, Len(t) \in Nat
  PROVE  \A c \in Grid(s, t) : Bounds(s, t, c, Table(s, t)[c])
<1> DEFINE D == Grid(s, t)
           tbl == Table(s, t)
           T == {c \in D : Bounds(s, t, c, tbl[c])}
<1>1. tbl \in [D -> Nat] /\ \A c \in D : tbl[c] = Entry(s, t, tbl, c)
  BY TableIs
<1> HIDE DEF tbl, D
<1>2. ASSUME NEW c \in D, \A d \in D : Below(c, d) => d \in T
      PROVE  c \in T
  <2> DEFINE p == c[1]
             q == c[2]
  <2> SUFFICES ASSUME NEW l, NEW f, NEW g, Matching(s, t, l, f, g),
                      \A k \in 1 .. l : f[k] >= p /\ g[k] >= q
               PROVE  l <= tbl[c]
    BY DEF Bounds
  <2>1. p \in 1 .. Len(s) + 1 /\ q \in 1 .. Len(t) + 1
    BY GridSteps DEF D
  <2>2. tbl[c] \in Nat /\ tbl[c] = Entry(s, t, tbl, c)
    BY <1>1
  <2>3. CASE l = 0
    BY <2>2, <2>3
  <2>4. CASE l # 0
    <3>1. l \in Nat /\ 1 \in 1 .. l
      BY <2>4 DEF Matching
    <3>2. f[1] \in 1 .. Len(s) /\ g[1] \in 1 .. Len(t) /\ f[1] >= p /\ g[1] >= q
      BY <3>1 DEF Matching
    <3>3. ~AtEnd(s, t, c)
      BY <2>1, <3>2 DEF AtEnd
    <3>4. /\ <<p + 1, q + 1>> \in D /\ Below(c, <<p + 1, q + 1>>)
          /\ <<p + 1, q>> \in D /\ Below(c, <<p + 1, q>>)
          /\ <<p, q + 1>> \in D /\ Below(c, <<p, q + 1>>)
      BY <3>3, GridSteps DEF D
    <3>5. /\ tbl[<<p + 1, q + 1>>] \in Nat /\ tbl[<<p + 1, q>>] \in Nat
          /\ tbl[<<p, q + 1>>] \in Nat
      BY <1>1, <3>4
    <3>6. CASE s[p] = t[q]
      <4> DEFINE fr == [k \in 1 .. l - 1 |-> f[k + 1]]
                 gr == [k \in 1 .. l - 1 |-> g[k + 1]]
      <4>1. /\ fr \in [1 .. l - 1 -> 1 .. Len(s)] /\ Increasing(fr)
            /\ \A k \in 1 .. l - 1 : fr[k] = f[k + 1] /\ fr[k] > f[1]
        BY <2>4, <3>1, IncreasingRest DEF Matching
      <4>2. /\ gr \in [1 .. l - 1 -> 1 .. Len(t)] /\ Increasing(gr)
            /\ \A k \in 1 .. l - 1 : gr[k] = g[k + 1] /\ gr[k] > g[1]
        BY <2>4, <3>1, IncreasingRest DEF Matching
      <4> HIDE DEF fr, gr
      <4>3. l - 1 \in Nat
        BY <2>4, <3>1
      <4>4. \A k \in 1 .. l - 1 : s[fr[k]] = t[gr[k]]
        <5>1. \A k \in 1 .. l - 1 : k + 1 \in 1 .. l
          BY <3>1
        <5> QED
          BY <4>1, <4>2, <5>1 DEF Matching
      <4>5. Matching(s, t, l - 1, fr, gr)
        BY <4>1, <4>2, <4>3, <4>4 DEF Matching
      <4>6. \A k \in 1 .. l - 1 : fr[k] >= p + 1 /\ gr[k] >= q + 1
        <5> SUFFICES ASSUME NEW k \in 1 .. l - 1 PROVE fr[k] >= p + 1 /\ gr[k] >= q + 1
          OBVIOUS
        <5>1. fr[k] \in 1 .. Len(s) /\ fr[k] > f[1] /\ gr[k] \in 1 .. Len(t) /\ gr[k] > g[1]
          BY <4>1, <4>2
        <5>2. f[1] >= p /\ g[1] >= q /\ f[1] \in Nat /\ g[1] \in Nat /\ p \in Nat /\ q \in Nat
          BY <2>1, <3>2
        <5>3. fr[k] \in Nat /\ gr[k] \in Nat
          BY <5>1
        <5> HIDE DEF p, q
        <5> QED
          BY <5>1, <5>2, <5>3
      <4>7. Bounds(s, t, <<p + 1, q + 1>>, tbl[<<p + 1, q + 1>>])
        BY <1>2, <3>4
      <4>8. l - 1 <= tbl[<<p + 1, q + 1>>]
        BY <4>5, <4>6, <4>7 DEF Bounds
      <4>9. tbl[c] = tbl[<<p + 1, q + 1>>] + 1
        BY <2>2, <3>3, <3>6 DEF Entry
      <4> QED
        BY <3>1, <3>5, <4>8, <4>9
    <3>7. CASE s[p] # t[q]
      <4>1. f[1] # p \/ g[1] # q
        BY <3>1, <3>7 DEF Matching
      <4>2. tbl[c] >= tbl[<<p + 1, q>>] /\ tbl[c] >= tbl[<<p, q + 1>>]
        BY <2>2, <3>3, <3>5, <3>7 DEF Entry
      <4>3. \A k \in 1 .. l : /\ f[k] \in 1 .. Len(s) /\ f[k] >= f[1]
                              /\ g[k] \in 1 .. Len(t) /\ g[k] >= g[1]
        <5> SUFFICES ASSUME NEW k \in 1 .. l
                     PROVE  /\ f[k] \in 1 .. Len(s) /\ f[k] >= f[1]
                            /\ g[k] \in 1 .. Len(t) /\ g[k] >= g[1]
          OBVIOUS
        <5>1. f[k] \in 1 .. Len(s) /\ g[k] \in 1 .. Len(t)
          BY DEF Matching
        <5>2. k = 1 \/ 1 < k
          BY <3>1
        <5>3. 1 < k => f[1] < f[k] /\ g[1] < g[k]
          BY <3>1 DEF Matching, Increasing
        <5> QED
          BY <3>2, <5>1, <5>2, <5>3
      <4>4. CASE f[1] # p
        <5>1. \A k \in 1 .. l : f[k] >= p + 1 /\ g[k] >= q
          BY <2>1, <3>2, <4>3, <4>4
        <5>2. Bounds(s, t, <<p + 1, q>>, tbl[<<p + 1, q>>])
          BY <1>2, <3>4
        <5>3. l <= tbl[<<p + 1, q>>]
          BY <5>1, <5>2 DEF Bounds
        <5> QED
          BY <2>2, <3>1, <3>5, <4>2, <5>3
      <4>5. CASE g[1] # q
        <5>1. \A k \in 1 .. l : f[k] >= p /\ g[k] >= q + 1
          BY <2>1, <3>2, <4>3, <4>5
        <5>2. Bounds(s, t, <<p, q + 1>>, tbl[<<p, q + 1>>])
          BY <1>2, <3>4
        <5>3. l <= tbl[<<p, q + 1>>]
          BY <5>1, <5>2 DEF Bounds
        <5> QED
          BY <2>2, <3>1, <3>5, <4>2, <5>3
      <4> QED
        BY <4>1, <4>4, <4>5
    <3> QED
      BY <3>6, <3>7
  <2> QED
    BY <2>3, <2>4
<1>3. D \subseteq T
  <2> HIDE DEF T
  <2>1. IsGrid(D, Len(s), Len(t))
    BY DEF Grid, IsGrid, D
  <2> QED
    BY <1>2, <2>1, GridInduction
<1> QED
  BY <1>3 DEF D, tbl

(***************************************************************************)
(* What a script keeps is a common subsequence of its two texts.           *)
(***************************************************************************)

\* A set with the empty script and every script one op longer than one of its
\* own has every script.
LEMMA ScriptInduction ==
  ASSUME NEW T, <<>> \in T, \A x \in Seq(Op), o \in Op : x \in T => Append(x, o) \in T
  PROVE  Seq(Op) \subseteq T
<1> SUFFICES ASSUME NEW x \in Seq(Op) PROVE x \in T
  OBVIOUS
<1> DEFINE M == {n \in Nat : n <= Len(x) => SubSeq(x, 1, n) \in T}
<1>0. Len(x) \in Nat
  OBVIOUS
<1>1. 0 \in M
  <2>1. SubSeq(x, 1, 0) = <<>>
    BY SubSeqEmpty
  <2> QED
    BY <2>1
<1>2. ASSUME NEW n \in Nat, n \in M PROVE n + 1 \in M
  <2> SUFFICES ASSUME n + 1 <= Len(x) PROVE SubSeq(x, 1, n + 1) \in T
    OBVIOUS
  <2>1. /\ SubSeq(x, 1, n) \in Seq(Op) /\ x[n + 1] \in Op
        /\ SubSeq(x, 1, n + 1) = Append(SubSeq(x, 1, n), x[n + 1])
    BY FrontAndLast
  <2>2. SubSeq(x, 1, n) \in T
    BY <1>0, <1>2
  <2> QED
    BY <2>1, <2>2
<1>3. Len(x) \in M
  <2> HIDE DEF M
  <2> QED
    BY <1>0, <1>1, <1>2, SetInduction
<1>4. SubSeq(x, 1, Len(x)) = x /\ Len(x) <= Len(x)
  BY <1>0, SubSeqFull
<1> QED
  BY <1>3, <1>4

\* Increasing positions leave room for one another.
LEMMA IncreasingBounds ==
  ASSUME NEW n \in Nat, NEW l \in Nat, NEW f \in [1 .. l -> 1 .. n], Increasing(f)
  PROVE  /\ \A k \in 1 .. l : k <= f[k] /\ f[k] <= n - (l - k)
         /\ l <= n
<1> DEFINE T == {d \in Nat : \A k \in 1 .. l : (k > d \/ f[k] >= k) /\ (l - k > d \/ f[k] <= n - (l - k))}
<1>0. \A k \in 1 .. l : k \in Nat /\ f[k] \in Nat /\ 1 <= f[k] /\ f[k] <= n
  OBVIOUS
<1>1. 0 \in T
  BY <1>0
<1>2. ASSUME NEW d \in Nat, d \in T PROVE d + 1 \in T
  <2> SUFFICES ASSUME NEW k \in 1 .. l
               PROVE  /\ k > d + 1 \/ f[k] >= k
                      /\ l - k > d + 1 \/ f[k] <= n - (l - k)
    OBVIOUS
  <2>1. ASSUME k = d + 1, k # 1 PROVE f[k] >= k
    <3>1. k - 1 \in 1 .. l /\ k - 1 < k /\ ~(k - 1 > d)
      BY <2>1
    <3>2. f[k - 1] < f[k] /\ f[k - 1] >= k - 1
      BY <1>2, <3>1 DEF Increasing
    <3> QED
      BY <1>0, <3>1, <3>2
  <2>2. ASSUME l - k = d + 1 PROVE f[k] <= n - (l - k)
    <3>1. k + 1 \in 1 .. l /\ k < k + 1 /\ ~(l - (k + 1) > d)
      BY <2>2
    <3>2. f[k] < f[k + 1] /\ f[k + 1] <= n - (l - (k + 1))
      BY <1>2, <3>1 DEF Increasing
    <3> QED
      BY <1>0, <3>1, <3>2
  <2>3. (k > d \/ f[k] >= k) /\ (l - k > d \/ f[k] <= n - (l - k))
    BY <1>2
  <2>4. k > d + 1 \/ f[k] >= k
    BY <1>0, <2>1, <2>3
  <2>5. l - k > d + 1 \/ f[k] <= n - (l - k)
    BY <1>0, <2>2, <2>3
  <2> QED
    BY <2>4, <2>5
<1>3. l \in T
  <2> HIDE DEF T
  <2> QED
    BY <1>1, <1>2, SetInduction
<1>4. \A k \in 1 .. l : k <= f[k] /\ f[k] <= n - (l - k)
  BY <1>0, <1>3
<1>5. l <= n
  <2>1. CASE l = 0
    BY <2>1
  <2>2. CASE l # 0
    <3>1. l \in 1 .. l
      BY <2>2
    <3> QED
      BY <1>0, <1>4, <3>1
  <2> QED
    BY <2>1, <2>2
<1> QED
  BY <1>4, <1>5

\* The places of the lines a script keeps, in either of its texts.
Kept(x, f, g) ==
    /\ Matching(Old(x), New(x), Len(Same(x)), f, g)
    /\ \A k \in 1 .. Len(Same(x)) : Same(x)[k] = Old(x)[f[k]]

LEMMA KeptExists ==
  ASSUME NEW x \in Seq(Op)
  PROVE  \E f, g : Kept(x, f, g)
<1> DEFINE T == {y \in Seq(Op) : \E f, g : Kept(y, f, g)}
<1>1. <<>> \in T
  <2>1. Old(<<>>) = <<>> /\ New(<<>>) = <<>> /\ Same(<<>>) = <<>>
    BY LinesOfEmpty DEF Old, New, Same
  <2>2. Kept(<<>>, <<>>, <<>>)
    BY <2>1 DEF Kept, Matching, Increasing
  <2> QED
    BY <2>2, EmptySeq
<1>2. ASSUME NEW y \in Seq(Op), NEW o \in Op, y \in T PROVE Append(y, o) \in T
  <2> DEFINE z == Append(y, o)
             l == Len(Same(y))
             n == Len(Old(y))
             m == Len(New(y))
  <2>1. PICK f, g : Kept(y, f, g)
    BY <1>2
  <2>2. /\ Old(y) \in Seq(Lines) /\ New(y) \in Seq(Lines) /\ Same(y) \in Seq(Lines)
        /\ o.text \in Lines /\ o.kind \in {"same", "removed", "added"}
    BY LinesOfAreLines DEF Old, New, Same, Op
  <2>3. /\ l \in Nat /\ n \in Nat /\ m \in Nat
        /\ f \in [1 .. l -> 1 .. n] /\ g \in [1 .. l -> 1 .. m]
        /\ \A j, k \in 1 .. l : j < k => f[j] < f[k] /\ g[j] < g[k]
        /\ \A k \in 1 .. l : Same(y)[k] = Old(y)[f[k]] /\ Old(y)[f[k]] = New(y)[g[k]]
    BY <2>1, <2>2 DEF Kept, Matching, Increasing
  <2>4. /\ \A k \in 1 .. n : Append(Old(y), o.text)[k] = Old(y)[k]
        /\ Append(Old(y), o.text)[n + 1] = o.text /\ Len(Append(Old(y), o.text)) = n + 1
    BY <2>2
  <2>5. /\ \A k \in 1 .. m : Append(New(y), o.text)[k] = New(y)[k]
        /\ Append(New(y), o.text)[m + 1] = o.text /\ Len(Append(New(y), o.text)) = m + 1
    BY <2>2
  <2>6. /\ \A k \in 1 .. l : Append(Same(y), o.text)[k] = Same(y)[k]
        /\ Append(Same(y), o.text)[l + 1] = o.text /\ Len(Append(Same(y), o.text)) = l + 1
    BY <2>2
  <2>7. /\ Old(z) = IF o.kind \in {"same", "removed"} THEN Append(Old(y), o.text) ELSE Old(y)
        /\ New(z) = IF o.kind \in {"same", "added"} THEN Append(New(y), o.text) ELSE New(y)
        /\ Same(z) = IF o.kind \in {"same"} THEN Append(Same(y), o.text) ELSE Same(y)
    BY LinesOfAppend DEF Old, New, Same
  <2> HIDE DEF z, l, n, m
  <2>8. CASE o.kind = "same"
    <3> DEFINE fz == [k \in 1 .. l + 1 |-> IF k = l + 1 THEN n + 1 ELSE f[k]]
               gz == [k \in 1 .. l + 1 |-> IF k = l + 1 THEN m + 1 ELSE g[k]]
    <3>1. /\ Old(z) = Append(Old(y), o.text) /\ New(z) = Append(New(y), o.text)
          /\ Same(z) = Append(Same(y), o.text)
      BY <2>7, <2>8
    <3>2. \A k \in 1 .. l + 1 : k = l + 1 \/ k \in 1 .. l
      BY <2>3
    <3>3. /\ fz[l + 1] = n + 1 /\ gz[l + 1] = m + 1
          /\ \A k \in 1 .. l : fz[k] = f[k] /\ gz[k] = g[k]
      BY <2>3
    <3>4. fz \in [1 .. l + 1 -> 1 .. n + 1] /\ gz \in [1 .. l + 1 -> 1 .. m + 1]
      BY <2>3, <3>2
    <3> HIDE DEF fz, gz
    <3>5. \A j, k \in 1 .. l + 1 : j < k => fz[j] < fz[k] /\ gz[j] < gz[k]
      <4> SUFFICES ASSUME NEW j \in 1 .. l + 1, NEW k \in 1 .. l + 1, j < k
                   PROVE  fz[j] < fz[k] /\ gz[j] < gz[k]
        OBVIOUS
      <4>1. j \in 1 .. l
        BY <2>3
      <4>2. fz[j] = f[j] /\ gz[j] = g[j] /\ f[j] \in 1 .. n /\ g[j] \in 1 .. m
        BY <2>3, <3>3, <4>1
      <4>3. CASE k = l + 1
        BY <2>3, <3>3, <4>2, <4>3
      <4>4. CASE k \in 1 .. l
        BY <2>3, <3>3, <4>1, <4>2, <4>4
      <4> QED
        BY <3>2, <4>3, <4>4
    <3>6. \A k \in 1 .. l + 1 : Same(z)[k] = Old(z)[fz[k]] /\ Old(z)[fz[k]] = New(z)[gz[k]]
      <4> SUFFICES ASSUME NEW k \in 1 .. l + 1
                   PROVE  Same(z)[k] = Old(z)[fz[k]] /\ Old(z)[fz[k]] = New(z)[gz[k]]
        OBVIOUS
      <4>1. CASE k = l + 1
        BY <2>4, <2>5, <2>6, <3>1, <3>3, <4>1
      <4>2. CASE k \in 1 .. l
        <5>1. fz[k] = f[k] /\ gz[k] = g[k]
          BY <3>3, <4>2
        <5>2. /\ f[k] \in 1 .. n /\ g[k] \in 1 .. m
              /\ Same(y)[k] = Old(y)[f[k]] /\ Old(y)[f[k]] = New(y)[g[k]]
          BY <2>3, <4>2
        <5>3. Same(z)[k] = Same(y)[k]
          BY <2>6, <3>1, <4>2
        <5>4. Old(z)[f[k]] = Old(y)[f[k]]
          BY <2>4, <3>1, <5>2
        <5>5. New(z)[g[k]] = New(y)[g[k]]
          BY <2>5, <3>1, <5>2
        <5> QED
          BY <5>1, <5>2, <5>3, <5>4, <5>5
      <4> QED
        BY <3>2, <4>1, <4>2
    <3>7. Len(Same(z)) = l + 1 /\ Len(Old(z)) = n + 1 /\ Len(New(z)) = m + 1 /\ l + 1 \in Nat
      BY <2>3, <2>4, <2>5, <2>6, <3>1
    <3>8. Increasing(fz) /\ Increasing(gz)
      BY <3>4, <3>5 DEF Increasing
    <3>9. Kept(z, fz, gz)
      BY <3>4, <3>6, <3>7, <3>8 DEF Kept, Matching
    <3> QED
      BY <3>9 DEF z
  <2>9. CASE o.kind = "removed"
    <3>1. Old(z) = Append(Old(y), o.text) /\ New(z) = New(y) /\ Same(z) = Same(y)
      BY <2>7, <2>9
    <3>2. Len(Old(z)) = n + 1 /\ Len(New(z)) = m /\ Len(Same(z)) = l
      BY <2>4, <3>1 DEF l, m
    <3>3. f \in [1 .. l -> 1 .. n + 1]
      BY <2>3
    <3>4. \A k \in 1 .. l : Same(z)[k] = Old(z)[f[k]] /\ Old(z)[f[k]] = New(z)[g[k]]
      BY <2>3, <2>4, <3>1
    <3>5. Increasing(f) /\ Increasing(g)
      BY <2>1 DEF Kept, Matching
    <3>6. Kept(z, f, g)
      BY <2>3, <3>2, <3>3, <3>4, <3>5 DEF Kept, Matching
    <3> QED
      BY <3>6 DEF z
  <2>10. CASE o.kind = "added"
    <3>1. Old(z) = Old(y) /\ New(z) = Append(New(y), o.text) /\ Same(z) = Same(y)
      BY <2>7, <2>10
    <3>2. Len(Old(z)) = n /\ Len(New(z)) = m + 1 /\ Len(Same(z)) = l
      BY <2>5, <3>1 DEF l, n
    <3>3. g \in [1 .. l -> 1 .. m + 1]
      BY <2>3
    <3>4. \A k \in 1 .. l : Same(z)[k] = Old(z)[f[k]] /\ Old(z)[f[k]] = New(z)[g[k]]
      BY <2>3, <2>5, <3>1
    <3>5. Increasing(f) /\ Increasing(g)
      BY <2>1 DEF Kept, Matching
    <3>6. Kept(z, f, g)
      BY <2>3, <3>2, <3>3, <3>4, <3>5 DEF Kept, Matching
    <3> QED
      BY <3>6 DEF z
  <2> QED
    BY <2>2, <2>8, <2>9, <2>10
<1>3. Seq(Op) \subseteq T
  <2> HIDE DEF T
  <2> QED
    BY <1>1, <1>2, ScriptInduction
<1> QED
  BY <1>3

\* The subsequences of a text within the bound, by their positions.
LEMMA SubsequencesAre ==
  ASSUME NEW s \in Seq(Lines), Len(s) <= MaxLines
  PROVE  /\ \A l \in Nat : \A f \in [1 .. l -> 1 .. Len(s)] :
               Increasing(f) => [k \in 1 .. l |-> s[f[k]]] \in Subsequences(s)
         /\ \A c \in Subsequences(s) : \E l \in Nat : \E f \in [1 .. l -> 1 .. Len(s)] :
               Increasing(f) /\ c = [k \in 1 .. l |-> s[f[k]]]
<1> DEFINE n == Len(s)
           Of(l) == {f \in [1 .. l -> 1 .. n] : Increasing(f)}
<1>1. n \in Nat /\ n \in 0 .. MaxLines
  BY DiffAssumption
<1>2. Positions[n] = UNION {Of(l) : l \in 0 .. n}
  BY <1>1 DEF Positions
<1> HIDE DEF n
<1>3. ASSUME NEW l \in Nat, NEW f \in [1 .. l -> 1 .. n], Increasing(f)
      PROVE  [k \in 1 .. l |-> s[f[k]]] \in Subsequences(s)
  <2>1. l \in 0 .. n
    <3>1. n \in Nat
      BY <1>1
    <3>2. l <= n
      BY <1>3, <3>1, IncreasingBounds
    <3> QED
      BY <3>1, <3>2
  <2>2. f \in Of(l)
    BY <1>3
  <2>3. f \in Positions[n]
    BY <1>2, <2>1, <2>2
  <2>4. DOMAIN f = 1 .. l
    OBVIOUS
  <2>5. [k \in DOMAIN f |-> s[f[k]]] \in Subsequences(s)
    BY <2>3 DEF Subsequences, n
  <2> QED
    BY <2>4, <2>5
<1>4. ASSUME NEW c \in Subsequences(s)
      PROVE  \E l \in Nat : \E f \in [1 .. l -> 1 .. n] :
               Increasing(f) /\ c = [k \in 1 .. l |-> s[f[k]]]
  <2>1. PICK f \in Positions[n] : c = [k \in DOMAIN f |-> s[f[k]]]
    BY <1>4 DEF Subsequences, n
  <2>2. PICK l \in 0 .. n : f \in Of(l)
    BY <1>2, <2>1
  <2>3. l \in Nat /\ f \in [1 .. l -> 1 .. n] /\ Increasing(f) /\ DOMAIN f = 1 .. l
    BY <1>1, <2>2
  <2> QED
    BY <2>1, <2>3
<1> QED
  BY <1>3, <1>4 DEF n

\* A script that no matching of its texts outdoes keeps a longest common
\* subsequence.
LEMMA LongestIsLcs ==
  ASSUME NEW x \in Seq(Op), Len(Old(x)) <= MaxLines, Len(New(x)) <= MaxLines,
         \A l, f, g : Matching(Old(x), New(x), l, f, g) => l <= Len(Same(x))
  PROVE  Len(Same(x)) = LcsLength(Old(x), New(x))
<1> DEFINE s == Old(x)
           t == New(x)
           m == Len(Same(x))
           lens == {Len(c) : c \in Subsequences(s) \cap Subsequences(t)}
<1>1. s \in Seq(Lines) /\ t \in Seq(Lines) /\ Same(x) \in Seq(Lines) /\ m \in Nat
  BY LinesOfAreLines DEF Old, New, Same
<1> HIDE DEF s, t
<1>2. Same(x) \in Subsequences(s) \cap Subsequences(t)
  <2>1. PICK f, g : Kept(x, f, g)
    BY KeptExists
  <2>2. /\ f \in [1 .. m -> 1 .. Len(s)] /\ g \in [1 .. m -> 1 .. Len(t)]
        /\ Increasing(f) /\ Increasing(g)
        /\ \A k \in 1 .. m : Same(x)[k] = s[f[k]] /\ s[f[k]] = t[g[k]]
    BY <2>1 DEF Kept, Matching, s, t
  <2>3. Same(x) = [k \in 1 .. m |-> Same(x)[k]]
    BY <1>1
  <2>4. Same(x) = [k \in 1 .. m |-> s[f[k]]] /\ Same(x) = [k \in 1 .. m |-> t[g[k]]]
    BY <2>2, <2>3
  <2>5. [k \in 1 .. m |-> s[f[k]]] \in Subsequences(s)
    BY <1>1, <2>2, SubsequencesAre DEF s
  <2>6. [k \in 1 .. m |-> t[g[k]]] \in Subsequences(t)
    BY <1>1, <2>2, SubsequencesAre DEF t
  <2> QED
    BY <2>4, <2>5, <2>6, Zenon
<1>3. ASSUME NEW c \in Subsequences(s) \cap Subsequences(t)
      PROVE  Len(c) \in Nat /\ Len(c) <= m
  <2>1. PICK l \in Nat : \E f \in [1 .. l -> 1 .. Len(s)] :
           Increasing(f) /\ c = [k \in 1 .. l |-> s[f[k]]]
    BY <1>1, SubsequencesAre DEF s
  <2>2. PICK f \in [1 .. l -> 1 .. Len(s)] :
           Increasing(f) /\ c = [k \in 1 .. l |-> s[f[k]]]
    BY <2>1
  <2>3. PICK j \in Nat : \E g \in [1 .. j -> 1 .. Len(t)] :
           Increasing(g) /\ c = [k \in 1 .. j |-> t[g[k]]]
    BY <1>1, SubsequencesAre DEF t
  <2>4. PICK g \in [1 .. j -> 1 .. Len(t)] :
           Increasing(g) /\ c = [k \in 1 .. j |-> t[g[k]]]
    BY <2>3
  <2>5. Len(c) = l /\ \A k \in 1 .. l : c[k] = s[f[k]]
    <3>1. s \in [1 .. Len(s) -> Lines]
      BY <1>1
    <3>2. \A k \in 1 .. l : s[f[k]] \in Lines
      BY <3>1
    <3>3. c \in [1 .. l -> Lines]
      BY <2>2, <3>2
    <3>4. c \in Seq(Lines) /\ DOMAIN c = 1 .. l
      BY <3>3
    <3> QED
      BY <2>2, <3>3, <3>4
  <2>6. Len(c) = j /\ \A k \in 1 .. j : c[k] = t[g[k]]
    <3>1. t \in [1 .. Len(t) -> Lines]
      BY <1>1
    <3>2. \A k \in 1 .. j : t[g[k]] \in Lines
      BY <3>1
    <3>3. c \in [1 .. j -> Lines]
      BY <2>4, <3>2
    <3>4. c \in Seq(Lines) /\ DOMAIN c = 1 .. j
      BY <3>3
    <3> QED
      BY <2>4, <3>3, <3>4
  <2>7. Matching(s, t, l, f, g)
    BY <2>2, <2>4, <2>5, <2>6 DEF Matching
  <2> QED
    BY <2>5, <2>7 DEF s, t
<1>4. m \in lens /\ \A x1 \in lens : x1 \in Nat /\ x1 <= m
  BY <1>2, <1>3
<1> HIDE DEF lens, m
<1>5. Max(lens) = m
  <2>1. lens \subseteq 0 .. m /\ lens # {}
    BY <1>1, <1>4
  <2>2. Max(lens) \in lens /\ \A y \in lens : y <= Max(lens)
    BY <1>1, <2>1, LeastAndGreatest
  <2>3. Max(lens) \in 0 .. m /\ m <= Max(lens)
    BY <1>4, <2>1, <2>2
  <2> QED
    BY <1>1, <2>3
<1> QED
  BY <1>5 DEF lens, m, LcsLength, s, t

(***************************************************************************)
(* The common ends.                                                        *)
(***************************************************************************)

\* The rest of a rest.
LEMMA FromFrom ==
  ASSUME NEW S, NEW s \in Seq(S), NEW m \in 1 .. Len(s) + 1, NEW k \in 1 .. Len(s) + 2 - m
  PROVE  From(From(s, m), k) = From(s, m + k - 1)
<1> DEFINE r == From(s, m)
           x == From(r, k)
           y == From(s, m + k - 1)
<1>1. Len(s) \in Nat /\ m + k - 1 \in 1 .. Len(s) + 1 /\ m \in Nat /\ k \in Nat
  OBVIOUS
<1>2. r \in Seq(S) /\ Len(r) = Len(s) + 1 - m
  BY FromSplit
<1>3. x \in Seq(S) /\ Len(x) = Len(r) + 1 - k
  <2>1. k \in 1 .. Len(r) + 1
    BY <1>1, <1>2
  <2> QED
    BY <1>2, <2>1, FromSplit
<1>4. y \in Seq(S) /\ Len(y) = Len(s) + 1 - (m + k - 1)
  BY <1>1, FromSplit
<1>5. \A j \in 1 .. Len(r) : r[j] = s[m + j - 1]
  <2>1. \A j \in m .. Len(s) : s[j] \in S
    BY ElementOfSeq
  <2>2. \A j \in 1 .. Len(s) - m + 1 : SubSeq(s, m, Len(s))[j] = s[m + j - 1]
    BY <1>1, <2>1, SubSeqProperties
  <2>3. Len(r) = Len(s) - m + 1
    BY <1>1, <1>2
  <2> QED
    BY <2>2, <2>3 DEF From
<1>6. \A j \in 1 .. Len(x) : x[j] = r[k + j - 1]
  <2>0. Len(r) \in Nat
    BY <1>2
  <2>1. \A j \in k .. Len(r) : r[j] \in S
    BY <1>1, <1>2, <2>0, ElementOfSeq
  <2>2. \A j \in 1 .. Len(r) - k + 1 : SubSeq(r, k, Len(r))[j] = r[k + j - 1]
    <3>1. k \in Int /\ Len(r) \in Int
      BY <1>1, <2>0
    <3> QED
      BY <2>1, <3>1, SubSeqProperties
  <2>3. Len(x) = Len(r) - k + 1
    BY <1>1, <1>3, <2>0
  <2> QED
    BY <2>2, <2>3 DEF From
<1>7. \A j \in 1 .. Len(y) : y[j] = s[m + k - 1 + j - 1]
  <2>1. \A j \in m + k - 1 .. Len(s) : s[j] \in S
    BY <1>1, ElementOfSeq
  <2>2. \A j \in 1 .. Len(s) - (m + k - 1) + 1 :
           SubSeq(s, m + k - 1, Len(s))[j] = s[m + k - 1 + j - 1]
    <3>1. m + k - 1 \in Int /\ Len(s) \in Int
      BY <1>1
    <3> QED
      BY <2>1, <3>1, SubSeqProperties
  <2>3. Len(y) = Len(s) - (m + k - 1) + 1
    BY <1>1, <1>4
  <2> QED
    BY <2>2, <2>3 DEF From
<1> HIDE DEF r, x, y
<1>8. Len(x) = Len(y)
  BY <1>1, <1>2, <1>3, <1>4
<1>9. ASSUME NEW j \in 1 .. Len(x) PROVE x[j] = y[j]
  <2>1. j \in Nat /\ j \in 1 .. Len(y) /\ k + j - 1 \in 1 .. Len(r)
    BY <1>1, <1>2, <1>3, <1>8
  <2>2. x[j] = s[m + (k + j - 1) - 1]
    BY <1>5, <1>6, <2>1
  <2>3. m + (k + j - 1) - 1 = m + k - 1 + j - 1
    BY <1>1, <2>1
  <2> QED
    BY <1>7, <2>1, <2>2, <2>3
<1> QED
  BY <1>3, <1>4, <1>8, <1>9, SeqEqual DEF r, x, y

\* Two texts begin with the same head lines and end, after those, with the same
\* tail lines.
Trimmed(s, t, head, tail) ==
    /\ head \in Nat /\ tail \in Nat
    /\ head + tail <= Len(s) /\ head + tail <= Len(t)
    /\ SubSeq(s, 1, head) = SubSeq(t, 1, head)
    /\ From(s, Len(s) - tail + 1) = From(t, Len(t) - tail + 1)

LEMMA CommonHeadIs ==
  ASSUME NEW s, NEW t, Len(s) \in Nat, Len(t) \in Nat
  PROVE  /\ CommonHead(s, t) \in Nat
         /\ CommonHead(s, t) <= Len(s) /\ CommonHead(s, t) <= Len(t)
         /\ SubSeq(s, 1, CommonHead(s, t)) = SubSeq(t, 1, CommonHead(s, t))
<1> DEFINE least == Min({Len(s), Len(t)})
           ns == {n \in 0 .. least : SubSeq(s, 1, n) = SubSeq(t, 1, n)}
<1>1. least \in Nat /\ least <= Len(s) /\ least <= Len(t)
  BY LesserOfTwo
<1> HIDE DEF least
<1>2. ns \subseteq 0 .. least /\ ns # {}
  <2>1. SubSeq(s, 1, 0) = <<>> /\ SubSeq(t, 1, 0) = <<>>
    BY SubSeqEmpty
  <2>2. 0 \in ns
    BY <1>1, <2>1
  <2> QED
    BY <2>2
<1>3. Max(ns) \in ns
  <2> HIDE DEF ns
  <2> QED
    BY <1>1, <1>2, LeastAndGreatest
<1>4. CommonHead(s, t) = Max(ns)
  BY DEF CommonHead, least
<1>5. CommonHead(s, t) \in ns
  BY <1>3, <1>4, Zenon
<1> QED
  BY <1>1, <1>5

LEMMA CommonTailIs ==
  ASSUME NEW s, NEW t, Len(s) \in Nat, Len(t) \in Nat
  PROVE  /\ CommonTail(s, t) \in Nat
         /\ CommonTail(s, t) <= Len(s) /\ CommonTail(s, t) <= Len(t)
         /\ From(s, Len(s) - CommonTail(s, t) + 1) = From(t, Len(t) - CommonTail(s, t) + 1)
<1> DEFINE least == Min({Len(s), Len(t)})
           ns == {n \in 0 .. least : From(s, Len(s) - n + 1) = From(t, Len(t) - n + 1)}
<1>1. least \in Nat /\ least <= Len(s) /\ least <= Len(t)
  BY LesserOfTwo
<1> HIDE DEF least
<1>2. ns \subseteq 0 .. least /\ ns # {}
  <2>1. From(s, Len(s) - 0 + 1) = <<>> /\ From(t, Len(t) - 0 + 1) = <<>>
    BY SubSeqEmpty DEF From
  <2>2. 0 \in ns
    BY <1>1, <2>1
  <2> QED
    BY <2>2
<1>3. Max(ns) \in ns
  <2> HIDE DEF ns
  <2> QED
    BY <1>1, <1>2, LeastAndGreatest
<1>4. CommonTail(s, t) = Max(ns)
  BY DEF CommonTail, least
<1>5. CommonTail(s, t) \in ns
  BY <1>3, <1>4, Zenon
<1> QED
  BY <1>1, <1>5

LEMMA EndsAreCommon ==
  ASSUME NEW s \in Seq(Lines), NEW t \in Seq(Lines)
  PROVE  LET head == CommonHead(s, t)
         IN  Trimmed(s, t, head, CommonTail(From(s, head + 1), From(t, head + 1)))
<1> DEFINE h == CommonHead(s, t)
           sr == From(s, h + 1)
           tr == From(t, h + 1)
           e == CommonTail(sr, tr)
<1>0. Len(s) \in Nat /\ Len(t) \in Nat
  OBVIOUS
<1>1. /\ h \in Nat /\ h <= Len(s) /\ h <= Len(t)
      /\ SubSeq(s, 1, h) = SubSeq(t, 1, h)
  BY <1>0, CommonHeadIs
<1> HIDE DEF h
<1>2. Len(sr) = Len(s) - h /\ Len(tr) = Len(t) - h /\ Len(sr) \in Nat /\ Len(tr) \in Nat
  <2>1. h + 1 \in 1 .. Len(s) + 1 /\ h + 1 \in 1 .. Len(t) + 1
    BY <1>0, <1>1
  <2>2. Len(sr) = Len(s) + 1 - (h + 1)
    BY <2>1, FromSplit
  <2>3. Len(tr) = Len(t) + 1 - (h + 1)
    BY <2>1, FromSplit
  <2> QED
    BY <1>0, <1>1, <2>2, <2>3
<1>3. /\ e \in Nat /\ e <= Len(sr) /\ e <= Len(tr)
      /\ From(sr, Len(sr) - e + 1) = From(tr, Len(tr) - e + 1)
  <2> HIDE DEF sr, tr
  <2> QED
    BY <1>2, CommonTailIs
<1> HIDE DEF e
<1>4. From(sr, Len(sr) - e + 1) = From(s, Len(s) - e + 1)
  <2>1. h + 1 \in 1 .. Len(s) + 1 /\ Len(sr) - e + 1 \in 1 .. Len(s) + 2 - (h + 1)
    BY <1>0, <1>1, <1>2, <1>3
  <2>2. (h + 1) + (Len(sr) - e + 1) - 1 = Len(s) - e + 1
    BY <1>0, <1>1, <1>2, <1>3
  <2>3. From(sr, Len(sr) - e + 1) = From(s, (h + 1) + (Len(sr) - e + 1) - 1)
    BY <2>1, FromFrom
  <2> QED
    BY <2>2, <2>3, Zenon
<1>5. From(tr, Len(tr) - e + 1) = From(t, Len(t) - e + 1)
  <2>1. h + 1 \in 1 .. Len(t) + 1 /\ Len(tr) - e + 1 \in 1 .. Len(t) + 2 - (h + 1)
    BY <1>0, <1>1, <1>2, <1>3
  <2>2. (h + 1) + (Len(tr) - e + 1) - 1 = Len(t) - e + 1
    BY <1>0, <1>1, <1>2, <1>3
  <2>3. From(tr, Len(tr) - e + 1) = From(t, (h + 1) + (Len(tr) - e + 1) - 1)
    BY <2>1, FromFrom
  <2> QED
    BY <2>2, <2>3, Zenon
<1>6. h + e <= Len(s) /\ h + e <= Len(t)
  BY <1>0, <1>1, <1>2, <1>3
<1>7. Trimmed(s, t, h, e)
  BY <1>1, <1>3, <1>4, <1>5, <1>6 DEF Trimmed
<1> QED
  BY <1>7 DEF h, e

\* A text between its two ends.
Middle(s, head, tail) == SubSeq(s, head + 1, Len(s) - tail)

\* A text's two ends and its middle are texts and together the text.
InThree(s, h, e) ==
    /\ SubSeq(s, 1, h) \in Seq(Lines) /\ Len(SubSeq(s, 1, h)) = h
    /\ Middle(s, h, e) \in Seq(Lines) /\ Len(Middle(s, h, e)) = Len(s) - h - e
    /\ \A k \in 1 .. Len(s) - h - e : Middle(s, h, e)[k] = s[h + k]
    /\ From(s, Len(s) - e + 1) \in Seq(Lines) /\ Len(From(s, Len(s) - e + 1)) = e
    /\ (SubSeq(s, 1, h) \o Middle(s, h, e)) \o From(s, Len(s) - e + 1) = s

LEMMA TextInThree ==
  ASSUME NEW s \in Seq(Lines), NEW h \in Nat, NEW e \in Nat, h + e <= Len(s)
  PROVE  InThree(s, h, e)
<1>0. Len(s) \in Nat
  OBVIOUS
<1>1. SubSeq(s, 1, h) \in Seq(Lines) /\ Len(SubSeq(s, 1, h)) = h
  <2>1. \A k \in 1 .. h : s[k] \in Lines
    BY <1>0, ElementOfSeq
  <2>2. /\ SubSeq(s, 1, h) \in Seq(Lines)
        /\ Len(SubSeq(s, 1, h)) = IF 1 <= h THEN h - 1 + 1 ELSE 0
    BY <2>1, SubSeqProperties
  <2> QED
    BY <2>2
<1>2. /\ Middle(s, h, e) \in Seq(Lines) /\ Len(Middle(s, h, e)) = Len(s) - h - e
      /\ \A k \in 1 .. Len(s) - h - e : Middle(s, h, e)[k] = s[h + k]
  <2> DEFINE m == h + 1
             n == Len(s) - e
  <2>1. m \in Int /\ n \in Int /\ m >= 1 /\ n <= Len(s)
    BY <1>0
  <2>2. \A k \in m .. n : s[k] \in Lines
    BY <1>0, <2>1, ElementOfSeq
  <2> HIDE DEF m, n
  <2>3. /\ SubSeq(s, m, n) \in Seq(Lines)
        /\ Len(SubSeq(s, m, n)) = IF m <= n THEN n - m + 1 ELSE 0
        /\ \A k \in 1 .. n - m + 1 : SubSeq(s, m, n)[k] = s[m + k - 1]
    BY <2>1, <2>2, SubSeqProperties
  <2>4. n - m + 1 = Len(s) - h - e /\ \A k \in Int : m + k - 1 = h + k
    BY <1>0 DEF m, n
  <2>5. (IF m <= n THEN n - m + 1 ELSE 0) = Len(s) - h - e
    BY <1>0 DEF m, n
  <2>6. \A k \in 1 .. Len(s) - h - e : SubSeq(s, m, n)[k] = s[h + k]
    <3> SUFFICES ASSUME NEW k \in 1 .. Len(s) - h - e PROVE SubSeq(s, m, n)[k] = s[h + k]
      OBVIOUS
    <3>1. k \in 1 .. n - m + 1 /\ m + k - 1 = h + k
      BY <2>4
    <3>2. SubSeq(s, m, n)[k] = s[m + k - 1]
      BY <2>3, <3>1
    <3> QED
      BY <3>1, <3>2
  <2>7. Middle(s, h, e) = SubSeq(s, m, n)
    BY DEF Middle, m, n
  <2> QED
    BY <2>3, <2>5, <2>6, <2>7
<1>3. From(s, Len(s) - e + 1) \in Seq(Lines) /\ Len(From(s, Len(s) - e + 1)) = e
  <2>1. Len(s) - e + 1 \in 1 .. Len(s) + 1 /\ Len(s) + 1 - (Len(s) - e + 1) = e
    BY <1>0
  <2>2. /\ From(s, Len(s) - e + 1) \in Seq(Lines)
        /\ Len(From(s, Len(s) - e + 1)) = Len(s) + 1 - (Len(s) - e + 1)
    BY <2>1, FromSplit
  <2> QED
    BY <2>1, <2>2
<1>4. (SubSeq(s, 1, h) \o Middle(s, h, e)) \o From(s, Len(s) - e + 1) = s
  <2> DEFINE n == Len(s) - e
  <2>1. /\ 1 \in 1 .. Len(s) + 1 /\ h \in 1 - 1 .. Len(s) /\ n \in h .. Len(s)
        /\ n \in 1 - 1 .. Len(s) /\ Len(s) \in n .. Len(s)
    BY <1>0
  <2> HIDE DEF n
  <2>2. SubSeq(s, 1, h) \o SubSeq(s, h + 1, n) = SubSeq(s, 1, n)
    BY <2>1, ConcatAdjacentSubSeq
  <2>3. SubSeq(s, 1, n) \o SubSeq(s, n + 1, Len(s)) = SubSeq(s, 1, Len(s))
    BY <2>1, ConcatAdjacentSubSeq
  <2>4. SubSeq(s, 1, Len(s)) = s
    BY SubSeqFull
  <2> QED
    BY <2>2, <2>3, <2>4 DEF Middle, From, n
<1> QED
  BY <1>1, <1>2, <1>3, <1>4 DEF InThree

\* diffLines leads from one text to the other and, within the limit, keeps the
\* common ends and what the table says of the middle.
LEMMA DiffLinesLeads ==
  ASSUME NEW s \in Seq(Lines), NEW t \in Seq(Lines)
  PROVE  \E h, e, k :
           /\ Trimmed(s, t, h, e)
           /\ Leads(DiffLines(s, t), s, t, h + k + e)
           /\ Len(s) * Len(t) <= MaxDiffCells =>
                k = Table(Middle(s, h, e), Middle(t, h, e))[<<1, 1>>]
<1> DEFINE h == CommonHead(s, t)
           e == CommonTail(From(s, h + 1), From(t, h + 1))
           ms == Middle(s, h, e)
           mt == Middle(t, h, e)
           large == Len(ms) * Len(mt) > MaxDiffCells
           mid == IF large THEN OpsOf("removed", ms) \o OpsOf("added", mt) ELSE LcsDiff(ms, mt)
           sh == SubSeq(s, 1, h)
           st == From(s, Len(s) - e + 1)
           k == IF large THEN 0 ELSE Table(ms, mt)[<<1, 1>>]
<1>1. Trimmed(s, t, h, e)
  BY EndsAreCommon
<1>2. DiffLines(s, t) = (OpsOf("same", sh) \o mid) \o OpsOf("same", st)
  BY Zenon DEF DiffLines, Middle
<1> HIDE DEF h, e
<1>3. /\ h \in Nat /\ e \in Nat /\ h + e <= Len(s) /\ h + e <= Len(t)
      /\ sh = SubSeq(t, 1, h) /\ st = From(t, Len(t) - e + 1)
      /\ Len(s) \in Nat /\ Len(t) \in Nat
  BY <1>1 DEF Trimmed
<1>4. /\ sh \in Seq(Lines) /\ Len(sh) = h
      /\ ms \in Seq(Lines) /\ Len(ms) = Len(s) - h - e
      /\ st \in Seq(Lines) /\ Len(st) = e
      /\ (sh \o ms) \o st = s
  <2>1. h \in Nat /\ e \in Nat /\ h + e <= Len(s)
    BY <1>3
  <2>2. InThree(s, h, e)
    BY <2>1, TextInThree
  <2> QED
    BY <2>2 DEF InThree
<1>5. /\ mt \in Seq(Lines) /\ Len(mt) = Len(t) - h - e
      /\ (sh \o mt) \o st = t
  <2>1. h \in Nat /\ e \in Nat /\ h + e <= Len(t)
    BY <1>3
  <2>2. InThree(t, h, e)
    BY <2>1, TextInThree
  <2>3. sh = SubSeq(t, 1, h) /\ st = From(t, Len(t) - e + 1)
    BY <1>3
  <2> HIDE DEF sh, st
  <2> QED
    BY <2>2, <2>3 DEF InThree
<1> HIDE DEF sh, st
<1> HIDE DEF ms, mt
<1>6. Leads(mid, ms, mt, k)
  <2>1. CASE large
    <3>1. Leads(OpsOf("removed", ms), ms, <<>>, 0) /\ Leads(OpsOf("added", mt), <<>>, mt, 0)
      BY <1>4, <1>5, LeadsMarked
    <3>2. Leads(OpsOf("removed", ms) \o OpsOf("added", mt), ms \o <<>>, <<>> \o mt, 0 + 0)
      BY <3>1, LeadsConcat
    <3>3. ms \o <<>> = ms /\ <<>> \o mt = mt
      BY <1>4, <1>5, ConcatEmptySeq
    <3> HIDE DEF large
    <3> QED
      BY <2>1, <3>2, <3>3
  <2>2. CASE ~large
    <3>1. Leads(LcsDiff(ms, mt), ms, mt, Table(ms, mt)[<<1, 1>>])
      BY <1>4, <1>5, LcsDiffLeads
    <3> HIDE DEF large
    <3> QED
      BY <2>2, <3>1
  <2> QED
    BY <2>1, <2>2
<1>7. Len(s) * Len(t) <= MaxDiffCells => ~large
  <2> DEFINE x == Len(ms)
             y == Len(mt)
             m == Len(s)
             n == Len(t)
  <2>1. x \in Nat /\ y \in Nat /\ m \in Nat /\ n \in Nat /\ x <= m /\ y <= n
    BY <1>3, <1>4, <1>5
  <2> HIDE DEF x, y, m, n
  <2>2. x * y <= m * y
    BY <2>1
  <2>3. m * y <= m * n
    BY <2>1
  <2>4. x * y \in Nat /\ m * y \in Nat /\ m * n \in Nat
    BY <2>1
  <2>5. m * n <= MaxDiffCells => ~(x * y > MaxDiffCells)
    BY <2>2, <2>3, <2>4, DiffAssumption
  <2> QED
    BY <2>5 DEF x, y, m, n
<1> HIDE DEF large, mid
<1>8. Len(s) * Len(t) <= MaxDiffCells => k = Table(ms, mt)[<<1, 1>>]
  BY <1>7
<1> HIDE DEF k
<1>9. Leads(OpsOf("same", sh), sh, sh, h) /\ Leads(OpsOf("same", st), st, st, e)
  BY <1>4, LeadsMarked
<1>10. Leads(OpsOf("same", sh) \o mid, sh \o ms, sh \o mt, h + k)
  BY <1>6, <1>9, LeadsConcat
<1>11. Leads(DiffLines(s, t), (sh \o ms) \o st, (sh \o mt) \o st, (h + k) + e)
  BY <1>2, <1>9, <1>10, LeadsConcat
<1>12. Leads(DiffLines(s, t), s, t, h + k + e)
  BY <1>4, <1>5, <1>11
<1> QED
  BY <1>1, <1>8, <1>12 DEF ms, mt

\* Trimming costs nothing: a matching of two texts is at most as long as their
\* common ends and the longest matching of their middles together.
LEMMA MatchingWithin ==
  ASSUME NEW s \in Seq(Lines), NEW t \in Seq(Lines), NEW h \in Nat, NEW e \in Nat,
         Trimmed(s, t, h, e), NEW l \in Nat, NEW f, NEW g, Matching(s, t, l, f, g)
  PROVE  l <= h + Table(Middle(s, h, e), Middle(t, h, e))[<<1, 1>>] + e
<1> DEFINE ms == Middle(s, h, e)
           mt == Middle(t, h, e)
           n == Table(ms, mt)[<<1, 1>>]
           r == l - h - e
           fm == [k \in 1 .. r |-> f[h + k] - h]
           gm == [k \in 1 .. r |-> g[h + k] - h]
<1>1. /\ h \in Nat /\ e \in Nat /\ h + e <= Len(s) /\ h + e <= Len(t)
      /\ Len(s) \in Nat /\ Len(t) \in Nat
  BY DEF Trimmed
<1>2. /\ ms \in Seq(Lines) /\ Len(ms) = Len(s) - h - e /\ Len(ms) \in Nat
      /\ \A k \in 1 .. Len(s) - h - e : ms[k] = s[h + k]
  <2>1. h + e <= Len(s)
    BY <1>1
  <2>2. /\ Middle(s, h, e) \in Seq(Lines) /\ Len(Middle(s, h, e)) = Len(s) - h - e
        /\ \A k \in 1 .. Len(s) - h - e : Middle(s, h, e)[k] = s[h + k]
    <3>1. InThree(s, h, e)
      BY <2>1, TextInThree
    <3> QED
      BY <3>1 DEF InThree
  <2>3. Len(s) - h - e \in Nat
    BY <1>1
  <2> HIDE DEF ms
  <2> QED
    BY <2>2, <2>3 DEF ms
<1>3. /\ mt \in Seq(Lines) /\ Len(mt) = Len(t) - h - e /\ Len(mt) \in Nat
      /\ \A k \in 1 .. Len(t) - h - e : mt[k] = t[h + k]
  <2>1. h + e <= Len(t)
    BY <1>1
  <2>2. /\ Middle(t, h, e) \in Seq(Lines) /\ Len(Middle(t, h, e)) = Len(t) - h - e
        /\ \A k \in 1 .. Len(t) - h - e : Middle(t, h, e)[k] = t[h + k]
    <3>1. InThree(t, h, e)
      BY <2>1, TextInThree
    <3> QED
      BY <3>1 DEF InThree
  <2>3. Len(t) - h - e \in Nat
    BY <1>1
  <2> HIDE DEF mt
  <2> QED
    BY <2>2, <2>3 DEF mt
<1> HIDE DEF ms, mt
<1>4. n \in Nat /\ Bounds(ms, mt, <<1, 1>>, n)
  <2>1. <<1, 1>> \in Grid(ms, mt)
    BY <1>2, <1>3 DEF Grid
  <2> QED
    BY <1>2, <1>3, <2>1, TableIs, TableBounds
<1> SUFFICES l <= h + n + e
  BY DEF ms, mt
<1> HIDE DEF n
<1>5. /\ l \in Nat /\ f \in [1 .. l -> 1 .. Len(s)] /\ g \in [1 .. l -> 1 .. Len(t)]
      /\ \A k \in 1 .. l : s[f[k]] = t[g[k]]
      /\ \A j, k \in 1 .. l : j < k => f[j] < f[k] /\ g[j] < g[k]
  BY DEF Matching, Increasing
<1>6. \A k \in 1 .. l : k <= f[k] /\ f[k] <= Len(s) - (l - k)
  BY <1>1, <1>5, IncreasingBounds DEF Matching
<1>7. \A k \in 1 .. l : k <= g[k] /\ g[k] <= Len(t) - (l - k)
  BY <1>1, <1>5, IncreasingBounds DEF Matching
<1>8. CASE r < 0
  BY <1>1, <1>4, <1>5, <1>8
<1>9. CASE r >= 0
  <2>1. r \in Nat
    BY <1>1, <1>5, <1>9
  <2>2. \A k \in 1 .. r : h + k \in 1 .. l
    BY <1>1, <1>5
  <2>3. \A k \in 1 .. r : f[h + k] - h \in 1 .. Len(ms)
    <3> SUFFICES ASSUME NEW k \in 1 .. r PROVE f[h + k] - h \in 1 .. Len(ms)
      OBVIOUS
    <3> DEFINE x == f[h + k]
               n0 == Len(s)
    <3>1. h + k <= x /\ x <= n0 - (l - (h + k)) /\ x \in 1 .. n0
      BY <1>5, <1>6, <2>2
    <3>2. k \in Nat /\ 1 <= k /\ k <= l - h - e /\ l \in Nat /\ n0 \in Nat /\ x \in Nat
      BY <1>1, <1>5, <2>1, <3>1
    <3>3. Len(ms) = n0 - h - e
      BY <1>2
    <3> HIDE DEF x, n0, ms
    <3>4. x - h \in 1 .. n0 - h - e
      BY <3>1, <3>2
    <3> QED
      BY <3>3, <3>4 DEF x
  <2>4. \A k \in 1 .. r : g[h + k] - h \in 1 .. Len(mt)
    <3> SUFFICES ASSUME NEW k \in 1 .. r PROVE g[h + k] - h \in 1 .. Len(mt)
      OBVIOUS
    <3> DEFINE x == g[h + k]
               n0 == Len(t)
    <3>1. h + k <= x /\ x <= n0 - (l - (h + k)) /\ x \in 1 .. n0
      BY <1>5, <1>7, <2>2
    <3>2. k \in Nat /\ 1 <= k /\ k <= l - h - e /\ l \in Nat /\ n0 \in Nat /\ x \in Nat
      BY <1>1, <1>5, <2>1, <3>1
    <3>3. Len(mt) = n0 - h - e
      BY <1>3
    <3> HIDE DEF x, n0, mt
    <3>4. x - h \in 1 .. n0 - h - e
      BY <3>1, <3>2
    <3> QED
      BY <3>3, <3>4 DEF x
  <2>5. \A k \in 1 .. r : fm[k] = f[h + k] - h /\ gm[k] = g[h + k] - h
    OBVIOUS
  <2>6. fm \in [1 .. r -> 1 .. Len(ms)] /\ gm \in [1 .. r -> 1 .. Len(mt)]
    BY <2>3, <2>4
  <2> HIDE DEF fm, gm
  <2>7. Increasing(fm) /\ Increasing(gm)
    <3>1. ASSUME NEW j \in 1 .. r, NEW k \in 1 .. r, j < k PROVE fm[j] < fm[k] /\ gm[j] < gm[k]
      <4>1. h + j \in 1 .. l /\ h + k \in 1 .. l /\ h + j < h + k
        BY <1>1, <2>2, <3>1
      <4>2. f[h + j] < f[h + k] /\ g[h + j] < g[h + k]
        BY <1>5, <4>1
      <4>3. f[h + j] \in Nat /\ f[h + k] \in Nat /\ g[h + j] \in Nat /\ g[h + k] \in Nat
        BY <1>5, <4>1
      <4> QED
        <5>1. f[h + j] - h < f[h + k] - h /\ g[h + j] - h < g[h + k] - h
          <6>1. \A x, y \in Nat : x < y => x - h < y - h
            OBVIOUS
          <6> QED
            BY <4>2, <4>3, <6>1, Zenon
        <5> QED
          BY <2>5, <5>1
    <3> QED
      BY <2>6, <3>1 DEF Increasing
  <2>8. \A k \in 1 .. r : ms[fm[k]] = mt[gm[k]]
    <3> SUFFICES ASSUME NEW k \in 1 .. r PROVE ms[fm[k]] = mt[gm[k]]
      OBVIOUS
    <3>1. h + k \in 1 .. l /\ f[h + k] \in Nat /\ g[h + k] \in Nat
      BY <1>5, <2>2
    <3>2. h + fm[k] = f[h + k] /\ h + gm[k] = g[h + k]
      <4>1. fm[k] = f[h + k] - h /\ gm[k] = g[h + k] - h
        BY <2>5
      <4>2. \A x \in Nat : h + (x - h) = x
        OBVIOUS
      <4> QED
        BY <3>1, <4>1, <4>2
    <3>3. ms[fm[k]] = s[h + fm[k]] /\ mt[gm[k]] = t[h + gm[k]]
      BY <1>2, <1>3, <2>6
    <3>4. s[f[h + k]] = t[g[h + k]]
      BY <1>5, <3>1
    <3> QED
      BY <3>2, <3>3, <3>4
  <2>9. Matching(ms, mt, r, fm, gm)
    BY <2>1, <2>6, <2>7, <2>8 DEF Matching
  <2>10. \A k \in 1 .. r : fm[k] >= <<1, 1>>[1] /\ gm[k] >= <<1, 1>>[2]
    BY <2>6
  <2>11. r <= n
    BY <1>4, <2>9, <2>10 DEF Bounds
  <2> QED
    BY <1>1, <1>4, <1>5, <2>11
<1>10. r \in Int
  OBVIOUS
<1> QED
  BY <1>8, <1>9, <1>10

\* diffLines keeps as many lines as two texts have in common in the same order.
LEMMA DiffLinesKeepsLcs ==
  ASSUME NEW s \in Seq(Lines), NEW t \in Seq(Lines), Len(s) <= MaxLines, Len(t) <= MaxLines,
         Len(s) * Len(t) <= MaxDiffCells
  PROVE  Len(Same(DiffLines(s, t))) = LcsLength(s, t)
<1>1. PICK h, e, k :
           /\ Trimmed(s, t, h, e)
           /\ Leads(DiffLines(s, t), s, t, h + k + e)
           /\ k = Table(Middle(s, h, e), Middle(t, h, e))[<<1, 1>>]
  BY DiffLinesLeads
<1> DEFINE x == DiffLines(s, t)
<1>2. x \in Seq(Op) /\ Old(x) = s /\ New(x) = t /\ Len(Same(x)) = h + k + e
  BY <1>1 DEF Leads
<1> HIDE DEF x
<1>3. \A l, f, g : Matching(s, t, l, f, g) => l <= Len(Same(x))
  <2> SUFFICES ASSUME NEW l, NEW f, NEW g, Matching(s, t, l, f, g) PROVE l <= Len(Same(x))
    OBVIOUS
  <2>1. h \in Nat /\ e \in Nat /\ l \in Nat
    BY <1>1 DEF Trimmed, Matching
  <2>2. l <= h + k + e
    BY <1>1, <2>1, MatchingWithin
  <2> QED
    BY <1>2, <2>2
<1>4. Len(Same(x)) = LcsLength(Old(x), New(x))
  BY <1>2, <1>3, LongestIsLcs
<1> QED
  BY <1>2, <1>4 DEF x

(***************************************************************************)
(* The texts, the script and the counters of the loop.                     *)
(***************************************************************************)

LEMMA TextsAre ==
  ASSUME NEW s \in Texts
  PROVE  s \in Seq(Lines) /\ Len(s) <= MaxLines
<1>1. PICK n \in 0 .. MaxLines : s \in [1 .. n -> Lines]
  BY DEF Texts, BoundedSeq, SeqOf
<1>2. s \in Seq(Lines) /\ Len(s) = n
  BY <1>1, DiffAssumption
<1> QED
  BY <1>1, <1>2, DiffAssumption

\* What lies between two texts in the middle of a third.
LEMMA MiddlePart ==
  ASSUME NEW S, NEW u \in Seq(S), NEW v \in Seq(S), NEW w \in Seq(S)
  PROVE  /\ SubSeq((u \o v) \o w, 1, Len(u)) = u
         /\ SubSeq((u \o v) \o w, Len(u) + 1, Len(u) + Len(v)) = v
         /\ Len(u) + Len(v) <= Len((u \o v) \o w)
<1> DEFINE r == (u \o v) \o w
           m == Len(u)
           n == Len(v)
<1>1. /\ r \in Seq(S) /\ m \in Nat /\ n \in Nat /\ Len(w) \in Nat
      /\ Len(r) = m + n + Len(w)
      /\ \A k \in 1 .. m : r[k] = u[k]
      /\ \A k \in 1 .. n : r[m + k] = v[k]
  <2>1. u \o v \in Seq(S) /\ Len(u \o v) = m + n
    OBVIOUS
  <2>2. r \in Seq(S) /\ Len(r) = m + n + Len(w) /\ \A k \in 1 .. m + n : r[k] = (u \o v)[k]
    BY <2>1
  <2>3. \A k \in 1 .. m : (u \o v)[k] = u[k]
    OBVIOUS
  <2>4. \A k \in 1 .. n : (u \o v)[m + k] = v[k]
    OBVIOUS
  <2>5. m \in Nat /\ n \in Nat /\ Len(w) \in Nat
    OBVIOUS
  <2> HIDE DEF r
  <2>6. \A k \in 1 .. m : r[k] = u[k]
    BY <2>2, <2>3, <2>5
  <2>7. \A k \in 1 .. n : r[m + k] = v[k]
    <3> HIDE DEF m, n
    <3> SUFFICES ASSUME NEW k \in 1 .. n PROVE r[m + k] = v[k]
      OBVIOUS
    <3>1. m + k \in 1 .. m + n
      BY <2>5
    <3> QED
      BY <2>2, <2>4, <3>1
  <2> QED
    BY <2>2, <2>5, <2>6, <2>7
<1> HIDE DEF r, m, n
<1>2. \A k \in 1 .. Len(r) : r[k] \in S
  BY <1>1, ElementOfSeq
<1>3. SubSeq(r, 1, m) = u
  <2>1. \A k \in 1 .. m : r[k] \in S
    BY <1>1, <1>2
  <2>2. /\ SubSeq(r, 1, m) \in Seq(S)
        /\ Len(SubSeq(r, 1, m)) = IF 1 <= m THEN m - 1 + 1 ELSE 0
        /\ \A k \in 1 .. m - 1 + 1 : SubSeq(r, 1, m)[k] = r[1 + k - 1]
    BY <1>1, <2>1, SubSeqProperties
  <2>3. Len(SubSeq(r, 1, m)) = m
    BY <1>1, <2>2
  <2>4. \A k \in 1 .. m : SubSeq(r, 1, m)[k] = u[k]
    BY <1>1, <2>2
  <2> QED
    BY <2>2, <2>3, <2>4, SeqEqual DEF m
<1>4. SubSeq(r, m + 1, m + n) = v
  <2> DEFINE p == m + 1
             q == m + n
  <2>1. /\ p \in Int /\ q \in Int /\ p >= 1 /\ q <= Len(r) /\ Len(r) \in Nat
        /\ q - p + 1 = n /\ (IF p <= q THEN q - p + 1 ELSE 0) = n
        /\ \A k \in Int : p + k - 1 = m + k
    BY <1>1
  <2> HIDE DEF p, q
  <2>2. \A k \in p .. q : r[k] \in S
    <3>1. \A k \in p .. q : k \in 1 .. Len(r)
      BY <2>1
    <3> QED
      BY <1>2, <3>1
  <2>3. /\ SubSeq(r, p, q) \in Seq(S)
        /\ Len(SubSeq(r, p, q)) = IF p <= q THEN q - p + 1 ELSE 0
        /\ \A k \in 1 .. q - p + 1 : SubSeq(r, p, q)[k] = r[p + k - 1]
    <3>1. p \in Int /\ q \in Int
      BY <2>1
    <3> QED
      BY <2>2, <3>1, SubSeqProperties
  <2>4. Len(SubSeq(r, p, q)) = n
    BY <2>1, <2>3
  <2>5. \A k \in 1 .. n : SubSeq(r, p, q)[k] = v[k]
    <3> SUFFICES ASSUME NEW k \in 1 .. n PROVE SubSeq(r, p, q)[k] = v[k]
      OBVIOUS
    <3>1. k \in 1 .. q - p + 1 /\ p + k - 1 = m + k
      BY <1>1, <2>1
    <3>2. SubSeq(r, p, q)[k] = r[p + k - 1]
      BY <2>3, <3>1
    <3>3. r[m + k] = v[k]
      BY <1>1
    <3> QED
      BY <3>1, <3>2, <3>3
  <2>6. SubSeq(r, p, q) = v
    BY <2>3, <2>4, <2>5, SeqEqual DEF n
  <2> QED
    BY <2>6 DEF p, q
<1> QED
  BY <1>1, <1>3, <1>4 DEF r, m, n

\* Some ops of a script stand for the lines after those the ops before them
\* stand for.
Advances(x, m, n, kinds) ==
    LET lines == LinesOf(x, kinds)
        before == LinesOf(SubSeq(x, 1, m), kinds)
        body == LinesOf(SubSeq(x, m + 1, n), kinds)
    IN  /\ SubSeq(x, m + 1, n) \in Seq(Op)
        /\ lines \in Seq(Lines) /\ before \in Seq(Lines) /\ body \in Seq(Lines)
        /\ LinesOf(SubSeq(x, 1, n), kinds) = before \o body
        /\ SubSeq(lines, 1, Len(before)) = before
        /\ SubSeq(lines, Len(before) + 1, Len(before) + Len(body)) = body
        /\ Len(before) + Len(body) <= Len(lines)

LEMMA Consumed ==
  ASSUME NEW x \in Seq(Op), NEW m \in 0 .. Len(x), NEW n \in m .. Len(x), NEW kinds
  PROVE  Advances(x, m, n, kinds)
<1> DEFINE lines == LinesOf(x, kinds)
           done == SubSeq(x, 1, m)
           some == SubSeq(x, m + 1, n)
           rest == SubSeq(x, n + 1, Len(x))
           before == LinesOf(done, kinds)
           body == LinesOf(some, kinds)
           after == LinesOf(rest, kinds)
<1>0. Len(x) \in Nat /\ m \in Nat /\ n \in Nat /\ m <= n /\ n <= Len(x)
  OBVIOUS
<1>1. done \in Seq(Op) /\ some \in Seq(Op) /\ rest \in Seq(Op)
  <2>1. \A k \in 1 .. Len(x) : x[k] \in Op
    BY ElementOfSeq
  <2>2. /\ \A k \in 1 .. m : x[k] \in Op
        /\ \A k \in m + 1 .. n : x[k] \in Op
        /\ \A k \in n + 1 .. Len(x) : x[k] \in Op
    BY <1>0, <2>1
  <2>3. 1 \in Int /\ m \in Int /\ m + 1 \in Int /\ n \in Int /\ n + 1 \in Int /\ Len(x) \in Int
    BY <1>0
  <2>4. done \in Seq(Op)
    BY <2>2, <2>3, SubSeqProperties
  <2>5. some \in Seq(Op)
    BY <2>2, <2>3, SubSeqProperties
  <2>6. rest \in Seq(Op)
    BY <2>2, <2>3, SubSeqProperties
  <2> QED
    BY <2>4, <2>5, <2>6
<1>2. SubSeq(x, 1, n) = done \o some /\ x = (done \o some) \o rest
  <2>1. /\ 1 \in 1 .. Len(x) + 1 /\ m \in 1 - 1 .. Len(x) /\ n \in m .. Len(x)
        /\ n \in 1 - 1 .. Len(x) /\ Len(x) \in n .. Len(x)
    BY <1>0
  <2>2. SubSeq(x, 1, m) \o SubSeq(x, m + 1, n) = SubSeq(x, 1, n)
    BY <2>1, ConcatAdjacentSubSeq
  <2>3. SubSeq(x, 1, n) \o SubSeq(x, n + 1, Len(x)) = SubSeq(x, 1, Len(x))
    BY <2>1, ConcatAdjacentSubSeq
  <2>4. SubSeq(x, 1, Len(x)) = x
    BY SubSeqFull
  <2> QED
    BY <2>2, <2>3, <2>4
<1> HIDE DEF done, some, rest
<1>3. before \in Seq(Lines) /\ body \in Seq(Lines) /\ after \in Seq(Lines)
  BY <1>1, LinesOfAreLines
<1>4. LinesOf(done \o some, kinds) = before \o body
  <2>1. LinesSplit(done, some, kinds)
    BY <1>1, LinesOfSplit
  <2> QED
    BY <2>1 DEF LinesSplit
<1>5. lines = (before \o body) \o after
  <2>1. done \o some \in Seq(Op)
    BY <1>1
  <2>2. LinesOf((done \o some) \o rest, kinds) = LinesOf(done \o some, kinds) \o after
    <3>1. LinesSplit(done \o some, rest, kinds)
      BY <1>1, <2>1, LinesOfSplit
    <3> QED
      BY <3>1 DEF LinesSplit
  <2> QED
    BY <1>2, <1>4, <2>2
<1>6. lines \in Seq(Lines)
  BY LinesOfAreLines
<1> HIDE DEF before, body, after, lines
<1>7. /\ SubSeq(lines, 1, Len(before)) = before
      /\ SubSeq(lines, Len(before) + 1, Len(before) + Len(body)) = body
      /\ Len(before) + Len(body) <= Len(lines)
  <2>1. /\ SubSeq((before \o body) \o after, 1, Len(before)) = before
        /\ SubSeq((before \o body) \o after, Len(before) + 1, Len(before) + Len(body)) = body
        /\ Len(before) + Len(body) <= Len((before \o body) \o after)
    BY <1>3, MiddlePart
  <2> QED
    BY <1>5, <2>1
<1> QED
  BY <1>1, <1>2, <1>3, <1>4, <1>6, <1>7 DEF Advances, before, body, lines, done, some

\* Equal texts have a script without a change.
LEMMA EqualTexts ==
  ASSUME NEW s \in Seq(Lines)
  PROVE  \A k \in 1 .. Len(DiffLines(s, s)) : DiffLines(s, s)[k].kind = "same"
<1> DEFINE h == CommonHead(s, s)
           e == CommonTail(From(s, h + 1), From(s, h + 1))
           mid == Middle(s, h, e)
           last == From(s, Len(s) - e + 1)
<1>0. Len(s) \in Nat
  OBVIOUS
<1>1. h = Len(s)
  <2> DEFINE least == Min({Len(s), Len(s)})
             ns == {n \in 0 .. least : SubSeq(s, 1, n) = SubSeq(s, 1, n)}
  <2>1. least = Len(s)
    BY <1>0, LesserOfTwo
  <2>2. h = Max(ns)
    BY DEF CommonHead
  <2> HIDE DEF least, h
  <2>3. ns = 0 .. Len(s)
    BY <2>1
  <2> HIDE DEF ns
  <2>4. Len(s) \in 0 .. Len(s)
    BY <1>0
  <2>5. Max(ns) \in 0 .. Len(s) /\ Len(s) <= Max(ns)
    BY <1>0, <2>3, <2>4, LeastAndGreatest
  <2> QED
    BY <1>0, <2>2, <2>5
<1>2. DiffLines(s, s) =
        (OpsOf("same", SubSeq(s, 1, h))
           \o (IF Len(mid) * Len(mid) > MaxDiffCells
                 THEN OpsOf("removed", mid) \o OpsOf("added", mid)
                 ELSE LcsDiff(mid, mid)))
        \o OpsOf("same", last)
  BY Zenon DEF DiffLines, Middle
<1> HIDE DEF h
<1>3. From(s, h + 1) = <<>>
  BY <1>0, <1>1, SubSeqEmpty DEF From
<1>4. e = 0
  <2>1. Len(<<>>) = 0
    OBVIOUS
  <2>2. CommonTail(<<>>, <<>>) \in Nat /\ CommonTail(<<>>, <<>>) <= Len(<<>>)
    BY <2>1, CommonTailIs
  <2>3. CommonTail(<<>>, <<>>) = 0
    BY <2>1, <2>2
  <2> QED
    BY <1>3, <2>3, Zenon
<1> HIDE DEF e
<1>5. mid = <<>>
  BY <1>0, <1>1, <1>4, SubSeqEmpty DEF Middle
<1>6. last = <<>>
  BY <1>0, <1>4, SubSeqEmpty DEF From
<1>7. SubSeq(s, 1, h) = s
  BY <1>1, SubSeqFull
<1> HIDE DEF mid, last
<1>8. \A kind : OpsOf(kind, <<>>) = <<>>
  BY DEF OpsOf
<1>9. LcsDiff(<<>>, <<>>) = <<>>
  <2>0. <<>> \in Seq(Lines) /\ Len(<<>>) = 0
    OBVIOUS
  <2>1. PICK w : /\ LcsDiff(<<>>, <<>>) = w[<<1, 1>>]
                 /\ \A c \in Grid(<<>>, <<>>) : w[c] = Walked(<<>>, <<>>, w, c)
    BY <2>0, WalkExists
  <2>2. <<1, 1>> \in Grid(<<>>, <<>>)
    BY <2>0 DEF Grid
  <2>4. <<1, 1>>[1] = 1 /\ <<1, 1>>[2] = 1
    OBVIOUS
  <2>5. w[<<1, 1>>] = OpsOf("removed", From(<<>>, 1)) \o OpsOf("added", From(<<>>, 1))
    <3>1. 1 > Len(<<>>)
      BY <2>0
    <3>2. Walked(<<>>, <<>>, w, <<1, 1>>) =
            OpsOf("removed", From(<<>>, 1)) \o OpsOf("added", From(<<>>, 1))
      BY <2>4, <3>1, Zenon DEF Walked
    <3> QED
      BY <2>1, <2>2, <3>2
  <2>6. From(<<>>, 1) = <<>>
    BY <2>0, SubSeqEmpty DEF From
  <2>7. <<>> \o <<>> = <<>>
    OBVIOUS
  <2> QED
    BY <1>8, <2>1, <2>5, <2>6, <2>7
<1>10. ~(Len(<<>>) * Len(<<>>) > MaxDiffCells)
  <2>1. Len(<<>>) = 0
    OBVIOUS
  <2> QED
    BY <2>1, DiffAssumption
<1>11. DiffLines(s, s) = (OpsOf("same", s) \o <<>>) \o <<>>
  BY <1>2, <1>5, <1>6, <1>7, <1>8, <1>9, <1>10
<1>12. OpsOf("same", s) \in Seq(Op) /\ Len(OpsOf("same", s)) = Len(s)
  BY LinesOfMarked
<1>13. DiffLines(s, s) = OpsOf("same", s)
  <2> DEFINE x == OpsOf("same", s)
  <2>1. x \o <<>> = x
    BY <1>12, ConcatEmptySeq
  <2> QED
    BY <1>11, <2>1
<1>14. \A k \in 1 .. Len(s) : OpsOf("same", s)[k].kind = "same"
  BY DEF OpsOf
<1> QED
  BY <1>12, <1>13, <1>14

(***************************************************************************)
(* The reader.                                                             *)
(***************************************************************************)

Start == [from |-> 1, text |-> <<>>, fits |-> TRUE]

\* The table of Reader.
IsAfter(old, hs, f) ==
    f[0] = Start /\ \A n \in 1 .. Len(hs) : f[n] = Applied(old, f[n - 1], hs[n])

LEMMA ReaderTable ==
  ASSUME NEW old, NEW hs, Len(hs) \in Nat
  PROVE  \E f : IsAfter(old, hs, f) /\ Reader(old, hs) = f[Len(hs)]
<1> DEFINE N == Len(hs)
           Body(g, n) == IF n = 0 THEN Start ELSE Applied(old, g[n - 1], hs[n])
           Is(f, n) == f = [k \in 0 .. n |-> Body(f, k)]
           T == {n \in Nat : \E f : Is(f, n)}
           table == CHOOSE f : Is(f, N)
<1>1. 0 \in T
  <2> DEFINE f == [k \in 0 .. 0 |-> Start]
  <2>1. f = [k \in 0 .. 0 |-> Body(f, k)]
    OBVIOUS
  <2> QED
    BY <2>1
<1>2. ASSUME NEW n \in Nat, n \in T PROVE n + 1 \in T
  <2>1. PICK f : Is(f, n)
    BY <1>2
  <2>2. \A k \in 0 .. n : f[k] = Body(f, k)
    BY <2>1
  <2> HIDE DEF Body
  <2> DEFINE g == [k \in 0 .. n + 1 |-> IF k = n + 1 THEN Body(f, n + 1) ELSE f[k]]
  <2>3. \A k \in 0 .. n : g[k] = f[k]
    OBVIOUS
  <2>4. g[n + 1] = Body(f, n + 1)
    OBVIOUS
  <2>5. ASSUME NEW k \in 0 .. n + 1 PROVE g[k] = Body(g, k)
    <3>1. k # 0 => k - 1 \in 0 .. n
      BY <2>5
    <3>2. k # 0 => g[k - 1] = f[k - 1]
      BY <2>3, <3>1
    <3>3. Body(g, k) = Body(f, k)
      <4> HIDE DEF g
      <4> QED
        BY <3>2 DEF Body
    <3>4. k # n + 1 => k \in 0 .. n
      BY <2>5
    <3> HIDE DEF g
    <3> QED
      BY <2>2, <2>3, <2>4, <3>3, <3>4
  <2>6. g = [k \in 0 .. n + 1 |-> Body(g, k)]
    BY <2>5
  <2> HIDE DEF g
  <2>7. Is(g, n + 1)
    BY <2>6
  <2> HIDE DEF Is
  <2> QED
    BY <2>7
<1>3. N \in T
  <2> HIDE DEF T
  <2> QED
    BY <1>1, <1>2, SetInduction
<1>4. Reader(old, hs) = table[N]
  BY Zenon DEF Reader, Start
<1>5. Is(table, N)
  <2>1. \E f : Is(f, N)
    BY <1>3
  <2> HIDE DEF Is
  <2> QED
    BY <2>1, Zenon
<1>6. \A n \in 0 .. N : table[n] = Body(table, n)
  <2> HIDE DEF table, Body, N
  <2> QED
    BY <1>5
<1> HIDE DEF table
<1>7. IsAfter(old, hs, table)
  BY <1>6 DEF IsAfter
<1> QED
  BY <1>4, <1>7

LEMMA ReaderOfNone ==
  ASSUME NEW old
  PROVE  Reader(old, <<>>) = Start
<1>1. Len(<<>>) = 0
  OBVIOUS
<1>2. PICK f : IsAfter(old, <<>>, f) /\ Reader(old, <<>>) = f[0]
  <2>1. Len(<<>>) \in Nat
    OBVIOUS
  <2> QED
    BY <1>1, <2>1, ReaderTable
<1> QED
  BY <1>2 DEF IsAfter

LEMMA ReaderOfAppend ==
  ASSUME NEW old, NEW S, NEW hs \in Seq(S), NEW h \in S
  PROVE  Reader(old, Append(hs, h)) = Applied(old, Reader(old, hs), h)
<1> DEFINE n == Len(hs)
           longer == Append(hs, h)
<1>1. /\ n \in Nat /\ Len(longer) = n + 1 /\ longer[n + 1] = h
      /\ \A k \in 1 .. n : longer[k] = hs[k]
  OBVIOUS
<1> HIDE DEF n, longer
<1>2. PICK f : IsAfter(old, hs, f) /\ Reader(old, hs) = f[n]
  BY <1>1, ReaderTable DEF n
<1>3. PICK g : IsAfter(old, longer, g) /\ Reader(old, longer) = g[n + 1]
  BY <1>1, ReaderTable
<1> DEFINE T == {k \in Nat : k <= n => f[k] = g[k]}
<1>4. 0 \in T
  BY <1>2, <1>3 DEF IsAfter
<1>5. ASSUME NEW k \in Nat, k \in T PROVE k + 1 \in T
  <2> SUFFICES ASSUME k + 1 <= n PROVE f[k + 1] = g[k + 1]
    OBVIOUS
  <2>1. k + 1 \in 1 .. n /\ k + 1 \in 1 .. n + 1 /\ (k + 1) - 1 = k /\ f[k] = g[k]
    BY <1>1, <1>5
  <2>2. longer[k + 1] = hs[k + 1]
    BY <1>1, <2>1
  <2>3. f[k + 1] = Applied(old, f[k], hs[k + 1])
    BY <1>2, <2>1 DEF IsAfter, n
  <2>4. g[k + 1] = Applied(old, g[k], longer[k + 1])
    BY <1>1, <1>3, <2>1 DEF IsAfter
  <2> QED
    BY <2>1, <2>2, <2>3, <2>4
<1>6. f[n] = g[n]
  <2> HIDE DEF T
  <2>1. n \in T
    BY <1>1, <1>4, <1>5, SetInduction
  <2> QED
    BY <1>1, <2>1 DEF T
<1>7. g[n + 1] = Applied(old, g[n], h)
  <2>1. n + 1 \in 1 .. Len(longer) /\ (n + 1) - 1 = n
    BY <1>1
  <2> QED
    BY <1>1, <1>3, <2>1 DEF IsAfter
<1> QED
  BY <1>2, <1>3, <1>6, <1>7 DEF longer

\* A reader who is at or before the given line of the old text has, with the
\* lines up to it, the given part of the new text.
Follows(old, r, line, new) ==
    /\ r \in [from : Nat, text : Seq(Lines), fits : BOOLEAN]
    /\ r.fits /\ 1 <= r.from /\ r.from <= line
    /\ r.text \o SubSeq(old, r.from, line - 1) = new

\* Concatenation is associative, as one formula.
Regrouped(u, v, w) == (u \o v) \o w = u \o (v \o w)

LEMMA ThreeTexts ==
  ASSUME NEW u \in Seq(Lines), NEW v \in Seq(Lines), NEW w \in Seq(Lines)
  PROVE  Regrouped(u, v, w)
  BY SMT DEF Regrouped

\* Part of a text, its length and its lines.
LEMMA PartOfText ==
  ASSUME NEW s \in Seq(Lines), NEW m \in Nat, NEW n \in Nat, 1 <= m, m <= n + 1, n <= Len(s)
  PROVE  SubSeq(s, m, n) \in Seq(Lines) /\ Len(SubSeq(s, m, n)) = n + 1 - m
<1>1. \A k \in m .. n : s[k] \in Lines
  BY ElementOfSeq
<1>2. SubSeq(s, m, n) \in Seq(Lines) /\ Len(SubSeq(s, m, n)) = IF m <= n THEN n - m + 1 ELSE 0
  BY <1>1, SubSeqProperties
<1> QED
  BY <1>2

\* The reader follows when lines are skipped that both texts have.
LEMMA FollowsSkip ==
  ASSUME NEW old \in Seq(Lines), NEW r, NEW line \in Nat, NEW new \in Seq(Lines),
         Follows(old, r, line, new), NEW body \in Seq(Lines), line + Len(body) <= Len(old) + 1,
         SubSeq(old, line, line + Len(body) - 1) = body
  PROVE  Follows(old, r, line + Len(body), new \o body)
<1> DEFINE next == line + Len(body)
<1>0. Len(body) \in Nat /\ Len(old) \in Nat /\ next \in Nat /\ line <= next /\ next <= Len(old) + 1
  OBVIOUS
<1> HIDE DEF next
<1>1. /\ r.fits /\ r.from \in Nat /\ 1 <= r.from /\ r.from <= line
      /\ r.text \in Seq(Lines) /\ r.text \o SubSeq(old, r.from, line - 1) = new
  BY DEF Follows
<1>2. SubSeq(old, r.from, line - 1) \o SubSeq(old, line, next - 1) = SubSeq(old, r.from, next - 1)
  <2>1. /\ r.from \in 1 .. Len(old) + 1 /\ line - 1 \in r.from - 1 .. Len(old)
        /\ next - 1 \in line - 1 .. Len(old) /\ (line - 1) + 1 = line
    BY <1>0, <1>1
  <2> QED
    BY <2>1, ConcatAdjacentSubSeq
<1>3. SubSeq(old, r.from, line - 1) \in Seq(Lines)
  <2>1. line - 1 \in Nat /\ r.from <= (line - 1) + 1 /\ line - 1 <= Len(old)
    BY <1>0, <1>1
  <2> QED
    BY <1>1, <2>1, PartOfText
<1>4. SubSeq(old, line, next - 1) = body
  BY DEF next
<1>5. (r.text \o SubSeq(old, r.from, line - 1)) \o body = r.text \o SubSeq(old, r.from, next - 1)
  <2> DEFINE text == r.text
             part == SubSeq(old, r.from, line - 1)
  <2>1. text \in Seq(Lines) /\ part \in Seq(Lines) /\ body \in Seq(Lines)
    BY <1>1, <1>3
  <2>2. part \o body = SubSeq(old, r.from, next - 1)
    BY <1>2, <1>4
  <2> HIDE DEF text, part
  <2>3. (text \o part) \o body = text \o (part \o body)
    <3>1. Regrouped(text, part, body)
      BY <2>1, ThreeTexts
    <3> QED
      BY <3>1 DEF Regrouped
  <2> QED
    BY <2>2, <2>3 DEF text, part
<1>6. r.text \o SubSeq(old, r.from, next - 1) = new \o body
  BY <1>1, <1>5
<1>7. r.from <= next
  BY <1>0, <1>1
<1>8. r \in [from : Nat, text : Seq(Lines), fits : BOOLEAN]
  BY DEF Follows
<1> QED
  BY <1>1, <1>6, <1>7, <1>8 DEF Follows, next

\* The reader follows when a hunk is applied.
LEMMA FollowsHunk ==
  ASSUME NEW old \in Seq(Lines), NEW r, NEW line \in Nat, NEW new \in Seq(Lines),
         Follows(old, r, line, new), NEW body \in Seq(Op),
         line + Len(Old(body)) <= Len(old) + 1,
         SubSeq(old, line, line + Len(Old(body)) - 1) = Old(body)
  PROVE  LET h == [aSpan |-> Span(line, Len(Old(body))),
                   bSpan |-> Span(1 + Len(new), Len(New(body))),
                   body  |-> body]
         IN  Follows(old, Applied(old, r, h), line + Len(Old(body)), new \o New(body))
<1> DEFINE x == Old(body)
           y == New(body)
           next == line + Len(x)
           aSpan == Span(line, Len(x))
           bSpan == Span(1 + Len(new), Len(y))
           h == [aSpan |-> aSpan, bSpan |-> bSpan, body |-> body]
           copied == SubSeq(old, r.from, line - 1)
<1>0. /\ x \in Seq(Lines) /\ y \in Seq(Lines) /\ Len(x) \in Nat /\ Len(y) \in Nat
      /\ Len(old) \in Nat /\ Len(new) \in Nat
  BY LinesOfAreLines DEF Old, New
<1> HIDE DEF x, y
<1>1. next \in Nat /\ line <= next /\ next <= Len(old) + 1
  BY <1>0 DEF x
<1>2. /\ r.fits /\ r.from \in Nat /\ 1 <= r.from /\ r.from <= line
      /\ r.text \in Seq(Lines) /\ r.text \o copied = new
  BY DEF Follows
<1>3. FirstLine(aSpan) = line /\ aSpan.count = Len(x)
  BY <1>0 DEF FirstLine, Span
<1>4. FirstLine(bSpan) = 1 + Len(new) /\ bSpan.count = Len(y)
  BY <1>0 DEF FirstLine, Span
<1>5. copied \in Seq(Lines)
  <2>1. line - 1 \in Nat /\ r.from <= (line - 1) + 1 /\ line - 1 <= Len(old)
    BY <1>0, <1>1, <1>2
  <2> QED
    BY <1>2, <2>1, PartOfText
<1>6. Len(new) = Len(r.text) + Len(copied)
  BY <1>2, <1>5
<1>7. h.aSpan = aSpan /\ h.bSpan = bSpan /\ h.body = body
  OBVIOUS
<1> HIDE DEF aSpan, bSpan, h
<1>8. Min({line + Len(x), Len(old) + 1}) = next /\ Min({line - 1, Len(old)}) = line - 1
  <2>1. Min({next, Len(old) + 1}) = next
    BY <1>0, <1>1, LesserOfTwo
  <2>2. line - 1 \in Int /\ line - 1 <= Len(old)
    BY <1>0, <1>1
  <2>3. Min({line - 1, Len(old)}) = line - 1
    <3> DEFINE p == line - 1
               n == Len(old)
    <3>1. p \in Int /\ n \in Int /\ p <= n
      BY <1>0, <2>2
    <3> HIDE DEF p, n
    <3>2. Min({p, n}) = p
      BY <3>1, LesserOfTwo
    <3> QED
      BY <3>2 DEF p, n
  <2> QED
    BY <2>1, <2>3
<1> DEFINE fits == /\ r.fits /\ line >= r.from
                   /\ 1 + Len(new) = Len(r.text) + Len(copied) + 1
                   /\ Len(y) = Len(y) /\ Len(x) = Len(x)
                   /\ x = SubSeq(old, line, next - 1)
           text == r.text \o copied \o y
<1>9. Applied(old, r, h) = [from |-> next, text |-> text, fits |-> fits]
  BY <1>3, <1>4, <1>7, <1>8, Zenon DEF Applied, x, y
<1>10. x = SubSeq(old, line, next - 1)
  BY DEF x
<1>11. fits
  BY <1>0, <1>2, <1>5, <1>6, <1>10
<1>12. text = new \o y
  BY <1>2
<1>13. fits \in BOOLEAN
  OBVIOUS
<1> HIDE DEF fits, text
<1>14. Applied(old, r, h).fits /\ Applied(old, r, h).from = next /\ Applied(old, r, h).text = new \o y
  BY <1>9, <1>11, <1>12
<1>15. SubSeq(old, next, next - 1) = <<>>
  BY <1>1, SubSeqEmpty
<1>16. new \o y \in Seq(Lines) /\ (new \o y) \o <<>> = new \o y
  BY <1>0
<1>17. 1 <= next
  BY <1>1, <1>2
<1>18. Applied(old, r, h) \in [from : Nat, text : Seq(Lines), fits : BOOLEAN]
  BY <1>1, <1>9, <1>12, <1>16, <1>13
<1>19. Follows(old, Applied(old, r, h), next, new \o y)
  <2> DEFINE ap == Applied(old, r, h)
  <2>1. ap.text \o SubSeq(old, ap.from, next - 1) = new \o y
    <3>1. SubSeq(old, ap.from, next - 1) = <<>>
      BY <1>14, <1>15
    <3> QED
      BY <1>14, <1>16, <3>1
  <2>2. 1 <= ap.from /\ ap.from <= next
    BY <1>1, <1>14, <1>17
  <2>3. ap.fits /\ ap \in [from : Nat, text : Seq(Lines), fits : BOOLEAN]
    BY <1>14, <1>18
  <2> HIDE DEF ap
  <2>4. Follows(old, ap, next, new \o y)
    BY <2>1, <2>2, <2>3 DEF Follows
  <2> QED
    BY <2>4 DEF ap
<1> QED
  BY <1>19 DEF x, y, next, h, aSpan, bSpan

(***************************************************************************)
(* The loop.                                                               *)
(***************************************************************************)

Hunks == [aSpan : [start : Int, count : Nat], bSpan : [start : Int, count : Nat],
          body : Seq(Op)]

TextsInv ==
    /\ a \in Seq(Lines) /\ b \in Seq(Lines) /\ Len(a) <= MaxLines /\ Len(b) <= MaxLines
    /\ ctxLines \in Nat

\* The script is what diffLines returned, and none before.
ScriptInv ==
    \/ pc = "diffLines" /\ ops = <<>> /\ i = 0
    \/ pc = "hunks" /\ ops = DiffLines(a, b)
    \/ pc = "done" /\ ops = DiffLines(a, b) /\ i = Len(ops)

\* The reader of the hunks so far follows the loop; equal texts have no hunk.
ReaderInv ==
    /\ out \in Seq(Hunks)
    /\ Follows(a, Reader(a, out), aLine, New(SubSeq(ops, 1, i)))
    /\ a = b => out = <<>>

IInv == TypeOK /\ TextsInv /\ ScriptInv /\ ReaderInv

\* Once it has been made, the script leads from the old text to the new.
LEMMA ScriptLeads ==
  ASSUME TextsInv, ops = DiffLines(a, b)
  PROVE  ops \in Seq(Op) /\ Old(ops) = a /\ New(ops) = b
<1>1. PICK h, e, k : Leads(DiffLines(a, b), a, b, h + k + e)
  BY DiffLinesLeads DEF TextsInv
<1> QED
  BY <1>1 DEF Leads

\* What the loop consumes from one op to another, in the old and in the new text.
LEMMA BodyIs ==
  ASSUME TypeOK, TextsInv, ops = DiffLines(a, b), NEW n \in i .. Len(ops)
  PROVE  LET body == SubSeq(ops, i + 1, n)
             done == SubSeq(ops, 1, i)
         IN  /\ body \in Seq(Op)
             /\ Old(body) \in Seq(Lines) /\ New(body) \in Seq(Lines)
             /\ Old(done) \in Seq(Lines) /\ New(done) \in Seq(Lines)
             /\ Old(SubSeq(ops, 1, n)) = Old(done) \o Old(body)
             /\ New(SubSeq(ops, 1, n)) = New(done) \o New(body)
             /\ aLine \in Nat /\ bLine = 1 + Len(New(done))
             /\ aLine + Len(Old(body)) = 1 + Len(Old(SubSeq(ops, 1, n)))
             /\ bLine + Len(New(body)) = 1 + Len(New(SubSeq(ops, 1, n)))
             /\ aLine + Len(Old(body)) <= Len(a) + 1
             /\ SubSeq(a, aLine, aLine + Len(Old(body)) - 1) = Old(body)
<1> DEFINE body == SubSeq(ops, i + 1, n)
           done == SubSeq(ops, 1, i)
           all == SubSeq(ops, 1, n)
<1>1. /\ ops \in Seq(Op) /\ i \in 0 .. Len(ops) /\ n \in i .. Len(ops)
      /\ aLine = 1 + Len(Old(done)) /\ bLine = 1 + Len(New(done))
  BY DEF TypeOK
<1>2. Old(ops) = a /\ New(ops) = b
  BY ScriptLeads
<1>3. /\ body \in Seq(Op)
      /\ Old(done) \in Seq(Lines) /\ Old(body) \in Seq(Lines)
      /\ Old(all) = Old(done) \o Old(body)
      /\ SubSeq(Old(ops), Len(Old(done)) + 1, Len(Old(done)) + Len(Old(body))) = Old(body)
      /\ Len(Old(done)) + Len(Old(body)) <= Len(Old(ops))
  <2> DEFINE kinds == {"same", "removed"}
  <2>1. \A x : Old(x) = LinesOf(x, kinds)
    BY DEF Old
  <2> HIDE DEF kinds
  <2>0. Advances(ops, i, n, kinds)
    BY <1>1, Consumed
  <2>2. /\ body \in Seq(Op)
        /\ LinesOf(done, kinds) \in Seq(Lines) /\ LinesOf(body, kinds) \in Seq(Lines)
        /\ LinesOf(all, kinds) = LinesOf(done, kinds) \o LinesOf(body, kinds)
    BY <2>0 DEF Advances
  <2>3. SubSeq(LinesOf(ops, kinds), Len(LinesOf(done, kinds)) + 1,
               Len(LinesOf(done, kinds)) + Len(LinesOf(body, kinds))) = LinesOf(body, kinds)
    BY <2>0 DEF Advances
  <2>4. Len(LinesOf(done, kinds)) + Len(LinesOf(body, kinds)) <= Len(LinesOf(ops, kinds))
    BY <2>0 DEF Advances
  <2> HIDE DEF body, done, all
  <2> QED
    BY <2>1, <2>2, <2>3, <2>4
<1>4. /\ New(done) \in Seq(Lines) /\ New(body) \in Seq(Lines)
      /\ New(all) = New(done) \o New(body)
  <2> DEFINE kinds == {"same", "added"}
  <2>1. \A x : New(x) = LinesOf(x, kinds)
    BY DEF New
  <2> HIDE DEF kinds
  <2>2. /\ LinesOf(done, kinds) \in Seq(Lines) /\ LinesOf(body, kinds) \in Seq(Lines)
        /\ LinesOf(all, kinds) = LinesOf(done, kinds) \o LinesOf(body, kinds)
    <3>1. Advances(ops, i, n, kinds)
      BY <1>1, Consumed
    <3> QED
      BY <3>1 DEF Advances
  <2> HIDE DEF body, done, all
  <2> QED
    BY <2>1, <2>2
<1> DEFINE p == Old(done)
           q == Old(body)
           u == New(done)
           v == New(body)
<1>5. Len(p) \in Nat /\ Len(q) \in Nat /\ Len(a) \in Nat /\ Len(p \o q) = Len(p) + Len(q)
  BY <1>3 DEF TextsInv
<1>6. Len(u) \in Nat /\ Len(v) \in Nat /\ Len(u \o v) = Len(u) + Len(v)
  BY <1>4
<1> HIDE DEF body, done, all, p, q, u, v
<1>7. /\ aLine \in Nat /\ aLine + Len(q) = 1 + Len(p \o q) /\ aLine + Len(q) <= Len(a) + 1
      /\ Len(p) + 1 = aLine /\ Len(p) + Len(q) = aLine + Len(q) - 1
  BY <1>1, <1>2, <1>3, <1>5 DEF p, q
<1>8. bLine + Len(v) = 1 + Len(u \o v)
  BY <1>1, <1>6 DEF u
<1>9. SubSeq(a, aLine, aLine + Len(q) - 1) = q
  BY <1>2, <1>3, <1>7 DEF p, q
<1> QED
  BY <1>1, <1>3, <1>4, <1>7, <1>8, <1>9 DEF body, done, all, p, q, u, v

THEOREM InitIInv == Init => IInv
<1> SUFFICES ASSUME Init PROVE IInv
  OBVIOUS
<1>1. TextsInv
  BY TextsAre, DiffAssumption DEF Init, TextsInv
<1>2. ScriptInv
  BY DEF Init, ScriptInv
<1>3. SubSeq(ops, 1, i) = <<>> /\ ops = <<>> /\ i = 0 /\ aLine = 1 /\ bLine = 1 /\ out = <<>>
  BY SubSeqEmpty DEF Init
<1>4. Old(<<>>) = <<>> /\ New(<<>>) = <<>> /\ Len(<<>>) = 0 /\ <<>> \in Seq(Op)
  BY LinesOfEmpty DEF Old, New
<1>5. TypeOK
  <2>1. i \in 0 .. Len(ops) /\ ops \in Seq(Op)
    <3>1. i = 0 /\ Len(ops) = 0
      BY <1>3, <1>4
    <3>2. ops \in Seq(Op)
      BY <1>3, <1>4
    <3> QED
      BY <3>1, <3>2
  <2>2. Len(Old(SubSeq(ops, 1, i))) = 0 /\ Len(New(SubSeq(ops, 1, i))) = 0
    BY <1>3, <1>4, Zenon
  <2> QED
    BY <1>1, <1>3, <2>1, <2>2 DEF TypeOK, TextsInv
<1>6. ReaderInv
  <2>1. Reader(a, <<>>) = Start
    BY ReaderOfNone
  <2>2. SubSeq(a, 1, 1 - 1) = <<>>
    BY SubSeqEmpty
  <2>3. Follows(a, Start, 1, <<>>)
    BY <2>2, EmptySeq DEF Follows, Start
  <2>4. New(SubSeq(ops, 1, i)) = <<>>
    BY <1>3, <1>4, Zenon
  <2>5. Follows(a, Reader(a, out), aLine, New(SubSeq(ops, 1, i)))
    BY <1>3, <2>1, <2>3, <2>4, Zenon
  <2>6. out \in Seq(Hunks)
    BY <1>3, EmptySeq
  <2> QED
    BY <1>3, <2>5, <2>6, Zenon DEF ReaderInv
<1> QED
  BY <1>1, <1>2, <1>5, <1>6 DEF IInv

LEMMA CompareKeeps == IInv /\ Compare => IInv'
<1> SUFFICES ASSUME IInv, Compare PROVE IInv'
  OBVIOUS
<1>1. /\ pc = "diffLines" /\ ops' = DiffLines(a, b) /\ pc' = "hunks"
      /\ a' = a /\ b' = b /\ ctxLines' = ctxLines /\ i' = i
      /\ aLine' = aLine /\ bLine' = bLine /\ out' = out
  BY DEF Compare
<1>2. ops = <<>> /\ i = 0
  BY <1>1 DEF IInv, ScriptInv
<1>3. TextsInv'
  BY <1>1 DEF IInv, TextsInv
<1>4. ScriptInv'
  BY <1>1 DEF ScriptInv
<1>5. DiffLines(a, b) \in Seq(Op)
  <2>1. PICK h, e, k : Leads(DiffLines(a, b), a, b, h + k + e)
    BY DiffLinesLeads DEF IInv, TextsInv
  <2> QED
    BY <2>1 DEF Leads
<1>6. SubSeq(ops', 1, i') = <<>> /\ SubSeq(ops, 1, i) = <<>>
  BY <1>1, <1>2, SubSeqEmpty
<1>7. TypeOK'
  <2>1. 0 \in 0 .. Len(ops')
    <3>1. Len(DiffLines(a, b)) \in Nat
      BY <1>5
    <3> QED
      BY <1>1, <3>1
  <2> QED
    BY <1>1, <1>2, <1>5, <1>6, <2>1 DEF IInv, TypeOK
<1>8. ReaderInv'
  BY <1>1, <1>6 DEF IInv, ReaderInv
<1> QED
  BY <1>3, <1>4, <1>7, <1>8 DEF IInv

LEMMA SkipKeeps == IInv /\ Skip => IInv'
<1> SUFFICES ASSUME IInv, Skip PROVE IInv'
  OBVIOUS
<1> DEFINE o == ops[i + 1]
           n == i + 1
           body == SubSeq(ops, i + 1, n)
<1>1. /\ pc = "hunks" /\ i < Len(ops) /\ i + 1 \notin Keep
      /\ i' = n /\ aLine' = aLine + Len(Old(<<o>>)) /\ bLine' = bLine + Len(New(<<o>>))
      /\ a' = a /\ b' = b /\ ctxLines' = ctxLines /\ pc' = pc /\ ops' = ops /\ out' = out
  BY DEF Skip
<1>2. ops = DiffLines(a, b) /\ TypeOK /\ TextsInv
  BY <1>1 DEF IInv, ScriptInv
<1>3. i \in Nat /\ Len(ops) \in Nat /\ ops \in Seq(Op) /\ n \in i .. Len(ops) /\ n \in 1 .. Len(ops)
  BY <1>1, <1>2 DEF TypeOK
<1>4. o \in Op
  BY <1>3, ElementOfSeq
<1>5. o.kind = "same"
  <2>1. n \in (n - ctxLines) .. (n + ctxLines)
    BY <1>2, <1>3 DEF TextsInv
  <2> QED
    BY <1>1, <1>3, <2>1 DEF Keep
<1>6. body = <<o>>
  <2>1. body = SubSeq(ops, i + 1, n - 1) \o <<o>>
    <3>1. i + 1 \in 1 .. Len(ops) /\ n \in i + 1 .. Len(ops)
      BY <1>3
    <3> QED
      BY <1>3, <3>1, SubSeqRecursiveSecond
  <2>2. SubSeq(ops, i + 1, n - 1) = <<>>
    BY <1>3, SubSeqEmpty
  <2>3. <<>> \o <<o>> = <<o>>
    OBVIOUS
  <2> QED
    BY <2>1, <2>2, <2>3
<1>7. /\ body \in Seq(Op)
      /\ Old(body) \in Seq(Lines) /\ New(body) \in Seq(Lines)
      /\ New(SubSeq(ops, 1, i)) \in Seq(Lines)
      /\ New(SubSeq(ops, 1, n)) = New(SubSeq(ops, 1, i)) \o New(body)
      /\ aLine \in Nat
      /\ aLine + Len(Old(body)) = 1 + Len(Old(SubSeq(ops, 1, n)))
      /\ bLine + Len(New(body)) = 1 + Len(New(SubSeq(ops, 1, n)))
      /\ aLine + Len(Old(body)) <= Len(a) + 1
      /\ SubSeq(a, aLine, aLine + Len(Old(body)) - 1) = Old(body)
  BY <1>2, <1>3, BodyIs
<1>8. Old(body) = New(body)
  <2>1. <<o>> = Append(<<>>, o) /\ <<>> \in Seq(Op)
    OBVIOUS
  <2>2. \A kinds : LinesOf(<<o>>, kinds) =
           IF o.kind \in kinds THEN Append(LinesOf(<<>>, kinds), o.text) ELSE LinesOf(<<>>, kinds)
    <3> SUFFICES ASSUME NEW kinds
                 PROVE  LinesOf(<<o>>, kinds) =
                          IF o.kind \in kinds THEN Append(LinesOf(<<>>, kinds), o.text)
                                              ELSE LinesOf(<<>>, kinds)
      OBVIOUS
    <3> HIDE DEF o
    <3>1. LinesOf(Append(<<>>, o), kinds) =
            IF o.kind \in kinds THEN Append(LinesOf(<<>>, kinds), o.text)
                                ELSE LinesOf(<<>>, kinds)
      BY <1>4, <2>1, LinesOfAppend
    <3> QED
      BY <2>1, <3>1, Zenon
  <2>3. Old(<<o>>) = Append(<<>>, o.text) /\ New(<<o>>) = Append(<<>>, o.text)
    BY <1>5, <2>2, LinesOfEmpty DEF Old, New
  <2> QED
    BY <1>6, <2>3
<1> HIDE DEF o, body, n
<1>9. aLine' = aLine + Len(Old(body)) /\ bLine' = bLine + Len(New(body))
  BY <1>1, <1>6
<1>10. TypeOK'
  <2>1. n \in 0 .. Len(ops)
    BY <1>3
  <2> QED
    BY <1>1, <1>2, <1>7, <1>9, <2>1 DEF TypeOK
<1>11. ReaderInv'
  <2>1. /\ a \in Seq(Lines) /\ out \in Seq(Hunks) /\ (a = b => out = <<>>)
        /\ Follows(a, Reader(a, out), aLine, New(SubSeq(ops, 1, i)))
    BY <1>2 DEF IInv, ReaderInv, TextsInv
  <2>2. Follows(a, Reader(a, out), aLine + Len(Old(body)), New(SubSeq(ops, 1, i)) \o Old(body))
    BY <1>7, <2>1, FollowsSkip
  <2>3. Follows(a, Reader(a, out), aLine', New(SubSeq(ops, 1, n)))
    BY <1>7, <1>8, <1>9, <2>2
  <2> QED
    BY <1>1, <2>1, <2>3 DEF ReaderInv
<1>12. TextsInv'
  BY <1>1, <1>2 DEF TextsInv
<1>13. ScriptInv'
  BY <1>1, <1>2 DEF ScriptInv
<1> QED
  BY <1>10, <1>11, <1>12, <1>13 DEF IInv

LEMMA HunkKeeps == IInv /\ Hunk => IInv'
<1> SUFFICES ASSUME IInv, Hunk PROVE IInv'
  OBVIOUS
<1> DEFINE ends == {e \in i + 1 .. Len(ops) : e + 1 \notin Keep}
           n == Min(ends)
           body == SubSeq(ops, i + 1, n)
           h == [aSpan |-> Span(aLine, Len(Old(body))), bSpan |-> Span(bLine, Len(New(body))),
                 body  |-> body]
<1>1. /\ pc = "hunks" /\ i + 1 \in Keep
      /\ i' = n /\ aLine' = aLine + Len(Old(body)) /\ bLine' = bLine + Len(New(body))
      /\ out' = Append(out, h)
      /\ a' = a /\ b' = b /\ ctxLines' = ctxLines /\ pc' = pc /\ ops' = ops
  BY Zenon DEF Hunk
<1>2. ops = DiffLines(a, b) /\ TypeOK /\ TextsInv
  BY <1>1 DEF IInv, ScriptInv
<1>3. i \in Nat /\ Len(ops) \in Nat /\ ops \in Seq(Op)
  BY <1>2 DEF TypeOK
<1>4. i + 1 \in 1 .. Len(ops)
  BY <1>1 DEF Keep
<1>5. n \in i .. Len(ops)
  <2>1. Len(ops) + 1 \notin Keep
    BY <1>3 DEF Keep
  <2>2. Len(ops) \in ends /\ ends \subseteq 0 .. Len(ops)
    BY <1>3, <1>4, <2>1
  <2>3. Min(ends) \in ends
    <3> HIDE DEF ends
    <3> QED
      BY <1>3, <2>2, LeastAndGreatest
  <2>4. n \in ends
    BY <2>3
  <2> HIDE DEF n
  <2>5. n \in i + 1 .. Len(ops)
    BY <2>4
  <2> QED
    BY <1>3, <2>5
<1> HIDE DEF n
<1>6. /\ body \in Seq(Op)
      /\ Old(body) \in Seq(Lines) /\ New(body) \in Seq(Lines)
      /\ New(SubSeq(ops, 1, i)) \in Seq(Lines)
      /\ New(SubSeq(ops, 1, n)) = New(SubSeq(ops, 1, i)) \o New(body)
      /\ aLine \in Nat /\ bLine = 1 + Len(New(SubSeq(ops, 1, i)))
      /\ aLine + Len(Old(body)) = 1 + Len(Old(SubSeq(ops, 1, n)))
      /\ bLine + Len(New(body)) = 1 + Len(New(SubSeq(ops, 1, n)))
      /\ aLine + Len(Old(body)) <= Len(a) + 1
      /\ SubSeq(a, aLine, aLine + Len(Old(body)) - 1) = Old(body)
  BY <1>2, <1>5, BodyIs
<1> HIDE DEF body
<1>7. h \in Hunks
  <2>1. /\ Len(Old(body)) \in Nat /\ Len(New(body)) \in Nat
        /\ Len(New(SubSeq(ops, 1, i))) \in Nat /\ bLine \in Nat
    BY <1>6
  <2>2. /\ Span(aLine, Len(Old(body))) \in [start : Int, count : Nat]
        /\ Span(bLine, Len(New(body))) \in [start : Int, count : Nat]
    BY <1>6, <2>1 DEF Span
  <2> QED
    BY <1>6, <2>2 DEF Hunks
<1> HIDE DEF h
<1>8. TypeOK'
  <2>1. n \in 0 .. Len(ops)
    BY <1>3, <1>5
  <2> QED
    BY <1>1, <1>2, <1>6, <2>1 DEF TypeOK
<1>9. a # b
  <2> SUFFICES ASSUME a = b PROVE FALSE
    OBVIOUS
  <2>1. \A k \in 1 .. Len(ops) : ops[k].kind = "same"
    BY <1>2, EqualTexts DEF TextsInv
  <2> QED
    BY <1>1, <2>1 DEF Keep
<1>10. ReaderInv'
  <2> DEFINE r == Reader(a, out)
             new == New(SubSeq(ops, 1, i))
  <2>1. a \in Seq(Lines) /\ out \in Seq(Hunks) /\ Follows(a, r, aLine, new)
    BY <1>2 DEF IInv, ReaderInv, TextsInv
  <2>2. h = [aSpan |-> Span(aLine, Len(Old(body))),
             bSpan |-> Span(1 + Len(new), Len(New(body))), body  |-> body]
    BY <1>6 DEF h
  <2> HIDE DEF r, new
  <2>3. Follows(a, Applied(a, r, h), aLine + Len(Old(body)), new \o New(body))
    <3>1. new \in Seq(Lines)
      BY <1>6 DEF new
    <3> QED
      BY <1>6, <2>1, <2>2, <3>1, FollowsHunk
  <2>4. Reader(a, Append(out, h)) = Applied(a, r, h)
    BY <1>7, <2>1, ReaderOfAppend DEF r
  <2>5. Follows(a, Reader(a, Append(out, h)), aLine + Len(Old(body)), New(SubSeq(ops, 1, n)))
    BY <1>6, <2>3, <2>4 DEF new
  <2>6. Append(out, h) \in Seq(Hunks)
    BY <1>7, <2>1
  <2> QED
    BY <1>1, <1>9, <2>5, <2>6 DEF ReaderInv
<1>11. TextsInv'
  BY <1>1, <1>2 DEF TextsInv
<1>12. ScriptInv'
  BY <1>1, <1>2 DEF ScriptInv
<1> QED
  BY <1>8, <1>10, <1>11, <1>12 DEF IInv

THEOREM NextIInv == IInv /\ [Next]_vars => IInv'
<1> SUFFICES ASSUME IInv, [Next]_vars PROVE IInv'
  OBVIOUS
<1>1. CASE Compare
  BY <1>1, CompareKeeps
<1>2. CASE Skip
  BY <1>2, SkipKeeps
<1>3. CASE Hunk
  BY <1>3, HunkKeeps
<1>4. CASE Return
  <2>1. /\ pc = "hunks" /\ i = Len(ops) /\ pc' = "done"
        /\ a' = a /\ b' = b /\ ctxLines' = ctxLines /\ ops' = ops /\ i' = i
        /\ aLine' = aLine /\ bLine' = bLine /\ out' = out
    BY <1>4 DEF Return
  <2>2. TypeOK'
    BY <2>1 DEF IInv, TypeOK
  <2>3. TextsInv'
    BY <2>1 DEF IInv, TextsInv
  <2>4. ScriptInv'
    BY <2>1 DEF IInv, ScriptInv
  <2>5. ReaderInv'
    BY <2>1 DEF IInv, ReaderInv
  <2> QED
    BY <2>2, <2>3, <2>4, <2>5 DEF IInv
<1>5. CASE UNCHANGED vars
  BY <1>5 DEF vars, IInv, TypeOK, TextsInv, ScriptInv, ReaderInv
<1> QED
  BY <1>1, <1>2, <1>3, <1>4, <1>5 DEF Next

\* The loop's counters are where the ops consumed lead, in both texts
\* (diff.go: hunks).
THEOREM CountersAgree == Spec => []TypeOK
<1>1. IInv => TypeOK
  BY DEF IInv
<1> QED
  BY <1>1, InitIInv, NextIInv, PTL DEF Spec

\* Within maxDiffCells no script keeps more lines of the two texts than the one
\* of diffLines: trimming the common ends costs nothing, and the walk of lcsDiff
\* keeps what its table promises, which is what any matching could.
THEOREM ShortestScript == Spec => []ScriptIsShortest
<1>1. IInv => ScriptIsShortest
  <2> SUFFICES ASSUME IInv, pc # "diffLines", Len(a) * Len(b) <= MaxDiffCells
               PROVE  Len(Same(ops)) = LcsLength(a, b)
    BY DEF ScriptIsShortest
  <2>1. ops = DiffLines(a, b)
    BY DEF IInv, ScriptInv
  <2>2. Len(Same(DiffLines(a, b))) = LcsLength(a, b)
    BY DiffLinesKeepsLcs DEF IInv, TextsInv
  <2> QED
    BY <2>1, <2>2
<1> QED
  BY <1>1, InitIInv, NextIInv, PTL DEF Spec

\* Applied where their headers say, the hunks of the loop turn the old text into
\* the new one, for any context and any limit on the table; none means equal texts.
THEOREM HunksTurnOldIntoNew == Spec => []HunksApply
<1>1. IInv => HunksApply
  <2> SUFFICES ASSUME IInv, pc = "done"
               PROVE  /\ Patched(a, out).fits
                      /\ Patched(a, out).text = b
                      /\ out = <<>> <=> a = b
    BY DEF HunksApply
  <2> DEFINE r == Reader(a, out)
  <2>1. ops = DiffLines(a, b) /\ i = Len(ops) /\ TypeOK /\ TextsInv
    BY DEF IInv, ScriptInv
  <2>2. SubSeq(ops, 1, i) = ops
    BY <2>1, SubSeqFull DEF TypeOK
  <2>3. Old(ops) = a /\ New(ops) = b
    BY <2>1, ScriptLeads
  <2>4. aLine = 1 + Len(a) /\ Len(a) \in Nat /\ a \in Seq(Lines)
    <3>1. aLine = 1 + Len(Old(SubSeq(ops, 1, i)))
      BY <2>1, Zenon DEF TypeOK
    <3>2. aLine = 1 + Len(a)
      BY <2>2, <2>3, <3>1, Zenon
    <3>3. a \in Seq(Lines)
      BY <2>1 DEF TextsInv
    <3>4. Len(a) \in Nat
      BY <3>3
    <3> QED
      BY <3>2, <3>3, <3>4
  <2>5. Follows(a, r, aLine, b) /\ (a = b => out = <<>>)
    BY <2>2, <2>3 DEF IInv, ReaderInv
  <2>6. out = <<>> => r = Start
    BY ReaderOfNone
  <2>7. Patched(a, out) = [r EXCEPT !.text = r.text \o From(a, r.from)]
    BY Zenon DEF Patched
  <2> HIDE DEF r
  <2>8. r.fits /\ r.text \o From(a, r.from) = b
    <3>1. aLine - 1 = Len(a)
      BY <2>4
    <3> QED
      BY <2>5, <3>1 DEF Follows, From
  <2>9. r \in [from : Nat, text : Seq(Lines), fits : BOOLEAN]
    BY <2>5 DEF Follows
  <2>10. Patched(a, out).fits /\ Patched(a, out).text = b
    BY <2>7, <2>8, <2>9
  <2>11. ASSUME out = <<>> PROVE a = b
    <3>1. r.text = <<>> /\ r.from = 1
      BY <2>6, <2>11 DEF Start
    <3>2. From(a, 1) = a /\ <<>> \o a = a
      BY <2>4, SubSeqFull DEF From
    <3> QED
      BY <2>8, <3>1, <3>2
  <2> QED
    BY <2>5, <2>10, <2>11
<1> QED
  BY <1>1, InitIInv, NextIInv, PTL DEF Spec
=============================================================================
