----------------------------- MODULE ViewProofs -----------------------------
(***************************************************************************)
(* The client's view for any finite set of keys, any prefixes, values and  *)
(* number of writes.  The argument has two halves.  The first is about the *)
(* code's sequential algorithms, each shown to compute its definition:     *)
(* slices.Sort, the binary search of prefixRange, Group.Keys, the removal  *)
(* of repeated prefixes, LIKE with the pattern of likePrefix, Diff and the *)
(* calls of notify.  Each is a table that refers to itself; Recursion says *)
(* that such a table exists when every cell only reads cells of lower      *)
(* rank, and SetInduction reads it out.  The second half is the invariant  *)
(* of the machine, ViewInv and SelectionInv, which those lemmas preserve.  *)
(***************************************************************************)
EXTENDS View, FiniteSetTheorems, SequenceTheorems, WellFoundedInduction, TLAPS

(***************************************************************************)
(* Induction on the natural numbers, of a set and of recursive functions.  *)
(***************************************************************************)

\* A set of naturals that is not empty has a least element.
LEMMA LeastNat ==
  ASSUME NEW T, T \subseteq Nat, T # {}
  PROVE  \E x \in T : \A y \in T : x <= y
<1>1. PICK x \in T : \A y \in T : ~ (<<y, x>> \in OpToRel(<, Nat))
  BY NatLessThanWellFounded, WFMin
<1>2. \A y \in T : <<y, x>> \in Nat \X Nat
  OBVIOUS
<1>3. \A y \in T : y < x => <<y, x>> \in OpToRel(<, Nat)
  BY <1>2 DEF OpToRel
<1>4. \A y \in T : ~(y < x)
  BY <1>1, <1>3, Zenon
<1> QED
  BY <1>4

\* A set with 0 and the successor of each of its elements has every natural.
LEMMA SetInduction ==
  ASSUME NEW T, 0 \in T, \A n \in Nat : n \in T => n + 1 \in T
  PROVE  Nat \subseteq T
<1> SUFFICES ASSUME Nat \ T # {} PROVE FALSE
  OBVIOUS
<1>1. PICK x \in Nat \ T : \A y \in Nat \ T : x <= y
  BY LeastNat
<1>2. x - 1 \in Nat /\ x - 1 \notin Nat \ T
  BY <1>1
<1> QED
  BY <1>2

\* F makes a table of D out of a table of D, and what it puts at a place depends
\* only on places of lower rank.
Determines(F, D, V, rank, N) ==
    /\ V # {} /\ N \in Nat /\ rank \in [D -> 0 .. N]
    /\ F \in [[D -> V] -> [D -> V]]
    /\ \A g, h \in [D -> V], x \in D :
           (\A y \in D : rank[y] < rank[x] => g[y] = h[y]) => F[g][x] = F[h][x]

\* A function may be defined by what it is at arguments of lower rank.
LEMMA Recursion ==
  ASSUME NEW F, NEW D, NEW V, NEW rank, NEW N, Determines(F, D, V, rank, N)
  PROVE  \E f \in [D -> V] : F[f] = f
<1> USE DEF Determines
<1> DEFINE Fixed(g, n) == \A x \in D : rank[x] < n => F[g][x] = g[x]
           T == {n \in Nat : \E g \in [D -> V] : Fixed(g, n)}
<1>1. 0 \in T
  <2>1. PICK v \in V : TRUE
    OBVIOUS
  <2>2. [x \in D |-> v] \in [D -> V]
    OBVIOUS
  <2>3. Fixed([x \in D |-> v], 0)
    OBVIOUS
  <2> QED
    BY <2>2, <2>3
<1>2. ASSUME NEW n \in Nat, n \in T PROVE n + 1 \in T
  <2>1. PICK g \in [D -> V] : Fixed(g, n)
    BY <1>2
  <2>2. F[g] \in [D -> V]
    OBVIOUS
  <2>3. ASSUME NEW x \in D, rank[x] < n + 1 PROVE F[F[g]][x] = F[g][x]
    <3>1. \A y \in D : rank[y] < rank[x] => rank[y] < n
      BY <2>3
    <3>2. \A y \in D : rank[y] < rank[x] => F[g][y] = g[y]
      BY <2>1, <3>1
    <3> QED
      BY <2>2, <3>2
  <2>4. Fixed(F[g], n + 1)
    BY <2>3
  <2> QED
    BY <2>2, <2>4
<1>3. N + 1 \in T
  <2> HIDE DEF T
  <2> QED
    BY <1>1, <1>2, SetInduction
<1>4. PICK f \in [D -> V] : Fixed(f, N + 1)
  BY <1>3
<1>5. \A x \in D : F[f][x] = f[x]
  BY <1>4
<1>6. F[f] \in [D -> V]
  OBVIOUS
<1> QED
  BY <1>5, <1>6

(***************************************************************************)
(* The order of keys.                                                      *)
(***************************************************************************)

\* A text is a sequence of numbers.
LEMMA TextIsNumbers == Text \subseteq Seq(Nat)
<1>1. \A x \in 0 .. 255 : x \in Nat
  OBVIOUS
<1>2. 0 .. 255 \subseteq Nat
  BY <1>1
<1>3. ASSUME NEW s \in Seq(0 .. 255) PROVE s \in Seq(Nat)
  <2>1. Len(s) \in Nat /\ s \in [1 .. Len(s) -> 0 .. 255]
    BY LenProperties, Zenon
  <2>2. s \in [1 .. Len(s) -> Nat]
    BY <2>1, <1>2, Zenon
  <2> QED
    BY <2>1, <2>2
<1> QED
  BY <1>3 DEF Text

\* Where two texts part.
LEMMA BeforeAt ==
  ASSUME NEW s \in Seq(Nat), NEW t \in Seq(Nat)
  PROVE  Before(s, t) <=>
           \E n \in 0 .. Len(t) - 1 :
               /\ n <= Len(s)
               /\ \A i \in 1 .. n : s[i] = t[i]
               /\ n = Len(s) \/ s[n + 1] < t[n + 1]
<1>1. ASSUME NEW n \in 0 .. Len(t) - 1, n <= Len(s)
      PROVE  SubSeq(s, 1, n) = SubSeq(t, 1, n) <=> \A i \in 1 .. n : s[i] = t[i]
  <2>1. SubSeq(s, 1, n) = [i \in 1 .. n |-> s[i]] /\ SubSeq(t, 1, n) = [i \in 1 .. n |-> t[i]]
    BY <1>1
  <2> QED
    BY <2>1
<1> QED
  BY <1>1 DEF Before

\* Nothing is before itself.
LEMMA BeforeIrreflexive == \A s \in Seq(Nat) : ~Before(s, s)
<1> SUFFICES ASSUME NEW s \in Seq(Nat), Before(s, s) PROVE FALSE
  OBVIOUS
<1>1. Len(s) \in Nat /\ \A i \in 1 .. Len(s) : s[i] \in Nat
  OBVIOUS
<1>2. PICK n \in 0 .. Len(s) - 1 : n = Len(s) \/ s[n + 1] < s[n + 1]
  BY BeforeAt
<1> QED
  BY <1>1, <1>2

\* What is before something before a text is before that text.
LEMMA BeforeTransitive ==
  ASSUME NEW s \in Seq(Nat), NEW t \in Seq(Nat), NEW u \in Seq(Nat),
         Before(s, t), Before(t, u)
  PROVE  Before(s, u)
<1>1. PICK m \in 0 .. Len(t) - 1 :
        m <= Len(s) /\ (\A i \in 1 .. m : s[i] = t[i]) /\ (m = Len(s) \/ s[m + 1] < t[m + 1])
  BY BeforeAt
<1>2. PICK n \in 0 .. Len(u) - 1 :
        n <= Len(t) /\ (\A i \in 1 .. n : t[i] = u[i]) /\ (n = Len(t) \/ t[n + 1] < u[n + 1])
  BY BeforeAt
<1>3. m \in Nat /\ n \in Nat /\ m < Len(t) /\ n < Len(u) /\ m <= Len(s) /\ n <= Len(t)
      /\ Len(s) \in Nat /\ Len(t) \in Nat /\ Len(u) \in Nat
  BY <1>1, <1>2
<1>4. \A i \in 1 .. m : s[i] = t[i]
  BY <1>1
<1>5. \A i \in 1 .. n : t[i] = u[i]
  BY <1>2
<1>6. CASE m < n
  <2>1. \A i \in 1 .. m : s[i] = u[i]
    BY <1>3, <1>4, <1>5, <1>6
  <2>2. t[m + 1] = u[m + 1]
    BY <1>3, <1>5, <1>6
  <2>3. m = Len(s) \/ s[m + 1] < u[m + 1]
    BY <1>1, <2>2
  <2>4. m \in 0 .. Len(u) - 1
    BY <1>3, <1>6
  <2> QED
    BY <1>3, <2>1, <2>3, <2>4, BeforeAt
<1>7. CASE n < m
  <2>1. \A i \in 1 .. n : s[i] = u[i]
    BY <1>3, <1>4, <1>5, <1>7
  <2>2. s[n + 1] = t[n + 1]
    BY <1>3, <1>4, <1>7
  <2>3. t[n + 1] < u[n + 1]
    BY <1>2, <1>3, <1>7
  <2>4. s[n + 1] < u[n + 1] /\ n <= Len(s)
    BY <1>3, <1>7, <2>2, <2>3
  <2> QED
    BY <2>1, <2>4, BeforeAt
<1>8. CASE m = n
  <2>1. \A i \in 1 .. n : s[i] = u[i]
    BY <1>4, <1>5, <1>8
  <2>2. t[n + 1] < u[n + 1]
    BY <1>2, <1>3, <1>8
  <2>3. n = Len(s) \/ s[n + 1] < t[n + 1]
    BY <1>1, <1>8
  <2>4. t[n + 1] \in Nat
    <3>1. n + 1 \in 1 .. Len(t)
      BY <1>3, <1>8
    <3> QED
      BY <3>1, ElementOfSeq
  <2>5. u[n + 1] \in Nat
    <3>1. n + 1 \in 1 .. Len(u)
      BY <1>3
    <3> QED
      BY <3>1, ElementOfSeq
  <2>6. n = Len(s) \/ s[n + 1] < u[n + 1]
    <3>1. CASE n # Len(s)
      <4>1. n + 1 \in 1 .. Len(s)
        BY <1>3, <1>8, <3>1
      <4>2. s[n + 1] \in Nat
        BY <4>1, ElementOfSeq
      <4>3. s[n + 1] < t[n + 1]
        BY <2>3, <3>1
      <4>4. \A x, y, z \in Nat : x < y /\ y < z => x < z
        OBVIOUS
      <4> QED
        BY <2>2, <2>4, <2>5, <4>2, <4>3, <4>4, Zenon
    <3> QED
      BY <3>1
  <2> QED
    BY <1>3, <1>8, <2>1, <2>6, BeforeAt
<1> QED
  BY <1>3, <1>6, <1>7, <1>8

\* A text is before another from the first place on at which they differ.
LEMMA BeforeFrom ==
  ASSUME NEW s \in Seq(Nat), NEW t \in Seq(Nat), NEW n \in 0 .. Len(t) - 1, n <= Len(s),
         \A i \in 1 .. n : s[i] = t[i], n = Len(s) \/ s[n + 1] < t[n + 1]
  PROVE  Before(s, t)
  BY BeforeAt

\* Of two texts one is before the other.
LEMMA BeforeTotal ==
  ASSUME NEW s \in Seq(Nat), NEW t \in Seq(Nat), s # t
  PROVE  Before(s, t) \/ Before(t, s)
<1>1. Len(s) \in Nat /\ Len(t) \in Nat
  OBVIOUS
<1> DEFINE Parts(n) == n = Len(s) \/ n = Len(t) \/ s[n + 1] # t[n + 1]
           T == {n \in Nat : Parts(n)}
<1>2. Len(s) \in T
  BY <1>1
<1>3. PICK n \in T : \A m \in T : n <= m
  BY <1>2, LeastNat
<1>4. n \in Nat /\ Parts(n) /\ \A m \in Nat : m < n => ~Parts(m)
  BY <1>3
<1>5. n <= Len(s) /\ n <= Len(t)
  BY <1>1, <1>4
<1>6. \A m \in Nat : m < n => s[m + 1] = t[m + 1]
  BY <1>4
<1>7. ASSUME NEW i \in 1 .. n PROVE s[i] = t[i]
  <2>1. i - 1 \in Nat /\ i - 1 < n /\ (i - 1) + 1 = i
    BY <1>4
  <2> QED
    BY <2>1, <1>6
<1>8. CASE n = Len(s) /\ n = Len(t)
  BY <1>7, <1>8, SeqEqual
<1>9. CASE n = Len(s) /\ n < Len(t)
  <2>1. n \in 0 .. Len(t) - 1
    BY <1>1, <1>4, <1>9
  <2>2. Before(s, t)
    BY <1>5, <1>7, <1>9, <2>1, BeforeFrom
  <2> QED
    BY <2>2
<1>10. CASE n < Len(s) /\ n = Len(t)
  <2>1. n \in 0 .. Len(s) - 1
    BY <1>1, <1>4, <1>10
  <2> QED
    BY <1>5, <1>7, <1>10, <2>1, BeforeFrom
<1>11. CASE n < Len(s) /\ n < Len(t)
  <2>1. n + 1 \in 1 .. Len(s) /\ n + 1 \in 1 .. Len(t)
    BY <1>1, <1>4, <1>11
  <2>2. s[n + 1] \in Nat /\ t[n + 1] \in Nat
    BY <2>1, ElementOfSeq
  <2>3. s[n + 1] # t[n + 1]
    BY <1>1, <1>4, <1>11
  <2>4. s[n + 1] < t[n + 1] \/ t[n + 1] < s[n + 1]
    BY <2>2, <2>3
  <2>5. n \in 0 .. Len(s) - 1 /\ n \in 0 .. Len(t) - 1
    BY <1>1, <1>4, <1>11
  <2>6. CASE s[n + 1] < t[n + 1]
    BY <1>5, <1>7, <2>5, <2>6, BeforeAt
  <2>7. CASE t[n + 1] < s[n + 1]
    BY <1>5, <1>7, <2>5, <2>7, BeforeAt
  <2> QED
    BY <2>4, <2>6, <2>7
<1> QED
  BY <1>1, <1>4, <1>5, <1>8, <1>9, <1>10, <1>11

\* The place of a key among the others is the number of those before it, so every
\* place is taken by one key: Sorted is the list newView builds.
LEMMA SortedLists ==
  ASSUME NEW S, IsFiniteSet(S), S \subseteq Seq(Nat)
  PROVE  /\ Cardinality(S) \in Nat
         /\ Sorted(S) \in [1 .. Cardinality(S) -> S]
         /\ \A k \in S : \E n \in 1 .. Cardinality(S) : Sorted(S)[n] = k
         /\ \A i, j \in 1 .. Cardinality(S) : i < j => Before(Sorted(S)[i], Sorted(S)[j])
<1> DEFINE N == Cardinality(S)
           Rank(k) == Cardinality(Below(S, k))
           rank == [k \in S |-> Rank(k)]
<1>1. N \in Nat
  BY FS_CardinalityType
<1>2. ASSUME NEW k \in S
      PROVE  /\ IsFiniteSet(Below(S, k)) /\ k \notin Below(S, k) /\ Below(S, k) \subseteq S
             /\ Rank(k) \in 0 .. N - 1
  <2>1. Below(S, k) \subseteq S /\ k \notin Below(S, k)
    BY BeforeIrreflexive DEF Below
  <2>2. IsFiniteSet(S \ {k}) /\ Cardinality(S \ {k}) = N - 1
    BY FS_RemoveElement
  <2>3. Below(S, k) \in SUBSET (S \ {k})
    BY <2>1
  <2>4. IsFiniteSet(Below(S, k)) /\ Rank(k) <= N - 1
    BY <2>2, <2>3, FS_Subset
  <2>5. Rank(k) \in Nat
    BY <2>4, FS_CardinalityType
  <2> QED
    BY <1>1, <2>1, <2>4, <2>5
<1>3. ASSUME NEW j \in S, NEW k \in S, Before(j, k) PROVE Rank(j) < Rank(k)
  <2>1. j \in Below(S, k)
    BY <1>3 DEF Below
  <2>2. Below(S, j) \subseteq Below(S, k) \ {j}
    <3>1. ASSUME NEW i \in Below(S, j) PROVE i \in Below(S, k) /\ i # j
      <4>1. i \in S /\ Before(i, j)
        BY DEF Below
      <4>2. i \in Seq(Nat) /\ j \in Seq(Nat) /\ k \in Seq(Nat)
        BY <4>1
      <4>3. Before(i, k) /\ i # j
        BY <1>3, <4>1, <4>2, BeforeTransitive, BeforeIrreflexive
      <4> QED
        BY <4>1, <4>3 DEF Below
    <3> QED
      BY <3>1
  <2>3. Cardinality(Below(S, k) \ {j}) = Rank(k) - 1 /\ IsFiniteSet(Below(S, k) \ {j})
    BY <1>2, <2>1, FS_RemoveElement
  <2>4. Rank(j) <= Rank(k) - 1
    BY <2>2, <2>3, FS_Subset
  <2>5. Rank(j) \in Nat /\ Rank(k) \in Nat
    BY <1>2, <1>1
  <2> QED
    BY <2>4, <2>5
<1>4. \A j, k \in S : Rank(j) = Rank(k) => j = k
  <2> SUFFICES ASSUME NEW j \in S, NEW k \in S, Rank(j) = Rank(k), j # k PROVE FALSE
    OBVIOUS
  <2>1. j \in Seq(Nat) /\ k \in Seq(Nat)
    OBVIOUS
  <2>2. Before(j, k) \/ Before(k, j)
    BY <2>1, BeforeTotal
  <2>3. Rank(j) < Rank(k) \/ Rank(k) < Rank(j)
    BY <1>3, <2>2
  <2>4. Rank(j) \in Nat /\ Rank(k) \in Nat
    BY <1>1, <1>2
  <2> QED
    BY <2>3, <2>4
<1>5. \A i \in 0 .. N - 1 : \E k \in S : Rank(k) = i
  <2>1. IsFiniteSet(0 .. N - 1) /\ Cardinality(0 .. N - 1) = N
    BY <1>1, FS_Interval
  <2>2. rank \in [S -> 0 .. N - 1] /\ \A k \in S : rank[k] = Rank(k)
    BY <1>2
  <2> HIDE DEF rank, Rank, N
  <2>3. rank \in Injection(S, 0 .. N - 1)
    BY <1>4, <2>2 DEF Injection, IsInjective
  <2>4. rank \in Surjection(S, 0 .. N - 1)
    BY <2>1, <2>3, FS_Injection DEF N
  <2> QED
    BY <2>2, <2>4 DEF Surjection
<1> DEFINE At(n) == CHOOSE k \in S : Rank(k) = n - 1
<1>6. Sorted(S) = [n \in 1 .. N |-> At(n)]
  BY DEF Sorted
<1>7. \A n \in 1 .. N : At(n) \in S /\ Rank(At(n)) = n - 1
  <2> SUFFICES ASSUME NEW n \in 1 .. N PROVE At(n) \in S /\ Rank(At(n)) = n - 1
    OBVIOUS
  <2>1. n - 1 \in 0 .. N - 1
    BY <1>1
  <2>2. \E k \in S : Rank(k) = n - 1
    BY <1>5, <2>1
  <2> HIDE DEF Rank
  <2> QED
    BY <2>2
<1> HIDE DEF At
<1>8. Sorted(S) \in [1 .. N -> S] /\ \A n \in 1 .. N : Sorted(S)[n] = At(n)
  BY <1>6, <1>7
<1>9. ASSUME NEW k \in S PROVE \E n \in 1 .. N : Sorted(S)[n] = k
  <2>1. Rank(k) + 1 \in 1 .. N /\ (Rank(k) + 1) - 1 = Rank(k)
    BY <1>1, <1>2
  <2>2. At(Rank(k) + 1) = k
    BY <1>4, <1>7, <2>1
  <2> QED
    BY <1>8, <2>1, <2>2
<1>10. ASSUME NEW i \in 1 .. N, NEW j \in 1 .. N, i < j PROVE Before(At(i), At(j))
  <2>1. At(i) \in S /\ At(j) \in S /\ Rank(At(i)) = i - 1 /\ Rank(At(j)) = j - 1
    BY <1>7
  <2>2. At(i) \in Seq(Nat) /\ At(j) \in Seq(Nat)
    BY <2>1
  <2>3. i - 1 # j - 1 /\ ~(j - 1 < i - 1)
    BY <1>1, <1>10
  <2>4. At(i) # At(j) /\ ~Before(At(j), At(i))
    BY <1>3, <2>1, <2>3
  <2> QED
    BY <2>2, <2>4, BeforeTotal
<1> QED
  BY <1>1, <1>8, <1>9, <1>10

(***************************************************************************)
(* Group's binary search.                                                  *)
(***************************************************************************)

\* The middle of two places.
LEMMA Middle ==
  ASSUME NEW lo \in Nat, NEW hi \in Nat, lo < hi
  PROVE  /\ (lo + hi) \div 2 \in Nat
         /\ lo <= (lo + hi) \div 2 /\ (lo + hi) \div 2 < hi
  OBVIOUS

\* The table of the search, by the equations it satisfies.
Searches(find, n, less) ==
    /\ Search(less) = find[<<0, n>>]
    /\ \A lo, hi \in 0 .. n : lo <= hi =>
         find[<<lo, hi>>] =
           IF lo = hi THEN lo
           ELSE IF less[((lo + hi) \div 2) + 1] THEN find[<<((lo + hi) \div 2) + 1, hi>>]
           ELSE find[<<lo, (lo + hi) \div 2>>]

LEMMA SearchTable ==
  ASSUME NEW n \in Nat, NEW less, Len(less) = n
  PROVE  \E find : Searches(find, n, less)
<1> DEFINE D == {r \in (0 .. n) \X (0 .. n) : r[1] <= r[2]}
           Mid(r) == (r[1] + r[2]) \div 2
           Body(g, r) == IF r[1] = r[2] THEN r[1]
                         ELSE IF less[Mid(r) + 1] THEN g[<<Mid(r) + 1, r[2]>>]
                         ELSE g[<<r[1], Mid(r)>>]
           table == CHOOSE find : find = [r \in D |-> Body(find, r)]
           rank == [r \in D |-> r[2] - r[1]]
           F == [g \in [D -> Nat] |-> [r \in D |-> Body(g, r)]]
<1>1. Search(less) = table[<<0, n>>]
  <2> DEFINE find0(m) == CHOOSE find : find = [r \in {q \in (0 .. m) \X (0 .. m) : q[1] <= q[2]} |-> Body(find, r)]
  <2>1. Search(less) = find0(Len(less))[<<0, Len(less)>>]
    BY Zenon DEF Search
  <2> QED
    BY <2>1, Zenon
<1>2. ASSUME NEW r \in D, r[1] # r[2]
      PROVE  /\ <<Mid(r) + 1, r[2]>> \in D /\ <<r[1], Mid(r)>> \in D
             /\ rank[<<Mid(r) + 1, r[2]>>] < rank[r] /\ rank[<<r[1], Mid(r)>>] < rank[r]
  <2>1. r[1] \in Nat /\ r[2] \in Nat /\ r[1] < r[2] /\ r[2] <= Len(less)
    BY <1>2
  <2>2. Mid(r) \in Nat /\ r[1] <= Mid(r) /\ Mid(r) < r[2]
    BY <2>1, Middle
  <2> HIDE DEF Mid
  <2>3. <<Mid(r) + 1, r[2]>> \in D /\ <<r[1], Mid(r)>> \in D
    BY <2>1, <2>2
  <2>4. /\ rank[<<Mid(r) + 1, r[2]>>] = r[2] - (Mid(r) + 1)
        /\ rank[<<r[1], Mid(r)>>] = Mid(r) - r[1]
        /\ rank[r] = r[2] - r[1]
    BY <2>3
  <2> HIDE DEF rank, D
  <2> QED
    BY <2>1, <2>2, <2>3, <2>4
<1>3. rank \in [D -> 0 .. n]
  <2>1. ASSUME NEW r \in D PROVE r[2] - r[1] \in 0 .. n
    OBVIOUS
  <2> QED
    BY <2>1
<1>4. \A r \in D : r[1] \in Nat
  OBVIOUS
<1> HIDE DEF D, rank, Mid
<1>5. ASSUME NEW g \in [D -> Nat], NEW r \in D PROVE Body(g, r) \in Nat
  <2>1. CASE r[1] = r[2]
    BY <1>4, <2>1
  <2>2. CASE r[1] # r[2]
    <3>1. g[<<Mid(r) + 1, r[2]>>] \in Nat /\ g[<<r[1], Mid(r)>>] \in Nat
      BY <1>2, <2>2
    <3> QED
      BY <2>2, <3>1
  <2> QED
    BY <2>1, <2>2
<1>6. ASSUME NEW g \in [D -> Nat], NEW h \in [D -> Nat], NEW r \in D,
             \A q \in D : rank[q] < rank[r] => g[q] = h[q]
      PROVE  Body(g, r) = Body(h, r)
  <2>1. CASE r[1] = r[2]
    BY <2>1
  <2>2. CASE r[1] # r[2]
    <3>1. /\ g[<<Mid(r) + 1, r[2]>>] = h[<<Mid(r) + 1, r[2]>>]
          /\ g[<<r[1], Mid(r)>>] = h[<<r[1], Mid(r)>>]
      BY <1>2, <1>6, <2>2
    <3> QED
      BY <2>2, <3>1
  <2> QED
    BY <2>1, <2>2
<1> HIDE DEF Body
<1>7. F \in [[D -> Nat] -> [D -> Nat]]
  BY <1>5
<1>8. \A g, h \in [D -> Nat], r \in D :
        (\A q \in D : rank[q] < rank[r] => g[q] = h[q]) => F[g][r] = F[h][r]
  BY <1>6
<1>9. \E find \in [D -> Nat] : F[find] = find
  <2> HIDE DEF F
  <2>1. Nat # {}
    OBVIOUS
  <2>2. Determines(F, D, Nat, rank, n)
    BY <1>3, <1>7, <1>8, <2>1, Zenon DEF Determines
  <2> QED
    BY <2>2, Recursion, Zenon
<1>10. \E find : find = [r \in D |-> Body(find, r)]
  BY <1>9
<1>11. table = [r \in D |-> Body(table, r)]
  BY <1>10, Zenon
<1> HIDE DEF table
<1>12. ASSUME NEW lo \in 0 .. n, NEW hi \in 0 .. n, lo <= hi
       PROVE  table[<<lo, hi>>] = Body(table, <<lo, hi>>)
  <2>1. <<lo, hi>> \in D
    BY <1>12 DEF D
  <2> QED
    BY <1>11, <2>1
<1>13. ASSUME NEW lo \in 0 .. n, NEW hi \in 0 .. n, lo <= hi
       PROVE  table[<<lo, hi>>] =
                IF lo = hi THEN lo
                ELSE IF less[((lo + hi) \div 2) + 1] THEN table[<<((lo + hi) \div 2) + 1, hi>>]
                ELSE table[<<lo, (lo + hi) \div 2>>]
  <2>1. Body(table, <<lo, hi>>) =
                IF lo = hi THEN lo
                ELSE IF less[((lo + hi) \div 2) + 1] THEN table[<<((lo + hi) \div 2) + 1, hi>>]
                ELSE table[<<lo, (lo + hi) \div 2>>]
    BY DEF Body, Mid
  <2> QED
    BY <1>12, <1>13, <2>1, Zenon
<1>14. Searches(table, n, less)
  BY <1>1, <1>13, Zenon DEF Searches
<1> QED
  BY <1>14

\* On flags of which none follows one that is not set, the search finds how many
\* are set.
LEMMA SearchFinds ==
  ASSUME NEW n \in Nat, NEW less \in [1 .. n -> BOOLEAN], Len(less) = n,
         \A i, j \in 1 .. n : i < j /\ less[j] => less[i]
  PROVE  /\ Search(less) \in 0 .. n
         /\ \A i \in 1 .. n : less[i] <=> i <= Search(less)
<1>0. PICK find : Searches(find, n, less)
  BY SearchTable
<1>1. /\ Search(less) = find[<<0, n>>]
      /\ \A lo, hi \in 0 .. n : lo <= hi =>
           find[<<lo, hi>>] =
             IF lo = hi THEN lo
             ELSE IF less[((lo + hi) \div 2) + 1] THEN find[<<((lo + hi) \div 2) + 1, hi>>]
             ELSE find[<<lo, (lo + hi) \div 2>>]
  BY <1>0, Zenon DEF Searches
<1> DEFINE Holds(r, lo, hi) == r \in lo .. hi /\ \A i \in lo + 1 .. hi : less[i] <=> i <= r
           Right(d) == \A lo, hi \in 0 .. n : lo <= hi /\ hi - lo <= d =>
                          Holds(find[<<lo, hi>>], lo, hi)
           T == {d \in Nat : Right(d)}
<1>2. ASSUME NEW lo \in 0 .. n PROVE Holds(find[<<lo, lo>>], lo, lo)
  <2>1. lo <= lo
    OBVIOUS
  <2>2. find[<<lo, lo>>] = lo
    BY <1>1, <2>1, Zenon
  <2> QED
    BY <2>2
<1>3. 0 \in T
  <2>1. ASSUME NEW lo \in 0 .. n, NEW hi \in 0 .. n, lo <= hi, hi - lo <= 0
        PROVE  Holds(find[<<lo, hi>>], lo, hi)
    <3>1. lo = hi
      BY <2>1
    <3> HIDE DEF Holds
    <3> QED
      BY <3>1, <1>2
  <2> QED
    BY <2>1
<1>4. ASSUME NEW d \in Nat, d \in T PROVE d + 1 \in T
  <2>1. ASSUME NEW lo \in 0 .. n, NEW hi \in 0 .. n, lo <= hi, hi - lo <= d + 1
        PROVE  Holds(find[<<lo, hi>>], lo, hi)
    <3> DEFINE mid == (lo + hi) \div 2
    <3>1. CASE lo = hi
      <4> HIDE DEF Holds
      <4> QED
        BY <3>1, <1>2
    <3>2. CASE lo # hi
      <4>1. mid \in Nat /\ lo <= mid /\ mid < hi
        BY <2>1, <3>2, Middle
      <4>2. find[<<lo, hi>>] = IF less[mid + 1] THEN find[<<mid + 1, hi>>] ELSE find[<<lo, mid>>]
        BY <1>1, <2>1, <3>2
      <4> HIDE DEF mid
      <4>3. mid \in 0 .. n /\ mid + 1 \in 0 .. n /\ mid + 1 \in 1 .. n
        BY <4>1
      <4>4. CASE less[mid + 1]
        <5>1. Holds(find[<<mid + 1, hi>>], mid + 1, hi)
          <6>1. mid + 1 <= hi /\ hi - (mid + 1) <= d
            BY <2>1, <4>1
          <6> HIDE DEF Holds
          <6> QED
            BY <1>4, <4>3, <6>1
        <5> DEFINE r == find[<<mid + 1, hi>>]
        <5>2. find[<<lo, hi>>] = r
          BY <4>2, <4>4
        <5> HIDE DEF r
        <5>3. r \in mid + 1 .. hi /\ \A i \in mid + 2 .. hi : less[i] <=> i <= r
          <6>1. r \in mid + 1 .. hi /\ \A i \in (mid + 1) + 1 .. hi : less[i] <=> i <= r
            BY <5>1, Zenon DEF r
          <6>2. (mid + 1) + 1 = mid + 2
            BY <4>1
          <6> QED
            BY <6>1, <6>2
        <5>4. ASSUME NEW i \in lo + 1 .. hi PROVE less[i] <=> i <= r
          <6>0. i \in 1 .. n /\ r \in Nat
            BY <4>1, <5>3
          <6>1. CASE i < mid + 1
            BY <4>3, <4>4, <5>3, <6>0, <6>1
          <6>2. CASE i = mid + 1
            BY <4>3, <4>4, <5>3, <6>0, <6>2
          <6>3. CASE i > mid + 1
            BY <4>3, <5>3, <6>0, <6>3
          <6> QED
            BY <4>1, <6>0, <6>1, <6>2, <6>3
        <5> QED
          BY <4>1, <5>2, <5>3, <5>4
      <4>5. CASE ~less[mid + 1]
        <5>1. Holds(find[<<lo, mid>>], lo, mid)
          <6>1. lo <= mid /\ mid - lo <= d
            BY <2>1, <4>1
          <6> HIDE DEF Holds
          <6> QED
            BY <1>4, <4>3, <6>1
        <5> DEFINE r == find[<<lo, mid>>]
        <5>2. find[<<lo, hi>>] = r
          BY <4>2, <4>5
        <5> HIDE DEF r
        <5>3. r \in lo .. mid /\ \A i \in lo + 1 .. mid : less[i] <=> i <= r
          BY <5>1, <4>1 DEF r
        <5>4. ASSUME NEW i \in lo + 1 .. hi PROVE less[i] <=> i <= r
          <6>0. i \in 1 .. n /\ r \in Nat
            BY <4>1, <5>3
          <6>1. CASE i < mid + 1
            BY <4>1, <5>3, <6>0, <6>1
          <6>2. CASE i = mid + 1
            BY <4>1, <4>5, <5>3, <6>0, <6>2
          <6>3. CASE i > mid + 1
            <7>1. ~less[i]
              BY <4>3, <4>5, <6>0, <6>3
            <7> QED
              BY <4>1, <5>3, <6>0, <6>3, <7>1
          <6> QED
            BY <4>1, <6>0, <6>1, <6>2, <6>3
        <5> QED
          BY <4>1, <5>2, <5>3, <5>4
      <4> QED
        BY <4>4, <4>5
    <3> QED
      BY <3>1, <3>2
  <2> QED
    BY <2>1
<1>5. n \in T
  <2> HIDE DEF T
  <2> QED
    BY <1>3, <1>4, SetInduction
<1>6. Holds(find[<<0, n>>], 0, n)
  <2>1. 0 \in 0 .. n /\ n \in 0 .. n /\ 0 <= n /\ n - 0 <= n
    OBVIOUS
  <2> HIDE DEF Holds
  <2> QED
    BY <1>5, <2>1
<1> DEFINE r == find[<<0, n>>]
<1>7. r \in 0 .. n /\ \A i \in 1 .. n : less[i] <=> i <= r
  BY <1>6
<1> HIDE DEF r
<1>8. Search(less) = r
  BY <1>1 DEF r
<1> QED
  BY <1>7, <1>8

\* A prefix is there byte by byte.
LEMMA HasPrefixAt ==
  ASSUME NEW k \in Seq(Nat), NEW p \in Seq(Nat)
  PROVE  HasPrefix(k, p) <=> Len(p) <= Len(k) /\ \A i \in 1 .. Len(p) : k[i] = p[i]
<1>1. ASSUME Len(p) <= Len(k)
      PROVE  SubSeq(p, 1, Len(p)) = SubSeq(k, 1, Len(p)) <=> \A i \in 1 .. Len(p) : k[i] = p[i]
  <2>1. /\ SubSeq(p, 1, Len(p)) = [i \in 1 .. Len(p) |-> p[i]]
        /\ SubSeq(k, 1, Len(p)) = [i \in 1 .. Len(p) |-> k[i]]
    BY <1>1
  <2> QED
    BY <2>1
<1> QED
  BY <1>1 DEF HasPrefix, IsPrefix

\* The keys with a prefix follow the keys before it at once.
LEMMA PrefixRun ==
  ASSUME NEW p \in Seq(Nat), NEW s \in Seq(Nat), NEW t \in Seq(Nat),
         Before(s, t), HasPrefix(t, p) \/ Before(t, p)
  PROVE  HasPrefix(s, p) \/ Before(s, p)
<1>1. CASE Before(t, p)
  BY <1>1, BeforeTransitive
<1>2. CASE HasPrefix(t, p) /\ Before(p, s)
  <2>1. PICK n \in 0 .. Len(s) - 1 :
          n <= Len(p) /\ (\A i \in 1 .. n : p[i] = s[i]) /\ (n = Len(p) \/ p[n + 1] < s[n + 1])
    BY <1>2, BeforeAt
  <2>2. Len(p) \in Nat /\ Len(s) \in Nat /\ Len(t) \in Nat /\ n \in Nat /\ n < Len(s) /\ n <= Len(p)
    BY <2>1
  <2>3. Len(p) <= Len(t) /\ \A i \in 1 .. Len(p) : t[i] = p[i]
    BY <1>2, HasPrefixAt
  <2>4. \A i \in 1 .. n : p[i] = s[i]
    BY <2>1
  <2>5. CASE n = Len(p)
    <3>1. Len(p) <= Len(s) /\ \A i \in 1 .. Len(p) : s[i] = p[i]
      BY <2>2, <2>4, <2>5
    <3> QED
      BY <3>1, HasPrefixAt
  <2>6. CASE n # Len(p)
    <3>1. n + 1 \in 1 .. Len(p) /\ n <= Len(t)
      BY <2>2, <2>3, <2>6
    <3>2. t[n + 1] = p[n + 1]
      BY <2>3, <3>1
    <3>3. p[n + 1] < s[n + 1]
      BY <2>1, <2>6
    <3>4. t[n + 1] < s[n + 1]
      BY <3>2, <3>3
    <3>5. \A i \in 1 .. n : t[i] = s[i]
      <4>1. \A i \in 1 .. n : i \in 1 .. Len(p)
        BY <2>2
      <4> QED
        BY <2>3, <2>4, <4>1
    <3>6. Before(t, s)
      BY <2>1, <3>1, <3>4, <3>5, BeforeAt
    <3>7. Before(s, s)
      BY <3>6, BeforeTransitive
    <3> QED
      BY <3>7, BeforeIrreflexive
  <2> QED
    BY <2>5, <2>6
<1>3. CASE s = p
  <2>1. Len(p) \in Nat
    OBVIOUS
  <2> QED
    BY <1>3, <2>1, HasPrefixAt
<1> QED
  BY <1>1, <1>2, <1>3, BeforeTotal

\* A key with a prefix is not before it.
LEMMA PrefixNotBefore ==
  ASSUME NEW p \in Seq(Nat), NEW k \in Seq(Nat), HasPrefix(k, p)
  PROVE  ~Before(k, p)
<1> SUFFICES ASSUME Before(k, p) PROVE FALSE
  OBVIOUS
<1>1. PICK n \in 0 .. Len(p) - 1 :
        n <= Len(k) /\ (\A i \in 1 .. n : k[i] = p[i]) /\ (n = Len(k) \/ k[n + 1] < p[n + 1])
  BY BeforeAt
<1>2. Len(p) <= Len(k) /\ \A i \in 1 .. Len(p) : k[i] = p[i]
  BY HasPrefixAt
<1>3. Len(p) \in Nat /\ Len(k) \in Nat /\ n < Len(p) /\ n + 1 \in 1 .. Len(p) /\ n \in Nat
  BY <1>1
<1>4. k[n + 1] < p[n + 1] /\ k[n + 1] = p[n + 1]
  BY <1>1, <1>2, <1>3
<1>5. p[n + 1] \in Nat
  BY <1>3, ElementOfSeq
<1> QED
  BY <1>4, <1>5

\* What is left of a key without its prefix, as strings.TrimPrefix.
LEMMA Rest ==
  ASSUME NEW p \in Seq(Nat), NEW k \in Seq(Nat), HasPrefix(k, p)
  PROVE  LET rest == SubSeq(k, Len(p) + 1, Len(k))
         IN  /\ rest \in Seq(Nat) /\ Len(rest) = Len(k) - Len(p)
             /\ \A i \in 1 .. Len(k) - Len(p) : rest[i] = k[Len(p) + i]
             /\ p \o rest = k
<1> DEFINE rest == SubSeq(k, Len(p) + 1, Len(k))
<1>1. Len(p) \in Nat /\ Len(k) \in Nat
  OBVIOUS
<1>2. Len(p) <= Len(k) /\ \A i \in 1 .. Len(p) : k[i] = p[i]
  BY HasPrefixAt
<1>3. \A i \in Len(p) + 1 .. Len(k) : k[i] \in Nat
  <2>1. \A i \in Len(p) + 1 .. Len(k) : i \in 1 .. Len(k)
    BY <1>1
  <2> QED
    BY <2>1, ElementOfSeq
<1>4. /\ rest \in Seq(Nat)
      /\ Len(rest) = IF Len(p) + 1 <= Len(k) THEN Len(k) - (Len(p) + 1) + 1 ELSE 0
      /\ \A i \in 1 .. Len(k) - (Len(p) + 1) + 1 : rest[i] = k[(Len(p) + 1) + i - 1]
  <2>1. Len(p) + 1 \in Int /\ Len(k) \in Int
    BY <1>1
  <2> DEFINE m == Len(p) + 1
             n == Len(k)
  <2>2. m \in Int /\ n \in Int /\ \A i \in m .. n : k[i] \in Nat
    BY <1>3, <2>1
  <2> HIDE DEF m, n
  <2>3. /\ SubSeq(k, m, n) \in Seq(Nat)
        /\ Len(SubSeq(k, m, n)) = IF m <= n THEN n - m + 1 ELSE 0
        /\ \A i \in 1 .. n - m + 1 : SubSeq(k, m, n)[i] = k[m + i - 1]
    BY <2>2, SubSeqProperties
  <2> QED
    BY <2>3 DEF m, n
<1> HIDE DEF rest
<1>5. Len(rest) = Len(k) - Len(p) /\ \A i \in 1 .. Len(k) - Len(p) : rest[i] = k[Len(p) + i]
  <2>1. Len(rest) = Len(k) - Len(p)
    BY <1>1, <1>2, <1>4
  <2>2. ASSUME NEW i \in 1 .. Len(k) - Len(p) PROVE rest[i] = k[Len(p) + i]
    <3>1. i \in 1 .. Len(k) - (Len(p) + 1) + 1 /\ (Len(p) + 1) + i - 1 = Len(p) + i
      BY <1>1
    <3> QED
      BY <1>4, <3>1
  <2> QED
    BY <2>1, <2>2
<1>6. p \o rest = k
  <2>1. /\ p \o rest \in Seq(Nat)
        /\ Len(p \o rest) = Len(p) + Len(rest)
        /\ \A i \in 1 .. Len(p) + Len(rest) :
             (p \o rest)[i] = IF i <= Len(p) THEN p[i] ELSE rest[i - Len(p)]
    BY <1>4, ConcatProperties, Zenon
  <2>2. Len(p \o rest) = Len(k)
    BY <1>1, <1>5, <2>1
  <2>3. ASSUME NEW i \in 1 .. Len(k) PROVE (p \o rest)[i] = k[i]
    <3>1. i \in 1 .. Len(p) + Len(rest)
      BY <1>1, <1>5
    <3>2. (p \o rest)[i] = IF i <= Len(p) THEN p[i] ELSE rest[i - Len(p)]
      BY <2>1, <3>1
    <3>3. CASE i <= Len(p)
      <4>1. i \in 1 .. Len(p)
        BY <1>1, <3>3
      <4> QED
        BY <1>2, <3>2, <3>3, <4>1
    <3>4. CASE ~(i <= Len(p))
      <4>1. i - Len(p) \in 1 .. Len(k) - Len(p) /\ Len(p) + (i - Len(p)) = i
        BY <1>1, <3>4
      <4>2. rest[i - Len(p)] = k[i]
        BY <1>5, <4>1
      <4> QED
        BY <3>2, <3>4, <4>2
    <3> QED
      BY <3>3, <3>4
  <2> QED
    BY <2>1, <2>2, <2>3, SeqEqual
<1> QED
  BY <1>4, <1>5, <1>6 DEF rest

\* The keys prefixRange returns are those with the prefix.
LEMMA RangeIsRun ==
  ASSUME NEW v, NEW n \in Nat, v.keys \in [1 .. n -> Seq(Nat)],
         \A i, j \in 1 .. n : i < j => Before(v.keys[i], v.keys[j]),
         NEW p \in Seq(Nat)
  PROVE  LET range == PrefixRange(v, p)
         IN  /\ range.lo \in 0 .. n /\ range.hi \in 0 .. n /\ range.lo <= range.hi
             /\ \A i \in 1 .. n : HasPrefix(v.keys[i], p) <=> range.lo < i /\ i <= range.hi
<1> DEFINE less == [i \in 1 .. n |-> Before(v.keys[i], p)]
           upTo == [i \in 1 .. n |-> HasPrefix(v.keys[i], p) \/ Before(v.keys[i], p)]
<1>1. DOMAIN v.keys = 1 .. n /\ \A i \in 1 .. n : v.keys[i] \in Seq(Nat)
  OBVIOUS
<1>2. PrefixRange(v, p).lo = Search(less) /\ PrefixRange(v, p).hi = Search(upTo)
  BY <1>1 DEF PrefixRange
<1>3. less \in [1 .. n -> BOOLEAN] /\ upTo \in [1 .. n -> BOOLEAN]
  BY DEF Before, HasPrefix, IsPrefix
<1>4. Len(less) = n /\ Len(upTo) = n
  BY <1>3
<1>5. \A i, j \in 1 .. n : i < j /\ less[j] => less[i]
  <2>1. ASSUME NEW i \in 1 .. n, NEW j \in 1 .. n, i < j, Before(v.keys[j], p)
        PROVE  Before(v.keys[i], p)
    BY <1>1, <2>1, BeforeTransitive
  <2> QED
    BY <2>1
<1>6. \A i, j \in 1 .. n : i < j /\ upTo[j] => upTo[i]
  <2>1. ASSUME NEW i \in 1 .. n, NEW j \in 1 .. n, i < j,
               HasPrefix(v.keys[j], p) \/ Before(v.keys[j], p)
        PROVE  HasPrefix(v.keys[i], p) \/ Before(v.keys[i], p)
    BY <1>1, <2>1, PrefixRun
  <2> QED
    BY <2>1
<1>7. \A i \in 1 .. n : HasPrefix(v.keys[i], p) => ~Before(v.keys[i], p)
  BY <1>1, PrefixNotBefore
<1>8. \A i \in 1 .. n : /\ less[i] <=> Before(v.keys[i], p)
                        /\ upTo[i] <=> HasPrefix(v.keys[i], p) \/ Before(v.keys[i], p)
  OBVIOUS
<1> HIDE DEF less, upTo
<1> DEFINE lo == Search(less)
           hi == Search(upTo)
<1>9. lo \in 0 .. n /\ \A i \in 1 .. n : less[i] <=> i <= lo
  BY <1>3, <1>4, <1>5, SearchFinds
<1>10. hi \in 0 .. n /\ \A i \in 1 .. n : upTo[i] <=> i <= hi
  BY <1>3, <1>4, <1>6, SearchFinds
<1> HIDE DEF lo, hi
<1>11. lo <= hi
  <2> SUFFICES ASSUME hi < lo PROVE FALSE
    BY <1>9, <1>10
  <2>1. lo \in 1 .. n
    BY <1>9, <1>10
  <2>2. less[lo] /\ ~upTo[lo]
    BY <1>9, <1>10, <2>1
  <2> QED
    BY <1>8, <2>1, <2>2
<1>12. \A i \in 1 .. n : HasPrefix(v.keys[i], p) <=> lo < i /\ i <= hi
  <2> SUFFICES ASSUME NEW i \in 1 .. n PROVE HasPrefix(v.keys[i], p) <=> lo < i /\ i <= hi
    OBVIOUS
  <2>1. HasPrefix(v.keys[i], p) <=> upTo[i] /\ ~less[i]
    BY <1>7, <1>8
  <2>2. (upTo[i] <=> i <= hi) /\ (less[i] <=> i <= lo)
    BY <1>9, <1>10
  <2>3. ~(i <= lo) <=> lo < i
    BY <1>9
  <2> QED
    BY <2>1, <2>2, <2>3
<1> QED
  BY <1>2, <1>9, <1>10, <1>11, <1>12 DEF lo, hi

\* Two keys with a prefix are in the order of what follows it.
LEMMA RestsInOrder ==
  ASSUME NEW p \in Seq(Nat), NEW s \in Seq(Nat), NEW t \in Seq(Nat),
         HasPrefix(s, p), HasPrefix(t, p), Before(s, t)
  PROVE  Before(SubSeq(s, Len(p) + 1, Len(s)), SubSeq(t, Len(p) + 1, Len(t)))
<1> DEFINE rs == SubSeq(s, Len(p) + 1, Len(s))
           rt == SubSeq(t, Len(p) + 1, Len(t))
           q == Len(p)
<1>1. /\ rs \in Seq(Nat) /\ Len(rs) = Len(s) - q /\ \A i \in 1 .. Len(s) - q : rs[i] = s[q + i]
      /\ rt \in Seq(Nat) /\ Len(rt) = Len(t) - q /\ \A i \in 1 .. Len(t) - q : rt[i] = t[q + i]
  BY Rest
<1> HIDE DEF rs, rt
<1>2. PICK n \in 0 .. Len(t) - 1 :
        n <= Len(s) /\ (\A i \in 1 .. n : s[i] = t[i]) /\ (n = Len(s) \/ s[n + 1] < t[n + 1])
  BY BeforeAt
<1>3. /\ Len(p) <= Len(s) /\ \A i \in 1 .. Len(p) : s[i] = p[i]
      /\ Len(p) <= Len(t) /\ \A i \in 1 .. Len(p) : t[i] = p[i]
  BY HasPrefixAt
<1>4. q \in Nat /\ Len(s) \in Nat /\ Len(t) \in Nat /\ n \in Nat /\ n < Len(t) /\ n <= Len(s)
      /\ q <= Len(s) /\ q <= Len(t)
  BY <1>2, <1>3
<1>5. q <= n
  <2> SUFFICES ASSUME n < q PROVE FALSE
    BY <1>4
  <2>1. n + 1 \in 1 .. Len(p) /\ n # Len(s)
    BY <1>4
  <2>2. s[n + 1] = p[n + 1] /\ t[n + 1] = p[n + 1] /\ s[n + 1] < t[n + 1]
    BY <1>2, <1>3, <2>1
  <2>3. p[n + 1] \in Nat
    BY <2>1, ElementOfSeq
  <2> QED
    BY <2>2, <2>3
<1> HIDE DEF q
<1>6. n - q \in 0 .. Len(rt) - 1 /\ n - q <= Len(rs)
  BY <1>1, <1>4, <1>5
<1>7. ASSUME NEW i \in 1 .. n - q PROVE rs[i] = rt[i]
  <2>1. i \in 1 .. Len(s) - q /\ i \in 1 .. Len(t) - q /\ q + i \in 1 .. n
    BY <1>4, <1>5
  <2> QED
    BY <1>1, <1>2, <2>1
<1>8. n - q = Len(rs) \/ rs[(n - q) + 1] < rt[(n - q) + 1]
  <2>1. CASE n = Len(s)
    BY <1>1, <2>1
  <2>2. CASE n # Len(s)
    <3>1. /\ (n - q) + 1 \in 1 .. Len(s) - q /\ (n - q) + 1 \in 1 .. Len(t) - q
          /\ q + ((n - q) + 1) = n + 1
      BY <1>4, <1>5, <2>2
    <3>2. rs[(n - q) + 1] = s[n + 1] /\ rt[(n - q) + 1] = t[n + 1]
      <4> DEFINE i == (n - q) + 1
      <4>1. i \in 1 .. Len(s) - q /\ i \in 1 .. Len(t) - q /\ q + i = n + 1
        BY <3>1
      <4> HIDE DEF i
      <4>2. rs[i] = s[q + i] /\ rt[i] = t[q + i]
        BY <1>1, <4>1
      <4> QED
        BY <4>1, <4>2 DEF i
    <3>3. s[n + 1] < t[n + 1]
      BY <1>2, <2>2
    <3> QED
      BY <3>2, <3>3
  <2> QED
    BY <2>1, <2>2
<1>9. Before(rs, rt)
  BY <1>1, <1>6, <1>7, <1>8, BeforeAt
<1> QED
  BY <1>9 DEF rs, rt, q

(***************************************************************************)
(* Views.                                                                  *)
(***************************************************************************)

\* A view as newView and emptyView make it: every config has a value, and the
\* keys are listed in order.
IsView(v) ==
    /\ v.revision \in -1 .. MaxRevision
    /\ DOMAIN v.byKey \subseteq Keys
    /\ v.byKey \in [DOMAIN v.byKey -> Values]
    /\ v.keys = Sorted(DOMAIN v.byKey)

\* A key is a text of numbers.
LEMMA KeysAreNumbers == IsFiniteSet(Keys) /\ Keys \subseteq Seq(Nat)
  BY ViewAssumption, TextIsNumbers DEF ViewAssumption

\* The keys of a view are its configs', each once and in order.
LEMMA ViewKeys ==
  ASSUME NEW v, IsView(v)
  PROVE  \E n \in Nat :
           /\ v.keys \in [1 .. n -> DOMAIN v.byKey] /\ v.keys \in [1 .. n -> Seq(Nat)]
           /\ \A k \in DOMAIN v.byKey : \E i \in 1 .. n : v.keys[i] = k
           /\ \A i, j \in 1 .. n : i < j => Before(v.keys[i], v.keys[j])
<1> DEFINE S == DOMAIN v.byKey
           n == Cardinality(S)
<1>1. S \subseteq Keys /\ v.keys = Sorted(S)
  BY DEF IsView
<1> HIDE DEF S
<1>2. IsFiniteSet(S) /\ S \subseteq Seq(Nat)
  BY <1>1, KeysAreNumbers, FS_Subset
<1>3. /\ n \in Nat
      /\ Sorted(S) \in [1 .. n -> S]
      /\ \A k \in S : \E i \in 1 .. n : Sorted(S)[i] = k
      /\ \A i, j \in 1 .. n : i < j => Before(Sorted(S)[i], Sorted(S)[j])
  BY <1>2, SortedLists
<1> HIDE DEF n
<1>4. v.keys \in [1 .. n -> Seq(Nat)]
  BY <1>1, <1>2, <1>3
<1>5. /\ v.keys \in [1 .. n -> S]
      /\ \A k \in S : \E i \in 1 .. n : v.keys[i] = k
      /\ \A i, j \in 1 .. n : i < j => Before(v.keys[i], v.keys[j])
  BY <1>1, <1>3
<1>6. \E m \in Nat :
        /\ v.keys \in [1 .. m -> S] /\ v.keys \in [1 .. m -> Seq(Nat)]
        /\ \A k \in S : \E i \in 1 .. m : v.keys[i] = k
        /\ \A i, j \in 1 .. m : i < j => Before(v.keys[i], v.keys[j])
  BY <1>3, <1>4, <1>5
<1> QED
  BY <1>6 DEF S

\* The keys of a group are those of its view under its prefix, each once and in
\* order, and each leads back to its config.
LEMMA GroupOfView ==
  ASSUME NEW v, IsView(v), NEW p \in Seq(Nat)
  PROVE  LET ks == GroupKeys(v, p)
         IN  /\ {p \o ks[n] : n \in DOMAIN ks} = {k \in DOMAIN v.byKey : HasPrefix(k, p)}
             /\ \A n \in DOMAIN ks : Raw(v, p \o ks[n]) # Absent
             /\ \A n \in 2 .. Len(ks) : Before(ks[n - 1], ks[n])
<1>1. PICK N \in Nat :
        /\ v.keys \in [1 .. N -> DOMAIN v.byKey] /\ v.keys \in [1 .. N -> Seq(Nat)]
        /\ \A k \in DOMAIN v.byKey : \E i \in 1 .. N : v.keys[i] = k
        /\ \A i, j \in 1 .. N : i < j => Before(v.keys[i], v.keys[j])
  BY ViewKeys
<1> DEFINE lo == PrefixRange(v, p).lo
           hi == PrefixRange(v, p).hi
           rest(k) == SubSeq(k, Len(p) + 1, Len(k))
           ks == GroupKeys(v, p)
<1>2. /\ lo \in 0 .. N /\ hi \in 0 .. N /\ lo <= hi
      /\ \A i \in 1 .. N : HasPrefix(v.keys[i], p) <=> lo < i /\ i <= hi
  BY <1>1, RangeIsRun
<1>3. ks = [n \in 1 .. hi - lo |-> rest(v.keys[lo + n])]
  BY DEF GroupKeys
<1> HIDE DEF lo, hi, ks
<1>4. hi - lo \in Nat /\ DOMAIN ks = 1 .. hi - lo /\ Len(ks) = hi - lo
      /\ \A n \in 1 .. hi - lo : ks[n] = rest(v.keys[lo + n])
  BY <1>2, <1>3
<1>5. ASSUME NEW n \in 1 .. hi - lo
      PROVE  /\ lo + n \in 1 .. N /\ v.keys[lo + n] \in DOMAIN v.byKey
             /\ v.keys[lo + n] \in Seq(Nat) /\ HasPrefix(v.keys[lo + n], p)
             /\ p \o ks[n] = v.keys[lo + n]
  <2>1. lo + n \in 1 .. N /\ lo < lo + n /\ lo + n <= hi
    BY <1>2
  <2>2. /\ v.keys[lo + n] \in DOMAIN v.byKey /\ v.keys[lo + n] \in Seq(Nat)
        /\ HasPrefix(v.keys[lo + n], p)
    BY <1>1, <1>2, <2>1
  <2>3. p \o rest(v.keys[lo + n]) = v.keys[lo + n]
    BY <2>2, Rest
  <2> HIDE DEF rest
  <2> QED
    BY <1>4, <2>1, <2>2, <2>3
<1>6. {p \o ks[n] : n \in DOMAIN ks} = {k \in DOMAIN v.byKey : HasPrefix(k, p)}
  <2>1. ASSUME NEW n \in DOMAIN ks
        PROVE  p \o ks[n] \in {k \in DOMAIN v.byKey : HasPrefix(k, p)}
    BY <1>4, <1>5
  <2>2. ASSUME NEW k \in DOMAIN v.byKey, HasPrefix(k, p)
        PROVE  \E n \in DOMAIN ks : p \o ks[n] = k
    <3>1. PICK i \in 1 .. N : v.keys[i] = k
      BY <1>1
    <3>2. lo < i /\ i <= hi
      BY <1>2, <2>2, <3>1
    <3>3. i - lo \in 1 .. hi - lo /\ lo + (i - lo) = i
      BY <1>2, <3>2
    <3> QED
      BY <1>4, <1>5, <3>1, <3>3
  <2> QED
    BY <2>1, <2>2
<1>7. ASSUME NEW n \in DOMAIN ks PROVE Raw(v, p \o ks[n]) # Absent
  <2>1. p \o ks[n] \in DOMAIN v.byKey
    BY <1>4, <1>5
  <2>2. v.byKey[p \o ks[n]] \in Values
    BY <2>1 DEF IsView
  <2> QED
    BY <2>1, <2>2, ViewAssumption DEF Raw, ViewAssumption
<1>8. ASSUME NEW n \in 2 .. Len(ks) PROVE Before(ks[n - 1], ks[n])
  <2>1. n \in 1 .. hi - lo /\ n - 1 \in 1 .. hi - lo /\ lo + (n - 1) < lo + n
    BY <1>2, <1>4
  <2>2. Before(v.keys[lo + (n - 1)], v.keys[lo + n])
    BY <1>1, <1>5, <2>1
  <2>3. Before(rest(v.keys[lo + (n - 1)]), rest(v.keys[lo + n]))
    BY <1>5, <2>1, <2>2, RestsInOrder
  <2> HIDE DEF rest
  <2> QED
    BY <1>4, <2>1, <2>3
<1> QED
  BY <1>6, <1>7, <1>8 DEF ks

(***************************************************************************)
(* Prefixes as patterns of LIKE.                                           *)
(***************************************************************************)

\* FlattenSeq joins its sequences one after the other.
LEMMA FlattenTable ==
  ASSUME NEW S, NEW seqs \in Seq(Seq(S))
  PROVE  \E flat :
           /\ FlattenSeq(seqs) = flat[Len(seqs)] /\ flat[0] = <<>>
           /\ \A i \in 0 .. Len(seqs) : flat[i] \in Seq(S)
           /\ \A i \in 1 .. Len(seqs) : flat[i] = flat[i - 1] \o seqs[i]
<1> DEFINE n == Len(seqs)
           D == 1 .. n
           V == Seq(S)
           Body(g, i) == IF i = 1 THEN seqs[i] ELSE g[i - 1] \o seqs[i]
           table == CHOOSE flatten : flatten = [i \in D |-> Body(flatten, i)]
           rank == [i \in D |-> i]
           F == [g \in [D -> V] |-> [i \in D |-> Body(g, i)]]
<1>1. n \in Nat
  OBVIOUS
<1>2. \A i \in D : seqs[i] \in V
  BY ElementOfSeq
<1>3. rank \in [D -> 0 .. n] /\ \A i \in D : rank[i] = i
  BY <1>1
<1>4. FlattenSeq(seqs) = IF n = 0 THEN seqs ELSE table[n]
  BY Zenon DEF FlattenSeq
<1>5. \A i \in D : i \in Nat /\ (i # 1 => i - 1 \in D)
  BY <1>1
<1> HIDE DEF rank, n, D
<1>6. ASSUME NEW g \in [D -> V], NEW i \in D PROVE Body(g, i) \in V
  <2>1. CASE i = 1
    BY <1>2, <2>1
  <2>2. CASE i # 1
    <3>1. g[i - 1] \in V /\ seqs[i] \in V
      BY <1>2, <1>5, <2>2
    <3>2. g[i - 1] \o seqs[i] \in V
      BY <3>1, ConcatProperties
    <3> QED
      BY <2>2, <3>2
  <2> QED
    BY <2>1, <2>2
<1>7. ASSUME NEW g \in [D -> V], NEW h \in [D -> V], NEW i \in D,
             \A j \in D : rank[j] < rank[i] => g[j] = h[j]
      PROVE  Body(g, i) = Body(h, i)
  <2>1. CASE i = 1
    BY <2>1
  <2>2. CASE i # 1
    <3>1. i - 1 \in D /\ rank[i - 1] < rank[i]
      BY <1>3, <1>5, <2>2
    <3>2. g[i - 1] = h[i - 1]
      BY <1>7, <3>1
    <3> QED
      BY <2>2, <3>2
  <2> QED
    BY <2>1, <2>2
<1> HIDE DEF Body, V
<1>8. F \in [[D -> V] -> [D -> V]]
  BY <1>6
<1>9. \A g, h \in [D -> V], i \in D :
        (\A j \in D : rank[j] < rank[i] => g[j] = h[j]) => F[g][i] = F[h][i]
  BY <1>7
<1>10. V # {}
  BY EmptySeq DEF V
<1>11. \E flatten \in [D -> V] : F[flatten] = flatten
  <2> HIDE DEF F
  <2>1. Determines(F, D, V, rank, n)
    BY <1>1, <1>3, <1>8, <1>9, <1>10, Zenon DEF Determines
  <2> QED
    BY <2>1, Recursion, Zenon
<1>12. \E flatten : flatten = [i \in D |-> Body(flatten, i)]
  BY <1>11
<1>13. table = [i \in D |-> Body(table, i)]
  BY <1>12, Zenon
<1> HIDE DEF table
<1>14. \A i \in D : table[i] = IF i = 1 THEN seqs[i] ELSE table[i - 1] \o seqs[i]
  BY <1>13 DEF Body
<1> DEFINE flat == [i \in 0 .. n |-> IF i = 0 THEN <<>> ELSE table[i]]
<1>15. flat[0] = <<>> /\ \A i \in D : flat[i] = table[i]
  BY <1>1 DEF D
<1>16. FlattenSeq(seqs) = flat[n]
  <2>1. CASE n = 0
    <3>1. seqs = <<>>
      BY <2>1, EmptySeq DEF n
    <3> QED
      BY <1>4, <1>15, <2>1, <3>1
  <2>2. CASE n # 0
    BY <1>1, <1>4, <1>15, <2>2 DEF D
  <2> QED
    BY <2>1, <2>2
<1> HIDE DEF flat
<1>17. \A i \in 1 .. n : flat[i] = flat[i - 1] \o seqs[i]
  <2> SUFFICES ASSUME NEW i \in 1 .. n PROVE flat[i] = flat[i - 1] \o seqs[i]
    OBVIOUS
  <2>1. i \in D /\ seqs[i] \in Seq(S)
    BY <1>2 DEF D, V
  <2>2. CASE i = 1
    <3>1. flat[i] = seqs[i] /\ flat[i - 1] = <<>>
      BY <1>14, <1>15, <2>1, <2>2
    <3>2. <<>> \o seqs[i] = seqs[i]
      BY <2>1, ConcatEmptySeq
    <3> QED
      BY <3>1, <3>2
  <2>3. CASE i # 1
    <3>1. i - 1 \in D
      BY <1>5, <2>1, <2>3
    <3> QED
      BY <1>14, <1>15, <2>1, <2>3, <3>1
  <2> QED
    BY <2>2, <2>3
<1> DEFINE T == {i \in Nat : i <= n => flat[i] \in Seq(S)}
<1>18. Nat \subseteq T
  <2>1. 0 \in T
    BY <1>15, EmptySeq
  <2>2. ASSUME NEW i \in Nat, i \in T PROVE i + 1 \in T
    <3> SUFFICES ASSUME i + 1 <= n PROVE flat[i + 1] \in Seq(S)
      OBVIOUS
    <3>1. i + 1 \in 1 .. n /\ i <= n /\ (i + 1) - 1 = i
      BY <1>1
    <3>2. flat[i] \in Seq(S) /\ seqs[i + 1] \in Seq(S)
      BY <1>2, <2>2, <3>1 DEF D, V
    <3>3. flat[i + 1] = flat[i] \o seqs[i + 1]
      BY <1>17, <3>1
    <3> QED
      BY <3>2, <3>3, ConcatProperties
  <2> HIDE DEF T
  <2> QED
    BY <2>1, <2>2, SetInduction
<1>19. \A i \in 0 .. n : flat[i] \in Seq(S)
  BY <1>1, <1>18
<1> QED
  <2> WITNESS flat
  <2> QED
    BY <1>15, <1>16, <1>17, <1>19 DEF n

\* The bytes LIKE would take for something else.
Special == {Percent, Underscore, Backslash}

\* Where the n-th byte of a prefix is in its pattern, with its escape character.
AtPlace(pattern, q, b, next) ==
    IF b \in Special
    THEN pattern[q] = Backslash /\ pattern[q + 1] = b /\ next = q + 2
    ELSE pattern[q] = b /\ next = q + 1

\* The pattern of a prefix: its bytes, escaped where they have a meaning, and a
\* wildcard.
LEMMA Escaped ==
  ASSUME NEW p \in Seq(Nat)
  PROVE  \E q \in [0 .. Len(p) -> Nat] :
           /\ LikePrefix(p) \in Seq(Nat) /\ q[0] = 1 /\ q[Len(p)] = Len(LikePrefix(p))
           /\ LikePrefix(p)[Len(LikePrefix(p))] = Percent
           /\ \A n \in 1 .. Len(p) :
                q[n] <= Len(LikePrefix(p)) /\ AtPlace(LikePrefix(p), q[n - 1], p[n], q[n])
<1> DEFINE m == Len(p)
           code(n) == IF p[n] \in Special THEN <<Backslash, p[n]>> ELSE <<p[n]>>
           codes == [n \in 1 .. m |-> code(n)]
           pattern == LikePrefix(p)
<1>1. m \in Nat /\ \A n \in 1 .. m : p[n] \in Nat
  BY ElementOfSeq
<1>2. Percent \in Nat /\ Backslash \in Nat
  BY DEF Percent, Backslash
<1>3. ASSUME NEW n \in 1 .. m
      PROVE  /\ code(n) \in Seq(Nat)
             /\ p[n] \in Special =>
                  Len(code(n)) = 2 /\ code(n)[1] = Backslash /\ code(n)[2] = p[n]
             /\ p[n] \notin Special => Len(code(n)) = 1 /\ code(n)[1] = p[n]
  <2>1. p[n] \in Nat
    BY <1>1
  <2> HIDE DEF m
  <2>2. CASE p[n] \in Special
    BY <1>2, <2>1, <2>2
  <2>3. CASE p[n] \notin Special
    BY <2>1, <2>3
  <2> QED
    BY <2>2, <2>3
<1> HIDE DEF code
<1>4. codes \in Seq(Seq(Nat)) /\ Len(codes) = m /\ \A n \in 1 .. m : codes[n] = code(n)
  <2>1. codes \in [1 .. m -> Seq(Nat)]
    BY <1>3
  <2> QED
    BY <1>1, <2>1
<1>5. pattern = FlattenSeq(codes) \o <<Percent>>
  BY DEF LikePrefix, code, Special
<1> HIDE DEF codes
<1>6. PICK flat :
        /\ FlattenSeq(codes) = flat[m] /\ flat[0] = <<>>
        /\ \A i \in 0 .. m : flat[i] \in Seq(Nat)
        /\ \A i \in 1 .. m : flat[i] = flat[i - 1] \o codes[i]
  <2>1. codes \in Seq(Seq(Nat)) /\ Len(codes) = m
    BY <1>4
  <2>2. \E flat :
          /\ FlattenSeq(codes) = flat[Len(codes)] /\ flat[0] = <<>>
          /\ \A i \in 0 .. Len(codes) : flat[i] \in Seq(Nat)
          /\ \A i \in 1 .. Len(codes) : flat[i] = flat[i - 1] \o codes[i]
    BY <2>1, FlattenTable, Zenon
  <2> HIDE DEF m
  <2> QED
    BY <2>1, <2>2, Zenon
<1> HIDE DEF m
<1>7. ASSUME NEW n \in 1 .. m
      PROVE  /\ Len(flat[n]) = Len(flat[n - 1]) + Len(code(n))
             /\ \A x \in 1 .. Len(flat[n - 1]) : flat[n][x] = flat[n - 1][x]
             /\ \A y \in 1 .. Len(code(n)) : flat[n][Len(flat[n - 1]) + y] = code(n)[y]
  <2>1. flat[n - 1] \in Seq(Nat) /\ code(n) \in Seq(Nat) /\ flat[n] = flat[n - 1] \o code(n)
    <3>1. n - 1 \in 0 .. m
      BY <1>1
    <3> QED
      BY <1>3, <1>4, <1>6, <3>1
  <2> DEFINE f == flat[n - 1]
             c == code(n)
  <2>2. f \in Seq(Nat) /\ c \in Seq(Nat) /\ flat[n] = f \o c
    BY <2>1
  <2> HIDE DEF f, c
  <2>3. Len(flat[n]) = Len(f) + Len(c) /\ \A x \in 1 .. Len(f) + Len(c) :
          flat[n][x] = IF x <= Len(f) THEN f[x] ELSE c[x - Len(f)]
    BY <2>2, ConcatProperties
  <2>4. Len(f) \in Nat /\ Len(c) \in Nat
    BY <2>2
  <2>5. ASSUME NEW x \in 1 .. Len(f) PROVE flat[n][x] = f[x]
    BY <2>3, <2>4
  <2>6. ASSUME NEW y \in 1 .. Len(c) PROVE flat[n][Len(f) + y] = c[y]
    <3>1. Len(f) + y \in 1 .. Len(f) + Len(c) /\ ~(Len(f) + y <= Len(f)) /\ (Len(f) + y) - Len(f) = y
      BY <2>4
    <3> QED
      BY <2>3, <3>1
  <2> QED
    BY <2>3, <2>5, <2>6 DEF f, c
<1>8. \A i \in 0 .. m : Len(flat[i]) \in Nat
  BY <1>6
<1> DEFINE Agrees(i) == \A h \in 0 .. i :
                            /\ Len(flat[h]) <= Len(flat[i])
                            /\ \A x \in 1 .. Len(flat[h]) : flat[i][x] = flat[h][x]
           T == {i \in Nat : i <= m => Agrees(i)}
<1>9. Nat \subseteq T
  <2>1. 0 \in T
    <3>1. \A h \in 0 .. 0 : h = 0
      OBVIOUS
    <3>2. Len(flat[0]) \in Nat
      BY <1>1, <1>8
    <3> QED
      BY <3>1, <3>2
  <2>2. ASSUME NEW i \in Nat, i \in T PROVE i + 1 \in T
    <3> SUFFICES ASSUME i + 1 <= m, NEW h \in 0 .. i + 1
                 PROVE  /\ Len(flat[h]) <= Len(flat[i + 1])
                        /\ \A x \in 1 .. Len(flat[h]) : flat[i + 1][x] = flat[h][x]
      OBVIOUS
    <3>1. i + 1 \in 1 .. m /\ (i + 1) - 1 = i /\ i \in 0 .. m /\ i + 1 \in 0 .. m /\ h \in 0 .. m
      BY <1>1
    <3>2. /\ Len(flat[i + 1]) = Len(flat[i]) + Len(code(i + 1))
          /\ \A x \in 1 .. Len(flat[i]) : flat[i + 1][x] = flat[i][x]
      BY <1>7, <3>1
    <3>3. Len(code(i + 1)) \in Nat
      BY <1>3, <3>1
    <3>4. Len(flat[i]) \in Nat /\ Len(flat[i + 1]) \in Nat /\ Len(flat[h]) \in Nat
      BY <1>8, <3>1
    <3>5. CASE h = i + 1
      BY <3>4, <3>5
    <3>6. CASE h # i + 1
      <4>1. h \in 0 .. i
        BY <3>6
      <4>2. Len(flat[h]) <= Len(flat[i]) /\ \A x \in 1 .. Len(flat[h]) : flat[i][x] = flat[h][x]
        BY <2>2, <3>1, <4>1
      <4>3. \A x \in 1 .. Len(flat[h]) : x \in 1 .. Len(flat[i])
        BY <3>4, <4>2
      <4>4. Len(flat[h]) <= Len(flat[i + 1])
        <5> DEFINE a == Len(flat[h])
                   b == Len(flat[i])
                   c == Len(flat[i + 1])
                   d == Len(code(i + 1))
        <5>1. c = b + d /\ a <= b
          BY <3>2, <4>2
        <5>2. a \in Nat /\ b \in Nat /\ c \in Nat /\ d \in Nat
          BY <3>3, <3>4
        <5> HIDE DEF a, b, c, d
        <5>3. a <= c
          BY <5>1, <5>2
        <5> QED
          BY <5>3 DEF a, c
      <4>5. ASSUME NEW x \in 1 .. Len(flat[h]) PROVE flat[i + 1][x] = flat[h][x]
        <5>1. x \in 1 .. Len(flat[i])
          BY <4>3
        <5>2. flat[i + 1][x] = flat[i][x]
          BY <3>2, <5>1
        <5>3. flat[i][x] = flat[h][x]
          BY <4>2
        <5> QED
          BY <5>2, <5>3
      <4> QED
        BY <4>4, <4>5
    <3> QED
      BY <3>5, <3>6
  <2> HIDE DEF T
  <2> QED
    BY <2>1, <2>2, SetInduction
<1>10. Agrees(m)
  BY <1>1, <1>9
<1> HIDE DEF T
<1>11. flat[m] \in Seq(Nat) /\ pattern = flat[m] \o <<Percent>> /\ <<Percent>> \in Seq(Nat)
       /\ Len(<<Percent>>) = 1 /\ <<Percent>>[1] = Percent
  BY <1>1, <1>2, <1>5, <1>6
<1> HIDE DEF pattern
<1> DEFINE f == flat[m]
<1>12. /\ pattern \in Seq(Nat) /\ Len(pattern) = Len(f) + 1
       /\ \A x \in 1 .. Len(f) + 1 :
            pattern[x] = IF x <= Len(f) THEN f[x] ELSE <<Percent>>[x - Len(f)]
  <2> HIDE DEF f
  <2>1. f \in Seq(Nat) /\ pattern = f \o <<Percent>> /\ <<Percent>> \in Seq(Nat)
        /\ Len(<<Percent>>) = 1
    BY <1>11 DEF f
  <2> DEFINE w == <<Percent>>
  <2> HIDE DEF w
  <2>2. f \in Seq(Nat) /\ w \in Seq(Nat) /\ pattern = f \o w /\ Len(w) = 1
    BY <2>1 DEF w
  <2>3. /\ pattern \in Seq(Nat) /\ Len(pattern) = Len(f) + Len(w)
        /\ \A x \in 1 .. Len(f) + Len(w) : pattern[x] = IF x <= Len(f) THEN f[x] ELSE w[x - Len(f)]
    BY <2>2, ConcatProperties
  <2> QED
    BY <2>2, <2>3 DEF w
<1>13. Len(f) \in Nat
  BY <1>1, <1>8
<1>14. pattern[Len(pattern)] = Percent
  <2>1. Len(f) + 1 \in 1 .. Len(f) + 1 /\ ~(Len(f) + 1 <= Len(f)) /\ (Len(f) + 1) - Len(f) = 1
    BY <1>13
  <2> QED
    BY <1>11, <1>12, <2>1
<1>15. \A h \in 0 .. m : /\ Len(flat[h]) <= Len(f)
                         /\ \A x \in 1 .. Len(flat[h]) : pattern[x] = flat[h][x]
  <2> SUFFICES ASSUME NEW h \in 0 .. m
               PROVE  Len(flat[h]) <= Len(f) /\ \A x \in 1 .. Len(flat[h]) : pattern[x] = flat[h][x]
    OBVIOUS
  <2>1. Len(flat[h]) <= Len(f) /\ \A x \in 1 .. Len(flat[h]) : f[x] = flat[h][x]
    BY <1>10
  <2>2. Len(flat[h]) \in Nat
    BY <1>8
  <2> HIDE DEF f
  <2>3. \A x \in 1 .. Len(flat[h]) : x \in 1 .. Len(f) + 1 /\ x <= Len(f)
    BY <1>13, <2>1, <2>2
  <2> QED
    BY <1>12, <2>1, <2>3
<1> DEFINE q == [n \in 0 .. m |-> Len(flat[n]) + 1]
<1>16. q \in [0 .. m -> Nat] /\ \A n \in 0 .. m : q[n] = Len(flat[n]) + 1
  BY <1>8
<1>17. q[0] = 1 /\ q[m] = Len(pattern)
  <2>1. Len(flat[0]) = 0
    BY <1>6, EmptySeq
  <2> QED
    BY <1>1, <1>12, <1>16, <2>1
<1> HIDE DEF q, f
<1>18. ASSUME NEW n \in 1 .. m
       PROVE  q[n] <= Len(pattern) /\ AtPlace(pattern, q[n - 1], p[n], q[n])
  <2>1. n \in 0 .. m /\ n - 1 \in 0 .. m
    BY <1>1
  <2> DEFINE a == Len(flat[n - 1])
  <2>2. q[n] = Len(flat[n]) + 1 /\ q[n - 1] = a + 1 /\ a \in Nat /\ Len(flat[n]) \in Nat
    BY <1>8, <1>16, <2>1
  <2>3. Len(flat[n]) = a + Len(code(n))
        /\ \A y \in 1 .. Len(code(n)) : flat[n][a + y] = code(n)[y]
    BY <1>7
  <2>4. Len(flat[n]) <= Len(f) /\ \A x \in 1 .. Len(flat[n]) : pattern[x] = flat[n][x]
    BY <1>15, <2>1
  <2> HIDE DEF a
  <2>5. q[n] <= Len(pattern)
    BY <1>12, <1>13, <2>2, <2>4
  <2>6. CASE p[n] \in Special
    <3>1. Len(code(n)) = 2 /\ code(n)[1] = Backslash /\ code(n)[2] = p[n]
      BY <1>3, <2>6
    <3>2. a + 1 \in 1 .. Len(flat[n]) /\ a + 2 \in 1 .. Len(flat[n]) /\ Len(flat[n]) = a + 2
      BY <2>2, <2>3, <3>1
    <3>3. pattern[a + 1] = Backslash /\ pattern[a + 2] = p[n]
      <4>1. 1 \in 1 .. Len(code(n)) /\ 2 \in 1 .. Len(code(n))
        BY <3>1
      <4>2. flat[n][a + 1] = Backslash /\ flat[n][a + 2] = p[n]
        BY <2>3, <3>1, <4>1
      <4> QED
        BY <2>4, <3>2, <4>2
    <3>4. q[n] = q[n - 1] + 2 /\ q[n - 1] + 1 = a + 2
      BY <2>2, <3>2
    <3> QED
      BY <2>2, <2>5, <2>6, <3>3, <3>4 DEF AtPlace
  <2>7. CASE p[n] \notin Special
    <3>1. Len(code(n)) = 1 /\ code(n)[1] = p[n]
      BY <1>3, <2>7
    <3>2. a + 1 \in 1 .. Len(flat[n]) /\ Len(flat[n]) = a + 1
      BY <2>2, <2>3, <3>1
    <3>3. pattern[a + 1] = p[n]
      <4>1. 1 \in 1 .. Len(code(n))
        BY <3>1
      <4>2. flat[n][a + 1] = p[n]
        BY <2>3, <3>1, <4>1
      <4> QED
        BY <2>4, <3>2, <4>2
    <3> QED
      BY <2>2, <2>5, <2>7, <3>2, <3>3 DEF AtPlace
  <2> QED
    BY <2>6, <2>7
<1>19. \A n \in 1 .. m : q[n] <= Len(pattern) /\ AtPlace(pattern, q[n - 1], p[n], q[n])
  BY <1>18
<1> QED
  <2>1. q \in [0 .. Len(p) -> Nat]
    BY <1>16 DEF m
  <2>2. /\ LikePrefix(p) \in Seq(Nat) /\ q[0] = 1 /\ q[Len(p)] = Len(LikePrefix(p))
        /\ LikePrefix(p)[Len(LikePrefix(p))] = Percent
        /\ \A n \in 1 .. Len(p) :
             q[n] <= Len(LikePrefix(p)) /\ AtPlace(LikePrefix(p), q[n - 1], p[n], q[n])
    BY <1>12, <1>14, <1>17, <1>19 DEF m, pattern
  <2> QED
    BY <2>1, <2>2, Zenon

\* The table of LIKE, cell by cell.
MatchAt(s, pattern, match, i, j) ==
    IF i > Len(pattern) THEN j > Len(s)
    ELSE IF pattern[i] = Percent
      THEN match[<<i + 1, j>>] \/ (j <= Len(s) /\ match[<<i, j + 1>>])
    ELSE IF pattern[i] = Backslash /\ i < Len(pattern)
      THEN j <= Len(s) /\ s[j] = pattern[i + 1] /\ match[<<i + 2, j + 1>>]
    ELSE j <= Len(s) /\ pattern[i] \in {Underscore, s[j]} /\ match[<<i + 1, j + 1>>]

\* LIKE has such a table.
HasTable(s, pattern, P, L) ==
    \E match :
        /\ Like(s, pattern) = match[<<1, 1>>]
        /\ \A i \in 1 .. P + 1, j \in 1 .. L + 1 :
             match[<<i, j>>] = MatchAt(s, pattern, match, i, j)

LEMMA LikeTable ==
  ASSUME NEW P \in Nat, NEW L \in Nat, NEW s, NEW pattern, Len(pattern) = P, Len(s) = L
  PROVE  HasTable(s, pattern, P, L)
<1> DEFINE D == (1 .. P + 1) \X (1 .. L + 1)
           V == BOOLEAN
           Body(g, c) == MatchAt(s, pattern, g, c[1], c[2])
           table == CHOOSE match : match = [c \in D |-> Body(match, c)]
           rank == [c \in D |-> (P + 1 - c[1]) + (L + 1 - c[2])]
           F == [g \in [D -> V] |-> [c \in D |-> Body(g, c)]]
<1>1. Like(s, pattern) = table[<<1, 1>>]
  <2> DEFINE D0(p, l) == (1 .. p + 1) \X (1 .. l + 1)
             match0(p, l) == CHOOSE match : match = [c \in D0(p, l) |-> Body(match, c)]
  <2>1. Like(s, pattern) = match0(Len(pattern), Len(s))[<<1, 1>>]
    BY Zenon DEF Like, MatchAt
  <2> QED
    BY <2>1, Zenon
<1>2. rank \in [D -> 0 .. P + L] /\ P + L \in Nat
  <2>1. ASSUME NEW c \in D PROVE (P + 1 - c[1]) + (L + 1 - c[2]) \in 0 .. P + L
    OBVIOUS
  <2> QED
    BY <2>1
<1>3. ASSUME NEW c \in D
      PROVE  /\ c[1] \in 1 .. P + 1 /\ c[2] \in 1 .. L + 1
             /\ rank[c] = (P + 1 - c[1]) + (L + 1 - c[2])
  OBVIOUS
<1>4. ASSUME NEW i \in 1 .. P + 1, NEW j \in 1 .. L + 1
      PROVE  <<i, j>> \in D /\ rank[<<i, j>>] = (P + 1 - i) + (L + 1 - j)
  OBVIOUS
<1> HIDE DEF D, rank
<1> DEFINE Less(c, i, j) == <<i, j>> \in D /\ rank[<<i, j>>] < rank[c]
<1>5. ASSUME NEW c \in D, c[1] <= P
      PROVE  /\ Less(c, c[1] + 1, c[2])
             /\ c[2] <= L => Less(c, c[1], c[2] + 1) /\ Less(c, c[1] + 1, c[2] + 1)
             /\ c[2] <= L /\ c[1] < P => Less(c, c[1] + 2, c[2] + 1)
  <2> DEFINE i == c[1]
             j == c[2]
  <2>1. i \in 1 .. P /\ j \in 1 .. L + 1 /\ rank[c] = (P + 1 - i) + (L + 1 - j)
    BY <1>3, <1>5
  <2> HIDE DEF i, j
  <2>2. Less(c, i + 1, j)
    <3>1. i + 1 \in 1 .. P + 1
      BY <2>1
    <3>2. <<i + 1, j>> \in D /\ rank[<<i + 1, j>>] = (P + 1 - (i + 1)) + (L + 1 - j)
      BY <1>4, <2>1, <3>1
    <3> QED
      BY <2>1, <3>2
  <2>3. ASSUME j <= L PROVE Less(c, i, j + 1) /\ Less(c, i + 1, j + 1)
    <3>1. i + 1 \in 1 .. P + 1 /\ i \in 1 .. P + 1 /\ j + 1 \in 1 .. L + 1
      BY <2>1, <2>3
    <3>2. <<i, j + 1>> \in D /\ rank[<<i, j + 1>>] = (P + 1 - i) + (L + 1 - (j + 1))
      BY <1>4, <3>1
    <3>3. <<i + 1, j + 1>> \in D /\ rank[<<i + 1, j + 1>>] = (P + 1 - (i + 1)) + (L + 1 - (j + 1))
      BY <1>4, <3>1
    <3> QED
      BY <2>1, <3>2, <3>3
  <2>4. ASSUME j <= L, i < P PROVE Less(c, i + 2, j + 1)
    <3>1. i + 2 \in 1 .. P + 1 /\ j + 1 \in 1 .. L + 1
      BY <2>1, <2>4
    <3>2. <<i + 2, j + 1>> \in D /\ rank[<<i + 2, j + 1>>] = (P + 1 - (i + 2)) + (L + 1 - (j + 1))
      BY <1>4, <3>1
    <3> QED
      BY <2>1, <3>2
  <2> HIDE DEF Less
  <2> QED
    BY <2>2, <2>3, <2>4 DEF i, j
<1>6. ASSUME NEW g \in [D -> V], NEW c \in D PROVE Body(g, c) \in V
  <2>1. \A i, j : Less(c, i, j) => g[<<i, j>>] \in BOOLEAN
    OBVIOUS
  <2> HIDE DEF Less
  <2> DEFINE i == c[1]
             j == c[2]
             A == j > Len(s)
             B == g[<<i + 1, j>>] \/ (j <= Len(s) /\ g[<<i, j + 1>>])
             C == j <= Len(s) /\ s[j] = pattern[i + 1] /\ g[<<i + 2, j + 1>>]
             E == j <= Len(s) /\ pattern[i] \in {Underscore, s[j]} /\ g[<<i + 1, j + 1>>]
  <2>2. Body(g, c) = IF i > Len(pattern) THEN A
                     ELSE IF pattern[i] = Percent THEN B
                     ELSE IF pattern[i] = Backslash /\ i < Len(pattern) THEN C
                     ELSE E
    BY Zenon DEF MatchAt
  <2>3. A \in BOOLEAN
    <3>1. CASE A
      <4>1. A = TRUE
        BY <3>1
      <4> QED
        BY <4>1
    <3>2. CASE ~A
      <4>1. A = FALSE
        BY <3>2
      <4> QED
        BY <4>1
    <3> QED
      BY <3>1, <3>2
  <2>4. B \in BOOLEAN
    BY Zenon
  <2>5. C \in BOOLEAN
    BY Zenon
  <2>6. E \in BOOLEAN
    BY Zenon
  <2> HIDE DEF A, B, C, E, i, j, Body
  <2> QED
    BY <2>2, <2>3, <2>4, <2>5, <2>6, Zenon
<1>7. ASSUME NEW g \in [D -> V], NEW h \in [D -> V], NEW c \in D,
             \A d \in D : rank[d] < rank[c] => g[d] = h[d]
      PROVE  Body(g, c) = Body(h, c)
  <2>1. \A i, j : Less(c, i, j) => g[<<i, j>>] = h[<<i, j>>]
    BY <1>7
  <2> HIDE DEF Less
  <2>2. CASE c[1] > P
    BY <2>2, <1>3 DEF MatchAt
  <2>3. CASE c[1] <= P
    <3>1. g[<<c[1] + 1, c[2]>>] = h[<<c[1] + 1, c[2]>>]
      BY <1>5, <2>1, <2>3
    <3>2. c[2] <= L => /\ g[<<c[1], c[2] + 1>>] = h[<<c[1], c[2] + 1>>]
                       /\ g[<<c[1] + 1, c[2] + 1>>] = h[<<c[1] + 1, c[2] + 1>>]
      BY <1>5, <2>1, <2>3
    <3>3. c[2] <= L /\ c[1] < P => g[<<c[1] + 2, c[2] + 1>>] = h[<<c[1] + 2, c[2] + 1>>]
      BY <1>5, <2>1, <2>3
    <3> QED
      BY <1>3, <2>3, <3>1, <3>2, <3>3 DEF MatchAt
  <2> QED
    BY <1>3, <2>2, <2>3
<1> HIDE DEF Body, V
<1>8. F \in [[D -> V] -> [D -> V]]
  BY <1>6
<1>9. \A g, h \in [D -> V], c \in D :
        (\A d \in D : rank[d] < rank[c] => g[d] = h[d]) => F[g][c] = F[h][c]
  BY <1>7
<1>10. V # {}
  BY DEF V
<1>11. \E match \in [D -> V] : F[match] = match
  <2> HIDE DEF F
  <2>1. Determines(F, D, V, rank, P + L)
    BY <1>2, <1>8, <1>9, <1>10, Zenon DEF Determines
  <2> QED
    BY <2>1, Recursion, Zenon
<1>12. \E match : match = [c \in D |-> Body(match, c)]
  BY <1>11
<1>13. table = [c \in D |-> Body(table, c)]
  BY <1>12, Zenon
<1> HIDE DEF table
<1>14. ASSUME NEW i \in 1 .. P + 1, NEW j \in 1 .. L + 1
       PROVE  table[<<i, j>>] = MatchAt(s, pattern, table, i, j)
  <2>1. <<i, j>> \in D
    BY <1>4
  <2>2. table[<<i, j>>] = Body(table, <<i, j>>)
    BY <1>13, <2>1
  <2>3. <<i, j>>[1] = i /\ <<i, j>>[2] = j
    OBVIOUS
  <2> QED
    BY <2>2, <2>3, Zenon DEF Body
<1>15. \E match :
         /\ Like(s, pattern) = match[<<1, 1>>]
         /\ \A i \in 1 .. P + 1, j \in 1 .. L + 1 :
              match[<<i, j>>] = MatchAt(s, pattern, match, i, j)
  <2> WITNESS table
  <2> QED
    BY <1>1, <1>14, Zenon
<1> QED
  BY <1>15, Zenon DEF HasTable

\* A key is like the pattern of a prefix if and only if it starts with it.
LEMMA LikeIsPrefix ==
  ASSUME NEW p \in Seq(Nat), NEW k \in Seq(Nat)
  PROVE  Like(k, LikePrefix(p)) <=> HasPrefix(k, p)
<1> DEFINE m == Len(p)
           L == Len(k)
           pattern == LikePrefix(p)
           P == Len(pattern)
<1>1. PICK q \in [0 .. m -> Nat] :
        /\ pattern \in Seq(Nat) /\ q[0] = 1 /\ q[m] = P /\ pattern[P] = Percent
        /\ \A n \in 1 .. m : q[n] <= P /\ AtPlace(pattern, q[n - 1], p[n], q[n])
  BY Escaped, Zenon
<1>2. m \in Nat /\ L \in Nat
  OBVIOUS
<1>3. P \in Nat
  BY <1>1
<1> HIDE DEF pattern
<1>5. P = Len(pattern) /\ L = Len(k)
  OBVIOUS
<1> HIDE DEF m, L, P
<1>4. PICK match :
        /\ Like(k, pattern) = match[<<1, 1>>]
        /\ \A i \in 1 .. P + 1, j \in 1 .. L + 1 :
             match[<<i, j>>] = MatchAt(k, pattern, match, i, j)
  <2>1. HasTable(k, pattern, P, L)
    BY <1>2, <1>3, <1>5, LikeTable
  <2> QED
    BY <2>1, Zenon DEF HasTable
<1>6. \A n \in 0 .. m : q[n] \in Nat
  BY <1>1
<1>7. \A n \in 1 .. m : q[n] = q[n - 1] + 1 \/ q[n] = q[n - 1] + 2
  BY <1>1, Zenon DEF AtPlace
<1>8. \A n \in 0 .. m : q[n] \in 1 .. P
  <2>1. ASSUME NEW n \in 1 .. m PROVE q[n] \in 1 .. P /\ q[n - 1] + 1 <= P
    <3>1. q[n - 1] \in Nat /\ q[n] \in Nat
      BY <1>2, <1>6
    <3>2. q[n] <= P
      BY <1>1
    <3> QED
      BY <1>3, <1>7, <3>1, <3>2
  <2>2. q[0] \in 1 .. P
    <3>1. CASE m = 0
      <4>1. P = 1
        BY <1>1, <3>1
      <4> QED
        BY <1>1, <4>1
    <3>2. CASE m # 0
      <4>1. 1 \in 1 .. m /\ 1 - 1 = 0
        BY <1>2, <3>2
      <4>2. q[0] + 1 <= P
        BY <2>1, <4>1
      <4> QED
        BY <1>1, <1>3, <4>2
    <3> QED
      BY <3>1, <3>2
  <2> SUFFICES ASSUME NEW n \in 0 .. m PROVE q[n] \in 1 .. P
    OBVIOUS
  <2> QED
    BY <2>1, <2>2
<1> DEFINE Starts(n, j) == \A i \in n + 1 .. m : j + (i - n - 1) <= L /\ k[j + (i - n - 1)] = p[i]
           T == {d \in Nat : d <= m => \A j \in 1 .. L + 1 : match[<<q[m - d], j>>] <=> Starts(m - d, j)}
<1>9. \A j \in 1 .. L + 1 : match[<<P, j>>]
  <2> DEFINE U == {d \in Nat : d <= L => match[<<P, L + 1 - d>>]}
  <2>1. ASSUME NEW j \in 1 .. L + 1
        PROVE  match[<<P, j>>] <=> (j > L \/ (j <= L /\ match[<<P, j + 1>>]))
    <3>1. P \in 1 .. P + 1 /\ P + 1 \in 1 .. P + 1 /\ ~(P > P) /\ P + 1 > P
      BY <1>2, <1>3, <1>8, <1>1
    <3>2. match[<<P, j>>] = MatchAt(k, pattern, match, P, j)
      BY <1>4, <3>1
    <3>3. match[<<P + 1, j>>] = MatchAt(k, pattern, match, P + 1, j)
      BY <1>4, <3>1
    <3>4. MatchAt(k, pattern, match, P + 1, j) = (j > L)
      BY <1>5, <3>1, Zenon DEF MatchAt
    <3>5. MatchAt(k, pattern, match, P, j) = (match[<<P + 1, j>>] \/ (j <= L /\ match[<<P, j + 1>>]))
      BY <1>1, <1>5, <3>1, Zenon DEF MatchAt
    <3> QED
      BY <3>2, <3>3, <3>4, <3>5, Zenon
  <2>2. 0 \in U
    <3>1. L + 1 \in 1 .. L + 1 /\ L + 1 > L /\ L + 1 - 0 = L + 1
      BY <1>2
    <3>2. match[<<P, L + 1>>]
      BY <2>1, <3>1
    <3> QED
      BY <3>1, <3>2
  <2>3. ASSUME NEW d \in Nat, d \in U PROVE d + 1 \in U
    <3> SUFFICES ASSUME d + 1 <= L PROVE match[<<P, L + 1 - (d + 1)>>]
      OBVIOUS
    <3>1. L + 1 - (d + 1) \in 1 .. L + 1 /\ L + 1 - (d + 1) <= L /\ (L + 1 - (d + 1)) + 1 = L + 1 - d /\ d <= L
      BY <1>2
    <3>2. match[<<P, L + 1 - d>>]
      BY <2>3, <3>1
    <3> QED
      BY <2>1, <3>1, <3>2
  <2> HIDE DEF U
  <2>4. Nat \subseteq U
    BY <2>2, <2>3, SetInduction
  <2> SUFFICES ASSUME NEW j \in 1 .. L + 1 PROVE match[<<P, j>>]
    OBVIOUS
  <2>5. L + 1 - j \in Nat /\ L + 1 - j <= L /\ L + 1 - (L + 1 - j) = j
    BY <1>2
  <2> QED
    BY <2>4, <2>5 DEF U
<1>10. ASSUME NEW n \in 1 .. m, NEW j \in 1 .. L + 1
       PROVE  match[<<q[n - 1], j>>] <=> j <= L /\ k[j] = p[n] /\ match[<<q[n], j + 1>>]
  <2> DEFINE a == q[n - 1]
             b == q[n]
  <2>1. a \in 1 .. P /\ b \in 1 .. P
    BY <1>2, <1>8
  <2>2. AtPlace(pattern, a, p[n], b)
    BY <1>1
  <2> HIDE DEF a, b
  <2>3. a \in 1 .. P + 1 /\ ~(a > P)
    BY <1>3, <2>1
  <2>4. match[<<a, j>>] = MatchAt(k, pattern, match, a, j)
    BY <1>4, <2>3
  <2>5. CASE p[n] \in Special
    <3>1. pattern[a] = Backslash /\ pattern[a + 1] = p[n] /\ b = a + 2
      BY <2>2, <2>5, Zenon DEF AtPlace
    <3>2. a < P
      BY <1>3, <2>1, <3>1
    <3>3. Backslash # Percent
      BY DEF Backslash, Percent
    <3>4. MatchAt(k, pattern, match, a, j) =
            (j <= L /\ k[j] = pattern[a + 1] /\ match[<<a + 2, j + 1>>])
      BY <1>5, <2>3, <3>1, <3>2, <3>3, Zenon DEF MatchAt
    <3> QED
      BY <2>4, <3>1, <3>4, Zenon DEF a, b
  <2>6. CASE p[n] \notin Special
    <3>1. pattern[a] = p[n] /\ b = a + 1
      BY <2>2, <2>6, Zenon DEF AtPlace
    <3>2. p[n] # Percent /\ p[n] # Underscore /\ p[n] # Backslash
      BY <2>6, Zenon DEF Special
    <3>3. MatchAt(k, pattern, match, a, j) =
            (j <= L /\ p[n] \in {Underscore, k[j]} /\ match[<<a + 1, j + 1>>])
      BY <1>5, <2>3, <3>1, <3>2, Zenon DEF MatchAt
    <3>4. p[n] \in {Underscore, k[j]} <=> k[j] = p[n]
      BY <3>2
    <3> QED
      BY <2>4, <3>1, <3>3, <3>4, Zenon DEF a, b
  <2> QED
    BY <2>5, <2>6
<1>11. ASSUME NEW n \in 1 .. m, NEW j \in 1 .. L + 1
       PROVE  Starts(n - 1, j) <=> j <= L /\ k[j] = p[n] /\ Starts(n, j + 1)
  <2>1. ASSUME Starts(n - 1, j) PROVE j <= L /\ k[j] = p[n] /\ Starts(n, j + 1)
    <3>1. n \in (n - 1) + 1 .. m /\ j + (n - (n - 1) - 1) = j
      BY <1>2
    <3>2. j <= L /\ k[j] = p[n]
      BY <2>1, <3>1
    <3>3. ASSUME NEW i \in n + 1 .. m
          PROVE  (j + 1) + (i - n - 1) <= L /\ k[(j + 1) + (i - n - 1)] = p[i]
      <4>1. i \in (n - 1) + 1 .. m /\ j + (i - (n - 1) - 1) = (j + 1) + (i - n - 1)
        BY <1>2
      <4> QED
        BY <2>1, <4>1
    <3> QED
      BY <3>2, <3>3
  <2>2. ASSUME j <= L, k[j] = p[n], Starts(n, j + 1) PROVE Starts(n - 1, j)
    <3> SUFFICES ASSUME NEW i \in (n - 1) + 1 .. m
                 PROVE  j + (i - (n - 1) - 1) <= L /\ k[j + (i - (n - 1) - 1)] = p[i]
      OBVIOUS
    <3>1. CASE i = n
      <4>1. j + (i - (n - 1) - 1) = j
        BY <1>2, <3>1
      <4> QED
        BY <2>2, <3>1, <4>1
    <3>2. CASE i # n
      <4>1. i \in n + 1 .. m /\ j + (i - (n - 1) - 1) = (j + 1) + (i - n - 1)
        BY <1>2, <3>2
      <4> QED
        BY <2>2, <4>1
    <3> QED
      BY <3>1, <3>2
  <2> QED
    BY <2>1, <2>2
<1>12. \A j \in 1 .. L + 1 : Starts(m, j)
  BY <1>2
<1> HIDE DEF Starts
<1>13. 0 \in T
  <2>1. m - 0 = m /\ q[m] = P
    BY <1>1, <1>2
  <2> QED
    BY <1>9, <1>12, <2>1
<1>14. ASSUME NEW d \in Nat, d \in T PROVE d + 1 \in T
  <2> SUFFICES ASSUME d + 1 <= m, NEW j \in 1 .. L + 1
               PROVE  match[<<q[m - (d + 1)], j>>] <=> Starts(m - (d + 1), j)
    OBVIOUS
  <2> DEFINE n == m - d
  <2>1. n \in 1 .. m /\ m - (d + 1) = n - 1 /\ d <= m
    BY <1>2
  <2>2. \A i \in 1 .. L + 1 : match[<<q[n], i>>] <=> Starts(n, i)
    BY <1>14, <2>1
  <2> HIDE DEF n
  <2>3. match[<<q[n - 1], j>>] <=> j <= L /\ k[j] = p[n] /\ match[<<q[n], j + 1>>]
    BY <1>10, <2>1
  <2>4. Starts(n - 1, j) <=> j <= L /\ k[j] = p[n] /\ Starts(n, j + 1)
    BY <1>11, <2>1
  <2>5. j <= L => j + 1 \in 1 .. L + 1
    BY <1>2
  <2>6. match[<<q[n - 1], j>>] <=> Starts(n - 1, j)
    BY <2>2, <2>3, <2>4, <2>5, Zenon
  <2> QED
    BY <2>1, <2>6, Zenon
<1> HIDE DEF T
<1>15. Nat \subseteq T
  BY <1>13, <1>14, SetInduction
<1>16. match[<<1, 1>>] <=> Starts(0, 1)
  <2>1. m \in Nat /\ m <= m /\ m - m = 0 /\ 1 \in 1 .. L + 1
    BY <1>2
  <2>2. match[<<q[m - m], 1>>] <=> Starts(m - m, 1)
    BY <1>15, <2>1 DEF T
  <2> QED
    BY <1>1, <2>1, <2>2, Zenon
<1>17. Starts(0, 1) <=> m <= L /\ \A i \in 1 .. m : k[i] = p[i]
  <2>1. ASSUME NEW i \in 1 .. m PROVE i \in 0 + 1 .. m /\ 1 + (i - 0 - 1) = i
    BY <1>2
  <2>2. ASSUME NEW i \in 0 + 1 .. m PROVE i \in 1 .. m
    BY <1>2
  <2>3. ASSUME Starts(0, 1) PROVE m <= L /\ \A i \in 1 .. m : k[i] = p[i]
    <3>1. \A i \in 1 .. m : i <= L /\ k[i] = p[i]
      BY <2>1, <2>3 DEF Starts
    <3>2. CASE m = 0
      BY <1>2, <3>1, <3>2
    <3>3. CASE m # 0
      <4>1. m \in 1 .. m
        BY <1>2, <3>3
      <4> QED
        BY <3>1, <4>1
    <3> QED
      BY <3>2, <3>3
  <2>4. ASSUME m <= L, \A i \in 1 .. m : k[i] = p[i] PROVE Starts(0, 1)
    <3>1. \A i \in 1 .. m : i <= L
      BY <1>2, <2>4
    <3> QED
      BY <2>1, <2>2, <2>4, <3>1 DEF Starts
  <2> QED
    BY <2>3, <2>4
<1>18. HasPrefix(k, p) <=> m <= L /\ \A i \in 1 .. m : k[i] = p[i]
  BY HasPrefixAt DEF m, L
<1> QED
  BY <1>4, <1>16, <1>17, <1>18, Zenon DEF pattern

(***************************************************************************)
(* Prefixes without repetitions.                                           *)
(***************************************************************************)

\* The last of some places.
LEMMA LastPlace ==
  ASSUME NEW n \in Nat, NEW s \in SUBSET (1 .. n), s # {}
  PROVE  Max(s) \in s /\ \A x \in s : x <= Max(s)
<1> DEFINE T == {n - x : x \in s}
<1>1. T \subseteq Nat /\ T # {}
  <2>1. \A x \in s : x \in Nat /\ x <= n
    OBVIOUS
  <2>2. \A x \in s : n - x \in Nat
    BY <2>1
  <2>3. PICK x \in s : TRUE
    OBVIOUS
  <2>4. n - x \in T
    OBVIOUS
  <2> QED
    BY <2>2, <2>4
<1>2. PICK d \in T : \A e \in T : d <= e
  BY <1>1, LeastNat
<1>3. PICK m \in s : d = n - m
  OBVIOUS
<1>4. \A x \in s : m >= x
  <2>1. ASSUME NEW x \in s PROVE m >= x
    <3>1. n - m <= n - x
      BY <1>2, <1>3
    <3>2. x \in 1 .. n /\ m \in 1 .. n
      OBVIOUS
    <3> QED
      BY <3>1, <3>2
  <2> QED
    BY <2>1
<1>5. Max(s) \in s /\ \A x \in s : Max(s) >= x
  BY <1>4, Zenon DEF Max
<1>6. ASSUME NEW x \in s PROVE x <= Max(s)
  <2>1. Max(s) >= x /\ x \in 1 .. n /\ Max(s) \in 1 .. n
    BY <1>5
  <2> QED
    BY <2>1
<1> QED
  BY <1>5, <1>6

\* The prefixes kept of those at the places of s, when the one at the last place
\* comes last.
Kept(g, s, ps) ==
    IF s = {} THEN <<>>
    ELSE IF Contains(g[s \ {Max(s)}], ps[Max(s)]) THEN g[s \ {Max(s)}]
    ELSE Append(g[s \ {Max(s)}], ps[Max(s)])

\* The table of the fold.
LEMMA DedupTable ==
  ASSUME NEW ps \in Seq(Text)
  PROVE  \E kept :
           /\ Dedup(ps) = kept[1 .. Len(ps)]
           /\ \A s \in SUBSET (1 .. Len(ps)) : kept[s] = Kept(kept, s, ps)
<1> DEFINE n == Len(ps)
           D == SUBSET (1 .. n)
           V == Seq(Text)
           table == CHOOSE kept : kept = [s \in D |-> Kept(kept, s, ps)]
           rank == [s \in D |-> Cardinality(s)]
           F == [g \in [D -> V] |-> [s \in D |-> Kept(g, s, ps)]]
<1>1. n \in Nat /\ DOMAIN ps = 1 .. n
  OBVIOUS
<1>2. Dedup(ps) = table[1 .. n]
  <2>1. Dedup(ps) = (CHOOSE kept : kept = [s \in SUBSET DOMAIN ps |-> Kept(kept, s, ps)])[DOMAIN ps]
    BY Zenon DEF Dedup, FoldLeft, MapThenFoldSet, Kept
  <2> QED
    BY <1>1, <2>1, Zenon
<1>3. IsFiniteSet(1 .. n) /\ Cardinality(1 .. n) = n
  BY <1>1, FS_Interval
<1>4. ASSUME NEW s \in D PROVE IsFiniteSet(s) /\ Cardinality(s) \in 0 .. n
  <2>1. IsFiniteSet(s) /\ Cardinality(s) <= n
    BY <1>3, FS_Subset
  <2>2. Cardinality(s) \in Nat
    BY <2>1, FS_CardinalityType
  <2> QED
    BY <1>1, <2>1, <2>2
<1>5. ASSUME NEW s \in D, s # {}
      PROVE  /\ s \ {Max(s)} \in D /\ Max(s) \in 1 .. n
             /\ Cardinality(s \ {Max(s)}) < Cardinality(s)
  <2>1. Max(s) \in s
    BY <1>1, <1>5, LastPlace
  <2>2. Cardinality(s \ {Max(s)}) = Cardinality(s) - 1 /\ Cardinality(s) \in 0 .. n
    BY <1>4, <2>1, FS_RemoveElement
  <2>3. Cardinality(s \ {Max(s)}) < Cardinality(s)
    BY <1>1, <2>2
  <2>4. s \ {Max(s)} \in D /\ Max(s) \in 1 .. n
    BY <2>1
  <2> QED
    BY <2>3, <2>4
<1>6. rank \in [D -> 0 .. n] /\ \A s \in D : rank[s] = Cardinality(s)
  BY <1>4
<1> HIDE DEF rank, n
<1>7. ASSUME NEW g \in [D -> V], NEW s \in D PROVE Kept(g, s, ps) \in V
  <2>1. CASE s = {}
    BY <2>1 DEF Kept
  <2>2. CASE s # {}
    <3>1. g[s \ {Max(s)}] \in V
      BY <1>5, <2>2
    <3>2. ps[Max(s)] \in Text
      <4>1. Max(s) \in 1 .. Len(ps)
        BY <1>5, <2>2 DEF n
      <4> QED
        BY <4>1, ElementOfSeq
    <3>3. Append(g[s \ {Max(s)}], ps[Max(s)]) \in V
      BY <3>1, <3>2, AppendProperties
    <3> QED
      BY <2>2, <3>1, <3>3 DEF Kept
  <2> QED
    BY <2>1, <2>2
<1>8. ASSUME NEW g \in [D -> V], NEW h \in [D -> V], NEW s \in D,
             \A q \in D : rank[q] < rank[s] => g[q] = h[q]
      PROVE  Kept(g, s, ps) = Kept(h, s, ps)
  <2>1. CASE s = {}
    BY <2>1 DEF Kept
  <2>2. CASE s # {}
    <3>1. g[s \ {Max(s)}] = h[s \ {Max(s)}]
      BY <1>5, <1>6, <1>8, <2>2
    <3> QED
      BY <3>1 DEF Kept
  <2> QED
    BY <2>1, <2>2
<1> HIDE DEF D, V
<1>9. F \in [[D -> V] -> [D -> V]]
  BY <1>7
<1>10. \A g, h \in [D -> V], s \in D :
         (\A q \in D : rank[q] < rank[s] => g[q] = h[q]) => F[g][s] = F[h][s]
  BY <1>8
<1>11. V # {}
  BY EmptySeq DEF V
<1>12. Determines(F, D, V, rank, n)
  <2> HIDE DEF F
  <2> QED
    BY <1>1, <1>6, <1>9, <1>10, <1>11, Zenon DEF Determines
<1>13. \E kept \in [D -> V] : F[kept] = kept
  <2> HIDE DEF F
  <2> QED
    BY <1>12, Recursion, Zenon
<1>14. \E kept : kept = [s \in D |-> Kept(kept, s, ps)]
  BY <1>13
<1>15. table = [s \in D |-> Kept(table, s, ps)]
  BY <1>14
<1> HIDE DEF table
<1>16. \A s \in D : table[s] = Kept(table, s, ps)
  BY <1>15
<1> QED
  <2> WITNESS table
  <2> QED
    BY <1>2, <1>16, Zenon DEF D, n

\* A sequence of texts that are all different, and are those at some places of ps.
Distinct(ds) == \A m, n \in DOMAIN ds : ds[m] = ds[n] => m = n

Covers(ds, ps, s) ==
    /\ \A i \in s : \E m \in DOMAIN ds : ds[m] = ps[i]
    /\ \A m \in DOMAIN ds : \E i \in s : ds[m] = ps[i]

\* Deduplication loses no prefix, invents none and repeats none.
LEMMA DedupKeeps ==
  ASSUME NEW ps \in Seq(Text)
  PROVE  Dedup(ps) \in Seq(Text) /\ Distinct(Dedup(ps)) /\ Covers(Dedup(ps), ps, DOMAIN ps)
<1>1. PICK kept :
        /\ Dedup(ps) = kept[1 .. Len(ps)]
        /\ \A s \in SUBSET (1 .. Len(ps)) : kept[s] = Kept(kept, s, ps)
  BY DedupTable
<1> DEFINE N == Len(ps)
           Good(s) == kept[s] \in Seq(Text) /\ Distinct(kept[s]) /\ Covers(kept[s], ps, s)
           T == {c \in Nat : \A s \in SUBSET (1 .. N) : Cardinality(s) = c => Good(s)}
<1>2. N \in Nat /\ DOMAIN ps = 1 .. N /\ IsFiniteSet(1 .. N)
  BY FS_Interval
<1> HIDE DEF N
<1>3. \A s \in SUBSET (1 .. N) : IsFiniteSet(s) /\ Cardinality(s) \in Nat
  BY <1>2, FS_Subset, FS_CardinalityType
<1>4. 0 \in T
  <2> SUFFICES ASSUME NEW s \in SUBSET (1 .. N), Cardinality(s) = 0 PROVE Good(s)
    OBVIOUS
  <2>1. s = {}
    BY <1>3, FS_EmptySet
  <2>2. kept[s] = <<>>
    BY <1>1, <2>1 DEF Kept, N
  <2>3. <<>> \in Seq(Text) /\ DOMAIN <<>> = {}
    BY EmptySeq
  <2> QED
    BY <2>1, <2>2, <2>3 DEF Distinct, Covers
<1>5. ASSUME NEW c \in Nat, c \in T PROVE c + 1 \in T
  <2> SUFFICES ASSUME NEW s \in SUBSET (1 .. N), Cardinality(s) = c + 1 PROVE Good(s)
    OBVIOUS
  <2> DEFINE x == Max(s)
             r == s \ {x}
             t == kept[r]
  <2>1. s # {}
    BY FS_EmptySet
  <2>2. x \in s /\ x \in 1 .. N
    BY <1>2, <2>1, LastPlace
  <2>3. kept[s] = IF Contains(t, ps[x]) THEN t ELSE Append(t, ps[x])
    BY <1>1, <2>1 DEF Kept, N
  <2> HIDE DEF x
  <2>4. r \in SUBSET (1 .. N) /\ s = r \cup {x}
    BY <2>2
  <2>5. Cardinality(r) = c
    BY <1>3, <2>2, FS_RemoveElement
  <2>6. t \in Seq(Text) /\ Distinct(t) /\ Covers(t, ps, r)
    BY <1>5, <2>4, <2>5
  <2>7. ps[x] \in Text
    BY <2>2, ElementOfSeq DEF N
  <2> HIDE DEF r, t
  <2>8. Len(t) \in Nat /\ DOMAIN t = 1 .. Len(t)
    BY <2>6
  <2>9. CASE Contains(t, ps[x])
    <3>1. PICK m \in 1 .. Len(t) : t[m] = ps[x]
      BY <2>9 DEF Contains
    <3>2. Covers(t, ps, s)
      BY <2>4, <2>6, <2>8, <3>1 DEF Covers
    <3> QED
      BY <2>3, <2>6, <2>9, <3>2
  <2>10. CASE ~Contains(t, ps[x])
    <3> DEFINE u == Append(t, ps[x])
    <3>1. /\ u \in Seq(Text) /\ Len(u) = Len(t) + 1
          /\ \A i \in 1 .. Len(t) : u[i] = t[i]
          /\ u[Len(t) + 1] = ps[x]
      BY <2>6, <2>7, AppendProperties
    <3>2. kept[s] = u
      BY <2>3, <2>10
    <3> HIDE DEF u
    <3>3. DOMAIN u = 1 .. Len(t) + 1
      BY <3>1
    <3>4. \A m \in 1 .. Len(t) : t[m] # ps[x]
      BY <2>10 DEF Contains
    <3>5. Distinct(u)
      <4> SUFFICES ASSUME NEW m \in 1 .. Len(t) + 1, NEW n \in 1 .. Len(t) + 1, u[m] = u[n]
                   PROVE  m = n
        BY <3>3 DEF Distinct
      <4>1. CASE m \in 1 .. Len(t) /\ n \in 1 .. Len(t)
        BY <2>6, <2>8, <3>1, <4>1 DEF Distinct
      <4>2. CASE m = Len(t) + 1 /\ n \in 1 .. Len(t)
        BY <3>1, <3>4, <4>2
      <4>3. CASE n = Len(t) + 1 /\ m \in 1 .. Len(t)
        BY <3>1, <3>4, <4>3
      <4> QED
        BY <2>8, <4>1, <4>2, <4>3
    <3>6. \A i \in s : \E m \in DOMAIN u : u[m] = ps[i]
      <4> SUFFICES ASSUME NEW i \in s PROVE \E m \in 1 .. Len(t) + 1 : u[m] = ps[i]
        BY <3>3
      <4>1. CASE i = x
        BY <2>8, <3>1, <4>1
      <4>2. CASE i \in r
        <5>1. PICK m \in 1 .. Len(t) : t[m] = ps[i]
          BY <2>6, <2>8, <4>2 DEF Covers
        <5> QED
          BY <2>8, <3>1, <5>1
      <4> QED
        BY <2>4, <4>1, <4>2
    <3>7. \A m \in DOMAIN u : \E i \in s : u[m] = ps[i]
      <4> SUFFICES ASSUME NEW m \in 1 .. Len(t) + 1 PROVE \E i \in s : u[m] = ps[i]
        BY <3>3
      <4>1. CASE m = Len(t) + 1
        BY <2>2, <3>1, <4>1
      <4>2. CASE m \in 1 .. Len(t)
        <5>1. PICK i \in r : t[m] = ps[i]
          BY <2>6, <2>8, <4>2 DEF Covers
        <5> QED
          BY <2>4, <3>1, <4>2, <5>1
      <4> QED
        BY <2>8, <4>1, <4>2
    <3> QED
      BY <3>1, <3>2, <3>5, <3>6, <3>7 DEF Covers
  <2> QED
    BY <2>9, <2>10
<1>6. \A c \in Nat : c \in T
  <2> HIDE DEF T
  <2> QED
    BY <1>4, <1>5, SetInduction
<1>7. Good(1 .. N)
  <2>1. 1 .. N \in SUBSET (1 .. N) /\ Cardinality(1 .. N) \in Nat
    BY <1>3
  <2> HIDE DEF Good
  <2> QED
    BY <1>6, <2>1
<1> QED
  BY <1>1, <1>2, <1>7 DEF N

\* What New keeps of the prefixes it is given: each once.
LEMMA NormalizedIsDistinct ==
  ASSUME NEW args \in PrefixArgs
  PROVE  Normalized(args) \in Seq(Text) /\ Distinct(Normalized(args))
<1>1. args \in Seq(Text)
  BY ViewAssumption DEF ViewAssumption
<1>2. <<>> \in Seq(Text) /\ Distinct(<<>>)
  BY EmptySeq DEF Distinct
<1> QED
  BY <1>1, <1>2, DedupKeeps DEF Normalized

(***************************************************************************)
(* The invariant of the client's view and its file.                        *)
(***************************************************************************)

\* What a source or the file answers.
IsSnapshot(s) ==
    /\ s.Revision \in 0 .. MaxRevision
    /\ DOMAIN s.Configs \subseteq Keys
    /\ s.Configs \in [DOMAIN s.Configs -> Values]

ViewInv ==
    /\ rows \in [Keys -> Values \cup {Absent}]
    /\ revision \in 0 .. MaxRevision
    /\ remote \in BOOLEAN /\ seeded \in BOOLEAN
    /\ prefixes \in Seq(Text) /\ Distinct(prefixes)
    /\ view # NoClient => IsView(view)
    /\ file # NoFile => IsSnapshot(file.wire)

\* newView makes a view of any snapshot.
LEMMA NewViewIsView ==
  ASSUME NEW s, IsSnapshot(s)
  PROVE  /\ IsView(NewView(s))
         /\ NewView(s).revision = s.Revision /\ NewView(s).byKey = s.Configs
<1>1. s.Revision \in -1 .. MaxRevision
  BY ViewAssumption DEF IsSnapshot, ViewAssumption
<1> QED
  BY <1>1 DEF IsSnapshot, IsView, NewView

\* emptyView is a view, of nothing.
LEMMA EmptyIsView == IsView(EmptyView) /\ EmptyView.byKey = <<>> /\ EmptyView.revision = -1
<1>1. DOMAIN <<>> = {} /\ <<>> \in [{} -> Values]
  OBVIOUS
<1>2. Sorted({}) = <<>>
  <2>1. Cardinality({}) = 0
    BY FS_EmptySet
  <2> DEFINE At(n) == CHOOSE k \in {} : Cardinality(Below({}, k)) = n - 1
  <2>2. Sorted({}) = [n \in 1 .. 0 |-> At(n)]
    BY <2>1 DEF Sorted
  <2> HIDE DEF At
  <2> QED
    BY <2>2
<1>3. -1 \in -1 .. MaxRevision
  BY ViewAssumption DEF ViewAssumption
<1> QED
  BY <1>1, <1>2, <1>3 DEF IsView, EmptyView

\* The file is given what the view holds.
LEMMA WireOfView ==
  ASSUME NEW v, IsView(v)
  PROVE  ToWire(v).Revision = v.revision /\ ToWire(v).Configs = v.byKey
<1>1. Range(v.keys) = DOMAIN v.byKey
  <2>1. PICK n \in Nat :
          /\ v.keys \in [1 .. n -> DOMAIN v.byKey]
          /\ \A k \in DOMAIN v.byKey : \E i \in 1 .. n : v.keys[i] = k
    BY ViewKeys
  <2> QED
    BY <2>1 DEF Range
<1>2. v.byKey = [k \in DOMAIN v.byKey |-> v.byKey[k]]
  BY DEF IsView
<1> QED
  BY <1>1, <1>2 DEF ToWire, Snapshot

\* A fetch is a snapshot of this revision, of some keys that are there.
LEMMA FetchIsSnapshot ==
  ASSUME ViewInv, NEW ps
  PROVE  LET s == Fetch(ps)
         IN  /\ IsSnapshot(s) /\ s.Revision = revision
             /\ DOMAIN s.Configs = ListPrefixes(IF remote' THEN ServerPrefixes(ps) ELSE ps)
             /\ \A k \in DOMAIN s.Configs : s.Configs[k] = rows[k]
<1> DEFINE S == ListPrefixes(IF remote' THEN ServerPrefixes(ps) ELSE ps)
<1>1. Fetch(ps) = [Revision |-> revision, Configs |-> [k \in S |-> rows[k]]]
  BY DEF Fetch, Snapshot
<1>2. S \subseteq Keys /\ \A k \in S : rows[k] # Absent
  BY DEF ListPrefixes
<1> HIDE DEF S
<1>3. \A k \in S : rows[k] \in Values
  BY <1>2 DEF ViewInv
<1>4. [k \in S |-> rows[k]] \in [S -> Values]
  BY <1>3
<1>5. /\ Fetch(ps).Revision = revision /\ DOMAIN Fetch(ps).Configs = S
      /\ Fetch(ps).Configs \in [S -> Values] /\ \A k \in S : Fetch(ps).Configs[k] = rows[k]
  BY <1>1, <1>4
<1>6. revision \in 0 .. MaxRevision
  BY DEF ViewInv
<1> QED
  BY <1>2, <1>5, <1>6 DEF IsSnapshot, S

\* Every text has the empty prefix.
LEMMA EmptyPrefix == \A k \in Seq(Nat) : HasPrefix(k, <<>>)
<1> SUFFICES ASSUME NEW k \in Seq(Nat) PROVE HasPrefix(k, <<>>)
  OBVIOUS
<1>1. <<>> \in Seq(Nat) /\ Len(<<>>) = 0 /\ Len(k) \in Nat
  OBVIOUS
<1>2. Len(<<>>) <= Len(k) /\ \A i \in 1 .. Len(<<>>) : k[i] = <<>>[i]
  BY <1>1
<1> QED
  BY <1>1, <1>2, HasPrefixAt

\* Every key that changed is reported under each prefix of the application it has,
\* and no prefix is reported twice.
LEMMA NotifyIsExact ==
  ASSUME NEW ps \in Seq(Text), Distinct(ps), NEW changed \in SUBSET Keys
  PROVE  LET calls == Notify(ps, changed)
         IN  /\ \A p \in Sought(ps) : \A k \in changed :
                    HasPrefix(k, p) =>
                        \E n \in DOMAIN calls : calls[n].prefix = p /\ k \in calls[n].keys
             /\ \A n \in DOMAIN calls : \A k \in calls[n].keys :
                    k \in changed /\ HasPrefix(k, calls[n].prefix)
             /\ \A n, q \in DOMAIN calls : calls[q].prefix = calls[n].prefix => q = n
<1> DEFINE np == NotifyPrefixes(ps)
           due == {n \in DOMAIN np : FilterPrefix(changed, np[n]) # {}}
           calls == Notify(ps, changed)
<1>1. /\ DOMAIN calls = due
      /\ \A n \in due : calls[n].prefix = np[n] /\ calls[n].keys = FilterPrefix(changed, np[n])
  BY DEF Notify
<1>2. Distinct(np)
  <2>1. CASE ps = <<>>
    <3>1. np = <<<<>>>>
      BY <2>1 DEF NotifyPrefixes
    <3>2. DOMAIN np = {1}
      BY <3>1
    <3> QED
      BY <3>2 DEF Distinct
  <2>2. CASE ps # <<>>
    BY <2>2 DEF NotifyPrefixes
  <2> QED
    BY <2>1, <2>2
<1>3. \A p \in Sought(ps) : \E n \in DOMAIN np : np[n] = p
  BY DEF NotifyPrefixes, Sought, Range
<1> HIDE DEF np, calls
<1>4. ASSUME NEW p \in Sought(ps), NEW k \in changed, HasPrefix(k, p)
      PROVE  \E n \in DOMAIN calls : calls[n].prefix = p /\ k \in calls[n].keys
  <2>1. PICK n \in DOMAIN np : np[n] = p
    BY <1>3
  <2>2. k \in FilterPrefix(changed, np[n])
    BY <1>4, <2>1 DEF FilterPrefix
  <2> QED
    BY <1>1, <2>1, <2>2
<1>5. ASSUME NEW n \in DOMAIN calls, NEW k \in calls[n].keys
      PROVE  k \in changed /\ HasPrefix(k, calls[n].prefix)
  BY <1>1, <1>5 DEF FilterPrefix
<1>6. ASSUME NEW n \in DOMAIN calls, NEW q \in DOMAIN calls, calls[q].prefix = calls[n].prefix
      PROVE  q = n
  <2>1. np[q] = np[n] /\ n \in DOMAIN np /\ q \in DOMAIN np
    BY <1>1, <1>6
  <2> QED
    BY <1>2, <2>1 DEF Distinct
<1> QED
  BY <1>4, <1>5, <1>6 DEF calls

\* Between two views exactly the keys of Diff read differently.
LEMMA DiffIsExact ==
  ASSUME NEW old, NEW new, IsView(old), IsView(new)
  PROVE  /\ Diff(old, new) \subseteq Keys
         /\ \A k : k \in Diff(old, new) <=> Raw(old, k) # Raw(new, k)
<1>1. DOMAIN old.byKey \subseteq Keys /\ DOMAIN new.byKey \subseteq Keys
  BY DEF IsView
<1>2. /\ \A k \in DOMAIN old.byKey : old.byKey[k] # Absent
      /\ \A k \in DOMAIN new.byKey : new.byKey[k] # Absent
  BY ViewAssumption DEF IsView, ViewAssumption
<1> QED
  BY <1>1, <1>2 DEF Diff, Raw

\* Initially there is no client and no file.
LEMMA InitInv == Init => ViewInv /\ MirrorFollows
<1> SUFFICES ASSUME Init PROVE ViewInv /\ MirrorFollows
  OBVIOUS
<1>1. <<>> \in Seq(Text) /\ Distinct(<<>>)
  BY EmptySeq DEF Distinct
<1>2. 0 \in 0 .. MaxRevision
  BY ViewAssumption DEF ViewAssumption
<1> QED
  BY <1>1, <1>2 DEF Init, ViewInv, MirrorFollows

\* What apply leaves: the view of this moment's fetch, and a file that holds a
\* snapshot.
LEMMA ApplyMakes ==
  ASSUME ViewInv, NEW old, NEW ps, Apply(old, ps)
  PROVE  /\ IsView(view') /\ view' = NewView(Fetch(ps))
         /\ view'.revision = revision /\ view'.byKey = Fetch(ps).Configs
         /\ \/ file' = file
            \/ /\ file'.wire.Revision = revision /\ file'.wire.Configs = Fetch(ps).Configs
               /\ file'.origin = ps
         /\ seeded' = TRUE /\ origin' = ps
         /\ file' # NoFile => IsSnapshot((file').wire)
<1>1. IsSnapshot(Fetch(ps)) /\ Fetch(ps).Revision = revision
  BY FetchIsSnapshot
<1>2. view' = NewView(Fetch(ps)) /\ seeded' = TRUE /\ origin' = ps
  BY DEF Apply
<1>3. IsView(view') /\ view'.revision = revision /\ view'.byKey = Fetch(ps).Configs
  BY <1>1, <1>2, NewViewIsView
<1> DEFINE w == ToWire(view')
<1>4. w.Revision = revision /\ w.Configs = Fetch(ps).Configs
  BY <1>3, WireOfView
<1>5. file' = file \/ file' = [wire |-> w, origin |-> ps]
  BY <1>2 DEF Apply
<1> HIDE DEF w
<1>6. \/ file' = file
      \/ /\ file'.wire.Revision = revision /\ file'.wire.Configs = Fetch(ps).Configs
         /\ file'.origin = ps
  BY <1>4, <1>5
<1>7. file' # NoFile => IsSnapshot((file').wire)
  <2>1. CASE file' = file
    <3>1. file' # NoFile => IsSnapshot(file.wire)
      BY <2>1 DEF ViewInv
    <3> QED
      BY <2>1, <3>1
  <2>2. CASE file' = [wire |-> w, origin |-> ps]
    <3>1. (file').wire = w
      BY <2>2
    <3>2. IsSnapshot(w)
      BY <1>1, <1>4 DEF IsSnapshot
    <3> QED
      BY <3>1, <3>2
  <2> QED
    BY <1>5, <2>1, <2>2
<1> QED
  BY <1>2, <1>3, <1>6, <1>7

\* Every call keeps the invariant.
LEMMA ViewStep == ViewInv /\ [Next]_vars => ViewInv'
<1> SUFFICES ASSUME ViewInv, [Next]_vars PROVE ViewInv'
  OBVIOUS
<1>1. ASSUME NEW k \in Keys, NEW v \in Values \cup {Absent}, Write(k, v) PROVE ViewInv'
  <2>1. revision' \in 0 .. MaxRevision
    BY <1>1, ViewAssumption DEF Write, ViewInv, ViewAssumption
  <2>2. rows' \in [Keys -> Values \cup {Absent}]
    BY <1>1 DEF Write, ViewInv
  <2>3. UNCHANGED <<remote, prefixes, seeded, view, file>>
    BY <1>1 DEF Write
  <2> QED
    BY <2>1, <2>2, <2>3 DEF ViewInv, IsView, IsSnapshot, Distinct
<1>2. ASSUME NEW args \in PrefixArgs, NEW r \in BOOLEAN, NewFetched(args, r) PROVE ViewInv'
  <2>1. UNCHANGED <<rows, revision>> /\ remote' = r /\ prefixes' = Normalized(args)
        /\ Apply(EmptyView, prefixes')
    BY <1>2 DEF NewFetched
  <2>2. IsView(view') /\ seeded' = TRUE /\ (file' # NoFile => IsSnapshot((file').wire))
    BY <2>1, ApplyMakes
  <2>3. prefixes' \in Seq(Text) /\ Distinct(prefixes')
    BY <2>1, NormalizedIsDistinct
  <2>4. rows' \in [Keys -> Values \cup {Absent}] /\ revision' \in 0 .. MaxRevision
        /\ remote' \in BOOLEAN /\ seeded' \in BOOLEAN
    BY <2>1, <2>2 DEF ViewInv
  <2> QED
    BY <2>2, <2>3, <2>4 DEF ViewInv
<1>3. ASSUME NEW args \in PrefixArgs, NEW r \in BOOLEAN, NewFromFile(args, r) PROVE ViewInv'
  <2>1. /\ UNCHANGED <<rows, revision, seeded, file>> /\ remote' = r
        /\ prefixes' = Normalized(args) /\ file # NoFile /\ view' = NewView(file.wire)
    BY <1>3 DEF NewFromFile
  <2>2. IsSnapshot(file.wire)
    BY <2>1 DEF ViewInv
  <2>3. IsView(view')
    BY <2>1, <2>2, NewViewIsView
  <2>4. prefixes' \in Seq(Text) /\ Distinct(prefixes')
    BY <2>1, NormalizedIsDistinct
  <2>5. (file').wire = file.wire
    BY <2>1
  <2> QED
    BY <2>1, <2>2, <2>3, <2>4, <2>5 DEF ViewInv
<1>4. ASSUME NEW args \in PrefixArgs, NEW r \in BOOLEAN, NewDegraded(args, r) PROVE ViewInv'
  <2>1. /\ UNCHANGED <<rows, revision, seeded, file>> /\ remote' = r
        /\ prefixes' = Normalized(args) /\ view' = EmptyView
    BY <1>4 DEF NewDegraded
  <2>2. IsView(view')
    BY <2>1, EmptyIsView
  <2>3. prefixes' \in Seq(Text) /\ Distinct(prefixes')
    BY <2>1, NormalizedIsDistinct
  <2>4. file' # NoFile => IsSnapshot((file').wire)
    BY <2>1 DEF ViewInv
  <2> QED
    BY <2>1, <2>2, <2>3, <2>4 DEF ViewInv
<1>5. CASE Poll
  <2>1. UNCHANGED <<rows, revision, remote, prefixes>> /\ Apply(view, prefixes)
    BY <1>5 DEF Poll
  <2>2. IsView(view') /\ seeded' = TRUE /\ (file' # NoFile => IsSnapshot((file').wire))
    BY <2>1, ApplyMakes
  <2> QED
    BY <2>1, <2>2 DEF ViewInv
<1>6. CASE Exit
  <2>1. /\ UNCHANGED <<rows, revision, file>> /\ view' = NoClient
        /\ remote' = FALSE /\ prefixes' = <<>> /\ seeded' = FALSE
    BY <1>6 DEF Exit
  <2>2. <<>> \in Seq(Text) /\ Distinct(<<>>)
    BY EmptySeq DEF Distinct
  <2>3. file' # NoFile => IsSnapshot((file').wire)
    BY <2>1 DEF ViewInv
  <2> QED
    BY <2>1, <2>2, <2>3 DEF ViewInv
<1>7. CASE UNCHANGED vars
  BY <1>7 DEF ViewInv, IsView, IsSnapshot, Distinct, vars, client
<1> QED
  BY <1>1, <1>2, <1>3, <1>4, <1>5, <1>6, <1>7 DEF Next

\* The invariant of a client's view and its file, for any keys, values, prefixes
\* and bounds.
THEOREM ViewInvariant == Spec => []ViewInv
<1> QED
  BY InitInv, ViewStep, PTL DEF Spec

\* A view lists its keys in strict order, as Group's search needs, also one read
\* from a file (view.go: newView).
THEOREM ViewTypes == Spec => []TypeOK
<1>1. ASSUME NEW v, IsView(v)
      PROVE  /\ v.revision \in -1 .. MaxRevision
             /\ v.byKey \in [Range(v.keys) -> Values]
             /\ \A n \in 2 .. Len(v.keys) : Before(v.keys[n - 1], v.keys[n])
  <2>1. PICK n \in Nat :
          /\ v.keys \in [1 .. n -> DOMAIN v.byKey]
          /\ \A k \in DOMAIN v.byKey : \E i \in 1 .. n : v.keys[i] = k
          /\ \A i, j \in 1 .. n : i < j => Before(v.keys[i], v.keys[j])
    BY <1>1, ViewKeys
  <2>2. Range(v.keys) = DOMAIN v.byKey
    BY <2>1 DEF Range
  <2>3. Len(v.keys) = n
    BY <2>1
  <2>4. ASSUME NEW i \in 2 .. n PROVE Before(v.keys[i - 1], v.keys[i])
    <3>1. i - 1 \in 1 .. n /\ i \in 1 .. n /\ i - 1 < i
      OBVIOUS
    <3> QED
      BY <2>1, <3>1
  <2> QED
    BY <1>1, <2>2, <2>3, <2>4 DEF IsView
<1>2. ViewInv => TypeOK
  <2> SUFFICES ASSUME ViewInv PROVE TypeOK
    OBVIOUS
  <2>1. view # NoClient => IsView(view)
    BY DEF ViewInv
  <2>2. file # NoFile => IsView(NewView(file.wire))
    BY NewViewIsView DEF ViewInv
  <2>3. \A v \in {view} \cup (IF file = NoFile THEN {} ELSE {NewView(file.wire)}) :
          v # NoClient => IsView(v)
    BY <2>1, <2>2
  <2> QED
    BY <1>1, <2>3 DEF ViewInv, TypeOK
<1> QED
  BY <1>2, ViewInvariant, PTL

\* Whatever prefix a group is asked for, its keys are those of the view with that
\* prefix, each once and in order, and reading one finds it (group.go: Keys, Raw;
\* view.go: prefixRange).
THEOREM GroupsAreExact == Spec => []GroupIsExact
<1>1. ViewInv => GroupIsExact
  <2> SUFFICES ASSUME ViewInv, view # NoClient, NEW p \in GroupArgs
               PROVE  LET ks == GroupKeys(view, p)
                      IN  /\ {p \o ks[n] : n \in DOMAIN ks} = {k \in DOMAIN view.byKey : HasPrefix(k, p)}
                          /\ \A n \in DOMAIN ks : Raw(view, p \o ks[n]) # Absent
                          /\ \A n \in 2 .. Len(ks) : Before(ks[n - 1], ks[n])
    BY DEF GroupIsExact
  <2>1. IsView(view) /\ p \in Seq(Nat)
    BY ViewAssumption, TextIsNumbers DEF ViewInv, ViewAssumption
  <2> QED
    BY <2>1, GroupOfView, Zenon
<1> QED
  BY <1>1, ViewInvariant, PTL

\* A poll reports what its view changed, and the application reads that again.
LEMMA PollReports ==
  ASSUME ViewInv, Poll
  PROVE  /\ IsView(view) /\ IsView(view') /\ UNCHANGED prefixes
         /\ \A p \in Sought(prefixes) : \A k \in Keys :
                HasPrefix(k, p) /\ Raw(view, k) # Raw(view', k) =>
                    \E n \in DOMAIN told' : told'[n].prefix = p /\ k \in told'[n].keys
         /\ \A n \in DOMAIN told' : \A k \in told'[n].keys :
                Raw(view, k) # Raw(view', k) /\ HasPrefix(k, told'[n].prefix)
         /\ \A n, q \in DOMAIN told' : told'[q].prefix = told'[n].prefix => q = n
<1> DEFINE changed == Diff(view, view')
<1>1. /\ view # NoClient /\ UNCHANGED prefixes /\ Apply(view, prefixes)
      /\ told' = Notify(prefixes, changed)
  BY DEF Poll
<1>2. IsView(view) /\ IsView(view')
  BY <1>1, ApplyMakes DEF ViewInv
<1>3. changed \in SUBSET Keys /\ \A k : k \in changed <=> Raw(view, k) # Raw(view', k)
  BY <1>2, DiffIsExact
<1> HIDE DEF changed
<1>4. prefixes \in Seq(Text) /\ Distinct(prefixes)
  BY DEF ViewInv
<1> DEFINE calls == Notify(prefixes, changed)
<1>5. /\ \A p \in Sought(prefixes) : \A k \in changed :
             HasPrefix(k, p) =>
                 \E n \in DOMAIN calls : calls[n].prefix = p /\ k \in calls[n].keys
      /\ \A n \in DOMAIN calls : \A k \in calls[n].keys :
             k \in changed /\ HasPrefix(k, calls[n].prefix)
      /\ \A n, q \in DOMAIN calls : calls[q].prefix = calls[n].prefix => q = n
  BY <1>3, <1>4, NotifyIsExact
<1>6. told' = calls
  BY <1>1
<1> HIDE DEF calls
<1> QED
  BY <1>1, <1>2, <1>3, <1>5, <1>6

\* An application that reads again only the keys onChange names with a prefix has,
\* under each of its prefixes, what the client has, over any number of polls, with
\* prefixes that nest or repeat (client.go: notify).
THEOREM ReportsSuffice == Spec => []MirrorFollows
<1>1. ViewInv /\ MirrorFollows /\ [Next]_vars => MirrorFollows'
  <2> SUFFICES ASSUME ViewInv, MirrorFollows, [Next]_vars PROVE MirrorFollows'
    OBVIOUS
  <2>1. ASSUME NEW k \in Keys, NEW v \in Values \cup {Absent}, Write(k, v) PROVE MirrorFollows'
    BY <2>1 DEF Write, MirrorFollows, Raw
  <2>2. ASSUME NEW args \in PrefixArgs, NEW r \in BOOLEAN,
               NewFetched(args, r) \/ NewFromFile(args, r) \/ NewDegraded(args, r)
        PROVE  MirrorFollows'
    <3>1. mirror' = Copies(view', prefixes')
      BY <2>2 DEF NewFetched, NewFromFile, NewDegraded
    <3> QED
      BY <3>1 DEF Copies, MirrorFollows
  <2>3. CASE Poll
    <3> DEFINE Told(p, k) == \E n \in DOMAIN told' : told'[n].prefix = p /\ k \in told'[n].keys
    <3>1. /\ view # NoClient
          /\ mirror' = [p \in Sought(prefixes) |-> [k \in Keys |->
                           IF Told(p, k) THEN Raw(view', k) ELSE mirror[p][k]]]
      BY <2>3 DEF Poll
    <3>2. /\ UNCHANGED prefixes
          /\ \A p \in Sought(prefixes) : \A k \in Keys :
                 HasPrefix(k, p) /\ Raw(view, k) # Raw(view', k) => Told(p, k)
      BY <2>3, PollReports
    <3>3. ASSUME NEW p \in Sought(prefixes), NEW k \in Keys, HasPrefix(k, p)
          PROVE  mirror'[p][k] = Raw(view', k)
      <4>1. mirror[p][k] = Raw(view, k)
        BY <3>1, <3>3 DEF MirrorFollows
      <4> QED
        BY <3>1, <3>2, <3>3, <4>1
    <3> QED
      BY <3>2, <3>3 DEF MirrorFollows
  <2>4. CASE Exit
    BY <2>4 DEF Exit, MirrorFollows
  <2>5. CASE UNCHANGED vars
    BY <2>5 DEF vars, client, MirrorFollows, Raw
  <2> QED
    BY <2>1, <2>2, <2>3, <2>4, <2>5 DEF Next
<1> QED
  BY <1>1, InitInv, ViewInvariant, PTL DEF Spec

\* onChange is called once for each prefix with a change, with keys under it that
\* do not read as before, and never by New (client.go: apply, normalizePrefixes).
THEOREM ReportsArePrecise == Spec => OnChangeIsPrecise
<1> DEFINE Precise ==
      \A n \in DOMAIN told' :
          /\ view # NoClient
          /\ \A k \in told'[n].keys :
                 HasPrefix(k, told'[n].prefix) /\ Raw(view, k) # Raw(view', k)
          /\ \A q \in DOMAIN told' : told'[q].prefix = told'[n].prefix => q = n
<1>1. ViewInv /\ [Next]_vars => [Precise]_vars
  <2> SUFFICES ASSUME ViewInv, Next PROVE Precise
    OBVIOUS
  <2>1. CASE told' = <<>>
    BY <2>1
  <2>2. CASE Poll
    <3>1. view # NoClient
      BY <2>2 DEF Poll
    <3> QED
      BY <2>2, <3>1, PollReports
  <2>3. Poll \/ told' = <<>>
    BY DEF Next, Write, NewFetched, NewFromFile, NewDegraded, Exit
  <2> QED
    BY <2>1, <2>2, <2>3
<1> QED
  BY <1>1, ViewInvariant, PTL DEF Spec, OnChangeIsPrecise

(***************************************************************************)
(* The view is the selection of its prefixes.                              *)
(***************************************************************************)

\* The statement over all prefixes selects the rows an application asked for.
LEMMA ListIsAsked ==
  ASSUME NEW ps \in Seq(Text)
  PROVE  ListPrefixes(ps) = {k \in Asked(ps) : rows[k] # Absent}
<1>1. ASSUME NEW k \in Keys, NEW n \in DOMAIN ps
      PROVE  ps[n] = <<>> \/ Like(k, LikePrefix(ps[n])) <=> HasPrefix(k, ps[n])
  <2>1. k \in Seq(Nat) /\ ps[n] \in Seq(Nat)
    <3>1. ps[n] \in Text
      BY ElementOfSeq
    <3> QED
      BY <3>1, KeysAreNumbers, TextIsNumbers
  <2>2. Like(k, LikePrefix(ps[n])) <=> HasPrefix(k, ps[n])
    BY <2>1, LikeIsPrefix, Zenon
  <2>3. ps[n] = <<>> => HasPrefix(k, ps[n])
    BY <2>1, EmptyPrefix, Zenon
  <2> QED
    BY <2>2, <2>3, Zenon
<1> QED
  BY <1>1, Zenon DEF ListPrefixes, Asked

\* What the server makes of the query asks for the same.
LEMMA ServerAsksTheSame ==
  ASSUME NEW ps \in Seq(Text)
  PROVE  ServerPrefixes(ps) \in Seq(Text) /\ Asked(ServerPrefixes(ps)) = Asked(ps)
<1> DEFINE all == <<<<>>>>
<1>1. all \in Seq(Text) /\ DOMAIN all = {1} /\ all[1] = <<>>
  BY EmptySeq DEF Text
<1>2. Asked(all) = Keys
  BY <1>1, KeysAreNumbers, EmptyPrefix DEF Asked
<1> HIDE DEF all
<1>3. CASE ps = <<>> \/ Contains(ps, <<>>)
  <2>1. ServerPrefixes(ps) = all
    BY <1>3 DEF ServerPrefixes, all
  <2>2. Asked(ps) = Keys
    <3>1. CASE ps = <<>>
      BY <3>1 DEF Asked
    <3>2. CASE Contains(ps, <<>>)
      <4>1. PICK n \in DOMAIN ps : ps[n] = <<>>
        BY <3>2 DEF Contains
      <4> QED
        BY <4>1, KeysAreNumbers, EmptyPrefix DEF Asked
    <3> QED
      BY <1>3, <3>1, <3>2
  <2> QED
    BY <1>1, <1>2, <2>1, <2>2
<1>4. CASE ~(ps = <<>> \/ Contains(ps, <<>>))
  <2>1. ServerPrefixes(ps) = Dedup(ps)
    BY <1>4 DEF ServerPrefixes
  <2>2. Dedup(ps) \in Seq(Text) /\ Covers(Dedup(ps), ps, DOMAIN ps)
    BY DedupKeeps
  <2>3. ps # <<>>
    BY <1>4
  <2> DEFINE ds == Dedup(ps)
  <2> HIDE DEF ds
  <2>4. /\ \A n \in DOMAIN ps : \E i \in DOMAIN ds : ds[i] = ps[n]
        /\ \A i \in DOMAIN ds : \E n \in DOMAIN ps : ds[i] = ps[n]
    BY <2>2 DEF Covers, ds
  <2>5. ds # <<>>
    <3>1. 1 \in DOMAIN ps
      BY <2>3
    <3> QED
      BY <2>4, <3>1
  <2>6. Asked(ds) = Asked(ps)
    BY <2>3, <2>4, <2>5, Zenon DEF Asked
  <2> QED
    BY <2>1, <2>2, <2>6 DEF ds
<1> QED
  BY <1>3, <1>4

\* Configs of some revision, fetched under some prefixes, are the rows of that
\* moment; what they were is known while the revision has not moved.
Selected(rev, configs, ps) ==
    /\ rev <= revision
    /\ rev = revision =>
         /\ DOMAIN configs = {k \in Asked(ps) : rows[k] # Absent}
         /\ \A k \in DOMAIN configs : configs[k] = rows[k]

SelectionInv ==
    /\ view # NoClient => Selected(view.revision, view.byKey, origin)
    /\ file # NoFile => Selected(file.wire.Revision, file.wire.Configs, file.origin)

\* A fetch is such a selection, from either source.
LEMMA FetchSelects ==
  ASSUME ViewInv, NEW ps \in Seq(Text)
  PROVE  Selected(revision, Fetch(ps).Configs, ps)
<1> DEFINE sent == IF remote' THEN ServerPrefixes(ps) ELSE ps
<1>1. sent \in Seq(Text) /\ Asked(sent) = Asked(ps)
  BY ServerAsksTheSame
<1>2. /\ DOMAIN Fetch(ps).Configs = ListPrefixes(sent)
      /\ \A k \in DOMAIN Fetch(ps).Configs : Fetch(ps).Configs[k] = rows[k]
  BY FetchIsSnapshot, Zenon
<1> HIDE DEF sent
<1>3. ListPrefixes(sent) = {k \in Asked(ps) : rows[k] # Absent}
  BY <1>1, ListIsAsked
<1>4. revision <= revision
  BY DEF ViewInv
<1> QED
  BY <1>2, <1>3, <1>4 DEF Selected

\* What apply leaves in the view and in the file.
LEMMA ApplySelects ==
  ASSUME ViewInv, SelectionInv, NEW old, NEW ps \in Seq(Text), Apply(old, ps), UNCHANGED <<rows, revision>>
  PROVE  SelectionInv'
<1> DEFINE Sel(rev, configs, qs) ==
             /\ rev <= revision'
             /\ rev = revision' =>
                  /\ DOMAIN configs = {k \in Asked(qs) : rows'[k] # Absent}
                  /\ \A k \in DOMAIN configs : configs[k] = rows'[k]
<1>1. Sel(revision, Fetch(ps).Configs, ps)
  BY FetchSelects DEF Selected
<1>2. /\ view'.revision = revision /\ view'.byKey = Fetch(ps).Configs /\ origin' = ps
      /\ \/ file' = file
         \/ /\ file'.wire.Revision = revision /\ file'.wire.Configs = Fetch(ps).Configs
            /\ file'.origin = ps
  BY ApplyMakes
<1>3. file # NoFile => Sel(file.wire.Revision, file.wire.Configs, file.origin)
  BY DEF SelectionInv, Selected
<1> HIDE DEF Sel
<1>4. Sel(view'.revision, view'.byKey, origin')
  BY <1>1, <1>2
<1>5. file' # NoFile => Sel(file'.wire.Revision, file'.wire.Configs, file'.origin)
  BY <1>1, <1>2, <1>3
<1> QED
  BY <1>4, <1>5 DEF SelectionInv, Selected, Sel, Asked

\* Every call keeps it.
LEMMA SelectionStep == ViewInv /\ SelectionInv /\ [Next]_vars => SelectionInv'
<1> SUFFICES ASSUME ViewInv, SelectionInv, [Next]_vars PROVE SelectionInv'
  OBVIOUS
<1>1. ASSUME NEW k \in Keys, NEW v \in Values \cup {Absent}, Write(k, v) PROVE SelectionInv'
  <2>1. /\ revision' = revision + 1 /\ UNCHANGED <<view, file, origin>>
        /\ revision \in Nat
    BY <1>1, ViewAssumption DEF Write, ViewInv, ViewAssumption
  <2>2. view # NoClient => view.revision \in Int /\ view.revision <= revision
    BY DEF ViewInv, IsView, SelectionInv, Selected
  <2>3. file # NoFile => file.wire.Revision \in Int /\ file.wire.Revision <= revision
    BY DEF ViewInv, IsSnapshot, SelectionInv, Selected
  <2>4. view # NoClient => view.revision <= revision' /\ view.revision # revision'
    BY <2>1, <2>2
  <2>5. file # NoFile => file.wire.Revision <= revision' /\ file.wire.Revision # revision'
    BY <2>1, <2>3
  <2> QED
    BY <2>1, <2>4, <2>5 DEF SelectionInv, Selected
<1>2. ASSUME NEW args \in PrefixArgs, NEW r \in BOOLEAN, NewFetched(args, r) PROVE SelectionInv'
  <2>1. UNCHANGED <<rows, revision>> /\ prefixes' = Normalized(args) /\ Apply(EmptyView, prefixes')
    BY <1>2 DEF NewFetched
  <2>2. prefixes' \in Seq(Text)
    BY <2>1, NormalizedIsDistinct
  <2> QED
    BY <2>1, <2>2, ApplySelects
<1>3. ASSUME NEW args \in PrefixArgs, NEW r \in BOOLEAN, NewFromFile(args, r) PROVE SelectionInv'
  <2>1. /\ UNCHANGED <<rows, revision, file>> /\ file # NoFile
        /\ view' = NewView(file.wire) /\ origin' = file.origin
    BY <1>3 DEF NewFromFile
  <2>2. view'.revision = file.wire.Revision /\ view'.byKey = file.wire.Configs
    BY <2>1, NewViewIsView DEF ViewInv
  <2> QED
    BY <2>1, <2>2 DEF SelectionInv, Selected, Asked
<1>4. ASSUME NEW args \in PrefixArgs, NEW r \in BOOLEAN, NewDegraded(args, r) PROVE SelectionInv'
  <2>1. UNCHANGED <<rows, revision, file>> /\ view' = EmptyView /\ file = NoFile
    BY <1>4 DEF NewDegraded
  <2>2. view'.revision = -1 /\ revision \in Nat
    BY <2>1, EmptyIsView DEF ViewInv
  <2>3. view'.revision <= revision' /\ view'.revision # revision'
    BY <2>1, <2>2
  <2> QED
    BY <2>1, <2>3 DEF SelectionInv, Selected
<1>5. CASE Poll
  <2>1. UNCHANGED <<rows, revision>> /\ prefixes \in Seq(Text) /\ Apply(view, prefixes)
    BY <1>5 DEF Poll, ViewInv
  <2> QED
    BY <2>1, ApplySelects
<1>6. CASE Exit
  BY <1>6 DEF Exit, SelectionInv, Selected, Asked
<1>7. CASE UNCHANGED vars
  BY <1>7 DEF SelectionInv, Selected, Asked, vars, client
<1> QED
  BY <1>1, <1>2, <1>3, <1>4, <1>5, <1>6, <1>7 DEF Next

\* A client whose revision is the database's holds exactly the rows under the
\* prefixes it was fetched with, with a direct source and over HTTP, wildcards in
\* prefixes and keys included, also when it was started from the file
\* (dialect.go: likePrefix; handler.go: prefixes).
THEOREM SelectionIsExact == Spec => []ViewIsSelection
<1>1. Init => SelectionInv
  BY DEF Init, SelectionInv
<1>2. SelectionInv => ViewIsSelection
  BY DEF SelectionInv, Selected, ViewIsSelection
<1> QED
  BY <1>1, <1>2, SelectionStep, ViewInvariant, PTL DEF Spec
=============================================================================
