-------------------------- MODULE Selection_proofs ----------------------------
(***************************************************************************)
(* What Selected, InsertBySequence and SortBySequence return.  They are    *)
(* functions defined step by step over the places of a list.  That such a  *)
(* function exists (RecursionExists), and that what a step keeps holds at  *)
(* every place, rests on this: the set of places where it holds has no     *)
(* least place outside it (Counting).                                      *)
(***************************************************************************)
EXTENDS Selection, WellFoundedInduction, TLAPS

\* What holds of zero, and of the next number with every number, holds of all.
LEMMA Counting ==
    ASSUME NEW A, 0 \in A, \A n \in Nat : n \in A => n + 1 \in A
    PROVE  Nat \subseteq A
<1> DEFINE B == Nat \ A
<1> SUFFICES ASSUME B # {} PROVE FALSE
  OBVIOUS
<1>1. PICK m \in B : \A k \in B : ~(<<k, m>> \in OpToRel(<, Nat))
  BY NatLessThanWellFounded, WFMin, B \subseteq Nat
<1>2. m \in Nat /\ m # 0 /\ m \notin A
  BY <1>1
<1>3. m - 1 \in Nat /\ m - 1 \notin A
  <2>1. m - 1 \in Nat
    BY <1>2
  <2>2. m - 1 \in A => m - 1 + 1 \in A
    BY <2>1
  <2> QED
    BY <1>2, <2>1, <2>2
<1>4. <<m - 1, m>> \in OpToRel(<, Nat)
  BY <1>2, <1>3 DEF OpToRel
<1> QED
  BY <1>1, <1>3, <1>4

\* f selects from s up to place N.
SelectsTo(s, S, N, f) ==
    f = [n \in 0..N |-> IF n = 0 THEN <<>>
                        ELSE IF s[n] \in S THEN Append(f[n - 1], s[n]) ELSE f[n - 1]]

\* One more place adds its element, or nothing.
LEMMA SelectsStep ==
    ASSUME NEW s, NEW S, NEW N \in Nat, NEW f, SelectsTo(s, S, N, f),
           NEW n \in Nat, n + 1 <= N
    PROVE  f[n + 1] = IF s[n + 1] \in S THEN Append(f[n], s[n + 1]) ELSE f[n]
<1>1. n + 1 \in 0..N /\ n + 1 # 0 /\ n + 1 - 1 = n
  OBVIOUS
<1>2. \A k \in 0..N : f[k] = IF k = 0 THEN <<>>
                             ELSE IF s[k] \in S THEN Append(f[k - 1], s[k]) ELSE f[k - 1]
  BY DEF SelectsTo
<1>3. PICK m : m = n + 1
  OBVIOUS
<1>4. f[m] = IF s[m] \in S THEN Append(f[m - 1], s[m]) ELSE f[m - 1]
  BY <1>1, <1>2, <1>3
<1> QED
  BY <1>1, <1>3, <1>4

\* There is such a function for every place.
LEMMA SelectionExists ==
    ASSUME NEW s, NEW S, NEW N \in Nat
    PROVE  \E f : SelectsTo(s, S, N, f)
<1> DEFINE A == {n \in Nat : \E f : SelectsTo(s, S, n, f)}
<1>1. 0 \in A
  <2> DEFINE f == [n \in 0..0 |-> <<>>]
  <2>1. SelectsTo(s, S, 0, f)
    BY DEF SelectsTo
  <2> QED
    BY <2>1
<1>2. ASSUME NEW n \in Nat, n \in A PROVE n + 1 \in A
  <2>1. PICK f : SelectsTo(s, S, n, f)
    BY <1>2
  <2> DEFINE new == IF s[n + 1] \in S THEN Append(f[n], s[n + 1]) ELSE f[n]
  <2>2. PICK x : x = new
    OBVIOUS
  <2> DEFINE g == [k \in 0 .. n + 1 |-> IF k = n + 1 THEN x ELSE f[k]]
  <2>3. ASSUME NEW k \in 0 .. n + 1
        PROVE  g[k] = IF k = 0 THEN <<>>
                      ELSE IF s[k] \in S THEN Append(g[k - 1], s[k]) ELSE g[k - 1]
    <3>1. CASE k = n + 1
      <4>1. g[k] = x /\ g[k - 1] = f[n] /\ k # 0
        BY <3>1
      <4> QED
        BY <2>2, <3>1, <4>1
    <3>2. CASE k # n + 1
      <4>1. k \in 0..n /\ g[k] = f[k]
        BY <3>2
      <4>2. k # 0 => k - 1 \in 0..n /\ g[k - 1] = f[k - 1]
        BY <4>1
      <4> QED
        BY <2>1, <4>1, <4>2 DEF SelectsTo
    <3> QED
      BY <3>1, <3>2
  <2>4. SelectsTo(s, S, n + 1, g)
    <3>1. g = [k \in 0 .. n + 1 |-> g[k]]
      OBVIOUS
    <3> HIDE DEF g
    <3> QED
      BY <2>3, <3>1 DEF SelectsTo
  <2> QED
    BY <2>4
<1> QED
  BY <1>1, <1>2, Counting

\* Selected is what such a function has at the last place.
LEMMA SelectedIs ==
    ASSUME NEW s, NEW S, Len(s) \in Nat
    PROVE  \E f : SelectsTo(s, S, Len(s), f) /\ Selected(s, S) = f[Len(s)]
<1> DEFINE g == CHOOSE f : SelectsTo(s, S, Len(s), f)
<1>1. SelectsTo(s, S, Len(s), g)
  BY SelectionExists
<1>2. Selected(s, S) = g[Len(s)]
  BY DEF Selected, SelectsTo
<1> QED
  BY <1>1, <1>2

\* Where the first n elements of s that are in S have gone: to the places of q, in order.
PicksUpTo(s, S, n, q, pos) ==
    /\ pos \in [1..Len(q) -> 1..n]
    /\ \A i \in 1..Len(q) : s[pos[i]] \in S /\ q[i] = s[pos[i]]
    /\ \A i, j \in 1..Len(q) : i < j => pos[i] < pos[j]
    /\ \A k \in 1..n : s[k] \in S => \E i \in 1..Len(q) : pos[i] = k

\* One more element is picked.
LEMMA PickOneMore ==
    ASSUME NEW T, NEW s, NEW S, NEW n \in Nat, NEW q \in Seq(T), NEW pos,
           PicksUpTo(s, S, n, q, pos), s[n + 1] \in S, s[n + 1] \in T
    PROVE  \E new : PicksUpTo(s, S, n + 1, Append(q, s[n + 1]), new)
<1>1. PICK m \in Nat : m = Len(q)
  OBVIOUS
<1>2. PICK r : r = Append(q, s[n + 1])
  OBVIOUS
<1>3. Len(r) = m + 1 /\ r[m + 1] = s[n + 1] /\ \A i \in 1..m : r[i] = q[i]
  BY <1>1, <1>2
<1> DEFINE new == [i \in 1 .. m + 1 |-> IF i = m + 1 THEN n + 1 ELSE pos[i]]
<1>4. new[m + 1] = n + 1 /\ \A i \in 1..m : new[i] = pos[i] /\ pos[i] \in 1..n
  BY <1>1 DEF PicksUpTo
<1>5. new \in [1 .. m + 1 -> 1 .. n + 1]
  BY <1>1 DEF PicksUpTo
<1> HIDE DEF new
<1>6. \A i \in 1 .. m + 1 : i = m + 1 \/ i \in 1..m
  OBVIOUS
<1>7. \A i \in 1 .. m + 1 : s[new[i]] \in S /\ r[i] = s[new[i]]
  BY <1>1, <1>3, <1>4, <1>6 DEF PicksUpTo
<1>8. \A i, j \in 1 .. m + 1 : i < j => new[i] < new[j]
  <2> SUFFICES ASSUME NEW i \in 1 .. m + 1, NEW j \in 1 .. m + 1, i < j PROVE new[i] < new[j]
    OBVIOUS
  <2>1. i \in 1..m
    OBVIOUS
  <2>2. CASE j = m + 1
    BY <1>4, <2>1, <2>2
  <2>3. CASE j \in 1..m
    BY <1>1, <1>4, <2>1, <2>3 DEF PicksUpTo
  <2> QED
    BY <1>6, <2>2, <2>3
<1>9. \A k \in 1 .. n + 1 : s[k] \in S => \E i \in 1 .. m + 1 : new[i] = k
  <2> SUFFICES ASSUME NEW k \in 1 .. n + 1, s[k] \in S PROVE \E i \in 1 .. m + 1 : new[i] = k
    OBVIOUS
  <2>1. CASE k = n + 1
    BY <1>4, <2>1
  <2>2. CASE k # n + 1
    <3>1. PICK i \in 1..m : pos[i] = k
      BY <1>1, <2>2 DEF PicksUpTo
    <3> QED
      BY <1>4, <3>1
  <2> QED
    BY <2>1, <2>2
<1>10. Len(r) = m + 1
  BY <1>3
<1>11. PicksUpTo(s, S, n + 1, r, new)
  BY <1>5, <1>7, <1>8, <1>9, <1>10 DEF PicksUpTo
<1> QED
  BY <1>2, <1>11

\* What Selected returns: the elements of s in S, each once, in their order.
LEMMA SelectedFacts ==
    ASSUME NEW T, NEW s \in Seq(T), NEW S
    PROVE  /\ Selected(s, S) \in Seq(T)
           /\ \E pos : PicksUpTo(s, S, Len(s), Selected(s, S), pos)
<1>1. PICK f : SelectsTo(s, S, Len(s), f) /\ Selected(s, S) = f[Len(s)]
  BY SelectedIs
<1> DEFINE A == {n \in Nat : n <= Len(s) =>
                    f[n] \in Seq(T) /\ \E pos : PicksUpTo(s, S, n, f[n], pos)}
<1>2. 0 \in A
  <2>1. f[0] = <<>>
    BY <1>1 DEF SelectsTo
  <2>2. PicksUpTo(s, S, 0, <<>>, <<>>)
    BY DEF PicksUpTo
  <2>3. <<>> \in Seq(T)
    OBVIOUS
  <2>4. f[0] \in Seq(T) /\ \E pos : PicksUpTo(s, S, 0, f[0], pos)
    BY <2>1, <2>2, <2>3
  <2> QED
    BY <2>4
<1>3. ASSUME NEW n \in Nat, n \in A PROVE n + 1 \in A
  <2> SUFFICES ASSUME n + 1 <= Len(s)
               PROVE  f[n + 1] \in Seq(T) /\ \E pos : PicksUpTo(s, S, n + 1, f[n + 1], pos)
    OBVIOUS
  <2>1. f[n + 1] = IF s[n + 1] \in S THEN Append(f[n], s[n + 1]) ELSE f[n]
    BY <1>1, SelectsStep
  <2>2. s[n + 1] \in T
    OBVIOUS
  <2>3. PICK pos : f[n] \in Seq(T) /\ PicksUpTo(s, S, n, f[n], pos)
    BY <1>3
  <2>4. CASE s[n + 1] \in S
    <3>1. f[n + 1] = Append(f[n], s[n + 1])
      BY <2>1, <2>4
    <3> QED
      BY <2>2, <2>3, <2>4, <3>1, PickOneMore
  <2>5. CASE s[n + 1] \notin S
    <3>1. f[n + 1] = f[n] /\ Len(f[n]) \in Nat
      BY <2>1, <2>3, <2>5
    <3>2. pos \in [1..Len(f[n]) -> 1 .. n + 1]
      BY <2>3 DEF PicksUpTo
    <3>3. \A k \in 1 .. n + 1 : s[k] \in S => k \in 1..n
      BY <2>5
    <3>4. PicksUpTo(s, S, n + 1, f[n], pos)
      BY <2>3, <3>2, <3>3 DEF PicksUpTo
    <3> QED
      BY <2>3, <3>1, <3>4
  <2> QED
    BY <2>4, <2>5
<1>4. Len(s) \in A
  <2> HIDE DEF A
  <2> QED
    BY <1>2, <1>3, Counting
<1> QED
  BY <1>1, <1>4

\* What is selected up to a place depends on the elements up to there alone.
LEMMA SameSelection ==
    ASSUME NEW s, NEW r, NEW S, NEW N \in Nat, NEW M \in Nat, NEW f, NEW g,
           SelectsTo(s, S, N, f), SelectsTo(r, S, M, g), N <= M,
           \A i \in 1..N : r[i] = s[i]
    PROVE  f[N] = g[N]
<1> DEFINE A == {n \in Nat : n <= N => f[n] = g[n]}
<1>1. 0 \in A
  BY DEF SelectsTo
<1>2. ASSUME NEW n \in Nat, n \in A PROVE n + 1 \in A
  <2> SUFFICES ASSUME n + 1 <= N PROVE f[n + 1] = g[n + 1]
    OBVIOUS
  <2>1. f[n] = g[n] /\ r[n + 1] = s[n + 1]
    BY <1>2
  <2>2. f[n + 1] = IF s[n + 1] \in S THEN Append(f[n], s[n + 1]) ELSE f[n]
    BY SelectsStep
  <2>3. g[n + 1] = IF r[n + 1] \in S THEN Append(g[n], r[n + 1]) ELSE g[n]
    BY SelectsStep
  <2> QED
    BY <2>1, <2>2, <2>3
<1>3. N \in A
  <2> HIDE DEF A
  <2> QED
    BY <1>1, <1>2, Counting
<1> QED
  BY <1>3

\* Nothing is selected of an empty list.
LEMMA NothingSelected == \A S : Selected(<<>>, S) = <<>>
BY SelectedIs DEF SelectsTo

\* One more element at the end is selected at the end, or not at all.
LEMMA SelectedGrows ==
    ASSUME NEW T, NEW s \in Seq(T), NEW x \in T, NEW S
    PROVE  Selected(Append(s, x), S)
             = IF x \in S THEN Append(Selected(s, S), x) ELSE Selected(s, S)
<1>1. PICK r : r = Append(s, x)
  OBVIOUS
<1>2. PICK n \in Nat : n = Len(s)
  OBVIOUS
<1>3. Len(r) = n + 1 /\ r[n + 1] = x /\ \A i \in 1..n : r[i] = s[i]
  BY <1>1, <1>2
<1>4. PICK f : SelectsTo(s, S, n, f) /\ Selected(s, S) = f[n]
  BY <1>2, SelectedIs
<1>5. PICK g : SelectsTo(r, S, n + 1, g) /\ Selected(r, S) = g[n + 1]
  BY <1>3, SelectedIs
<1>6. f[n] = g[n]
  BY <1>3, <1>4, <1>5, SameSelection
<1>7. g[n + 1] = IF r[n + 1] \in S THEN Append(g[n], r[n + 1]) ELSE g[n]
  <2>1. PICK N \in Nat : N = n + 1
    OBVIOUS
  <2>2. SelectsTo(r, S, N, g) /\ n + 1 <= N
    BY <1>5, <2>1
  <2> QED
    BY <2>2, SelectsStep
<1> QED
  BY <1>1, <1>3, <1>4, <1>5, <1>6, <1>7

\* The first n elements, one by one.
LEMMA OneMoreOf ==
    ASSUME NEW T, NEW s \in Seq(T), NEW n \in Nat, n + 1 <= Len(s)
    PROVE  /\ SubSeq(s, 1, n) \in Seq(T) /\ s[n + 1] \in T
           /\ SubSeq(s, 1, n + 1) = Append(SubSeq(s, 1, n), s[n + 1])
OBVIOUS

\* The first elements stay the first ones as the list grows.
LEMMA PrefixOfMore ==
    ASSUME NEW T, NEW q \in Seq(T), NEW x \in T, NEW k \in Nat, k <= Len(q)
    PROVE  /\ Append(q, x) \in Seq(T) /\ k <= Len(Append(q, x))
           /\ SubSeq(Append(q, x), 1, k) = SubSeq(q, 1, k)
OBVIOUS

\* What is selected of the first elements comes first in what is selected of all.
LEMMA SelectedPrefix ==
    ASSUME NEW T, NEW s \in Seq(T), NEW S, NEW n \in Nat, n <= Len(s)
    PROVE  \E k \in 0..Len(Selected(s, S)) :
              Len(Selected(SubSeq(s, 1, n), S)) = k
              /\ Selected(SubSeq(s, 1, n), S) = SubSeq(Selected(s, S), 1, k)
<1> DEFINE P(m) == Selected(SubSeq(s, 1, n + m), S)
           k == Len(P(0))
           A == {m \in Nat : n + m <= Len(s) =>
                    P(m) \in Seq(T) /\ k <= Len(P(m)) /\ P(0) = SubSeq(P(m), 1, k)}
<1>1. SubSeq(s, 1, n) \in Seq(T) /\ SubSeq(s, 1, Len(s)) = s
  OBVIOUS
<1>2. P(0) \in Seq(T) /\ k \in Nat
  <2>1. P(0) \in Seq(T)
    BY <1>1, SelectedFacts, n + 0 = n
  <2> QED
    BY <2>1
<1>3. 0 \in A
  <2> HIDE DEF P
  <2> QED
    BY <1>2
<1>4. ASSUME NEW m \in Nat, m \in A PROVE m + 1 \in A
  <2> SUFFICES ASSUME n + (m + 1) <= Len(s)
               PROVE  P(m + 1) \in Seq(T) /\ k <= Len(P(m + 1)) /\ P(0) = SubSeq(P(m + 1), 1, k)
    OBVIOUS
  <2>1. P(m) \in Seq(T) /\ k <= Len(P(m)) /\ P(0) = SubSeq(P(m), 1, k)
    BY <1>4
  <2>2. /\ SubSeq(s, 1, n + m) \in Seq(T) /\ s[n + m + 1] \in T
        /\ SubSeq(s, 1, n + m + 1) = Append(SubSeq(s, 1, n + m), s[n + m + 1])
    BY OneMoreOf, n + m \in Nat, n + m + 1 <= Len(s)
  <2>3. P(m + 1) = IF s[n + m + 1] \in S THEN Append(P(m), s[n + m + 1]) ELSE P(m)
    <3>1. PICK q, x : q = SubSeq(s, 1, n + m) /\ x = s[n + m + 1]
      OBVIOUS
    <3>2. q \in Seq(T) /\ x \in T
      BY <2>2, <3>1
    <3>3. Selected(Append(q, x), S) = IF x \in S THEN Append(Selected(q, S), x) ELSE Selected(q, S)
      BY <3>2, SelectedGrows
    <3>4. n + (m + 1) = n + m + 1
      OBVIOUS
    <3> QED
      BY <2>2, <3>1, <3>3, <3>4
  <2> HIDE DEF P
  <2>4. CASE s[n + m + 1] \in S
    <3>1. P(m + 1) = Append(P(m), s[n + m + 1])
      BY <2>3, <2>4
    <3>2. PICK q, p, x : q = P(m) /\ p = P(m + 1) /\ x = s[n + m + 1]
      OBVIOUS
    <3>3. PICK l \in Nat : l = k
      BY <1>2
    <3>4. p = Append(q, x) /\ q \in Seq(T) /\ x \in T /\ l <= Len(q) /\ P(0) = SubSeq(q, 1, l)
      BY <2>1, <2>2, <3>1, <3>2, <3>3
    <3>5. p \in Seq(T) /\ l <= Len(p) /\ P(0) = SubSeq(p, 1, l)
      BY <3>4, PrefixOfMore
    <3> QED
      BY <3>2, <3>3, <3>5
  <2>5. CASE s[n + m + 1] \notin S
    BY <2>1, <2>3, <2>5
  <2> QED
    BY <2>4, <2>5
<1>5. Len(s) - n \in A
  <2> HIDE DEF A
  <2> QED
    BY <1>3, <1>4, Counting, Len(s) - n \in Nat
<1>6. P(Len(s) - n) = Selected(s, S)
  BY <1>1, n + (Len(s) - n) = Len(s)
<1>7. P(0) = Selected(SubSeq(s, 1, n), S)
  BY n + 0 = n
<1> HIDE DEF P
<1> QED
  BY <1>2, <1>5, <1>6, <1>7

-----------------------------------------------------------------------------

\* A value for each place up to N, each computed from its place and the value before.
IsRule(G, N, D) == \A n \in 1..N, x \in D : G[n][x] \in D

Computes(G, N, D, d, f) ==
    f \in [0..N -> D] /\ f[0] = d /\ \A n \in 1..N : f[n] = G[n][f[n - 1]]

LEMMA RecursionExists ==
    ASSUME NEW D, NEW d \in D, NEW N \in Nat, NEW G, IsRule(G, N, D)
    PROVE  \E f : Computes(G, N, D, d, f)
<1> DEFINE Upto(n) == \E f \in [0..n -> D] : f[0] = d /\ \A k \in 1..n : f[k] = G[k][f[k - 1]]
           A == {n \in Nat : n <= N => Upto(n)}
<1>1. 0 \in A
  <2> DEFINE f == [n \in 0..0 |-> d]
  <2>1. f \in [0..0 -> D] /\ f[0] = d
    OBVIOUS
  <2>2. \A k \in 1..0 : f[k] = G[k][f[k - 1]]
    OBVIOUS
  <2> HIDE DEF f
  <2>3. Upto(0)
    BY <2>1, <2>2
  <2> HIDE DEF Upto
  <2> QED
    BY <2>3
<1>2. ASSUME NEW n \in Nat, n \in A PROVE n + 1 \in A
  <2> SUFFICES ASSUME n + 1 <= N PROVE Upto(n + 1)
    OBVIOUS
  <2>1. PICK f \in [0..n -> D] : f[0] = d /\ \A k \in 1..n : f[k] = G[k][f[k - 1]]
    BY <1>2
  <2>2. PICK x \in D : x = G[n + 1][f[n]]
    <3>1. n + 1 \in 1..N /\ f[n] \in D
      BY <2>1
    <3> QED
      BY <3>1 DEF IsRule
  <2> DEFINE g == [k \in 0 .. n + 1 |-> IF k = n + 1 THEN x ELSE f[k]]
  <2>3. g \in [0 .. n + 1 -> D] /\ g[0] = d /\ g[n + 1] = x /\ \A k \in 0..n : g[k] = f[k]
    BY <2>1
  <2>4. ASSUME NEW k \in 1 .. n + 1 PROVE g[k] = G[k][g[k - 1]]
    <3>1. CASE k = n + 1
      <4>1. k - 1 = n /\ n \in 0..n
        BY <3>1
      <4> QED
        BY <2>2, <2>3, <3>1, <4>1
    <3>2. CASE k # n + 1
      <4>1. k \in 1..n /\ k \in 0..n /\ k - 1 \in 0..n
        BY <3>2
      <4> QED
        BY <2>1, <2>3, <4>1
    <3> QED
      BY <3>1, <3>2
  <2> HIDE DEF g
  <2> QED
    BY <2>3, <2>4
<1>3. N \in A
  <2> HIDE DEF A
  <2> QED
    BY <1>1, <1>2, Counting
<1> QED
  BY <1>3 DEF Computes

\* Numbers rise from row to row, by at least gap: 0 or 1.
Rises(rows, gap) ==
    \A i, j \in 1..Len(rows) : i < j => rows[i].sequence + gap <= rows[j].sequence

RowsOf(rows) == {rows[i] : i \in 1..Len(rows)}

\* What is selected of rows that rise.
LEMMA SelectedRises ==
    ASSUME NEW T, \A r \in T : r.sequence \in Int, NEW rows \in Seq(T), NEW gap \in {0, 1},
           Rises(rows, gap), NEW S
    PROVE  /\ Selected(rows, S) \in Seq(T) /\ Rises(Selected(rows, S), gap)
           /\ RowsOf(Selected(rows, S)) = RowsOf(rows) \cap S
<1>1. PICK q : q = Selected(rows, S)
  OBVIOUS
<1>2. q \in Seq(T) /\ \E pos : PicksUpTo(rows, S, Len(rows), q, pos)
  BY <1>1, SelectedFacts
<1>3. PICK pos : PicksUpTo(rows, S, Len(rows), q, pos)
  BY <1>2
<1>4. Rises(q, gap)
  <2> SUFFICES ASSUME NEW i \in 1..Len(q), NEW j \in 1..Len(q), i < j
               PROVE  q[i].sequence + gap <= q[j].sequence
    BY DEF Rises
  <2>1. pos[i] \in 1..Len(rows) /\ pos[j] \in 1..Len(rows) /\ pos[i] < pos[j]
        /\ q[i] = rows[pos[i]] /\ q[j] = rows[pos[j]]
    BY <1>3 DEF PicksUpTo
  <2> QED
    BY <2>1 DEF Rises
<1>5. RowsOf(q) = RowsOf(rows) \cap S
  <2>1. \A i \in 1..Len(q) : q[i] \in S /\ \E k \in 1..Len(rows) : q[i] = rows[k]
    BY <1>3 DEF PicksUpTo
  <2>2. \A k \in 1..Len(rows) : rows[k] \in S => \E i \in 1..Len(q) : q[i] = rows[k]
    BY <1>3 DEF PicksUpTo
  <2> QED
    BY <2>1, <2>2 DEF RowsOf
<1> QED
  BY <1>1, <1>2, <1>4, <1>5

\* Two lists with a row between them.
LEMMA RowBetween ==
    ASSUME NEW T, NEW p \in Seq(T), NEW x \in T, NEW q \in Seq(T)
    PROVE  /\ Append(p, x) \o q \in Seq(T)
           /\ Len(Append(p, x) \o q) = Len(p) + 1 + Len(q)
           /\ \A i \in 1..Len(p) : (Append(p, x) \o q)[i] = p[i]
           /\ (Append(p, x) \o q)[Len(p) + 1] = x
           /\ \A i \in 1..Len(q) : (Append(p, x) \o q)[Len(p) + 1 + i] = q[i]
OBVIOUS

\* A row that is inserted where rows rise.
LEMMA InsertedRises ==
    ASSUME NEW T, \A r \in T : r.sequence \in Int, NEW rows \in Seq(T), NEW gap \in {0, 1},
           Rises(rows, gap), NEW row \in T,
           gap = 1 => \A r \in RowsOf(rows) : r.sequence # row.sequence
    PROVE  /\ InsertBySequence(rows, row) \in Seq(T) /\ Rises(InsertBySequence(rows, row), gap)
           /\ RowsOf(InsertBySequence(rows, row)) = RowsOf(rows) \cup {row}
<1> DEFINE upTo == {rows[i] : i \in {j \in DOMAIN rows : rows[j].sequence <= row.sequence}}
           over == {rows[i] : i \in {j \in DOMAIN rows : rows[j].sequence > row.sequence}}
<1>1. PICK p : p = Selected(rows, upTo)
  OBVIOUS
<1>2. PICK q : q = Selected(rows, over)
  OBVIOUS
<1>3. PICK all : all = Append(p, row) \o q
  OBVIOUS
<1>4. InsertBySequence(rows, row) = all
  BY <1>1, <1>2, <1>3 DEF InsertBySequence
<1>5. DOMAIN rows = 1..Len(rows) /\ \A i \in 1..Len(rows) : rows[i] \in T /\ rows[i].sequence \in Int
  OBVIOUS
<1>6. /\ upTo = {r \in RowsOf(rows) : r.sequence <= row.sequence}
      /\ over = {r \in RowsOf(rows) : r.sequence > row.sequence}
  BY <1>5 DEF RowsOf
<1>7. RowsOf(rows) = upTo \cup over
  BY <1>5, <1>6 DEF RowsOf
<1> HIDE DEF upTo, over
<1>8. p \in Seq(T) /\ Rises(p, gap) /\ RowsOf(p) = upTo
  BY <1>1, <1>6, SelectedRises
<1>9. q \in Seq(T) /\ Rises(q, gap) /\ RowsOf(q) = over
  BY <1>2, <1>6, SelectedRises
<1>10. PICK m, n \in Nat : m = Len(p) /\ n = Len(q)
  BY <1>8, <1>9
<1>11. /\ all \in Seq(T) /\ Len(all) = m + 1 + n
       /\ \A i \in 1..m : all[i] = p[i]
       /\ all[m + 1] = row
       /\ \A i \in 1..n : all[m + 1 + i] = q[i]
  BY <1>3, <1>8, <1>9, <1>10, RowBetween
<1>12. \A i \in 1..m : p[i] \in upTo /\ p[i].sequence \in Int /\ p[i].sequence + gap <= row.sequence
  <2> SUFFICES ASSUME NEW i \in 1..m
               PROVE  p[i] \in upTo /\ p[i].sequence \in Int /\ p[i].sequence + gap <= row.sequence
    OBVIOUS
  <2>1. p[i] \in upTo /\ p[i] \in RowsOf(rows) /\ p[i] \in T
    BY <1>6, <1>8, <1>10 DEF RowsOf
  <2>2. p[i].sequence <= row.sequence /\ p[i].sequence \in Int /\ row.sequence \in Int
    BY <1>6, <2>1
  <2> QED
    BY <2>1, <2>2
<1>13. \A i \in 1..n : q[i] \in over /\ q[i].sequence \in Int /\ row.sequence + gap <= q[i].sequence
  <2> SUFFICES ASSUME NEW i \in 1..n
               PROVE  q[i] \in over /\ q[i].sequence \in Int /\ row.sequence + gap <= q[i].sequence
    OBVIOUS
  <2>1. q[i] \in over /\ q[i] \in RowsOf(rows) /\ q[i] \in T
    BY <1>6, <1>9, <1>10 DEF RowsOf
  <2>2. q[i].sequence > row.sequence /\ q[i].sequence \in Int /\ row.sequence \in Int
    BY <1>6, <2>1
  <2> QED
    BY <2>1, <2>2
<1>14. Rises(all, gap)
  <2> SUFFICES ASSUME NEW i \in 1 .. m + 1 + n, NEW j \in 1 .. m + 1 + n, i < j
               PROVE  all[i].sequence + gap <= all[j].sequence
    BY <1>11 DEF Rises
  <2>0. row.sequence \in Int /\ gap \in Int
    OBVIOUS
  <2>1. CASE j \in 1..m
    <3>1. i \in 1..m
      BY <2>1
    <3> QED
      BY <1>8, <1>10, <1>11, <2>1, <3>1 DEF Rises
  <2>2. CASE j = m + 1
    <3>1. i \in 1..m
      BY <2>2
    <3> QED
      BY <1>11, <1>12, <2>2, <3>1
  <2>3. CASE j > m + 1
    <3>1. PICK l \in 1..n : j = m + 1 + l
      <4>1. j - (m + 1) \in 1..n /\ j = m + 1 + (j - (m + 1))
        BY <2>3
      <4> QED
        BY <4>1
    <3>2. all[j] = q[l]
      BY <1>11, <3>1
    <3>3. CASE i \in 1..m
      <4>1. all[i] = p[i]
        BY <1>11, <3>3
      <4>2. p[i].sequence \in Int /\ q[l].sequence \in Int /\ row.sequence + gap <= q[l].sequence
            /\ p[i].sequence + gap <= row.sequence
        BY <1>12, <1>13, <3>3
      <4> QED
        BY <2>0, <3>2, <4>1, <4>2
    <3>4. CASE i = m + 1
      BY <1>11, <1>13, <3>2, <3>4
    <3>5. CASE i > m + 1
      <4>1. i - (m + 1) \in 1..n /\ i = m + 1 + (i - (m + 1))
        BY <3>1, <3>5
      <4>2. PICK k \in 1..n : i = m + 1 + k
        BY <4>1
      <4>3. all[i] = q[k] /\ k < l
        BY <1>11, <3>1, <4>2
      <4> QED
        BY <1>9, <1>10, <3>2, <4>3 DEF Rises
    <3> QED
      BY <3>3, <3>4, <3>5
  <2> QED
    BY <2>1, <2>2, <2>3
<1>15. RowsOf(all) = RowsOf(rows) \cup {row}
  <2>1. ASSUME NEW i \in 1 .. m + 1 + n PROVE all[i] \in upTo \cup over \cup {row}
    <3>1. CASE i \in 1..m
      BY <1>11, <1>12, <3>1
    <3>2. CASE i = m + 1
      BY <1>11, <3>2
    <3>3. CASE i > m + 1
      <4>1. i - (m + 1) \in 1..n /\ i = m + 1 + (i - (m + 1))
        BY <3>3
      <4>2. all[i] = q[i - (m + 1)]
        BY <1>11, <4>1
      <4> QED
        BY <1>13, <4>1, <4>2
    <3> QED
      BY <3>1, <3>2, <3>3
  <2>2. \A r \in upTo : \E i \in 1 .. m + 1 + n : all[i] = r
    BY <1>8, <1>10, <1>11 DEF RowsOf
  <2>3. \A r \in over : \E i \in 1 .. m + 1 + n : all[i] = r
    <3> SUFFICES ASSUME NEW r \in over PROVE \E i \in 1 .. m + 1 + n : all[i] = r
      OBVIOUS
    <3>1. PICK l \in 1..n : q[l] = r
      BY <1>9, <1>10 DEF RowsOf
    <3>2. all[m + 1 + l] = r /\ m + 1 + l \in 1 .. m + 1 + n
      BY <1>11, <3>1
    <3> QED
      BY <3>2
  <2>4. m + 1 \in 1 .. m + 1 + n
    OBVIOUS
  <2>5. RowsOf(all) \subseteq upTo \cup over \cup {row}
    BY <1>11, <2>1 DEF RowsOf
  <2>6. \A r \in upTo \cup over \cup {row} : \E i \in 1 .. m + 1 + n : all[i] = r
    BY <1>11, <2>2, <2>3, <2>4
  <2>7. upTo \cup over \cup {row} \subseteq RowsOf(all)
    BY <1>11, <2>6 DEF RowsOf
  <2> QED
    BY <1>7, <2>5, <2>7
<1> QED
  BY <1>4, <1>11, <1>14, <1>15

LEMMA InsertedIn ==
    ASSUME NEW T, NEW rows \in Seq(T), NEW row \in T
    PROVE  InsertBySequence(rows, row) \in Seq(T)
BY SelectedFacts, RowBetween DEF InsertBySequence

\* f sorts the rows up to place N.
SortsTo(rows, N, f) ==
    f = [n \in 0..N |-> IF n = 0 THEN <<>> ELSE InsertBySequence(f[n - 1], rows[n])]

\* The value there is.
OneInserted(q, row) == CHOOSE r \in {InsertBySequence(p, row) : p \in {q}} : TRUE

LEMMA OneValue ==
    ASSUME NEW q, NEW row
    PROVE  OneInserted(q, row) = InsertBySequence(q, row)
<1>1. {InsertBySequence(p, row) : p \in {q}} = {InsertBySequence(q, row)}
  OBVIOUS
<1> QED
  BY <1>1 DEF OneInserted

LEMMA SortIs ==
    ASSUME NEW T, NEW rows \in Seq(T)
    PROVE  \E f : SortsTo(rows, Len(rows), f) /\ SortBySequence(rows) = f[Len(rows)]
<1>1. PICK N \in Nat : N = Len(rows)
  OBVIOUS
<1> DEFINE G == [n \in 1..N |-> [q \in Seq(T) |-> InsertBySequence(q, rows[n])]]
<1>2. \A n \in 1..N, q \in Seq(T) : InsertBySequence(q, rows[n]) \in Seq(T)
  BY <1>1, InsertedIn
<1>3. \A n \in 1..N, q \in Seq(T) : G[n][q] = InsertBySequence(q, rows[n])
  OBVIOUS
<1> HIDE DEF G
<1>4. PICK f \in [0..N -> Seq(T)] : f[0] = <<>> /\ \A n \in 1..N : f[n] = G[n][f[n - 1]]
  <2>1. PICK D, d : D = Seq(T) /\ d = <<>>
    OBVIOUS
  <2>2. d \in D
    <3>1. <<>> \in Seq(T)
      OBVIOUS
    <3> QED
      BY <2>1, <3>1
  <2>3. IsRule(G, N, D)
    BY <1>2, <1>3, <2>1 DEF IsRule
  <2>4. \E f : Computes(G, N, D, d, f)
    BY <1>1, <2>2, <2>3, RecursionExists
  <2> QED
    BY <2>1, <2>4 DEF Computes
<1>5. \A n \in 0..N : f[n] = IF n = 0 THEN <<>> ELSE InsertBySequence(f[n - 1], rows[n])
  <2> SUFFICES ASSUME NEW n \in 0..N, n # 0 PROVE f[n] = InsertBySequence(f[n - 1], rows[n])
    BY <1>4
  <2>1. n \in 1..N /\ n - 1 \in 0..N
    OBVIOUS
  <2>2. f[n] = G[n][f[n - 1]] /\ f[n - 1] \in Seq(T)
    BY <1>4, <2>1
  <2> QED
    BY <1>3, <2>1, <2>2
<1> DEFINE Rule(h) == h = [n \in 0..N |-> IF n = 0 THEN <<>> ELSE OneInserted(h[n - 1], rows[n])]
<1>6. \A h : Rule(h) <=> SortsTo(rows, N, h)
  BY OneValue DEF SortsTo
<1>7. SortsTo(rows, N, f)
  BY <1>4, <1>5 DEF SortsTo
<1> DEFINE g == CHOOSE h : Rule(h)
<1>8. Rule(g)
  BY <1>6, <1>7
<1>9. SortsTo(rows, N, g)
  BY <1>6, <1>8
<1>10. SortBySequence(rows) = g[N]
  BY <1>1 DEF SortBySequence, OneInserted
<1> QED
  BY <1>1, <1>9, <1>10

\* Sorted rows are the rows there are, and their numbers rise if they all differ.
LEMMA SortedRises ==
    ASSUME NEW T, \A r \in T : r.sequence \in Int, NEW rows \in Seq(T),
           \A i, j \in 1..Len(rows) : i # j => rows[i].sequence # rows[j].sequence
    PROVE  /\ SortBySequence(rows) \in Seq(T) /\ Rises(SortBySequence(rows), 1)
           /\ RowsOf(SortBySequence(rows)) = RowsOf(rows)
<1>1. PICK N \in Nat : N = Len(rows)
  OBVIOUS
<1>2. PICK f : SortsTo(rows, N, f) /\ SortBySequence(rows) = f[N]
  BY <1>1, SortIs
<1> DEFINE Good(q, n) == q \in Seq(T) /\ Rises(q, 1) /\ RowsOf(q) = {rows[i] : i \in 1..n}
           A == {n \in Nat : n <= N => Good(f[n], n)}
<1>3. 0 \in A
  <2>1. f[0] = <<>>
    BY <1>2 DEF SortsTo
  <2>2. Good(<<>>, 0)
    BY DEF Rises, RowsOf
  <2> QED
    BY <2>1, <2>2
<1>4. ASSUME NEW n \in Nat, n \in A PROVE n + 1 \in A
  <2> SUFFICES ASSUME n + 1 <= N PROVE Good(f[n + 1], n + 1)
    OBVIOUS
  <2>1. PICK q : q = f[n] /\ Good(q, n)
    BY <1>4
  <2>2. PICK m, x : m = n + 1 /\ x = rows[m]
    OBVIOUS
  <2>3. m \in 0..N /\ m # 0 /\ m - 1 = n /\ m \in 1..Len(rows) /\ x \in T
    BY <1>1, <2>2
  <2>4. f[m] = InsertBySequence(q, x)
    BY <1>2, <2>1, <2>2, <2>3 DEF SortsTo
  <2>5. \A r \in RowsOf(q) : r.sequence # x.sequence
    <3> SUFFICES ASSUME NEW i \in 1..n PROVE rows[i].sequence # x.sequence
      BY <2>1
    <3>1. i \in 1..Len(rows) /\ i # m
      BY <1>1, <2>2
    <3> QED
      BY <2>2, <2>3, <3>1
  <2>6. /\ InsertBySequence(q, x) \in Seq(T) /\ Rises(InsertBySequence(q, x), 1)
        /\ RowsOf(InsertBySequence(q, x)) = RowsOf(q) \cup {x}
    BY <2>1, <2>3, <2>5, InsertedRises
  <2>7. {rows[i] : i \in 1..n} \cup {x} = {rows[i] : i \in 1..m}
    <3>1. \A i \in 1..m : i \in 1..n \/ i = m
      BY <2>2
    <3>2. \A i \in 1..n : i \in 1..m
      BY <2>2
    <3> QED
      BY <2>2, <2>3, <3>1, <3>2
  <2> QED
    BY <2>1, <2>2, <2>4, <2>6, <2>7
<1>5. N \in A
  <2> HIDE DEF A
  <2> QED
    BY <1>3, <1>4, Counting
<1>6. Good(f[N], N)
  BY <1>5
<1>7. {rows[i] : i \in 1..N} = RowsOf(rows)
  BY <1>1 DEF RowsOf
<1> QED
  BY <1>2, <1>6, <1>7
=============================================================================
