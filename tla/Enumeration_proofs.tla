------------------------- MODULE Enumeration_proofs -------------------------
(***************************************************************************)
(* Finite sets of numbers: they have a least and a greatest member, and    *)
(* Ascending lists every member once, in order.  Selected positions of a   *)
(* sequence, and sequences of sequences.                                   *)
(***************************************************************************)
EXTENDS Enumeration, SequencesExt, FiniteSetTheorems, WellFoundedInduction, TLAPS

\* Every nonempty set of numbers has a least one.
LEMMA LeastNumber ==
  ASSUME NEW T \in SUBSET Nat, T # {}
  PROVE  \E x \in T : \A y \in T : x <= y
<1>1. PICK x \in T : \A y \in T : ~(<<y, x>> \in OpToRel(<, Nat))
  BY NatLessThanWellFounded, WFMin, Zenon
<1>2. \A y \in T : ~(y < x)
  <2>1. ASSUME NEW y \in T, y < x PROVE FALSE
    <3>1. <<y, x>> \in Nat \X Nat
      BY Zenon
    <3>2. <<y, x>>[1] < <<y, x>>[2]
      BY <2>1
    <3> QED
      BY <1>1, <3>1, <3>2, Zenon DEF OpToRel
  <2> QED
    BY <2>1
<1> QED
  BY <1>2

\* That h enumerates positions in order.
Rising(h, positions) ==
  /\ h \in [1..Cardinality(positions) -> positions]
  /\ \A i, j \in 1..Cardinality(positions) : i < j => h[i] < h[j]

\* Finitely many positions can be enumerated in order.  By induction on a bound
\* of the positions, which is the least number without such an enumeration.
LEMMA RisingExists ==
  ASSUME NEW n \in Nat, NEW positions \in SUBSET (1..n)
  PROVE  \E h : Rising(h, positions)
<1> DEFINE Bad == {m \in Nat : \E p \in SUBSET (1..m) : \A h : ~Rising(h, p)}
<1>1. Bad = {}
  <2> SUFFICES ASSUME Bad # {} PROVE FALSE
    OBVIOUS
  <2>1. PICK m \in Bad : \A k \in Bad : m <= k
    <3>1. Bad \in SUBSET Nat
      OBVIOUS
    <3> HIDE DEF Bad
    <3> QED
      BY <3>1, LeastNumber
  <2>2. PICK p \in SUBSET (1..m) : \A h : ~Rising(h, p)
    OBVIOUS
  <2>3. m \in Nat
    OBVIOUS
  <2>m. \A k \in Nat : k < m => k \notin Bad
    BY <2>1
  <2>4. CASE m = 0
    <3>1. p = {}
      BY <2>4
    <3>2. Cardinality(p) = 0
      BY <3>1, FS_EmptySet
    <3>3. Rising([i \in 1..0 |-> 0], p)
      BY <3>2 DEF Rising
    <3> QED
      BY <2>2, <3>3
  <2>5. CASE m # 0
    <3>1. m - 1 \in Nat /\ m - 1 \notin Bad
      BY <2>m, <2>3, <2>5
    <3>2. m \in p
      <4>1. ASSUME m \notin p PROVE FALSE
        <5>1. p \in SUBSET (1..(m - 1))
          BY <2>3, <4>1
        <5> QED
          BY <2>2, <3>1, <5>1
      <4> QED
        BY <4>1
    <3>3. PICK q : q = p \ {m}
      OBVIOUS
    <3>4. q \in SUBSET (1..(m - 1))
      BY <2>3, <3>3
    <3>5. PICK h : Rising(h, q)
      BY <3>1, <3>4
    <3>6. IsFiniteSet(p) /\ Cardinality(q) = Cardinality(p) - 1 /\ Cardinality(p) \in Nat
          /\ Cardinality(q) \in Nat
      <4>1. IsFiniteSet(1..m)
        BY <2>3, FS_Interval
      <4>2. IsFiniteSet(p) /\ IsFiniteSet(q)
        BY <3>3, <4>1, FS_Subset
      <4> QED
        BY <3>2, <3>3, <4>2, FS_RemoveElement, FS_CardinalityType
    <3>7. PICK c \in Nat : c = Cardinality(q) /\ Cardinality(p) = c + 1
      BY <3>6
    <3>8. PICK g : g = [i \in 1..(c + 1) |-> IF i = c + 1 THEN m ELSE h[i]]
      OBVIOUS
    <3>9. h \in [1..c -> q] /\ \A i, j \in 1..c : i < j => h[i] < h[j]
      BY <3>5, <3>7 DEF Rising
    <3>10. \A i \in 1..(c + 1) : i # c + 1 => i \in 1..c /\ g[i] = h[i] /\ h[i] \in q /\ h[i] < m
      <4>1. \A i \in 1..(c + 1) : i # c + 1 => i \in 1..c
        BY <3>7
      <4>2. \A k \in q : k < m
        BY <2>3, <3>4
      <4>3. \A i \in 1..c : h[i] \in q
        BY <3>9
      <4> QED
        BY <3>8, <4>1, <4>2, <4>3
    <3>11. g[c + 1] = m /\ g \in [1..(c + 1) -> p]
      <4>1. c + 1 \in 1..(c + 1)
        BY <3>7
      <4>2. g[c + 1] = m
        BY <3>8, <4>1
      <4>3. \A i \in 1..(c + 1) : g[i] \in p
        BY <3>2, <3>3, <3>10, <4>2
      <4> QED
        BY <3>8, <4>2, <4>3
    <3>12. \A i, j \in 1..(c + 1) : i < j => g[i] < g[j]
      <4> SUFFICES ASSUME NEW i \in 1..(c + 1), NEW j \in 1..(c + 1), i < j
                   PROVE  g[i] < g[j]
        OBVIOUS
      <4>1. i # c + 1
        BY <3>7
      <4>2. CASE j = c + 1
        BY <3>10, <3>11, <4>1, <4>2
      <4>3. CASE j # c + 1
        BY <3>9, <3>10, <4>1, <4>3
      <4> QED
        BY <4>2, <4>3
    <3>13. Rising(g, p)
      BY <3>7, <3>11, <3>12 DEF Rising
    <3> QED
      BY <2>2, <3>13
  <2> QED
    BY <2>4, <2>5
<1> QED
  BY <1>1

\* What Ascending is.
LEMMA AscendingIs ==
  ASSUME NEW n \in Nat, NEW positions \in SUBSET (1..n)
  PROVE  /\ Rising(Ascending(positions), positions)
         /\ Cardinality(positions) \in Nat
<1>1. PICK h : Rising(h, positions)
  BY RisingExists
<1>2. IsFiniteSet(positions) /\ Cardinality(positions) \in Nat
  <2>1. IsFiniteSet(1..n)
    BY FS_Interval
  <2>2. IsFiniteSet(positions)
    BY <2>1, FS_Subset
  <2> QED
    BY <2>2, FS_CardinalityType
<1>3. \E g \in [1..Cardinality(positions) -> positions] :
        \A i, j \in DOMAIN g : i < j => g[i] < g[j]
  BY <1>1 DEF Rising
<1>4. /\ Ascending(positions) \in [1..Cardinality(positions) -> positions]
      /\ \A i, j \in DOMAIN Ascending(positions) :
           i < j => Ascending(positions)[i] < Ascending(positions)[j]
  BY <1>3, Zenon DEF Ascending
<1> QED
  BY <1>2, <1>4 DEF Rising

\* Every member of the set is listed: an injection between finite sets of one
\* cardinality is a surjection.
LEMMA RisingCovers ==
  ASSUME NEW n \in Nat, NEW positions \in SUBSET (1..n), NEW h, Rising(h, positions),
         NEW p \in positions
  PROVE  \E i \in 1..Cardinality(positions) : h[i] = p
<1>1. PICK c \in Nat : c = Cardinality(positions)
  BY AscendingIs
<1>3. h \in [1..c -> positions] /\ \A i, j \in 1..c : i < j => h[i] < h[j]
  BY <1>1 DEF Rising
<1>4. h \in Injection(1..c, positions)
  <2>1. ASSUME NEW i \in 1..c, NEW j \in 1..c, h[i] = h[j] PROVE i = j
    <3>1. h[i] \in 1..n /\ h[j] \in 1..n
      BY <1>3
    <3>2. ~(i < j) /\ ~(j < i)
      BY <1>1, <1>3, <2>1, <3>1
    <3> QED
      BY <1>1, <3>2
  <2> QED
    BY <1>3, <2>1 DEF Injection, IsInjective
<1>5. IsFiniteSet(positions)
  <2>1. IsFiniteSet(1..n)
    BY FS_Interval
  <2> QED
    BY <2>1, FS_Subset
<1>6. Cardinality(1..c) = c
  BY <1>1, FS_Interval
<1>7. h \in Surjection(1..c, positions)
  BY <1>1, <1>4, <1>5, <1>6, FS_Injection
<1> QED
  BY <1>1, <1>7, Zenon DEF Surjection

\* Every member of a set of positions is in its ascending enumeration (the
\* mailbox of drain_mailbox_matching, the task list).
THEOREM AscendingCovers ==
  ASSUME NEW n \in Nat, NEW positions \in SUBSET (1..n), NEW p \in positions
  PROVE  \E i \in 1..Cardinality(positions) : Ascending(positions)[i] = p
<1>1. PICK h : h = Ascending(positions)
  OBVIOUS
<1>2. Rising(h, positions)
  BY <1>1, AscendingIs
<1>3. \E i \in 1..Cardinality(positions) : h[i] = p
  BY <1>2, RisingCovers, SMTT(40)
<1> QED
  BY <1>1, <1>3

\* There is one rising enumeration: two of them cannot differ a first time.
LEMMA RisingUnique ==
  ASSUME NEW n \in Nat, NEW positions \in SUBSET (1..n),
         NEW h, Rising(h, positions), NEW g, Rising(g, positions)
  PROVE  h = g
<1>1. PICK c \in Nat : c = Cardinality(positions)
  BY AscendingIs
<1>2. /\ h \in [1..c -> positions] /\ \A i, j \in 1..c : i < j => h[i] < h[j]
      /\ g \in [1..c -> positions] /\ \A i, j \in 1..c : i < j => g[i] < g[j]
  BY <1>1 DEF Rising
<1>3. /\ \A p \in positions : \E i \in 1..c : h[i] = p
      /\ \A p \in positions : \E i \in 1..c : g[i] = p
  BY <1>1, RisingCovers
<1>4. \A i \in 1..c : h[i] \in 1..n /\ g[i] \in 1..n
  BY <1>2
<1> DEFINE Differ == {i \in 1..c : h[i] # g[i]}
<1>5. ASSUME Differ # {} PROVE FALSE
  <2>1. Differ \in SUBSET Nat
    OBVIOUS
  <2>2. PICK i \in Differ : \A j \in Differ : i <= j
    <3> HIDE DEF Differ
    <3> QED
      BY <1>5, <2>1, LeastNumber
  <2>3. \A j \in 1..c : j < i => h[j] = g[j]
    BY <2>2
  <2>4. CASE h[i] < g[i]
    <3>1. PICK j \in 1..c : g[j] = h[i]
      BY <1>2, <1>3, <2>2
    <3>2. ~(i < j) /\ i # j
      <4>1. g[j] < g[i] /\ g[i] \in 1..n /\ g[j] \in 1..n
        BY <1>4, <2>2, <2>4, <3>1
      <4>2. i < j => g[i] < g[j]
        BY <1>2, <2>2, <3>1
      <4> QED
        BY <4>1, <4>2
    <3> QED
      BY <1>2, <1>4, <2>2, <2>3, <3>1, <3>2
  <2>5. CASE g[i] < h[i]
    <3>1. PICK j \in 1..c : h[j] = g[i]
      BY <1>2, <1>3, <2>2
    <3>2. ~(i < j) /\ i # j
      <4>1. h[j] < h[i] /\ h[i] \in 1..n /\ h[j] \in 1..n
        BY <1>4, <2>2, <2>5, <3>1
      <4>2. i < j => h[i] < h[j]
        BY <1>2, <2>2, <3>1
      <4> QED
        BY <4>1, <4>2
    <3> QED
      BY <1>2, <1>4, <2>2, <2>3, <3>1, <3>2
  <2> QED
    BY <1>4, <2>2, <2>4, <2>5
<1> QED
  BY <1>2, <1>5

\* A greater number is listed after the others.
LEMMA AscendingLast ==
  ASSUME NEW n \in Nat, NEW positions \in SUBSET (1..n)
  PROVE  LET c == Cardinality(positions)
             p == positions \cup {n + 1}
         IN  /\ c \in Nat /\ Cardinality(p) = c + 1
             /\ Ascending(p)[c + 1] = n + 1
             /\ \A i \in 1..c : Ascending(p)[i] = Ascending(positions)[i]
             /\ \A i \in 1..c : Ascending(positions)[i] \in positions
<1>1. PICK c \in Nat : c = Cardinality(positions)
  BY AscendingIs
<1>2. PICK p : p = positions \cup {n + 1}
  OBVIOUS
<1>3. PICK h : h = Ascending(positions)
  OBVIOUS
<1>4. h \in [1..c -> positions] /\ \A i, j \in 1..c : i < j => h[i] < h[j]
  BY <1>1, <1>3, AscendingIs DEF Rising
<1>5. p \in SUBSET (1..(n + 1)) /\ n + 1 \in Nat
  BY <1>2
<1>6. Cardinality(p) = c + 1
  <2>1. IsFiniteSet(positions)
    <3>1. IsFiniteSet(1..n)
      BY FS_Interval
    <3> QED
      BY <3>1, FS_Subset
  <2>2. n + 1 \notin positions
    OBVIOUS
  <2> QED
    BY <1>1, <1>2, <2>1, <2>2, FS_AddElement
<1>7. PICK g : g = [i \in 1..(c + 1) |-> IF i = c + 1 THEN n + 1 ELSE h[i]]
  OBVIOUS
<1>8. \A i \in 1..(c + 1) : i # c + 1 => i \in 1..c /\ g[i] = h[i] /\ h[i] \in 1..n /\ h[i] \in p
  <2> SUFFICES ASSUME NEW i \in 1..(c + 1), i # c + 1
               PROVE  i \in 1..c /\ g[i] = h[i] /\ h[i] \in 1..n /\ h[i] \in p
    OBVIOUS
  <2>1. i \in 1..c
    OBVIOUS
  <2>2. h[i] \in positions
    BY <1>4, <2>1
  <2> QED
    BY <1>2, <1>7, <2>1, <2>2
<1>9. g[c + 1] = n + 1 /\ n + 1 \in p
  BY <1>2, <1>7
<1>10. Rising(g, p)
  <2>1. \A i \in 1..(c + 1) : g[i] \in p
    BY <1>8, <1>9
  <2>2. g \in [1..(c + 1) -> p]
    BY <1>7, <2>1
  <2>3. ASSUME NEW i \in 1..(c + 1), NEW j \in 1..(c + 1), i < j PROVE g[i] < g[j]
    <3>1. i # c + 1
      BY <2>3
    <3>2. CASE j = c + 1
      BY <1>8, <1>9, <3>1, <3>2
    <3>3. CASE j # c + 1
      BY <1>4, <1>8, <2>3, <3>1, <3>3
    <3> QED
      BY <3>2, <3>3
  <2> QED
    BY <1>6, <2>2, <2>3 DEF Rising
<1>11. Ascending(p) = g
  BY <1>5, <1>10, AscendingIs, RisingUnique
<1>12. \A i \in 1..c : i \in 1..(c + 1) /\ i # c + 1
  OBVIOUS
<1> QED
  BY <1>1, <1>2, <1>3, <1>4, <1>6, <1>8, <1>9, <1>11, <1>12

\* Every nonempty set of numbers up to n has a greatest one.
LEMMA GreatestNumber ==
  ASSUME NEW n \in Nat, NEW T \in SUBSET (1..n), T # {}
  PROVE  \E x \in T : \A y \in T : x >= y
<1> DEFINE Below == {n - x : x \in T}
<1>1. Below \in SUBSET Nat /\ Below # {}
  <2>1. \A x \in T : n - x \in Nat
    OBVIOUS
  <2>2. Below \in SUBSET Nat
    BY <2>1
  <2>3. PICK x \in T : TRUE
    OBVIOUS
  <2>4. n - x \in Below
    OBVIOUS
  <2> QED
    BY <2>2, <2>4
<1>2. PICK b \in Below : \A c \in Below : b <= c
  <2> HIDE DEF Below
  <2> QED
    BY <1>1, LeastNumber
<1>3. PICK x \in T : b = n - x
  OBVIOUS
<1>4. \A y \in T : n - x <= n - y
  BY <1>2, <1>3
<1> QED
  BY <1>4

\* The numbers that satisfy a property that 0 has and that steps keep.
LEMMA EveryNumber ==
  ASSUME NEW T \in SUBSET Nat, 0 \in T, \A n \in T : n + 1 \in T
  PROVE  \A n \in Nat : n \in T
<1> DEFINE Rest == Nat \ T
<1>1. ASSUME Rest # {} PROVE FALSE
  <2>1. Rest \in SUBSET Nat
    OBVIOUS
  <2>2. PICK n \in Rest : \A k \in Rest : n <= k
    <3> HIDE DEF Rest
    <3> QED
      BY <1>1, <2>1, LeastNumber
  <2>3. n # 0 /\ n - 1 \in Nat
    BY <2>2
  <2>4. n - 1 \in T
    BY <2>2, <2>3
  <2> QED
    BY <2>2, <2>3, <2>4
<1> QED
  BY <1>1

\* The values of f at 0..N are computed one from the other.
Computes(f, S, N, first, step) ==
  /\ f \in [0..N -> S]
  /\ f[0] = first
  /\ \A n \in 1..N : f[n] = step[n][f[n - 1]]

\* A function can be defined by its value at 0 and, at every later number, from
\* its value before.
LEMMA RecursionExists ==
  ASSUME NEW S, NEW N \in Nat, NEW first \in S, NEW step \in [1..N -> [S -> S]]
  PROVE  \E f : Computes(f, S, N, first, step)
<1> DEFINE T == {m \in Nat : m <= N =>
                   \E f \in [0..m -> S] :
                      f[0] = first /\ \A n \in 1..m : f[n] = step[n][f[n - 1]]}
<1>1. T \in SUBSET Nat
  OBVIOUS
<1>2. 0 \in T
  <2>1. [n \in 0..0 |-> first] \in [0..0 -> S]
    OBVIOUS
  <2>2. [n \in 0..0 |-> first][0] = first
    OBVIOUS
  <2>3. \E f \in [0..0 -> S] : f[0] = first /\ \A n \in 1..0 : f[n] = step[n][f[n - 1]]
    <3> WITNESS [n \in 0..0 |-> first] \in [0..0 -> S]
    <3> QED
      BY <2>2
  <2> QED
    BY <2>3
<1>3. ASSUME NEW m \in T PROVE m + 1 \in T
  <2> SUFFICES ASSUME m + 1 <= N
               PROVE  \E f \in [0..(m + 1) -> S] :
                        f[0] = first /\ \A n \in 1..(m + 1) : f[n] = step[n][f[n - 1]]
    OBVIOUS
  <2>1. PICK f \in [0..m -> S] : f[0] = first /\ \A n \in 1..m : f[n] = step[n][f[n - 1]]
    OBVIOUS
  <2>2. PICK g : g = [n \in 0..(m + 1) |-> IF n = m + 1 THEN step[m + 1][f[m]] ELSE f[n]]
    OBVIOUS
  <2>3. step[m + 1][f[m]] \in S
    <3>1. m + 1 \in 1..N /\ f[m] \in S
      BY <2>1
    <3> QED
      BY <3>1
  <2>4. \A n \in 0..m : g[n] = f[n] /\ g[n] \in S
    BY <2>1, <2>2
  <2>5. g[m + 1] = step[m + 1][g[m]]
    BY <2>2, <2>4
  <2>6. g \in [0..(m + 1) -> S]
    BY <2>1, <2>2, <2>3
  <2>7. \A n \in 1..(m + 1) : g[n] = step[n][g[n - 1]]
    <3>1. ASSUME NEW n \in 1..m PROVE g[n] = step[n][g[n - 1]]
      BY <2>1, <2>4
    <3>2. m + 1 - 1 = m
      OBVIOUS
    <3>3. \A n \in 1..(m + 1) : n \in 1..m \/ n = m + 1
      OBVIOUS
    <3>4. g[m + 1] = step[m + 1][g[m + 1 - 1]]
      BY <2>5, <3>2
    <3> QED
      BY <3>1, <3>3, <3>4, SMTT(30)
  <2>8. g[0] = first
    BY <2>1, <2>4
  <2> QED
    BY <2>6, <2>7, <2>8
<1>4. N \in T
  <2> HIDE DEF T
  <2> QED
    BY <1>1, <1>2, <1>3, EveryNumber
<1> QED
  BY <1>4 DEF Computes

\* Selecting nothing, selecting as before in a longer sequence, and selecting
\* the next element as well.
LEMMA SelectedNone == \A s : Selected(s, {}) = <<>>
<1>1. Cardinality({}) = 0
  BY FS_EmptySet
<1> QED
  BY <1>1 DEF Selected

\* Two sequences that agree on the selected positions.
LEMMA SelectedSame ==
  ASSUME NEW n \in Nat, NEW positions \in SUBSET (1..n), NEW s, NEW t,
         \A p \in positions : s[p] = t[p]
  PROVE  Selected(s, positions) = Selected(t, positions)
<1>1. \A j \in 1..Cardinality(positions) : Ascending(positions)[j] \in positions
  BY AscendingIs DEF Rising
<1> QED
  BY <1>1 DEF Selected

\* The position after the others is selected, too.
LEMMA SelectedNext ==
  ASSUME NEW n \in Nat, NEW positions \in SUBSET (1..n), NEW s, NEW S,
         \A p \in positions : s[p] \in S, s[n + 1] \in S
  PROVE  /\ Selected(s, positions) \in Seq(S)
         /\ Selected(s, positions \cup {n + 1}) = Append(Selected(s, positions), s[n + 1])
<1>1. PICK c \in Nat : c = Cardinality(positions)
  BY AscendingIs
<1>2. PICK p : p = positions \cup {n + 1}
  OBVIOUS
<1>3. PICK h, g : h = Ascending(positions) /\ g = Ascending(p)
  OBVIOUS
<1>4. /\ Cardinality(p) = c + 1 /\ g[c + 1] = n + 1
      /\ \A i \in 1..c : g[i] = h[i] /\ h[i] \in positions
  BY <1>1, <1>2, <1>3, AscendingLast
<1>5. Selected(s, positions) = [j \in 1..c |-> s[h[j]]]
  BY <1>1, <1>3 DEF Selected
<1>6. Selected(s, p) = [j \in 1..(c + 1) |-> s[g[j]]]
  BY <1>3, <1>4 DEF Selected
<1>7. PICK t : t = [j \in 1..c |-> s[h[j]]]
  OBVIOUS
<1>8. t \in Seq(S) /\ Len(t) = c
  <2>1. \A j \in 1..c : s[h[j]] \in S
    BY <1>4
  <2> QED
    BY <1>7, <2>1
<1>9. Append(t, s[n + 1]) = [j \in 1..(c + 1) |-> s[g[j]]]
  <2>1. \A j \in 1..(c + 1) : Append(t, s[n + 1])[j] = s[g[j]]
    BY <1>4, <1>7, <1>8
  <2> QED
    BY <1>8, <2>1
<1> QED
  BY <1>2, <1>5, <1>6, <1>7, <1>8, <1>9
-----------------------------------------------------------------------------
(* Sequences of sequences *)

\* FlattenSeq is the last value of the recursion over its elements.
LEMMA FlattenIs ==
    ASSUME NEW S, NEW ss \in Seq(Seq(S)), NEW f \in [0..Len(ss) -> Seq(S)], f[0] = <<>>,
           \A i \in 1..Len(ss) : f[i] = f[i - 1] \o ss[i]
    PROVE  FlattenSeq(ss) = f[Len(ss)]
<1>1. PICK n \in Nat : n = Len(ss)
  OBVIOUS
<1>2. CASE n = 0
  <2>1. ss = <<>>
    <3>1. PICK T : T = Seq(S)
      OBVIOUS
    <3>2. ss \in Seq(T) /\ Len(ss) = 0
      BY <1>1, <1>2, <3>1
    <3> QED
      BY ONLY <3>2
  <2>2. FlattenSeq(ss) = ss
    BY <1>1, <1>2, Zenon DEF FlattenSeq
  <2> QED
    BY <1>1, <1>2, <2>1, <2>2
<1>3. CASE n # 0
  <2> DEFINE Solves(g) == g = [i \in 1..n |-> IF i = 1 THEN ss[i] ELSE g[i - 1] \o ss[i]]
  <2>1. FlattenSeq(ss) = (CHOOSE g : Solves(g))[n]
    BY <1>1, <1>3, Zenon DEF FlattenSeq
  <2>2. PICK h : h = [i \in 1..n |-> f[i]]
    OBVIOUS
  <2>3. Solves(h)
    <3>1. ASSUME NEW i \in 1..n
          PROVE  h[i] = IF i = 1 THEN ss[i] ELSE h[i - 1] \o ss[i]
      <4>1. h[i] = f[i - 1] \o ss[i] /\ ss[i] \in Seq(S)
        <5>1. i \in 1..Len(ss) /\ h[i] = f[i]
          BY <1>1, <2>2
        <5>2. f[i] = f[i - 1] \o ss[i]
          BY <5>1
        <5>3. ss[i] \in Seq(S)
          BY <5>1
        <5> QED
          BY <5>1, <5>2, <5>3
      <4>2. CASE i = 1
        <5>1. f[i - 1] = <<>> /\ <<>> \o ss[i] = ss[i]
          BY <4>1, <4>2
        <5> QED
          BY <4>1, <4>2, <5>1
      <4>3. CASE i # 1
        <5>1. i - 1 \in 1..n
          BY <4>3
        <5> QED
          BY <2>2, <4>1, <4>3, <5>1
      <4> QED
        BY <4>2, <4>3
    <3> QED
      BY <2>2, <3>1
  <2>4. PICK g : g = (CHOOSE e : Solves(e)) /\ Solves(g)
    <3> HIDE DEF Solves
    <3> QED
      BY <2>3
  <2> DEFINE T == {i \in Nat : i + 1 \in 1..n => g[i + 1] = f[i + 1]}
  <2>5. 0 \in T
    <3>1. 1 \in 1..n
      BY <1>3
    <3>2. g[1] = ss[1] /\ ss[1] \in Seq(S)
      <4>1. g[1] = ss[1]
        BY <2>4, <3>1
      <4>2. 1 \in 1..Len(ss)
        BY <1>1, <3>1
      <4> QED
        BY <4>1, <4>2
    <3>3. f[1] = <<>> \o ss[1]
      <4>1. 1 \in 1..Len(ss) /\ 1 - 1 = 0
        BY <1>1, <3>1
      <4>2. f[1] = f[1 - 1] \o ss[1]
        BY <4>1
      <4> QED
        BY <4>1, <4>2
    <3> QED
      BY <3>2, <3>3
  <2>6. ASSUME NEW i \in T PROVE i + 1 \in T
    <3> SUFFICES ASSUME (i + 1) + 1 \in 1..n PROVE g[(i + 1) + 1] = f[(i + 1) + 1]
      OBVIOUS
    <3>1. PICK j : j = (i + 1) + 1
      OBVIOUS
    <3>2. j \in 1..n /\ j # 1 /\ j - 1 = i + 1 /\ i + 1 \in 1..n
      BY <3>1
    <3>3. g[i + 1] = f[i + 1]
      BY <3>2
    <3>4. g[j] = g[j - 1] \o ss[j]
      BY <2>4, <3>2
    <3>5. f[j] = f[j - 1] \o ss[j]
      BY <1>1, <3>2
    <3> QED
      BY <3>1, <3>2, <3>3, <3>4, <3>5
  <2>7. n - 1 \in T
    <3>1. n - 1 \in Nat /\ T \in SUBSET Nat
      BY <1>3
    <3> HIDE DEF T
    <3> QED
      BY <2>5, <2>6, <3>1, EveryNumber
  <2>8. g[n] = f[n]
    <3>1. (n - 1) + 1 = n /\ n \in 1..n
      BY <1>3
    <3> QED
      BY <2>7, <3>1
  <2> QED
    BY <1>1, <2>1, <2>4, <2>8, Zenon
<1> QED
  BY <1>2, <1>3

\* That recursion has a solution.
LEMMA FlattenRecursion ==
    ASSUME NEW S, NEW ss \in Seq(Seq(S))
    PROVE  \E f \in [0..Len(ss) -> Seq(S)] :
              f[0] = <<>> /\ \A i \in 1..Len(ss) : f[i] = f[i - 1] \o ss[i]
<1>1. PICK n \in Nat : n = Len(ss)
  OBVIOUS
<1>2. PICK step : step = [i \in 1..n |-> [s \in Seq(S) |-> s \o ss[i]]]
  OBVIOUS
<1>3. step \in [1..n -> [Seq(S) -> Seq(S)]]
  <2>1. \A i \in 1..n : ss[i] \in Seq(S)
    BY <1>1
  <2>2. \A i \in 1..n : \A s \in Seq(S) : s \o ss[i] \in Seq(S)
    BY <2>1
  <2> QED
    BY <1>2, <2>2
<1>4. <<>> \in Seq(S)
  OBVIOUS
<1>5. PICK f \in [0..n -> Seq(S)] : f[0] = <<>> /\ \A i \in 1..n : f[i] = step[i][f[i - 1]]
  <2>1. PICK Q, e : Q = Seq(S) /\ e = <<>>
    OBVIOUS
  <2>2. e \in Q /\ step \in [1..n -> [Q -> Q]]
    BY <1>3, <1>4, <2>1
  <2>3. \E f : Computes(f, Q, n, e, step)
    BY <2>2, RecursionExists
  <2> QED
    BY <2>1, <2>3, Zenon DEF Computes
<1>6. \A i \in 1..n : f[i] = f[i - 1] \o ss[i]
  <2>1. \A i \in 1..n : f[i - 1] \in Seq(S)
    OBVIOUS
  <2> QED
    BY <1>2, <1>5, <2>1
<1> QED
  BY <1>1, <1>5, <1>6

\* Nothing joined is nothing.
LEMMA FlattenNone == FlattenSeq(<<>>) = <<>>
<1>1. Len(<<>>) = 0
  OBVIOUS
<1> QED
  BY <1>1, Zenon DEF FlattenSeq

\* One sequence more goes to the end.
LEMMA FlattenAppend ==
    ASSUME NEW S, NEW ss \in Seq(Seq(S)), NEW s \in Seq(S)
    PROVE  /\ FlattenSeq(ss) \in Seq(S)
           /\ FlattenSeq(Append(ss, s)) = FlattenSeq(ss) \o s
<1>1. PICK n \in Nat : n = Len(ss)
  OBVIOUS
<1>2. PICK f \in [0..n -> Seq(S)] : f[0] = <<>> /\ \A i \in 1..n : f[i] = f[i - 1] \o ss[i]
  BY <1>1, FlattenRecursion
<1>3. FlattenSeq(ss) = f[n]
  BY <1>1, <1>2, FlattenIs
<1>4. PICK g : g = [i \in 0..(n + 1) |-> IF i = n + 1 THEN f[n] \o s ELSE f[i]]
  OBVIOUS
<1>5. PICK tt : tt = Append(ss, s)
  OBVIOUS
<1>6. tt \in Seq(Seq(S)) /\ Len(tt) = n + 1 /\ tt[n + 1] = s /\ \A i \in 1..n : tt[i] = ss[i]
  BY <1>1, <1>5
<1>7. f[n] \in Seq(S) /\ f[n] \o s \in Seq(S)
  BY <1>2
<1>8. g[n + 1] = f[n] \o s /\ \A i \in 0..n : g[i] = f[i]
  BY <1>4
<1>9. g \in [0..(n + 1) -> Seq(S)]
  BY <1>4, <1>7
<1>10. ASSUME NEW i \in 1..(n + 1) PROVE g[i] = g[i - 1] \o tt[i]
  <2>1. CASE i = n + 1
    <3>1. i - 1 = n /\ n \in 0..n
      BY <2>1
    <3>2. g[i - 1] = f[n]
      BY <1>8, <3>1
    <3> QED
      BY <1>6, <1>8, <2>1, <3>2
  <2>2. CASE i # n + 1
    <3>1. i \in 1..n /\ i - 1 \in 0..n /\ i \in 0..n
      BY <2>2
    <3> QED
      BY <1>2, <1>6, <1>8, <3>1
  <2> QED
    BY <2>1, <2>2
<1>11. g[0] = <<>>
  <2>1. 0 \in 0..n
    OBVIOUS
  <2> QED
    BY <1>2, <1>8, <2>1
<1>12. FlattenSeq(tt) = g[n + 1]
  BY <1>6, <1>9, <1>10, <1>11, FlattenIs
<1> QED
  BY <1>3, <1>5, <1>7, <1>8, <1>12
=============================================================================
