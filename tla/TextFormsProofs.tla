--------------------------- MODULE TextFormsProofs ---------------------------
(***************************************************************************)
(* What TextForms claims, for all lines, tables and opinions.              *)
(***************************************************************************)
EXTENDS TextForms, Integers, FiniteSetTheorems, SequenceTheorems, WellFoundedInduction, TLAPS

-----------------------------------------------------------------------------
(* Induction and recursion, as facts about sets and functions *)

LEMMA LeastNatural ==
  ASSUME NEW T \in SUBSET Nat, T # {}
  PROVE  \E n \in T : \A m \in T : n <= m
  <1> DEFINE R == {ss \in Nat \X Nat : ss[1] < ss[2]}
  <1>1. IsWellFoundedOn(R, Nat)
    BY NatLessThanWellFounded DEF OpToRel
  <1> HIDE DEF R
  <1>2. PICK n \in T : \A m \in T : <<m, n>> \notin R
    BY <1>1, WFMin
  <1>3. \A m \in T : ~(m < n)
    BY <1>2 DEF R
  <1> QED BY <1>3

\* What is true of a number, and of each next one up to another, is true of all
\* in between.
LEMMA Ascending ==
  ASSUME NEW a \in Nat, NEW b \in Nat, NEW S,
         a \in S, \A n \in a .. b - 1 : n \in S => n + 1 \in S
  PROVE  \A n \in a .. b : n \in S
  <1> SUFFICES ASSUME NEW k \in a .. b, k \notin S
               PROVE  FALSE
    OBVIOUS
  <1> DEFINE T == {n \in Nat : n \in a .. b /\ n \notin S}
  <1>1. T \in SUBSET Nat /\ T # {}
    <2>1. k \in T
      OBVIOUS
    <2> QED BY <2>1
  <1>2. PICK n \in T : \A m \in T : n <= m
    <2> HIDE DEF T
    <2> QED BY <1>1, LeastNatural
  <1>3. n \in Nat /\ n \in a .. b /\ n \notin S /\ n # a
    BY <1>2
  <1>4. n - 1 \in a .. b - 1 /\ n - 1 \in Nat /\ n - 1 \in a .. b /\ ~(n <= n - 1) /\ (n - 1) + 1 = n
    BY <1>3
  <1>5. n - 1 \in S
    BY <1>2, <1>4
  <1> QED BY <1>3, <1>4, <1>5

IsLeast(m, T) == m \in T /\ \A x \in T : m <= x

LEMMA MinIs ==
  ASSUME NEW T \in SUBSET Nat, T # {}
  PROVE  IsLeast(Min(T), T)
  <1>1. \E m \in T : \A x \in T : m <= x
    BY LeastNatural
  <1> QED BY <1>1 DEF Min, IsLeast

LEMMA LeastIsMin ==
  ASSUME NEW T \in SUBSET Nat, NEW m, IsLeast(m, T)
  PROVE  Min(T) = m
  <1>1. T # {}
    BY DEF IsLeast
  <1>2. IsLeast(Min(T), T)
    BY <1>1, MinIs
  <1>3. PICK x : x = Min(T)
    OBVIOUS
  <1>4. x \in T /\ m \in T /\ m <= x /\ x <= m
    BY <1>2, <1>3 DEF IsLeast
  <1>5. x \in Int /\ m \in Int
    BY <1>4
  <1>6. x = m
    BY <1>4, <1>5
  <1> QED BY <1>3, <1>6

\* A function may be defined step by step.
IsRecursion(f, S, a, b, first, Turn) ==
    /\ f \in [a .. b -> S]
    /\ f[a] = first
    /\ \A n \in a + 1 .. b : f[n] = Turn[n][f[n - 1]]

LEMMA RecursionExists ==
  ASSUME NEW S, NEW a \in Nat, NEW b \in Nat, a <= b, NEW first \in S,
         NEW Turn \in [a + 1 .. b -> [S -> S]]
  PROVE  \E f : IsRecursion(f, S, a, b, first, Turn)
  <1> DEFINE T == {m \in Nat : m \in a .. b => \E f : IsRecursion(f, S, a, m, first, Turn)}
  <1>1. a \in T
    <2> DEFINE f == [n \in a .. a |-> first]
    <2>1. f \in [a .. a -> S] /\ f[a] = first
      OBVIOUS
    <2>2. IsRecursion(f, S, a, a, first, Turn)
      BY <2>1 DEF IsRecursion
    <2> QED BY <2>2
  <1>2. ASSUME NEW m \in a .. b - 1, m \in T
        PROVE  m + 1 \in T
    <2>1. m \in Nat /\ m \in a .. b /\ m + 1 \in a + 1 .. b /\ m + 1 \in Nat /\ m + 1 # a
      OBVIOUS
    <2>2. PICK f : IsRecursion(f, S, a, m, first, Turn)
      BY <1>2, <2>1
    <2>3. /\ f \in [a .. m -> S] /\ f[a] = first
          /\ \A n \in a + 1 .. m : f[n] = Turn[n][f[n - 1]]
      BY <2>2 DEF IsRecursion
    <2> DEFINE h == [n \in a .. m + 1 |-> IF n = m + 1 THEN Turn[m + 1][f[m]] ELSE f[n]]
    <2>4. Turn[m + 1][f[m]] \in S
      <3>1. f[m] \in S
        BY <2>1, <2>3
      <3>2. Turn[m + 1] \in [S -> S]
        BY <2>1
      <3> QED BY <3>1, <3>2
    <2>5. h \in [a .. m + 1 -> S]
      <3>1. ASSUME NEW n \in a .. m + 1
            PROVE  h[n] \in S
        <4>1. CASE n = m + 1
          BY <2>4, <4>1
        <4>2. CASE n # m + 1
          <5>1. n \in a .. m
            BY <2>1, <4>2
          <5> QED BY <2>3, <4>2, <5>1
        <4> QED BY <4>1, <4>2
      <3> QED BY <3>1
    <2>6. h[a] = first
      BY <2>1, <2>3
    <2>7. ASSUME NEW n \in a + 1 .. m + 1
          PROVE  h[n] = Turn[n][h[n - 1]]
      <3>1. n - 1 \in a .. m + 1 /\ n - 1 # m + 1 /\ n \in a .. m + 1
        BY <2>1
      <3>2. h[n - 1] = f[n - 1]
        BY <3>1
      <3>3. CASE n = m + 1
        <4>1. n - 1 = m
          BY <2>1, <3>3
        <4> QED BY <3>1, <3>2, <3>3, <4>1
      <3>4. CASE n # m + 1
        <4>1. n \in a + 1 .. m
          BY <2>1, <3>4
        <4> QED BY <2>3, <3>1, <3>2, <3>4, <4>1
      <3> QED BY <3>3, <3>4
    <2>8. IsRecursion(h, S, a, m + 1, first, Turn)
      <3> HIDE DEF h
      <3> QED BY <2>5, <2>6, <2>7 DEF IsRecursion
    <2> QED BY <2>1, <2>8
  <1>3. \A m \in a .. b : m \in T
    <2> HIDE DEF T
    <2> QED BY <1>1, <1>2, Ascending
  <1>4. b \in a .. b /\ b \in T
    <2> HIDE DEF T
    <2> QED BY <1>3
  <1> QED BY <1>4

IsPiece(S, d, b, k, l) ==
    /\ d \in Seq(S) /\ Len(d) = l
    /\ \A i \in 1 .. l : d[i] = b[k + i]

LEMMA Piece ==
  ASSUME NEW S, NEW b \in Seq(S), NEW k \in Nat, NEW l \in Nat, k + l <= Len(b)
  PROVE  IsPiece(S, SubSeq(b, k + 1, k + l), b, k, l)
  <1>1. \A i \in k + 1 .. k + l : b[i] \in S
    <2>1. \A i \in k + 1 .. k + l : i \in 1 .. Len(b)
      OBVIOUS
    <2> QED BY <2>1, ElementOfSeq
  <1>2. k + 1 \in Int /\ k + l \in Int
    OBVIOUS
  <1>3. PICK d : d = SubSeq(b, k + 1, k + l)
    OBVIOUS
  <1>4. /\ d \in Seq(S)
        /\ Len(d) = IF k + 1 <= k + l THEN (k + l) - (k + 1) + 1 ELSE 0
        /\ \A i \in 1 .. (k + l) - (k + 1) + 1 : d[i] = b[(k + 1) + i - 1]
    BY <1>1, <1>2, <1>3, SubSeqProperties
  <1>5. (k + l) - (k + 1) + 1 = l /\ (~(k + 1 <= k + l) => l = 0)
    OBVIOUS
  <1>6. \A i \in 1 .. l : (k + 1) + i - 1 = k + i
    OBVIOUS
  <1>7. Len(d) = l /\ \A i \in 1 .. l : d[i] = b[k + i]
    BY <1>4, <1>5, <1>6
  <1> QED BY <1>3, <1>4, <1>7 DEF IsPiece

Backward(f, S, D, stop, base, next, Turn) ==
    /\ f \in [D -> S]
    /\ \A j \in D : f[j] = IF j \in stop THEN base[j] ELSE Turn[j][f[next[j]]]

\* A function may be defined from the last position to the first, where its
\* value at a position depends on the one at a later position or at 0.
LEMMA BackwardExists ==
  ASSUME NEW S, NEW b \in Nat, NEW stop, 0 \in stop,
         NEW base \in [0 .. b -> S], NEW next, NEW Turn \in [0 .. b -> [S -> S]],
         \A j \in 0 .. b : j \notin stop => next[j] = 0 \/ next[j] \in j + 1 .. b
  PROVE  \E f : Backward(f, S, 0 .. b, stop, base, next, Turn)
  <1> DEFINE D(m) == {0} \cup (b + 1 - m .. b)
             T == {m \in Nat : m \in 0 .. b => \E f : Backward(f, S, D(m), stop, base, next, Turn)}
  <1>1. 0 \in T
    <2> DEFINE f == [j \in {0} |-> base[0]]
    <2>1. 0 \in 0 .. b /\ base[0] \in S /\ D(0) = {0}
      OBVIOUS
    <2>2. f \in [{0} -> S] /\ f[0] = base[0]
      BY <2>1
    <2>3. Backward(f, S, {0}, stop, base, next, Turn)
      <3> HIDE DEF f
      <3> QED BY <2>2 DEF Backward
    <2>4. \E g : Backward(g, S, D(0), stop, base, next, Turn)
      BY <2>1, <2>3
    <2> QED BY <2>4
  <1>2. ASSUME NEW m \in 0 .. b - 1, m \in T
        PROVE  m + 1 \in T
    <2>1. m \in Nat /\ m \in 0 .. b /\ m + 1 \in Nat
      OBVIOUS
    <2>2. PICK f : Backward(f, S, D(m), stop, base, next, Turn)
      BY <1>2, <2>1
    <2>3. PICK i : i = b - m
      OBVIOUS
    <2>4. i \in 1 .. b /\ i \in 0 .. b /\ i \notin D(m) /\ D(m + 1) = D(m) \cup {i} /\ D(m) = {0} \cup (i + 1 .. b)
      BY <2>1, <2>3
    <2> HIDE DEF D
    <2> DEFINE v == IF i \in stop THEN base[i] ELSE Turn[i][f[next[i]]]
               g == [j \in D(m) \cup {i} |-> IF j = i THEN v ELSE f[j]]
    <2>5. f \in [D(m) -> S] /\ \A j \in D(m) : f[j] = IF j \in stop THEN base[j] ELSE Turn[j][f[next[j]]]
      BY <2>2 DEF Backward
    <2>6. ASSUME NEW j \in D(m) \cup {i}, j \notin stop
          PROVE  next[j] \in D(m)
      <3>1. j \in 0 .. b /\ j # 0 /\ i <= j
        BY <2>4, <2>6
      <3>2. next[j] = 0 \/ next[j] \in j + 1 .. b
        BY <2>6, <3>1
      <3> QED BY <2>4, <3>1, <3>2
    <2>7. v \in S
      <3>1. CASE i \in stop
        BY <2>4, <3>1
      <3>2. CASE i \notin stop
        <4>1. next[i] \in D(m)
          BY <2>6, <3>2
        <4>2. f[next[i]] \in S /\ Turn[i] \in [S -> S]
          BY <2>4, <2>5, <4>1
        <4> QED BY <3>2, <4>2
      <3> QED BY <3>1, <3>2
    <2>8. g \in [D(m) \cup {i} -> S]
      <3> HIDE DEF v
      <3> QED BY <2>5, <2>7
    <2>9. ASSUME NEW j \in D(m) \cup {i}
          PROVE  g[j] = IF j \in stop THEN base[j] ELSE Turn[j][g[next[j]]]
      <3>1. j \notin stop => g[next[j]] = f[next[j]]
        <4>1. ASSUME j \notin stop
              PROVE  next[j] \in D(m) /\ next[j] # i
          BY <2>4, <2>6, <4>1
        <4> HIDE DEF v
        <4> QED BY <4>1
      <3>2. CASE j = i
        BY <3>1, <3>2
      <3>3. CASE j # i
        <4>1. j \in D(m) /\ g[j] = f[j]
          BY <3>3
        <4> HIDE DEF g
        <4> QED BY <2>5, <3>1, <4>1
      <3> QED BY <3>2, <3>3
    <2>10. Backward(g, S, D(m + 1), stop, base, next, Turn)
      <3> HIDE DEF g
      <3> QED BY <2>4, <2>8, <2>9 DEF Backward
    <2> QED BY <2>1, <2>10
  <1>3. \A m \in 0 .. b : m \in T
    <2> HIDE DEF T
    <2> QED BY <1>1, <1>2, Ascending
  <1>4. b \in T /\ b \in 0 .. b
    <2> HIDE DEF T
    <2> QED BY <1>3
  <1>5. D(b) = 0 .. b
    OBVIOUS
  <1>6. \E f : Backward(f, S, D(b), stop, base, next, Turn)
    <2> HIDE DEF D
    <2> QED BY <1>4
  <1> QED BY <1>5, <1>6

-----------------------------------------------------------------------------
(* The combinators, each by itself *)

LEMMA TextIs ==
  ASSUME NEW t \in Text
  PROVE  Len(t) \in Nat /\ DOMAIN t = 1 .. Len(t)
  BY DEF Text

LEMMA OneIs ==
  ASSUME NEW t \in Text, NEW i \in Nat, NEW class
  PROVE  One(t, i, class) = IF i \in 1 .. Len(t) /\ t[i] \in class THEN i + 1 ELSE 0
  BY TextIs DEF One

EndsRun(t, i, class, j) ==
    /\ j \in i .. Len(t) + 1
    /\ \A p \in i .. j - 1 : t[p] \in class
    /\ j \in 1 .. Len(t) => t[j] \notin class

LEMMA RunOnly ==
  ASSUME NEW t \in Text, NEW i \in 1 .. Len(t) + 1, NEW class, NEW j, EndsRun(t, i, class, j)
  PROVE  Run(t, i, class) = j
  <1> DEFINE T == {p \in i .. Len(t) : t[p] \notin class} \cup {Len(t) + 1}
  <1>1. Len(t) \in Nat /\ i # 0 /\ j \in i .. Len(t) + 1 /\ j \in Nat
    BY TextIs DEF EndsRun
  <1>2. T \in SUBSET Nat
    BY <1>1
  <1>3. j \in T
    BY <1>1 DEF EndsRun
  <1>4. ASSUME NEW p \in T
        PROVE  j <= p
    <2>1. CASE p = Len(t) + 1
      BY <1>1, <2>1
    <2>2. CASE p # Len(t) + 1
      <3>1. p \in i .. Len(t) /\ t[p] \notin class
        BY <2>2
      <3>2. p \notin i .. j - 1
        BY <3>1 DEF EndsRun
      <3> QED BY <1>1, <3>1, <3>2
    <2> QED BY <2>1, <2>2
  <1>5. IsLeast(j, T)
    <2> HIDE DEF T
    <2> QED BY <1>3, <1>4 DEF IsLeast
  <1>6. Min(T) = j
    <2> HIDE DEF T
    <2> QED BY <1>2, <1>5, LeastIsMin
  <1> QED BY <1>1, <1>6 DEF Run

LEMMA RunIs ==
  ASSUME NEW t \in Text, NEW i \in 1 .. Len(t) + 1, NEW class
  PROVE  EndsRun(t, i, class, Run(t, i, class))
  <1> DEFINE T == {p \in i .. Len(t) : t[p] \notin class} \cup {Len(t) + 1}
  <1>1. Len(t) \in Nat /\ i # 0
    BY TextIs
  <1>2. T \in SUBSET Nat /\ T # {}
    BY <1>1
  <1>3. PICK j : j = Min(T)
    OBVIOUS
  <1>4. IsLeast(j, T)
    <2> HIDE DEF T
    <2> QED BY <1>2, <1>3, MinIs
  <1>5. j \in T /\ \A p \in T : j <= p
    <2> HIDE DEF T
    <2> QED BY <1>4 DEF IsLeast
  <1>6. j \in i .. Len(t) + 1 /\ (j \in 1 .. Len(t) => t[j] \notin class)
    BY <1>1, <1>5
  <1>7. ASSUME NEW p \in i .. j - 1
        PROVE  t[p] \in class
    <2>1. p \in i .. Len(t) /\ ~(j <= p)
      BY <1>1, <1>6
    <2>2. p \notin T
      BY <1>5, <2>1
    <2> QED BY <2>1, <2>2
  <1>8. EndsRun(t, i, class, j)
    <2> HIDE DEF T
    <2> QED BY <1>6, <1>7 DEF EndsRun
  <1>9. Run(t, i, class) = j
    BY <1>1, <1>3 DEF Run
  <1> QED BY <1>8, <1>9

LEMMA RunZero ==
  ASSUME NEW t, NEW class
  PROVE  Run(t, 0, class) = 0
  BY DEF Run

\* From i to j, if not failed, there are only words of a set.
Ahead(t, i, j, words) ==
    j = 0 \/ (j \in i .. Len(t) + 1 /\ \A p \in i .. j - 1 : t[p] \in words)

LEMMA AheadNow ==
  ASSUME NEW t \in Text, NEW i \in 1 .. Len(t) + 1, NEW words
  PROVE  Ahead(t, i, i, words)
  BY TextIs DEF Ahead

LEMMA AheadMore ==
  ASSUME NEW t \in Text, NEW i \in 1 .. Len(t) + 1, NEW words, NEW more,
         NEW j, Ahead(t, i, j, words), words \subseteq more
  PROVE  Ahead(t, i, j, more)
  BY DEF Ahead

LEMMA OneAhead ==
  ASSUME NEW t \in Text, NEW i \in 1 .. Len(t) + 1, NEW words, NEW class, class \subseteq words,
         NEW j, Ahead(t, i, j, words)
  PROVE  Ahead(t, i, One(t, j, class), words)
  <1>1. Len(t) \in Nat /\ j \in Nat
    BY TextIs DEF Ahead
  <1>2. PICK m : m = One(t, j, class)
    OBVIOUS
  <1>3. m = IF j \in 1 .. Len(t) /\ t[j] \in class THEN j + 1 ELSE 0
    BY <1>1, <1>2, OneIs
  <1>4. Ahead(t, i, m, words)
    <2>1. CASE j \in 1 .. Len(t) /\ t[j] \in class
      <3>1. j # 0 /\ j \in i .. Len(t) + 1 /\ m = j + 1 /\ m \in i .. Len(t) + 1
        BY <1>1, <1>3, <2>1 DEF Ahead
      <3>2. ASSUME NEW p \in i .. m - 1
            PROVE  t[p] \in words
        <4>1. CASE p = j
          BY <2>1, <4>1
        <4>2. CASE p # j
          <5>1. p \in i .. j - 1
            BY <3>1, <4>2
          <5> QED BY <3>1, <5>1 DEF Ahead
        <4> QED BY <4>1, <4>2
      <3> QED BY <3>1, <3>2 DEF Ahead
    <2>2. CASE ~(j \in 1 .. Len(t) /\ t[j] \in class)
      BY <1>3, <2>2 DEF Ahead
    <2> QED BY <2>1, <2>2
  <1> QED BY <1>2, <1>4

LEMMA RunAhead ==
  ASSUME NEW t \in Text, NEW i \in 1 .. Len(t) + 1, NEW words, NEW class, class \subseteq words,
         NEW j, Ahead(t, i, j, words)
  PROVE  Ahead(t, i, Run(t, j, class), words)
  <1>1. Len(t) \in Nat /\ j \in Nat
    BY TextIs DEF Ahead
  <1>2. CASE j = 0
    BY <1>2, RunZero
  <1>3. CASE j # 0
    <2>1. j \in i .. Len(t) + 1 /\ j \in 1 .. Len(t) + 1 /\ \A p \in i .. j - 1 : t[p] \in words
      BY <1>1, <1>3 DEF Ahead
    <2>2. PICK m : m = Run(t, j, class)
      OBVIOUS
    <2>3. EndsRun(t, j, class, m)
      BY <2>1, <2>2, RunIs
    <2>4. m \in j .. Len(t) + 1 /\ \A p \in j .. m - 1 : t[p] \in class
      BY <2>3 DEF EndsRun
    <2>5. ASSUME NEW p \in i .. m - 1
          PROVE  t[p] \in words
      <3>1. p \in i .. j - 1 \/ p \in j .. m - 1
        BY <2>1, <2>4
      <3> QED BY <2>1, <2>4, <3>1
    <2>6. m \in i .. Len(t) + 1
      BY <2>1, <2>4
    <2>7. Ahead(t, i, m, words)
      BY <2>5, <2>6 DEF Ahead
    <2> QED BY <2>2, <2>7
  <1> QED BY <1>2, <1>3

LEMMA TagAhead ==
  ASSUME NEW t \in Text, NEW i \in 1 .. Len(t) + 1, NEW words, NEW word \in words,
         NEW j, Ahead(t, i, j, words)
  PROVE  Ahead(t, i, Tag(t, j, word), words)
  <1>1. {word} \subseteq words
    OBVIOUS
  <1> QED BY <1>1, OneAhead DEF Tag

LEMMA Run1Ahead ==
  ASSUME NEW t \in Text, NEW i \in 1 .. Len(t) + 1, NEW words, NEW class, class \subseteq words,
         NEW j, Ahead(t, i, j, words)
  PROVE  Ahead(t, i, Run1(t, j, class), words)
  <1>1. Ahead(t, i, One(t, j, class), words)
    BY OneAhead
  <1> QED BY <1>1, RunAhead DEF Run1

\* A function from positions to later ones or 0.
AreItems(t, item) ==
    /\ item \in [Positions(t) -> Nat] /\ item[0] = 0
    /\ \A j \in 1 .. Len(t) + 1 : item[j] = 0 \/ item[j] \in j + 1 .. Len(t) + 1

AreEnds(end, item) == end = [j \in DOMAIN item |-> IF item[j] = 0 THEN j ELSE end[item[j]]]

LEMMA Many0Step ==
  ASSUME NEW t \in Text, NEW item, AreItems(t, item)
  PROVE  \A j \in Positions(t) : Many0(j, item) = IF item[j] = 0 THEN j ELSE Many0(item[j], item)
  <1>1. /\ item \in [Positions(t) -> Nat] /\ item[0] = 0
        /\ \A j \in 1 .. Len(t) + 1 : item[j] = 0 \/ item[j] \in j + 1 .. Len(t) + 1
        /\ Len(t) \in Nat
    BY TextIs DEF AreItems
  <1>2. PICK b \in Nat : b = Len(t) + 1
    BY <1>1
  <1>3. Positions(t) = 0 .. b
    BY <1>2 DEF Positions
  <1> DEFINE stop == {j \in 0 .. b : item[j] = 0}
             base == [j \in 0 .. b |-> j]
             Turn == [j \in 0 .. b |-> [v \in Nat |-> v]]
  <1>4. 0 \in stop /\ base \in [0 .. b -> Nat] /\ Turn \in [0 .. b -> [Nat -> Nat]]
    BY <1>1
  <1>5. \A j \in 0 .. b : j \notin stop => item[j] = 0 \/ item[j] \in j + 1 .. b
    <2> SUFFICES ASSUME NEW j \in 0 .. b, item[j] # 0
                 PROVE  item[j] \in j + 1 .. b
      OBVIOUS
    <2>1. j \in 1 .. b
      BY <1>1
    <2> QED BY <1>1, <1>2, <2>1
  <1>6. \E f : Backward(f, Nat, 0 .. b, stop, base, item, Turn)
    <2> HIDE DEF stop, base, Turn
    <2> QED BY <1>4, <1>5, BackwardExists
  <1>7. PICK f : Backward(f, Nat, 0 .. b, stop, base, item, Turn)
    BY <1>6
  <1>8. /\ f \in [0 .. b -> Nat]
        /\ \A j \in 0 .. b : f[j] = IF j \in stop THEN base[j] ELSE Turn[j][f[item[j]]]
    <2> HIDE DEF stop, base, Turn
    <2> QED BY <1>7 DEF Backward
  <1>9. ASSUME NEW j \in 0 .. b
        PROVE  f[j] = IF item[j] = 0 THEN j ELSE f[item[j]]
    <2>1. CASE item[j] = 0
      <3>1. j \in stop
        BY <2>1
      <3> QED BY <1>8, <2>1, <3>1
    <2>2. CASE item[j] # 0
      <3>1. j \notin stop /\ item[j] \in 0 .. b
        <4>1. item[j] \in j + 1 .. b
          BY <1>5, <2>2
        <4> QED BY <2>2, <4>1
      <3>2. f[item[j]] \in Nat
        BY <1>8, <3>1
      <3>3. f[j] = Turn[j][f[item[j]]]
        <4> HIDE DEF stop, base, Turn
        <4> QED BY <1>8, <3>1
      <3>4. Turn[j][f[item[j]]] = f[item[j]]
        BY <3>2
      <3> QED BY <2>2, <3>3, <3>4
    <2> QED BY <2>1, <2>2
  <1>10. DOMAIN item = 0 .. b
    BY <1>1, <1>3
  <1>11. AreEnds(f, item)
    <2>1. f = [j \in 0 .. b |-> f[j]]
      BY <1>8
    <2> HIDE DEF stop, base, Turn
    <2> QED BY <1>9, <1>10, <2>1 DEF AreEnds
  <1>12. PICK end : end = CHOOSE g : AreEnds(g, item)
    OBVIOUS
  <1>13. AreEnds(end, item)
    BY <1>11, <1>12
  <1>14. ASSUME NEW j
         PROVE  Many0(j, item) = end[j]
    BY <1>12 DEF Many0, AreEnds
  <1>15. ASSUME NEW j \in 0 .. b
         PROVE  end[j] = IF item[j] = 0 THEN j ELSE end[item[j]]
    BY <1>10, <1>13 DEF AreEnds
  <1> QED BY <1>3, <1>14, <1>15

\* The last of the items is at a position that all sets have that have the first
\* and the next of each of their members.
LEMMA Many0Closed ==
  ASSUME NEW t \in Text, NEW item, AreItems(t, item), NEW S,
         \A j \in Positions(t) : j \in S /\ item[j] # 0 => item[j] \in S,
         NEW i \in Positions(t), i \in S
  PROVE  Many0(i, item) \in S /\ Many0(i, item) \in Positions(t) /\ item[Many0(i, item)] = 0
  <1> DEFINE P(j) == Many0(j, item) \in S /\ Many0(j, item) \in Positions(t) /\ item[Many0(j, item)] = 0
  <1>1. PICK b \in Nat : b = Len(t) + 1
    BY TextIs
  <1>2. Positions(t) = 0 .. b
    BY <1>1 DEF Positions
  <1>3. \A j \in 0 .. b : Many0(j, item) = IF item[j] = 0 THEN j ELSE Many0(item[j], item)
    BY <1>2, Many0Step
  <1>4. \A j \in 0 .. b : item[j] # 0 => item[j] \in j + 1 .. b
    <2> SUFFICES ASSUME NEW j \in 0 .. b, item[j] # 0
                 PROVE  item[j] \in j + 1 .. b
      OBVIOUS
    <2>1. j \in 1 .. Len(t) + 1
      BY <1>1 DEF AreItems
    <2> QED BY <1>1, <2>1 DEF AreItems
  <1> DEFINE T == {m \in Nat : \A j \in 0 .. b : j \in S /\ j + m >= b => P(j)}
  <1>5. ASSUME NEW j \in 0 .. b, j \in S, item[j] = 0
        PROVE  P(j)
    <2>1. Many0(j, item) = j
      BY <1>3, <1>5
    <2> QED BY <1>2, <1>5, <2>1
  <1>6. ASSUME NEW j \in 0 .. b, j \in S, item[j] # 0, P(item[j])
        PROVE  P(j)
    <2>1. Many0(j, item) = Many0(item[j], item)
      BY <1>3, <1>6
    <2> QED BY <1>6, <2>1
  <1> HIDE DEF P
  <1>7. 0 \in T
    <2> SUFFICES ASSUME NEW j \in 0 .. b, j \in S, j + 0 >= b
                 PROVE  P(j)
      OBVIOUS
    <2>1. item[j] = 0
      BY <1>4
    <2> QED BY <1>5, <2>1
  <1>8. ASSUME NEW m \in 0 .. b - 1, m \in T
        PROVE  m + 1 \in T
    <2> SUFFICES ASSUME NEW j \in 0 .. b, j \in S, j + (m + 1) >= b
                 PROVE  P(j)
      OBVIOUS
    <2>1. CASE item[j] = 0
      BY <1>5, <2>1
    <2>2. CASE item[j] # 0
      <3>1. item[j] \in j + 1 .. b /\ item[j] \in S
        BY <1>2, <1>4, <2>2
      <3>2. item[j] \in 0 .. b /\ item[j] + m >= b
        BY <3>1
      <3>3. P(item[j])
        BY <1>8, <3>1, <3>2
      <3> QED BY <1>6, <2>2, <3>3
    <2> QED BY <2>1, <2>2
  <1>9. \A m \in 0 .. b : m \in T
    <2> HIDE DEF T
    <2> QED BY <1>7, <1>8, Ascending
  <1>10. b \in T
    <2> HIDE DEF T
    <2> QED BY <1>9
  <1>11. P(i)
    <2>1. i \in 0 .. b /\ i + b >= b
      BY <1>2
    <2> QED BY <1>10, <2>1
  <1> QED BY <1>11 DEF P

LEMMA Many0Later ==
  ASSUME NEW t \in Text, NEW item, AreItems(t, item), NEW i \in 1 .. Len(t) + 1
  PROVE  Many0(i, item) \in i .. Len(t) + 1 /\ item[Many0(i, item)] = 0
  <1> DEFINE S == i .. Len(t) + 1
  <1>1. Len(t) \in Nat /\ i \in Positions(t) /\ i \in S
    BY TextIs DEF Positions
  <1>2. ASSUME NEW j \in Positions(t), j \in S, item[j] # 0
        PROVE  item[j] \in S
    <2>1. j \in 1 .. Len(t) + 1
      BY <1>1, <1>2
    <2>2. item[j] \in j + 1 .. Len(t) + 1
      BY <1>2, <2>1 DEF AreItems
    <2> QED BY <1>1, <1>2, <2>2
  <1> HIDE DEF S
  <1>3. Many0(i, item) \in S /\ item[Many0(i, item)] = 0
    BY <1>1, <1>2, Many0Closed
  <1> QED BY <1>3 DEF S

LEMMA Many0Zero ==
  ASSUME NEW t \in Text, NEW item, AreItems(t, item)
  PROVE  Many0(0, item) = 0
  <1>1. 0 \in Positions(t) /\ item[0] = 0
    BY TextIs DEF Positions, AreItems
  <1> QED BY <1>1, Many0Step

LEMMA Many0Ahead ==
  ASSUME NEW t \in Text, NEW i \in 1 .. Len(t) + 1, NEW words, NEW item, AreItems(t, item),
         \A j \in Positions(t) : Ahead(t, i, j, words) => Ahead(t, i, item[j], words),
         NEW j0, Ahead(t, i, j0, words)
  PROVE  Ahead(t, i, Many0(j0, item), words)
  <1> DEFINE S == {j \in Positions(t) : Ahead(t, i, j, words)}
  <1>1. Len(t) \in Nat
    BY TextIs
  <1>2. j0 \in Positions(t) /\ j0 \in S
    BY <1>1 DEF Ahead, Positions
  <1>3. ASSUME NEW j \in Positions(t), j \in S, item[j] # 0
        PROVE  item[j] \in S
    <2>1. Ahead(t, i, item[j], words)
      BY <1>3
    <2>2. item[j] \in Positions(t)
      BY <1>1, <2>1 DEF Ahead, Positions
    <2> QED BY <2>1, <2>2
  <1> HIDE DEF S
  <1>4. Many0(j0, item) \in S
    BY <1>2, <1>3, Many0Closed
  <1> QED BY <1>4 DEF S

-----------------------------------------------------------------------------
(* The same words in two texts *)

\* n words of t from i are also in u from k, and end there: behind them in u, and
\* if exact also in t, is the end of the text or one of the stops.
Copy(t, i, u, k, n, stops, exact) ==
    /\ t \in Text /\ u \in Text /\ n \in Nat
    /\ i \in 1 .. Len(t) + 1 /\ i + n \in 1 .. Len(t) + 1
    /\ k \in 1 .. Len(u) + 1 /\ k + n \in 1 .. Len(u) + 1
    /\ \A d \in 0 .. n - 1 : t[i + d] = u[k + d]
    /\ k + n \in 1 .. Len(u) => u[k + n] \in stops
    /\ exact /\ i + n \in 1 .. Len(t) => t[i + n] \in stops

\* p is for t what q is for u: failures, or the same position among those words,
\* or, unless exact, p is behind them, where u cannot be read any further.
Moved(t, i, k, n, exact, p, q) ==
    \/ p = 0 /\ q = 0
    \/ \E d \in 0 .. n : p = i + d /\ q = k + d
    \/ ~exact /\ p \in i + n + 1 .. Len(t) + 1 /\ q \in {0, k + n}

LEMMA MovedStart ==
  ASSUME NEW t, NEW i \in Nat, NEW u, NEW k \in Nat, NEW n \in Nat, NEW exact
  PROVE  Moved(t, i, k, n, exact, i, k)
  <1>1. 0 \in 0 .. n /\ i = i + 0 /\ k = k + 0
    OBVIOUS
  <1> QED BY <1>1 DEF Moved

LEMMA OneMoves ==
  ASSUME NEW t, NEW i, NEW u, NEW k, NEW n, NEW stops, NEW exact,
         Copy(t, i, u, k, n, stops, exact),
         NEW class, class \cap stops = {},
         NEW p, NEW q, Moved(t, i, k, n, exact, p, q)
  PROVE  Moved(t, i, k, n, exact, One(t, p, class), One(u, q, class))
  <1>1. /\ t \in Text /\ u \in Text /\ n \in Nat /\ Len(t) \in Nat /\ Len(u) \in Nat
        /\ i \in 1 .. Len(t) + 1 /\ i + n \in 1 .. Len(t) + 1
        /\ k \in 1 .. Len(u) + 1 /\ k + n \in 1 .. Len(u) + 1
        /\ \A d \in 0 .. n - 1 : t[i + d] = u[k + d]
        /\ k + n \in 1 .. Len(u) => u[k + n] \in stops
        /\ exact /\ i + n \in 1 .. Len(t) => t[i + n] \in stops
    BY TextIs DEF Copy
  <1>2. PICK x : x = One(t, p, class)
    OBVIOUS
  <1>3. PICK y : y = One(u, q, class)
    OBVIOUS
  <1>4. p \in Nat /\ q \in Nat
    BY <1>1 DEF Moved
  <1>5. x = IF p \in 1 .. Len(t) /\ t[p] \in class THEN p + 1 ELSE 0
    BY <1>1, <1>2, <1>4, OneIs
  <1>6. y = IF q \in 1 .. Len(u) /\ u[q] \in class THEN q + 1 ELSE 0
    BY <1>1, <1>3, <1>4, OneIs
  <1>7. Moved(t, i, k, n, exact, x, y)
    <2>1. CASE p = 0 /\ q = 0
      BY <1>5, <1>6, <2>1 DEF Moved
    <2>2. CASE \E d \in 0 .. n : p = i + d /\ q = k + d
      <3>1. PICK d \in 0 .. n : p = i + d /\ q = k + d
        BY <2>2
      <3>2. CASE d # n
        <4>1. d \in 0 .. n - 1 /\ d + 1 \in 0 .. n
          BY <1>1, <3>2
        <4>2. p \in 1 .. Len(t) /\ q \in 1 .. Len(u) /\ t[p] = u[q]
          BY <1>1, <3>1, <4>1
        <4>3. CASE t[p] \in class
          <5>1. x = p + 1 /\ y = q + 1
            BY <1>5, <1>6, <4>2, <4>3
          <5>2. x = i + (d + 1) /\ y = k + (d + 1)
            BY <1>1, <3>1, <5>1
          <5> QED BY <4>1, <5>2 DEF Moved
        <4>4. CASE t[p] \notin class
          <5>1. x = 0 /\ y = 0
            BY <1>5, <1>6, <4>2, <4>4
          <5> QED BY <5>1 DEF Moved
        <4> QED BY <4>3, <4>4
      <3>3. CASE d = n
        <4>1. p = i + n /\ q = k + n
          BY <3>1, <3>3
        <4>2. y = 0
          <5>1. ~(q \in 1 .. Len(u) /\ u[q] \in class)
            BY <1>1, <4>1
          <5> QED BY <1>6, <5>1
        <4>3. CASE exact
          <5>1. ~(p \in 1 .. Len(t) /\ t[p] \in class)
            BY <1>1, <4>1, <4>3
          <5>2. x = 0
            BY <1>5, <5>1
          <5> QED BY <4>2, <5>2 DEF Moved
        <4>4. CASE ~exact
          <5>1. x = 0 \/ x \in i + n + 1 .. Len(t) + 1
            BY <1>1, <1>5, <4>1
          <5> QED BY <4>2, <4>4, <5>1 DEF Moved
        <4> QED BY <4>3, <4>4
      <3> QED BY <3>2, <3>3
    <2>3. CASE ~exact /\ p \in i + n + 1 .. Len(t) + 1 /\ q \in {0, k + n}
      <3>1. y = 0
        <4>1. ~(q \in 1 .. Len(u) /\ u[q] \in class)
          BY <1>1, <2>3
        <4> QED BY <1>6, <4>1
      <3>2. x = 0 \/ x \in i + n + 1 .. Len(t) + 1
        BY <1>1, <1>5, <2>3
      <3> QED BY <2>3, <3>1, <3>2 DEF Moved
    <2> QED BY <2>1, <2>2, <2>3 DEF Moved
  <1> QED BY <1>2, <1>3, <1>7

LEMMA TagMoves ==
  ASSUME NEW t, NEW i, NEW u, NEW k, NEW n, NEW stops, NEW exact,
         Copy(t, i, u, k, n, stops, exact),
         NEW word, word \notin stops,
         NEW p, NEW q, Moved(t, i, k, n, exact, p, q)
  PROVE  Moved(t, i, k, n, exact, Tag(t, p, word), Tag(u, q, word))
  <1>1. {word} \cap stops = {}
    OBVIOUS
  <1> QED BY <1>1, OneMoves DEF Tag

LEMMA RunMoves ==
  ASSUME NEW t, NEW i, NEW u, NEW k, NEW n, NEW stops, NEW exact,
         Copy(t, i, u, k, n, stops, exact),
         NEW class, class \cap stops = {},
         NEW p, NEW q, Moved(t, i, k, n, exact, p, q)
  PROVE  Moved(t, i, k, n, exact, Run(t, p, class), Run(u, q, class))
  <1>1. /\ t \in Text /\ u \in Text /\ n \in Nat /\ Len(t) \in Nat /\ Len(u) \in Nat
        /\ i \in 1 .. Len(t) + 1 /\ i + n \in 1 .. Len(t) + 1
        /\ k \in 1 .. Len(u) + 1 /\ k + n \in 1 .. Len(u) + 1
        /\ \A d \in 0 .. n - 1 : t[i + d] = u[k + d]
        /\ k + n \in 1 .. Len(u) => u[k + n] \in stops
        /\ exact /\ i + n \in 1 .. Len(t) => t[i + n] \in stops
    BY TextIs DEF Copy
  <1>2. PICK x : x = Run(t, p, class)
    OBVIOUS
  <1>3. PICK y : y = Run(u, q, class)
    OBVIOUS
  <1>4. ASSUME q = k + n
        PROVE  y = q
    <2>1. EndsRun(u, q, class, q)
      BY <1>1, <1>4 DEF EndsRun
    <2>2. q \in 1 .. Len(u) + 1
      BY <1>1, <1>4
    <2> QED BY <1>1, <1>3, <2>1, <2>2, RunOnly
  <1>5. Moved(t, i, k, n, exact, x, y)
    <2>1. CASE p = 0 /\ q = 0
      <3>1. x = 0 /\ y = 0
        BY <1>2, <1>3, <2>1, RunZero
      <3> QED BY <3>1 DEF Moved
    <2>2. CASE \E d \in 0 .. n : p = i + d /\ q = k + d
      <3>1. PICK d \in 0 .. n : p = i + d /\ q = k + d
        BY <2>2
      <3>2. p \in 1 .. Len(t) + 1 /\ q \in 1 .. Len(u) + 1 /\ p \in Nat /\ q \in Nat /\ d \in Nat
        BY <1>1, <3>1
      <3>3. EndsRun(t, p, class, x)
        BY <1>1, <1>2, <3>2, RunIs
      <3>4. x \in p .. Len(t) + 1 /\ (\A r \in p .. x - 1 : t[r] \in class) /\ (x \in 1 .. Len(t) => t[x] \notin class)
        BY <3>3 DEF EndsRun
      <3>5. CASE x <= i + n
        <4>1. PICK c : c = x - i
          OBVIOUS
        <4>2. c \in 0 .. n /\ x = i + c /\ d <= c
          BY <1>1, <3>1, <3>2, <3>4, <3>5, <4>1
        <4>3. EndsRun(u, q, class, k + c)
          <5>1. k + c \in q .. Len(u) + 1
            BY <1>1, <3>1, <4>2
          <5>2. ASSUME NEW r \in q .. (k + c) - 1
                PROVE  u[r] \in class
            <6>1. PICK a : a = r - k
              OBVIOUS
            <6>2. a \in 0 .. n - 1 /\ r = k + a /\ i + a \in p .. x - 1
              BY <1>1, <3>1, <4>2, <5>2, <6>1
            <6> QED BY <1>1, <3>4, <6>2
          <5>3. ASSUME k + c \in 1 .. Len(u)
                PROVE  u[k + c] \notin class
            <6>1. CASE c = n
              BY <1>1, <5>3, <6>1
            <6>2. CASE c # n
              <7>1. c \in 0 .. n - 1 /\ x \in 1 .. Len(t)
                BY <1>1, <4>2, <6>2
              <7> QED BY <1>1, <3>4, <4>2, <7>1
            <6> QED BY <6>1, <6>2
          <5> QED BY <5>1, <5>2, <5>3 DEF EndsRun
        <4>4. y = k + c
          BY <1>1, <1>3, <3>2, <4>3, RunOnly
        <4> QED BY <4>2, <4>4 DEF Moved
      <3>6. CASE ~(x <= i + n)
        <4>1. i + n \in p .. x - 1 /\ i + n \in 1 .. Len(t)
          BY <1>1, <3>1, <3>2, <3>4, <3>6
        <4>2. t[i + n] \in class /\ ~exact
          BY <1>1, <3>4, <4>1
        <4>3. EndsRun(u, q, class, k + n)
          <5>1. k + n \in q .. Len(u) + 1
            BY <1>1, <3>1
          <5>2. ASSUME NEW r \in q .. (k + n) - 1
                PROVE  u[r] \in class
            <6>1. PICK a : a = r - k
              OBVIOUS
            <6>2. a \in 0 .. n - 1 /\ r = k + a /\ i + a \in p .. x - 1
              <7>1. r \in k + d .. (k + n) - 1 /\ d \in 0 .. n /\ n \in Nat /\ k \in Nat /\ i \in Nat
                BY <1>1, <3>1, <5>2
              <7>2. a \in d .. n - 1 /\ r = k + a
                BY <6>1, <7>1
              <7>3. i + n <= x - 1 /\ x - 1 \in Int
                BY <3>4, <4>1
              <7>4. i + a \in i + d .. x - 1 /\ a \in 0 .. n - 1
                BY <7>1, <7>2, <7>3
              <7> QED BY <3>1, <7>2, <7>4
            <6>3. t[i + a] = u[k + a]
              BY <1>1, <6>2
            <6>4. t[i + a] \in class
              BY <3>4, <6>2
            <6> QED BY <6>2, <6>3, <6>4
          <5>3. k + n \in 1 .. Len(u) => u[k + n] \notin class
            BY <1>1
          <5> QED BY <5>1, <5>2, <5>3 DEF EndsRun
        <4>4. y = k + n
          BY <1>1, <1>3, <3>2, <4>3, RunOnly
        <4>5. x \in i + n + 1 .. Len(t) + 1
          BY <1>1, <3>4, <3>6
        <4> QED BY <4>2, <4>4, <4>5 DEF Moved
      <3> QED BY <3>5, <3>6
    <2>3. CASE ~exact /\ p \in i + n + 1 .. Len(t) + 1 /\ q \in {0, k + n}
      <3>1. y \in {0, k + n}
        <4>1. CASE q = 0
          BY <1>3, <4>1, RunZero
        <4>2. CASE q = k + n
          BY <1>4, <4>2
        <4> QED BY <2>3, <4>1, <4>2
      <3>2. p \in 1 .. Len(t) + 1
        BY <1>1, <2>3
      <3>3. EndsRun(t, p, class, x)
        BY <1>1, <1>2, <3>2, RunIs
      <3>4. x \in p .. Len(t) + 1
        BY <3>3 DEF EndsRun
      <3>5. x \in i + n + 1 .. Len(t) + 1
        BY <1>1, <2>3, <3>4
      <3> QED BY <2>3, <3>1, <3>5 DEF Moved
    <2> QED BY <2>1, <2>2, <2>3 DEF Moved
  <1> QED BY <1>2, <1>3, <1>5

LEMMA Run1Moves ==
  ASSUME NEW t, NEW i, NEW u, NEW k, NEW n, NEW stops, NEW exact,
         Copy(t, i, u, k, n, stops, exact),
         NEW class, class \cap stops = {},
         NEW p, NEW q, Moved(t, i, k, n, exact, p, q)
  PROVE  Moved(t, i, k, n, exact, Run1(t, p, class), Run1(u, q, class))
  <1>1. Moved(t, i, k, n, exact, One(t, p, class), One(u, q, class))
    BY OneMoves
  <1> QED BY <1>1, RunMoves DEF Run1

LEMMA Many0Moves ==
  ASSUME NEW t, NEW i, NEW u, NEW k, NEW n, NEW stops, NEW exact,
         Copy(t, i, u, k, n, stops, exact),
         NEW f, NEW g, AreItems(t, f), AreItems(u, g),
         \A d \in 0 .. n : Moved(t, i, k, n, exact, f[i + d], g[k + d]),
         NEW p, NEW q, Moved(t, i, k, n, exact, p, q),
         exact \/ Many0(p, f) \in 0 .. i + n
  PROVE  Moved(t, i, k, n, exact, Many0(p, f), Many0(q, g))
  <1>1. /\ t \in Text /\ u \in Text /\ n \in Nat /\ Len(t) \in Nat /\ Len(u) \in Nat
        /\ i \in 1 .. Len(t) + 1 /\ i + n \in 1 .. Len(t) + 1
        /\ k \in 1 .. Len(u) + 1 /\ k + n \in 1 .. Len(u) + 1
    BY TextIs DEF Copy
  <1>2. CASE p = 0 /\ q = 0
    BY <1>1, <1>2, Many0Zero
  <1>3. CASE \E d \in 0 .. n : p = i + d /\ q = k + d
    <2>1. PICK d \in 0 .. n : p = i + d /\ q = k + d
      BY <1>3
    <2>2. PICK m : m = Many0(p, f)
      OBVIOUS
    <2>3. PICK l : l = Many0(q, g)
      OBVIOUS
    <2> DEFINE S == {x \in i .. i + n : Many0(x, f) = m /\ Many0(k + (x - i), g) = l}
    <2>4. p \in S /\ p \in Positions(t)
      <3>1. p \in i .. i + n /\ k + (p - i) = q /\ p \in Positions(t)
        BY <1>1, <2>1 DEF Positions
      <3> QED BY <2>2, <2>3, <3>1
    <2>5. ASSUME NEW x \in Positions(t), x \in S, f[x] # 0
          PROVE  f[x] \in S
      <3>1. PICK c \in 0 .. n : x = i + c
        <4>1. x - i \in 0 .. n /\ x = i + (x - i)
          BY <1>1, <2>5
        <4> QED BY <4>1
      <3>2. /\ x \in 1 .. Len(t) + 1 /\ k + (x - i) = k + c /\ k + c \in 1 .. Len(u) + 1
            /\ k + c \in Positions(u)
        BY <1>1, <3>1 DEF Positions
      <3>3. Many0(x, f) = m /\ Many0(k + c, g) = l
        BY <2>5, <3>2
      <3>4. Many0(f[x], f) = m
        BY <1>1, <2>5, <3>3, Many0Step
      <3>5. f[x] \in x + 1 .. Len(t) + 1
        BY <2>5, <3>2 DEF AreItems
      <3>6. PICK y : y = f[x]
        OBVIOUS
      <3>7. PICK z : z = g[k + c]
        OBVIOUS
      <3>8. Moved(t, i, k, n, exact, y, z)
        BY <3>1, <3>6, <3>7
      <3>9. ~(~exact /\ y \in i + n + 1 .. Len(t) + 1)
        <4> SUFFICES ASSUME ~exact, y \in i + n + 1 .. Len(t) + 1
                     PROVE  FALSE
          OBVIOUS
        <4>1. y \in 1 .. Len(t) + 1
          BY <1>1
        <4>2. m \in y .. Len(t) + 1
          BY <1>1, <3>4, <3>6, <4>1, Many0Later
        <4>3. m \in 0 .. i + n
          BY <2>2
        <4> QED BY <1>1, <4>2, <4>3
      <3>10. y # 0
        BY <2>5, <3>6
      <3>11. PICK a \in 0 .. n : y = i + a /\ z = k + a
        BY <3>8, <3>9, <3>10 DEF Moved
      <3>12. z # 0 /\ y \in i .. i + n /\ k + (y - i) = z
        BY <1>1, <3>11
      <3>13. Many0(z, g) = l
        BY <1>1, <3>2, <3>3, <3>7, <3>12, Many0Step
      <3> QED BY <3>4, <3>6, <3>12, <3>13
    <2>6. Many0(p, f) \in S /\ f[Many0(p, f)] = 0
      <3> HIDE DEF S
      <3> QED BY <1>1, <2>4, <2>5, Many0Closed
    <2>7. m \in i .. i + n /\ Many0(k + (m - i), g) = l /\ f[m] = 0
      BY <2>2, <2>6
    <2>8. PICK c \in 0 .. n : m = i + c
      <3>1. m - i \in 0 .. n /\ m = i + (m - i)
        BY <1>1, <2>7
      <3> QED BY <3>1
    <2>9. k + (m - i) = k + c /\ k + c \in 1 .. Len(u) + 1 /\ k + c \in Positions(u) /\ k + c \in Nat
      BY <1>1, <2>8 DEF Positions
    <2>10. g[k + c] = 0
      <3>1. Moved(t, i, k, n, exact, f[m], g[k + c])
        BY <2>8
      <3>2. PICK z : z = g[k + c]
        OBVIOUS
      <3>3. Moved(t, i, k, n, exact, 0, z)
        BY <2>7, <3>1, <3>2
      <3>4. z = 0
        <4>1. \A a \in 0 .. n : 0 # i + a
          BY <1>1
        <4>2. 0 \notin i + n + 1 .. Len(t) + 1
          BY <1>1
        <4> QED BY <3>3, <4>1, <4>2 DEF Moved
      <3> QED BY <3>2, <3>4
    <2>11. Many0(k + c, g) = k + c
      BY <1>1, <2>9, <2>10, Many0Step
    <2>12. l = k + c
      BY <2>7, <2>9, <2>11
    <2> QED BY <2>2, <2>3, <2>8, <2>12 DEF Moved
  <1>4. CASE ~exact /\ p \in i + n + 1 .. Len(t) + 1 /\ q \in {0, k + n}
    <2>1. p \in 1 .. Len(t) + 1
      BY <1>1, <1>4
    <2>2. PICK m : m = Many0(p, f)
      OBVIOUS
    <2>3. m \in p .. Len(t) + 1 /\ m \in 0 .. i + n
      BY <1>1, <1>4, <2>1, <2>2, Many0Later
    <2> QED BY <1>1, <1>4, <2>3
  <1> QED BY <1>2, <1>3, <1>4 DEF Moved

-----------------------------------------------------------------------------
(* Where the entities end: what is read, and the same in two texts *)

DomainWords == Alphanumeric \cup {"-", "."}

LEMMA WordsOf ==
  /\ Letters \subseteq Alphanumeric /\ Digits \subseteq Alphanumeric
  /\ Alphanumeric \subseteq DomainWords /\ DomainWords \subseteq Local
  /\ Alphanumeric \cup {"-"} \subseteq DomainWords /\ "." \in DomainWords
  BY DEF Alphanumeric, DomainWords, Local, LocalMarks

LEMMA LabelAhead ==
  ASSUME NEW t \in Text, NEW i \in 1 .. Len(t) + 1, NEW words, DomainWords \subseteq words,
         NEW j, Ahead(t, i, j, words)
  PROVE  Ahead(t, i, Label(t, j), words)
  <1>1. Alphanumeric \subseteq words /\ Alphanumeric \cup {"-"} \subseteq words
    BY WordsOf
  <1>2. Ahead(t, i, Run1(t, j, Alphanumeric), words)
    BY <1>1, Run1Ahead
  <1> QED BY <1>1, <1>2, RunAhead DEF Label

LEMMA LabelsAhead ==
  ASSUME NEW t \in Text, NEW i \in 1 .. Len(t) + 1, NEW words, DomainWords \subseteq words,
         NEW j \in Positions(t), Ahead(t, i, j, words)
  PROVE  Ahead(t, i, LabelsAndDots(t)[j], words)
  <1>1. "." \in words
    BY WordsOf
  <1>2. Ahead(t, i, Label(t, j), words)
    BY LabelAhead
  <1>3. Ahead(t, i, Tag(t, Label(t, j), "."), words)
    BY <1>1, <1>2, TagAhead
  <1> QED BY <1>3 DEF LabelsAndDots

LEMMA LabelZero ==
  ASSUME NEW t \in Text, NEW class
  PROVE  One(t, 0, class) = 0 /\ Label(t, 0) = 0 /\ Run1(t, 0, class) = 0
  <1>1. \A c : One(t, 0, c) = 0
    BY OneIs
  <1> QED BY <1>1, RunZero DEF Label, Run1

LEMMA LabelsAreItems ==
  ASSUME NEW t \in Text
  PROVE  AreItems(t, LabelsAndDots(t))
  <1> DEFINE f == LabelsAndDots(t)
  <1>1. Len(t) \in Nat /\ DOMAIN f = Positions(t) /\ Positions(t) = 0 .. Len(t) + 1
    BY TextIs DEF LabelsAndDots, Positions
  <1>2. f[0] = 0
    <2>1. f[0] = Tag(t, Label(t, 0), ".")
      BY <1>1 DEF LabelsAndDots
    <2> QED BY <2>1, LabelZero DEF Tag
  <1>3. ASSUME NEW j \in 1 .. Len(t) + 1
        PROVE  f[j] = 0 \/ f[j] \in j + 1 .. Len(t) + 1
    <2>1. f[j] = One(t, Label(t, j), {"."})
      BY <1>1 DEF LabelsAndDots, Tag
    <2>2. PICK l : l = Label(t, j)
      OBVIOUS
    <2>3. Ahead(t, j, j, DomainWords)
      BY AheadNow
    <2>4. Ahead(t, j, l, DomainWords)
      BY <2>2, <2>3, LabelAhead
    <2>5. l = 0 \/ l \in j .. Len(t) + 1
      BY <2>4 DEF Ahead
    <2>6. One(t, l, {"."}) = IF l \in 1 .. Len(t) /\ t[l] \in {"."} THEN l + 1 ELSE 0
      BY <1>1, <2>5, OneIs
    <2> QED BY <1>1, <2>1, <2>2, <2>5, <2>6
  <1>4. f \in [Positions(t) -> Nat]
    <2>1. \A j \in Positions(t) : f[j] \in Nat
      <3> SUFFICES ASSUME NEW j \in Positions(t)
                   PROVE  f[j] \in Nat
        OBVIOUS
      <3>1. CASE j = 0
        BY <1>2, <3>1
      <3>2. CASE j # 0
        <4>1. j \in 1 .. Len(t) + 1
          BY <1>1, <3>2
        <4> QED BY <1>1, <1>3, <4>1
      <3> QED BY <3>1, <3>2
    <2>2. f = [j \in Positions(t) |-> f[j]]
      BY DEF LabelsAndDots
    <2> QED BY <2>1, <2>2
  <1> QED BY <1>2, <1>3, <1>4 DEF AreItems

LEMMA DomainAhead ==
  ASSUME NEW t \in Text, NEW i \in 1 .. Len(t) + 1, NEW words, DomainWords \subseteq words,
         NEW j, Ahead(t, i, j, words)
  PROVE  Ahead(t, i, DomainEnd(t, j), words)
  <1>1. Letters \subseteq words
    BY WordsOf
  <1>2. \A m \in Positions(t) : Ahead(t, i, m, words) => Ahead(t, i, LabelsAndDots(t)[m], words)
    BY LabelsAhead
  <1>3. Ahead(t, i, Many0(j, LabelsAndDots(t)), words)
    BY <1>2, LabelsAreItems, Many0Ahead
  <1> QED BY <1>1, <1>3, Run1Ahead DEF DomainEnd

LEMMA LabelMoves ==
  ASSUME NEW t, NEW i, NEW u, NEW k, NEW n, NEW stops, NEW exact,
         Copy(t, i, u, k, n, stops, exact), DomainWords \cap stops = {},
         NEW p, NEW q, Moved(t, i, k, n, exact, p, q)
  PROVE  Moved(t, i, k, n, exact, Label(t, p), Label(u, q))
  <1>1. Alphanumeric \cap stops = {} /\ (Alphanumeric \cup {"-"}) \cap stops = {}
    BY WordsOf
  <1>2. Moved(t, i, k, n, exact, Run1(t, p, Alphanumeric), Run1(u, q, Alphanumeric))
    BY <1>1, Run1Moves
  <1> QED BY <1>1, <1>2, RunMoves DEF Label

LEMMA DomainMoves ==
  ASSUME NEW t, NEW i, NEW u, NEW k, NEW n, NEW stops, NEW exact,
         Copy(t, i, u, k, n, stops, exact), DomainWords \cap stops = {},
         NEW p, NEW q, Moved(t, i, k, n, exact, p, q),
         exact \/ DomainEnd(t, p) \in 1 .. i + n
  PROVE  Moved(t, i, k, n, exact, DomainEnd(t, p), DomainEnd(u, q))
  <1> DEFINE f == LabelsAndDots(t)
             g == LabelsAndDots(u)
  <1>1. /\ t \in Text /\ u \in Text /\ n \in Nat /\ Len(t) \in Nat /\ Len(u) \in Nat
        /\ i \in 1 .. Len(t) + 1 /\ i + n \in 1 .. Len(t) + 1
        /\ k \in 1 .. Len(u) + 1 /\ k + n \in 1 .. Len(u) + 1
    BY TextIs DEF Copy
  <1>2. AreItems(t, f) /\ AreItems(u, g)
    BY <1>1, LabelsAreItems
  <1>3. "." \notin stops /\ Letters \cap stops = {}
    BY WordsOf
  <1>4. ASSUME NEW d \in 0 .. n
        PROVE  Moved(t, i, k, n, exact, f[i + d], g[k + d])
    <2>1. Moved(t, i, k, n, exact, i + d, k + d)
      BY DEF Moved
    <2>2. Moved(t, i, k, n, exact, Label(t, i + d), Label(u, k + d))
      BY <2>1, LabelMoves
    <2>3. Moved(t, i, k, n, exact, Tag(t, Label(t, i + d), "."), Tag(u, Label(u, k + d), "."))
      BY <1>3, <2>2, TagMoves
    <2>4. i + d \in Positions(t) /\ k + d \in Positions(u)
      BY <1>1 DEF Positions
    <2> QED BY <2>3, <2>4 DEF LabelsAndDots
  <1>5. exact \/ Many0(p, f) \in 0 .. i + n
    <2> SUFFICES ASSUME DomainEnd(t, p) \in 1 .. i + n
                 PROVE  Many0(p, f) \in 0 .. i + n
      OBVIOUS
    <2>1. p = 0 \/ p \in 1 .. Len(t) + 1
      BY <1>1 DEF Moved
    <2>2. CASE p = 0
      BY <1>1, <1>2, <2>2, Many0Zero
    <2>3. CASE p \in 1 .. Len(t) + 1
      <3>1. PICK m : m = Many0(p, f)
        OBVIOUS
      <3>2. m \in p .. Len(t) + 1
        BY <1>1, <1>2, <2>3, <3>1, Many0Later
      <3>3. m \in 1 .. Len(t) + 1
        BY <2>3, <3>2
      <3>4. Ahead(t, m, m, Letters)
        BY <1>1, <3>3, AheadNow
      <3>5. PICK e : e = DomainEnd(t, p)
        OBVIOUS
      <3>6. Ahead(t, m, e, Letters)
        BY <1>1, <3>1, <3>3, <3>4, <3>5, Run1Ahead DEF DomainEnd
      <3>7. e \in m .. Len(t) + 1 /\ e \in 1 .. i + n
        BY <3>5, <3>6 DEF Ahead
      <3>8. m \in 0 .. i + n
        BY <1>1, <3>3, <3>7
      <3> QED BY <3>1, <3>8
    <2> QED BY <2>1, <2>2, <2>3
  <1>6. Moved(t, i, k, n, exact, Many0(p, f), Many0(q, g))
    <2> HIDE DEF f, g
    <2> QED BY <1>2, <1>4, <1>5, Many0Moves
  <1> QED BY <1>3, <1>6, Run1Moves DEF DomainEnd

LEMMA EMailAhead ==
  ASSUME NEW t \in Text, NEW i \in 1 .. Len(t) + 1, NEW words, Local \cup {"@"} \subseteq words,
         NEW j, Ahead(t, i, j, words)
  PROVE  Ahead(t, i, EMailEnd(t, j), words)
  <1>1. Local \subseteq words /\ "@" \in words /\ DomainWords \subseteq words
    BY WordsOf
  <1>2. Ahead(t, i, Run1(t, j, Local), words)
    BY <1>1, Run1Ahead
  <1>3. Ahead(t, i, Tag(t, Run1(t, j, Local), "@"), words)
    BY <1>1, <1>2, TagAhead
  <1> QED BY <1>1, <1>3, DomainAhead DEF EMailEnd

LEMMA Base64Ahead ==
  ASSUME NEW t \in Text, NEW i \in 1 .. Len(t) + 1, NEW words, Base64 \cup {"="} \subseteq words,
         NEW j, Ahead(t, i, j, words)
  PROVE  Ahead(t, i, Base64End(t, j), words)
  <1>1. Base64 \subseteq words /\ {"="} \subseteq words
    OBVIOUS
  <1>2. Ahead(t, i, Run1(t, j, Base64), words)
    BY <1>1, Run1Ahead
  <1> QED BY <1>1, <1>2, RunAhead DEF Base64End

LEMMA NameAhead ==
  ASSUME NEW t \in Text, NEW i \in 1 .. Len(t) + 1, NEW words, Letters \cup {"_"} \subseteq words,
         NEW j, Ahead(t, i, j, words)
  PROVE  Ahead(t, i, NameEnd(t, j), words)
  <1>1. Letters \subseteq words
    OBVIOUS
  <1>2. Ahead(t, i, Run1(t, j, Letters), words)
    BY <1>1, Run1Ahead
  <1> QED BY <1>2, RunAhead DEF NameEnd

LEMMA PrefixAhead ==
  ASSUME NEW t \in Text, NEW i \in 1 .. Len(t) + 1, NEW words, Digits \cup {"/"} \subseteq words,
         NEW j, Ahead(t, i, j, words)
  PROVE  Ahead(t, i, PrefixEnd(t, j), words)
  <1>1. Digits \subseteq words /\ "/" \in words
    OBVIOUS
  <1>2. Ahead(t, i, Tag(t, j, "/"), words)
    BY <1>1, TagAhead
  <1>3. Ahead(t, i, Run1(t, Tag(t, j, "/"), Digits), words)
    BY <1>1, <1>2, Run1Ahead
  <1> QED BY <1>3 DEF PrefixEnd

LEMMA DigitsAhead ==
  ASSUME NEW t \in Text, NEW i \in 1 .. Len(t) + 1, NEW words, Digits \cup {"."} \subseteq words,
         NEW j, Ahead(t, i, j, words)
  PROVE  Ahead(t, i, DigitsAndDot(t, j), words)
  <1>1. Digits \subseteq words /\ "." \in words
    OBVIOUS
  <1>2. Ahead(t, i, Run1(t, j, Digits), words)
    BY <1>1, Run1Ahead
  <1> QED BY <1>1, <1>2, TagAhead DEF DigitsAndDot

LEMMA IPv4Ahead ==
  ASSUME NEW t \in Text, NEW i \in 1 .. Len(t) + 1, NEW words, Digits \cup {".", "/"} \subseteq words,
         NEW j, Ahead(t, i, j, words)
  PROVE  Ahead(t, i, IPv4End(t, j), words)
  <1>1. Digits \subseteq words /\ Digits \cup {"."} \subseteq words /\ Digits \cup {"/"} \subseteq words
    OBVIOUS
  <1>2. Ahead(t, i, DigitsAndDot(t, j), words)
    BY <1>1, DigitsAhead
  <1>3. Ahead(t, i, DigitsAndDot(t, DigitsAndDot(t, j)), words)
    BY <1>1, <1>2, DigitsAhead
  <1>4. Ahead(t, i, DigitsAndDot(t, DigitsAndDot(t, DigitsAndDot(t, j))), words)
    BY <1>1, <1>3, DigitsAhead
  <1>5. Ahead(t, i, Run1(t, DigitsAndDot(t, DigitsAndDot(t, DigitsAndDot(t, j))), Digits), words)
    BY <1>1, <1>4, Run1Ahead
  <1> QED BY <1>1, <1>5, PrefixAhead DEF IPv4End

LEMMA IPv6Ahead ==
  ASSUME NEW t \in Text, NEW i \in 1 .. Len(t) + 1, NEW words, Hexadecimal \cup {":", "/"} \subseteq words,
         NEW j, Ahead(t, i, j, words)
  PROVE  Ahead(t, i, IPv6End(t, j), words)
  <1>1. /\ Hexadecimal \subseteq words /\ Hexadecimal \cup {":"} \subseteq words
        /\ Digits \cup {"/"} \subseteq words
    BY WordAssumption
  <1>2. Ahead(t, i, Run1(t, j, Hexadecimal), words)
    BY <1>1, Run1Ahead
  <1>3. Ahead(t, i, Run1(t, Run1(t, j, Hexadecimal), Hexadecimal \cup {":"}), words)
    BY <1>1, <1>2, Run1Ahead
  <1> QED BY <1>1, <1>3, PrefixAhead DEF IPv6End

LEMMA EMailMoves ==
  ASSUME NEW t, NEW i, NEW u, NEW k, NEW n, NEW stops, NEW exact,
         Copy(t, i, u, k, n, stops, exact), (Local \cup {"@"}) \cap stops = {},
         NEW p, NEW q, Moved(t, i, k, n, exact, p, q),
         exact \/ EMailEnd(t, p) \in 1 .. i + n
  PROVE  Moved(t, i, k, n, exact, EMailEnd(t, p), EMailEnd(u, q))
  <1>1. Local \cap stops = {} /\ "@" \notin stops /\ DomainWords \cap stops = {}
    BY WordsOf
  <1>2. Moved(t, i, k, n, exact, Run1(t, p, Local), Run1(u, q, Local))
    BY <1>1, Run1Moves
  <1>3. Moved(t, i, k, n, exact, Tag(t, Run1(t, p, Local), "@"), Tag(u, Run1(u, q, Local), "@"))
    BY <1>1, <1>2, TagMoves
  <1> QED BY <1>1, <1>3, DomainMoves DEF EMailEnd

LEMMA Base64Moves ==
  ASSUME NEW t, NEW i, NEW u, NEW k, NEW n, NEW stops, NEW exact,
         Copy(t, i, u, k, n, stops, exact), (Base64 \cup {"="}) \cap stops = {},
         NEW p, NEW q, Moved(t, i, k, n, exact, p, q)
  PROVE  Moved(t, i, k, n, exact, Base64End(t, p), Base64End(u, q))
  <1>1. Base64 \cap stops = {} /\ {"="} \cap stops = {}
    OBVIOUS
  <1>2. Moved(t, i, k, n, exact, Run1(t, p, Base64), Run1(u, q, Base64))
    BY <1>1, Run1Moves
  <1> QED BY <1>1, <1>2, RunMoves DEF Base64End

LEMMA NameMoves ==
  ASSUME NEW t, NEW i, NEW u, NEW k, NEW n, NEW stops, NEW exact,
         Copy(t, i, u, k, n, stops, exact), (Letters \cup {"_"}) \cap stops = {},
         NEW p, NEW q, Moved(t, i, k, n, exact, p, q)
  PROVE  Moved(t, i, k, n, exact, NameEnd(t, p), NameEnd(u, q))
  <1>1. Letters \cap stops = {}
    OBVIOUS
  <1>2. Moved(t, i, k, n, exact, Run1(t, p, Letters), Run1(u, q, Letters))
    BY <1>1, Run1Moves
  <1> QED BY <1>2, RunMoves DEF NameEnd

LEMMA PrefixMoves ==
  ASSUME NEW t, NEW i, NEW u, NEW k, NEW n, NEW stops, NEW exact,
         Copy(t, i, u, k, n, stops, exact), exact, (Digits \cup {"/"}) \cap stops = {},
         NEW p, NEW q, Moved(t, i, k, n, exact, p, q)
  PROVE  Moved(t, i, k, n, exact, PrefixEnd(t, p), PrefixEnd(u, q))
  <1>1. Digits \cap stops = {} /\ "/" \notin stops
    OBVIOUS
  <1>2. Moved(t, i, k, n, exact, Tag(t, p, "/"), Tag(u, q, "/"))
    BY <1>1, TagMoves
  <1>3. Moved(t, i, k, n, exact, Run1(t, Tag(t, p, "/"), Digits), Run1(u, Tag(u, q, "/"), Digits))
    BY <1>1, <1>2, Run1Moves
  <1>4. PICK x : x = Run1(t, Tag(t, p, "/"), Digits)
    OBVIOUS
  <1>5. PICK y : y = Run1(u, Tag(u, q, "/"), Digits)
    OBVIOUS
  <1>6. Moved(t, i, k, n, exact, x, y)
    BY <1>3, <1>4, <1>5
  <1>7. x = 0 <=> y = 0
    <2>1. i \in Nat \ {0} /\ k \in Nat \ {0}
      BY TextIs DEF Copy
    <2>2. \A d \in 0 .. n : i + d # 0 /\ k + d # 0
      BY <2>1 DEF Copy
    <2> QED BY <1>6, <2>2 DEF Moved
  <1> QED BY <1>4, <1>5, <1>6, <1>7 DEF PrefixEnd

LEMMA DigitsMoves ==
  ASSUME NEW t, NEW i, NEW u, NEW k, NEW n, NEW stops, NEW exact,
         Copy(t, i, u, k, n, stops, exact), (Digits \cup {"."}) \cap stops = {},
         NEW p, NEW q, Moved(t, i, k, n, exact, p, q)
  PROVE  Moved(t, i, k, n, exact, DigitsAndDot(t, p), DigitsAndDot(u, q))
  <1>1. Digits \cap stops = {} /\ "." \notin stops
    OBVIOUS
  <1>2. Moved(t, i, k, n, exact, Run1(t, p, Digits), Run1(u, q, Digits))
    BY <1>1, Run1Moves
  <1> QED BY <1>1, <1>2, TagMoves DEF DigitsAndDot

LEMMA IPv4Moves ==
  ASSUME NEW t, NEW i, NEW u, NEW k, NEW n, NEW stops, NEW exact,
         Copy(t, i, u, k, n, stops, exact), exact, (Digits \cup {".", "/"}) \cap stops = {},
         NEW p, NEW q, Moved(t, i, k, n, exact, p, q)
  PROVE  Moved(t, i, k, n, exact, IPv4End(t, p), IPv4End(u, q))
  <1>1. /\ Digits \cap stops = {} /\ (Digits \cup {"."}) \cap stops = {}
        /\ (Digits \cup {"/"}) \cap stops = {}
    OBVIOUS
  <1>2. Moved(t, i, k, n, exact, DigitsAndDot(t, p), DigitsAndDot(u, q))
    BY <1>1, DigitsMoves
  <1>3. Moved(t, i, k, n, exact, DigitsAndDot(t, DigitsAndDot(t, p)), DigitsAndDot(u, DigitsAndDot(u, q)))
    BY <1>1, <1>2, DigitsMoves
  <1> DEFINE x == DigitsAndDot(t, DigitsAndDot(t, DigitsAndDot(t, p)))
             y == DigitsAndDot(u, DigitsAndDot(u, DigitsAndDot(u, q)))
  <1>4. Moved(t, i, k, n, exact, x, y)
    BY <1>1, <1>3, DigitsMoves
  <1>5. Moved(t, i, k, n, exact, Run1(t, x, Digits), Run1(u, y, Digits))
    <2> HIDE DEF x, y
    <2> QED BY <1>1, <1>4, Run1Moves
  <1> QED BY <1>1, <1>5, PrefixMoves DEF IPv4End

LEMMA IPv6Moves ==
  ASSUME NEW t, NEW i, NEW u, NEW k, NEW n, NEW stops, NEW exact,
         Copy(t, i, u, k, n, stops, exact), exact, (Hexadecimal \cup {":", "/"}) \cap stops = {},
         NEW p, NEW q, Moved(t, i, k, n, exact, p, q)
  PROVE  Moved(t, i, k, n, exact, IPv6End(t, p), IPv6End(u, q))
  <1>1. /\ Hexadecimal \cap stops = {} /\ (Hexadecimal \cup {":"}) \cap stops = {}
        /\ (Digits \cup {"/"}) \cap stops = {}
    BY WordAssumption
  <1>2. Moved(t, i, k, n, exact, Run1(t, p, Hexadecimal), Run1(u, q, Hexadecimal))
    BY <1>1, Run1Moves
  <1> DEFINE x == Run1(t, Run1(t, p, Hexadecimal), Hexadecimal \cup {":"})
             y == Run1(u, Run1(u, q, Hexadecimal), Hexadecimal \cup {":"})
  <1>3. Moved(t, i, k, n, exact, x, y)
    BY <1>1, <1>2, Run1Moves
  <1>4. Moved(t, i, k, n, exact, PrefixEnd(t, x), PrefixEnd(u, y))
    <2> HIDE DEF x, y
    <2> QED BY <1>1, <1>3, PrefixMoves
  <1> QED BY <1>4 DEF IPv6End

TemplateWords == Letters \cup {"_", "(", "bar", ","}

TypesEnd(t, i) == Many0(TypeEnd(t, Tag(t, NameEnd(t, i), "(")), MoreTypes(t))

LEMMA MoreTypesAhead ==
  ASSUME NEW t \in Text, NEW i \in 1 .. Len(t) + 1, NEW words, TemplateWords \subseteq words,
         NEW j \in Positions(t), Ahead(t, i, j, words)
  PROVE  Ahead(t, i, MoreTypes(t)[j], words)
  <1>1. Between \subseteq words /\ TypeNames \subseteq words
    BY WordAssumption DEF TemplateWords, Between
  <1>2. Ahead(t, i, One(t, j, Between), words)
    BY <1>1, OneAhead
  <1>3. Ahead(t, i, One(t, One(t, j, Between), TypeNames), words)
    BY <1>1, <1>2, OneAhead
  <1> QED BY <1>3 DEF MoreTypes, TypeEnd

LEMMA MoreTypesAreItems ==
  ASSUME NEW t \in Text
  PROVE  AreItems(t, MoreTypes(t))
  <1> DEFINE f == MoreTypes(t)
  <1>1. Len(t) \in Nat /\ DOMAIN f = Positions(t) /\ Positions(t) = 0 .. Len(t) + 1
    BY TextIs DEF MoreTypes, Positions
  <1>2. f[0] = 0
    <2>1. f[0] = One(t, One(t, 0, Between), TypeNames)
      BY <1>1 DEF MoreTypes, TypeEnd
    <2> QED BY <2>1, LabelZero
  <1>3. ASSUME NEW j \in 1 .. Len(t) + 1
        PROVE  f[j] = 0 \/ f[j] \in j + 1 .. Len(t) + 1
    <2>1. f[j] = One(t, One(t, j, Between), TypeNames)
      BY <1>1 DEF MoreTypes, TypeEnd
    <2>2. PICK l : l = One(t, j, Between)
      OBVIOUS
    <2>3. l = 0 \/ l \in j .. Len(t) + 1
      <3>1. l = IF j \in 1 .. Len(t) /\ t[j] \in Between THEN j + 1 ELSE 0
        BY <1>1, <2>2, OneIs
      <3> QED BY <1>1, <3>1
    <2>4. One(t, l, TypeNames) = IF l \in 1 .. Len(t) /\ t[l] \in TypeNames THEN l + 1 ELSE 0
      BY <1>1, <2>3, OneIs
    <2> QED BY <1>1, <2>1, <2>2, <2>3, <2>4
  <1>4. f \in [Positions(t) -> Nat]
    <2>1. \A j \in Positions(t) : f[j] \in Nat
      <3> SUFFICES ASSUME NEW j \in Positions(t)
                   PROVE  f[j] \in Nat
        OBVIOUS
      <3>1. CASE j = 0
        BY <1>2, <3>1
      <3>2. CASE j # 0
        <4>1. j \in 1 .. Len(t) + 1
          BY <1>1, <3>2
        <4> QED BY <1>1, <1>3, <4>1
      <3> QED BY <3>1, <3>2
    <2>2. f = [j \in Positions(t) |-> f[j]]
      BY DEF MoreTypes
    <2> QED BY <2>1, <2>2
  <1> QED BY <1>2, <1>3, <1>4 DEF AreItems

LEMMA TypesAhead ==
  ASSUME NEW t \in Text, NEW i \in 1 .. Len(t) + 1, NEW words, TemplateWords \subseteq words,
         NEW j, Ahead(t, i, j, words)
  PROVE  Ahead(t, i, TypesEnd(t, j), words)
  <1>1. Letters \cup {"_"} \subseteq words /\ "(" \in words /\ TypeNames \subseteq words
    BY WordAssumption DEF TemplateWords, Between
  <1>2. Ahead(t, i, NameEnd(t, j), words)
    BY <1>1, NameAhead
  <1>3. Ahead(t, i, Tag(t, NameEnd(t, j), "("), words)
    BY <1>1, <1>2, TagAhead
  <1>4. Ahead(t, i, TypeEnd(t, Tag(t, NameEnd(t, j), "(")), words)
    BY <1>1, <1>3, OneAhead DEF TypeEnd
  <1>5. \A m \in Positions(t) : Ahead(t, i, m, words) => Ahead(t, i, MoreTypes(t)[m], words)
    BY MoreTypesAhead
  <1> QED BY <1>4, <1>5, MoreTypesAreItems, Many0Ahead DEF TypesEnd

LEMMA TypesMoves ==
  ASSUME NEW t, NEW i, NEW u, NEW k, NEW n, NEW stops, NEW exact,
         Copy(t, i, u, k, n, stops, exact), TemplateWords \cap stops = {},
         NEW p, NEW q, Moved(t, i, k, n, exact, p, q),
         exact \/ TypesEnd(t, p) \in 0 .. i + n
  PROVE  Moved(t, i, k, n, exact, TypesEnd(t, p), TypesEnd(u, q))
  <1> DEFINE f == MoreTypes(t)
             g == MoreTypes(u)
             x == TypeEnd(t, Tag(t, NameEnd(t, p), "("))
             y == TypeEnd(u, Tag(u, NameEnd(u, q), "("))
  <1>1. /\ (Letters \cup {"_"}) \cap stops = {} /\ "(" \notin stops /\ TypeNames \cap stops = {}
        /\ Between \cap stops = {}
    BY WordAssumption DEF TemplateWords, Between
  <1>2. /\ t \in Text /\ u \in Text /\ n \in Nat /\ Len(t) \in Nat /\ Len(u) \in Nat
        /\ i \in 1 .. Len(t) + 1 /\ i + n \in 1 .. Len(t) + 1
        /\ k \in 1 .. Len(u) + 1 /\ k + n \in 1 .. Len(u) + 1
    BY TextIs DEF Copy
  <1>3. AreItems(t, f) /\ AreItems(u, g)
    BY <1>2, MoreTypesAreItems
  <1>4. ASSUME NEW d \in 0 .. n
        PROVE  Moved(t, i, k, n, exact, f[i + d], g[k + d])
    <2>1. Moved(t, i, k, n, exact, i + d, k + d)
      BY DEF Moved
    <2>2. Moved(t, i, k, n, exact, One(t, i + d, Between), One(u, k + d, Between))
      BY <1>1, <2>1, OneMoves
    <2>3. Moved(t, i, k, n, exact, One(t, One(t, i + d, Between), TypeNames),
                                   One(u, One(u, k + d, Between), TypeNames))
      BY <1>1, <2>2, OneMoves
    <2>4. i + d \in Positions(t) /\ k + d \in Positions(u)
      BY <1>2 DEF Positions
    <2> QED BY <2>3, <2>4 DEF MoreTypes, TypeEnd
  <1>5. Moved(t, i, k, n, exact, NameEnd(t, p), NameEnd(u, q))
    BY <1>1, NameMoves
  <1>6. Moved(t, i, k, n, exact, Tag(t, NameEnd(t, p), "("), Tag(u, NameEnd(u, q), "("))
    BY <1>1, <1>5, TagMoves
  <1>7. Moved(t, i, k, n, exact, x, y)
    BY <1>1, <1>6, OneMoves DEF TypeEnd
  <1>8. TypesEnd(t, p) = Many0(x, f) /\ TypesEnd(u, q) = Many0(y, g)
    BY DEF TypesEnd
  <1> HIDE DEF f, g, x, y
  <1> QED BY <1>3, <1>4, <1>7, <1>8, Many0Moves

-----------------------------------------------------------------------------
(* Parts of a text *)

IsPart(t, i, j, x) ==
    /\ x \in Text /\ Len(x) = j - i
    /\ \A d \in 0 .. (j - i) - 1 : x[1 + d] = t[i + d]

LEMMA PartIs ==
  ASSUME NEW t \in Text, NEW i \in 1 .. Len(t) + 1, NEW j \in i .. Len(t) + 1
  PROVE  IsPart(t, i, j, SubSeq(t, i, j - 1))
  <1>1. Len(t) \in Nat
    BY TextIs
  <1>2. PICK k \in Nat : k = i - 1
    BY <1>1
  <1>3. PICK l \in Nat : l = j - i
    BY <1>1
  <1>4. k + 1 = i /\ k + l = j - 1 /\ k + l <= Len(t)
    BY <1>1, <1>2, <1>3
  <1>5. PICK x : x = SubSeq(t, i, j - 1)
    OBVIOUS
  <1>6. IsPiece(Alphanumeric \cup Marks, SubSeq(t, k + 1, k + l), t, k, l)
    BY <1>4, Piece DEF Text
  <1>7. x \in Text /\ Len(x) = l /\ \A d \in 1 .. l : x[d] = t[k + d]
    BY <1>4, <1>5, <1>6 DEF IsPiece, Text
  <1>8. ASSUME NEW d \in 0 .. l - 1
        PROVE  x[1 + d] = t[i + d]
    <2>1. 1 + d \in 1 .. l /\ k + (1 + d) = i + d
      BY <1>4
    <2> QED BY <1>7, <2>1
  <1>9. IsPart(t, i, j, x)
    BY <1>3, <1>7, <1>8 DEF IsPart
  <1> QED BY <1>5, <1>9

LEMMA PartCopies ==
  ASSUME NEW t \in Text, NEW i \in 1 .. Len(t) + 1, NEW j \in i .. Len(t) + 1
  PROVE  Copy(t, i, SubSeq(t, i, j - 1), 1, j - i, {}, FALSE)
  <1>1. Len(t) \in Nat
    BY TextIs
  <1>2. PICK n \in Nat : n = j - i
    BY <1>1
  <1>3. PICK x : x = SubSeq(t, i, j - 1)
    OBVIOUS
  <1>4. x \in Text /\ Len(x) = n /\ \A d \in 0 .. n - 1 : x[1 + d] = t[i + d]
    BY <1>2, <1>3, PartIs DEF IsPart
  <1>5. i + n \in 1 .. Len(t) + 1 /\ 1 + n \in 1 .. Len(x) + 1 /\ 1 \in 1 .. Len(x) + 1
        /\ 1 + n \notin 1 .. Len(x)
    BY <1>1, <1>2, <1>4
  <1>6. Copy(t, i, x, 1, n, {}, FALSE)
    BY <1>4, <1>5 DEF Copy
  <1> QED BY <1>2, <1>3, <1>6

LEMMA WholePart ==
  ASSUME NEW t \in Text
  PROVE  SubSeq(t, 1, (Len(t) + 1) - 1) = t
  <1>1. (Len(t) + 1) - 1 = Len(t)
    BY TextIs
  <1> QED BY <1>1, SubSeqFull DEF Text

\* Parts with the same words are the same.
SamePart(t, i, u, k, a, b) == SubSeq(t, i + a, (i + b) - 1) = SubSeq(u, k + a, (k + b) - 1)

LEMMA PartMoves ==
  ASSUME NEW t, NEW i, NEW u, NEW k, NEW n, NEW stops, NEW exact,
         Copy(t, i, u, k, n, stops, exact),
         NEW a \in 0 .. n, NEW b \in a .. n
  PROVE  SamePart(t, i, u, k, a, b)
  <1>1. /\ t \in Text /\ u \in Text /\ n \in Nat /\ Len(t) \in Nat /\ Len(u) \in Nat
        /\ i \in 1 .. Len(t) + 1 /\ i + n \in 1 .. Len(t) + 1
        /\ k \in 1 .. Len(u) + 1 /\ k + n \in 1 .. Len(u) + 1
        /\ \A d \in 0 .. n - 1 : t[i + d] = u[k + d]
    BY TextIs DEF Copy
  <1>2. /\ i + a \in 1 .. Len(t) + 1 /\ i + b \in i + a .. Len(t) + 1
        /\ k + a \in 1 .. Len(u) + 1 /\ k + b \in k + a .. Len(u) + 1
    BY <1>1
  <1>3. PICK x : x = SubSeq(t, i + a, (i + b) - 1)
    OBVIOUS
  <1>4. PICK y : y = SubSeq(u, k + a, (k + b) - 1)
    OBVIOUS
  <1>5. IsPart(t, i + a, i + b, x) /\ IsPart(u, k + a, k + b, y)
    BY <1>1, <1>2, <1>3, <1>4, PartIs
  <1>6. PICK l \in Nat : l = b - a
    BY <1>1
  <1>7. (i + b) - (i + a) = l /\ (k + b) - (k + a) = l
    BY <1>1, <1>6
  <1>8. /\ x \in Text /\ Len(x) = l /\ \A d \in 0 .. l - 1 : x[1 + d] = t[(i + a) + d]
        /\ y \in Text /\ Len(y) = l /\ \A d \in 0 .. l - 1 : y[1 + d] = u[(k + a) + d]
    BY <1>5, <1>7 DEF IsPart
  <1>9. ASSUME NEW m \in 1 .. l
        PROVE  x[m] = y[m]
    <2>1. PICK d \in 0 .. l - 1 : m = 1 + d
      <3>1. m - 1 \in 0 .. l - 1 /\ m = 1 + (m - 1)
        OBVIOUS
      <3> QED BY <3>1
    <2>2. a + d \in 0 .. n - 1 /\ (i + a) + d = i + (a + d) /\ (k + a) + d = k + (a + d)
      BY <1>1, <1>6, <2>1
    <2>3. t[i + (a + d)] = u[k + (a + d)]
      BY <1>1, <2>2
    <2> QED BY <1>8, <2>1, <2>2, <2>3
  <1>10. x = y
    BY <1>8, <1>9, SeqEqual DEF Text
  <1> QED BY <1>3, <1>4, <1>10 DEF SamePart

\* What is read up to the end of those words in the one text is so in the other.
LEMMA MovedEnd ==
  ASSUME NEW t, NEW i \in Nat \ {0}, NEW k \in Nat, NEW n \in Nat, NEW exact,
         NEW q, Moved(t, i, k, n, exact, i + n, q)
  PROVE  q = k + n
  <1>1. i + n # 0 /\ i + n \notin i + n + 1 .. Len(t) + 1
    OBVIOUS
  <1>2. PICK d \in 0 .. n : i + n = i + d /\ q = k + d
    BY <1>1 DEF Moved
  <1>3. d = n
    BY <1>2
  <1> QED BY <1>2, <1>3

\* A failure is one in both.
LEMMA MovedNone ==
  ASSUME NEW t, NEW i \in Nat \ {0}, NEW k \in Nat \ {0}, NEW n \in Nat, NEW exact,
         NEW p, NEW q, Moved(t, i, k, n, exact, p, q)
  PROVE  (p = 0 => q = 0) /\ (exact => (q = 0 => p = 0))
  <1>1. 0 \notin i + n + 1 .. Len(t) + 1 /\ \A d \in 0 .. n : i + d # 0 /\ k + d # 0
    OBVIOUS
  <1> QED BY <1>1 DEF Moved

-----------------------------------------------------------------------------
(* What libraries write, as the parser reads it *)

Punctuation == {"@", "(", ")", ",", ":", ";", " ", "secp256k1:"}

LEMMA MarksApart ==
  /\ Punctuation \subseteq Marks /\ LocalMarks \subseteq Marks
  /\ {"#", ".", "/", "-", "=", "_", "bar", "+"} \subseteq LocalMarks
  /\ Alphanumeric \cap Marks = {} /\ Hexadecimal \cap Marks = {}
  /\ LocalMarks \cap Punctuation = {} /\ Local \cap Punctuation = {}
  <1>1. Punctuation \subseteq Marks /\ LocalMarks \subseteq Marks
    BY DEF Punctuation, Marks
  <1>2. {"#", ".", "/", "-", "=", "_", "bar", "+"} \subseteq LocalMarks
    BY DEF LocalMarks
  <1>3. Alphanumeric \cap Marks = {} /\ Hexadecimal \cap Marks = {}
    BY WordAssumption DEF Alphanumeric
  <1>4. LocalMarks \cap Punctuation = {}
    BY DEF LocalMarks, Punctuation
  <1>5. Local \cap Punctuation = {}
    BY <1>1, <1>3, <1>4 DEF Local
  <1> QED BY <1>1, <1>2, <1>3, <1>4, <1>5

\* A text that is read as base64, as a number, and as an IPv4 range, all of it.
ReadsAsBase64(t) == t \in Text /\ Base64End(t, 1) = Len(t) + 1
ReadsAsNumber(t) == t \in Text /\ Run1(t, 1, Digits) = Len(t) + 1 /\ Converts(Numbers, t)
ReadsAsRange4(t) == t \in Text /\ IPv4End(t, 1) = Len(t) + 1 /\ Converts(Addresses4, t)

LEMMA RunTo ==
  ASSUME NEW t \in Text, NEW i \in 1 .. Len(t), NEW class, NEW j \in i + 1 .. Len(t) + 1,
         \A p \in i .. j - 1 : t[p] \in class, j \in 1 .. Len(t) => t[j] \notin class
  PROVE  Run1(t, i, class) = j
  <1>1. Len(t) \in Nat /\ i \in Nat /\ j \in Nat
    BY TextIs
  <1>2. t[i] \in class
    <2>1. i \in i .. j - 1
      BY <1>1
    <2> QED BY <2>1
  <1>3. One(t, i, class) = i + 1
    BY <1>1, <1>2, OneIs
  <1>4. i + 1 \in 1 .. Len(t) + 1
    BY <1>1
  <1>5. EndsRun(t, i + 1, class, j)
    <2>1. j \in i + 1 .. Len(t) + 1
      OBVIOUS
    <2>2. \A p \in i + 1 .. j - 1 : p \in i .. j - 1
      BY <1>1
    <2> QED BY <2>1, <2>2 DEF EndsRun
  <1>6. Run(t, i + 1, class) = j
    BY <1>4, <1>5, RunOnly
  <1> QED BY <1>3, <1>6 DEF Run1

LEMMA Base64Reads ==
  ASSUME NEW t, IsBase64(t)
  PROVE  ReadsAsBase64(t)
  <1>1. t \in Text /\ Len(t) \in Nat
    BY TextIs DEF IsBase64
  <1>2. PICK n \in 1 .. Len(t) : \A i \in 1 .. Len(t) :
           t[i] \in IF i <= n THEN Alphanumeric \cup {"+", "/"} ELSE {"="}
    BY DEF IsBase64
  <1>3. "=" \notin Base64 /\ Alphanumeric \cup {"+", "/"} \subseteq Base64
    <2>1. "=" \notin Alphanumeric
      BY MarksApart
    <2> QED BY <2>1 DEF Base64
  <1>4. n + 1 \in 1 + 1 .. Len(t) + 1 /\ 1 \in 1 .. Len(t) /\ n + 1 \in 1 .. Len(t) + 1
    BY <1>1
  <1>5. ASSUME NEW p \in 1 .. (n + 1) - 1
        PROVE  t[p] \in Base64
    <2>1. p \in 1 .. Len(t) /\ p <= n
      BY <1>1
    <2> QED BY <1>2, <1>3, <2>1
  <1>6. ASSUME NEW p \in n + 1 .. Len(t)
        PROVE  t[p] = "="
    <2>1. p \in 1 .. Len(t) /\ ~(p <= n)
      BY <1>1
    <2> QED BY <1>2, <2>1
  <1>7. n + 1 \in 1 .. Len(t) => t[n + 1] \notin Base64
    BY <1>1, <1>3, <1>6
  <1>8. Run1(t, 1, Base64) = n + 1
    BY <1>1, <1>4, <1>5, <1>7, RunTo
  <1>9. EndsRun(t, n + 1, {"="}, Len(t) + 1)
    <2>1. Len(t) + 1 \in n + 1 .. Len(t) + 1 /\ Len(t) + 1 \notin 1 .. Len(t)
          /\ \A p \in n + 1 .. (Len(t) + 1) - 1 : p \in n + 1 .. Len(t)
      BY <1>1
    <2> QED BY <1>6, <2>1 DEF EndsRun
  <1>10. Run(t, n + 1, {"="}) = Len(t) + 1
    BY <1>1, <1>4, <1>9, RunOnly
  <1> QED BY <1>1, <1>8, <1>10 DEF ReadsAsBase64, Base64End

LEMMA NumberReads ==
  ASSUME NEW t, IsWrittenNumber(t)
  PROVE  ReadsAsNumber(t)
  <1>1. t \in Text /\ Len(t) \in Nat /\ DOMAIN t = 1 .. Len(t) /\ t # <<>> /\ Converts(Numbers, t)
    BY TextIs DEF IsWrittenNumber
  <1>2. \A p \in 1 .. Len(t) : t[p] \in Digits
    <2>1. Range(t) \subseteq Digits
      BY DEF IsWrittenNumber
    <2> QED BY <1>1, <2>1 DEF Range
  <1>3. Len(t) # 0
    BY <1>1, EmptySeq DEF Text
  <1>4. /\ 1 \in 1 .. Len(t) /\ Len(t) + 1 \in 1 + 1 .. Len(t) + 1 /\ Len(t) + 1 \notin 1 .. Len(t)
        /\ \A p \in 1 .. (Len(t) + 1) - 1 : p \in 1 .. Len(t)
    BY <1>1, <1>3
  <1>5. Run1(t, 1, Digits) = Len(t) + 1
    BY <1>1, <1>2, <1>4, RunTo
  <1> QED BY <1>1, <1>5 DEF ReadsAsNumber

LEMMA OneDigits ==
  ASSUME NEW t \in Text, NEW i \in 1 .. Len(t), t[i] \in Digits,
         i + 1 \in 1 .. Len(t) => t[i + 1] \in Marks
  PROVE  Run1(t, i, Digits) = i + 1
  <1>1. Len(t) \in Nat
    BY TextIs
  <1>2. i + 1 \in 1 .. Len(t) => t[i + 1] \notin Digits
    BY WordAssumption
  <1>3. i + 1 \in i + 1 .. Len(t) + 1 /\ \A p \in i .. (i + 1) - 1 : p = i
    BY <1>1
  <1> QED BY <1>2, <1>3, RunTo

LEMMA Range4Reads ==
  ASSUME NEW t, IsWritten4(t)
  PROVE  ReadsAsRange4(t)
  <1>1. t \in Text /\ Len(t) \in {7, 9} /\ Converts(Addresses4, t)
    BY DEF IsWritten4
  <1>2. "." \in Marks /\ "/" \in Marks
    BY MarksApart
  <1>3. /\ \A i \in {2, 4, 6} : t[i] = "."
        /\ \A i \in {1, 3, 5, 7} : t[i] \in Digits
        /\ Len(t) = 9 => t[8] = "/" /\ t[9] \in Digits
    <2>1. \A i \in 1 .. Len(t) :
            t[i] \in CASE i \in {2, 4, 6} -> {"."} [] i = 8 -> {"/"} [] OTHER -> Digits
      BY DEF IsWritten4
    <2>2. /\ \A i \in {1, 2, 3, 4, 5, 6, 7} : i \in 1 .. Len(t)
          /\ Len(t) = 9 => 8 \in 1 .. Len(t) /\ 9 \in 1 .. Len(t)
      <3>1. PICK l : l = Len(t)
        OBVIOUS
      <3>2. CASE l = 7
        BY <3>1, <3>2
      <3>3. CASE l = 9
        BY <3>1, <3>3
      <3> QED BY <1>1, <3>1, <3>2, <3>3
    <2> QED BY <2>1, <2>2
  <1>4. ASSUME NEW i \in {1, 3, 5}
        PROVE  DigitsAndDot(t, i) = i + 2
    <2>1. i \in 1 .. Len(t) /\ i + 1 \in 1 .. Len(t) /\ i + 1 \in {2, 4, 6} /\ i + 1 \in Nat
          /\ (i + 1) + 1 = i + 2
      <3>1. PICK l : l = Len(t)
        OBVIOUS
      <3>2. CASE l = 7
        BY <3>1, <3>2
      <3>3. CASE l = 9
        BY <3>1, <3>3
      <3> QED BY <1>1, <3>1, <3>2, <3>3
    <2>2. t[i] \in Digits /\ t[i + 1] = "."
      BY <1>3, <2>1
    <2>3. Run1(t, i, Digits) = i + 1
      BY <1>1, <1>2, <2>1, <2>2, OneDigits
    <2>4. Tag(t, i + 1, ".") = i + 2
      BY <1>1, <2>1, <2>2, OneIs DEF Tag
    <2> QED BY <2>3, <2>4 DEF DigitsAndDot
  <1>5. Run1(t, 7, Digits) = 8
    <2>1. 7 \in 1 .. Len(t) /\ 7 + 1 = 8 /\ (8 \in 1 .. Len(t) => Len(t) = 9)
      <3>1. PICK l : l = Len(t)
        OBVIOUS
      <3>2. CASE l = 7
        BY <3>1, <3>2
      <3>3. CASE l = 9
        BY <3>1, <3>3
      <3> QED BY <1>1, <3>1, <3>2, <3>3
    <2>2. t[7] \in Digits /\ (8 \in 1 .. Len(t) => t[8] \in Marks)
      BY <1>2, <1>3, <2>1
    <2> QED BY <1>1, <2>1, <2>2, OneDigits
  <1>6. PrefixEnd(t, 8) = Len(t) + 1
    <2>1. CASE Len(t) = 7
      <3>1. Tag(t, 8, "/") = 0
        BY <1>1, <2>1, OneIs DEF Tag
      <3>2. One(t, 0, Digits) = 0
        BY <1>1, <2>1, OneIs
      <3>3. Run1(t, 0, Digits) = 0
        BY <3>2, RunZero DEF Run1
      <3> QED BY <2>1, <3>1, <3>3 DEF PrefixEnd
    <2>2. CASE Len(t) = 9
      <3>1. Tag(t, 8, "/") = 9
        BY <1>1, <1>3, <2>2, OneIs DEF Tag
      <3>2. Run1(t, 9, Digits) = 10
        <4>1. 9 \in 1 .. Len(t) /\ 9 + 1 = 10 /\ 10 \notin 1 .. Len(t)
          BY <2>2
        <4> QED BY <1>1, <1>3, <2>2, <4>1, OneDigits
      <3> QED BY <2>2, <3>1, <3>2 DEF PrefixEnd
    <2> QED BY <1>1, <2>1, <2>2
  <1>7. DigitsAndDot(t, 1) = 3 /\ DigitsAndDot(t, 3) = 5 /\ DigitsAndDot(t, 5) = 7
    <2>1. 1 + 2 = 3 /\ 3 + 2 = 5 /\ 5 + 2 = 7
      OBVIOUS
    <2> QED BY <1>4, <2>1
  <1>8. IPv4End(t, 1) = Len(t) + 1
    BY <1>5, <1>6, <1>7 DEF IPv4End
  <1> QED BY <1>1, <1>8 DEF ReadsAsRange4


-----------------------------------------------------------------------------
(* Entities *)

FirstOf(a, b, c, d, e, f, g, h) ==
    CASE a # NoEntity -> a
      [] a = NoEntity /\ b # NoEntity -> b
      [] a = NoEntity /\ b = NoEntity /\ c # NoEntity -> c
      [] a = NoEntity /\ b = NoEntity /\ c = NoEntity /\ d # NoEntity -> d
      [] a = NoEntity /\ b = NoEntity /\ c = NoEntity /\ d = NoEntity /\ e # NoEntity -> e
      [] a = NoEntity /\ b = NoEntity /\ c = NoEntity /\ d = NoEntity /\ e = NoEntity /\ f # NoEntity -> f
      [] a = NoEntity /\ b = NoEntity /\ c = NoEntity /\ d = NoEntity /\ e = NoEntity /\ f = NoEntity
            /\ g # NoEntity -> g
      [] a = NoEntity /\ b = NoEntity /\ c = NoEntity /\ d = NoEntity /\ e = NoEntity /\ f = NoEntity
            /\ g = NoEntity -> h

FirstRead(r) ==
    IF {j \in DOMAIN r : r[j] # NoEntity} = {} THEN NoEntity
    ELSE r[Min({j \in DOMAIN r : r[j] # NoEntity})]

LEMMA FirstAt ==
  ASSUME NEW r, NEW N \in Nat, NEW k \in 1 .. N, DOMAIN r = 1 .. N, r[k] # NoEntity,
         \A j \in 1 .. k - 1 : r[j] = NoEntity
  PROVE  FirstRead(r) = r[k]
  <1> DEFINE T == {j \in DOMAIN r : r[j] # NoEntity}
  <1>1. T \in SUBSET Nat /\ k \in T
    OBVIOUS
  <1>2. ASSUME NEW j \in T
        PROVE  k <= j
    <2>1. j \notin 1 .. k - 1
      OBVIOUS
    <2> QED BY <2>1
  <1>3. IsLeast(k, T)
    <2> HIDE DEF T
    <2> QED BY <1>1, <1>2 DEF IsLeast
  <1>4. Min(T) = k
    <2> HIDE DEF T
    <2> QED BY <1>1, <1>3, LeastIsMin
  <1> QED BY <1>1, <1>4 DEF FirstRead

LEMMA FirstIs ==
  ASSUME NEW a, NEW b, NEW c, NEW d, NEW e, NEW f, NEW g, NEW h,
         NEW r, r = <<a, b, c, d, e, f, g, h>>
  PROVE  FirstRead(r) = FirstOf(a, b, c, d, e, f, g, h)
  <1> DEFINE v == FirstRead(r)
  <1>1. /\ DOMAIN r = 1 .. 8 /\ r[1] = a /\ r[2] = b /\ r[3] = c /\ r[4] = d /\ r[5] = e
        /\ r[6] = f /\ r[7] = g /\ r[8] = h
    OBVIOUS
  <1>2. ASSUME NEW k \in 1 .. 8, r[k] # NoEntity, \A j \in 1 .. k - 1 : r[j] = NoEntity
        PROVE  v = r[k]
    <2>1. DOMAIN r = 1 .. 8 /\ 8 \in Nat
      BY <1>1
    <2> QED BY <1>2, <2>1, FirstAt
  <1>3. ASSUME \A k \in 1 .. 8 : r[k] = NoEntity
        PROVE  v = NoEntity
    BY <1>1, <1>3 DEF FirstRead
  <1> HIDE DEF v
  <1>4. v = FirstOf(a, b, c, d, e, f, g, h)
    <2>1. CASE a # NoEntity
      <3>1. v = r[1]
        BY <1>1, <1>2, <2>1
      <3> QED BY <1>1, <2>1, <3>1 DEF FirstOf
    <2>2. CASE a = NoEntity /\ b # NoEntity
      <3>1. v = r[2]
        BY <1>1, <1>2, <2>2
      <3> QED BY <1>1, <2>2, <3>1 DEF FirstOf
    <2>3. CASE a = NoEntity /\ b = NoEntity /\ c # NoEntity
      <3>1. v = r[3]
        BY <1>1, <1>2, <2>3
      <3> QED BY <1>1, <2>3, <3>1 DEF FirstOf
    <2>4. CASE a = NoEntity /\ b = NoEntity /\ c = NoEntity /\ d # NoEntity
      <3>1. v = r[4]
        BY <1>1, <1>2, <2>4
      <3> QED BY <1>1, <2>4, <3>1 DEF FirstOf
    <2>5. CASE a = NoEntity /\ b = NoEntity /\ c = NoEntity /\ d = NoEntity /\ e # NoEntity
      <3>1. v = r[5]
        BY <1>1, <1>2, <2>5
      <3> QED BY <1>1, <2>5, <3>1 DEF FirstOf
    <2>6. CASE a = NoEntity /\ b = NoEntity /\ c = NoEntity /\ d = NoEntity /\ e = NoEntity /\ f # NoEntity
      <3>1. v = r[6]
        BY <1>1, <1>2, <2>6
      <3> QED BY <1>1, <2>6, <3>1 DEF FirstOf
    <2>7. CASE a = NoEntity /\ b = NoEntity /\ c = NoEntity /\ d = NoEntity /\ e = NoEntity /\ f = NoEntity
               /\ g # NoEntity
      <3>1. v = r[7]
        BY <1>1, <1>2, <2>7
      <3> QED BY <1>1, <2>7, <3>1 DEF FirstOf
    <2>8. CASE a = NoEntity /\ b = NoEntity /\ c = NoEntity /\ d = NoEntity /\ e = NoEntity /\ f = NoEntity
               /\ g = NoEntity
      <3>1. v = h
        <4>1. CASE h = NoEntity
          BY <1>1, <1>3, <2>8, <4>1
        <4>2. CASE h # NoEntity
          BY <1>1, <1>2, <2>8, <4>2
        <4> QED BY <4>1, <4>2
      <3> QED BY <2>8, <3>1 DEF FirstOf
    <2> QED BY <2>1, <2>2, <2>3, <2>4, <2>5, <2>6, <2>7, <2>8
  <1> QED BY <1>4 DEF v

LEMMA EntityIs ==
  ASSUME NEW t, NEW i
  PROVE  entity(t, i) = FirstOf(email(t, i), hash_value(t, i), template(t, i), asn(t, i),
                                signer(t, i), domain(t, i), ipv4(t, i), ipv6(t, i))
  <1>1. PICK r : r = <<email(t, i), hash_value(t, i), template(t, i), asn(t, i), signer(t, i),
                       domain(t, i), ipv4(t, i), ipv6(t, i)>>
    OBVIOUS
  <1>2. FirstRead(r) = FirstOf(email(t, i), hash_value(t, i), template(t, i), asn(t, i), signer(t, i),
                               domain(t, i), ipv4(t, i), ipv6(t, i))
    BY <1>1, FirstIs
  <1> QED BY <1>1, <1>2 DEF entity, FirstRead

\* Nothing is read where nothing is left, or after a failure.
LEMMA NothingAfter ==
  ASSUME NEW t \in Text
  PROVE  /\ \A class : One(t, 0, class) = 0 /\ Run1(t, 0, class) = 0
         /\ DomainEnd(t, 0) = 0 /\ EMailEnd(t, 0) = 0 /\ Base64End(t, 0) = 0
         /\ NameEnd(t, 0) = 0 /\ PrefixEnd(t, 0) = 0
  <1>1. \A class : One(t, 0, class) = 0 /\ Run1(t, 0, class) = 0
    BY LabelZero
  <1>2. DomainEnd(t, 0) = 0
    BY <1>1, LabelsAreItems, Many0Zero DEF DomainEnd
  <1>3. EMailEnd(t, 0) = 0
    BY <1>1, <1>2 DEF EMailEnd, Tag
  <1>4. Base64End(t, 0) = 0 /\ NameEnd(t, 0) = 0
    BY <1>1, RunZero DEF Base64End, NameEnd
  <1>5. PrefixEnd(t, 0) = 0
    BY <1>1 DEF PrefixEnd, Tag
  <1> QED BY <1>1, <1>2, <1>3, <1>4, <1>5

LEMMA NothingThere ==
  ASSUME NEW t \in Text, Len(t) = 0
  PROVE  /\ DomainEnd(t, 1) = 0 /\ EMailEnd(t, 1) = 0 /\ Base64End(t, 1) = 0
         /\ NameEnd(t, 1) = 0 /\ TemplateEnd(t, 1) = 0 /\ IPv4End(t, 1) = 0
  <1>1. \A class : One(t, 1, class) = 0
    BY OneIs
  <1>2. \A class : Run1(t, 1, class) = 0
    BY <1>1, RunZero DEF Run1
  <1>3. DomainEnd(t, 1) = 0
    <2>1. Many0(1, LabelsAndDots(t)) \in 1 .. 1
      BY LabelsAreItems, Many0Later
    <2>2. Many0(1, LabelsAndDots(t)) = 1
      BY <2>1
    <2> QED BY <1>2, <2>2 DEF DomainEnd
  <1>4. EMailEnd(t, 1) = 0 /\ Base64End(t, 1) = 0 /\ NameEnd(t, 1) = 0
    BY <1>2, NothingAfter, RunZero DEF EMailEnd, Base64End, NameEnd, Tag
  <1>5. TemplateEnd(t, 1) = 0
    <2>1. TypeEnd(t, Tag(t, NameEnd(t, 1), "(")) = 0
      BY <1>4, NothingAfter DEF TypeEnd, Tag
    <2>2. Many0(0, MoreTypes(t)) = 0
      BY MoreTypesAreItems, Many0Zero
    <2> QED BY <2>1, <2>2, NothingAfter DEF TemplateEnd, Tag
  <1>6. IPv4End(t, 1) = 0
    <2>1. DigitsAndDot(t, 1) = 0
      BY <1>2, NothingAfter DEF DigitsAndDot, Tag
    <2>2. DigitsAndDot(t, 0) = 0
      BY NothingAfter DEF DigitsAndDot, Tag
    <2> QED BY <2>1, <2>2, NothingAfter DEF IPv4End
  <1> QED BY <1>3, <1>4, <1>5, <1>6

\* The texts that entities of each kind have.
IsNumbered(x) == \E w : ReadsAsNumber(w) /\ x = <<"AS">> \o w

IsSigner(x) ==
    /\ Tag(x, 1, "secp256k1:") = 2 /\ Base64End(x, 2) = Len(x) + 1
    /\ SubSeq(x, 2, Len(x)) \in Keys

IsWritten(e) ==
    /\ e = [kind |-> e.kind, text |-> e.text] /\ e.text \in Text
    /\ \/ /\ e.kind = "EMail" /\ EMailEnd(e.text, 1) = Len(e.text) + 1
          /\ ReadsAsBase64(Digest(e.text))
       \/ e.kind = "HashValue" /\ ReadsAsBase64(e.text)
       \/ e.kind = "Template" /\ TemplateEnd(e.text, 1) = Len(e.text) + 1
       \/ e.kind = "AS" /\ IsNumbered(e.text)
       \/ e.kind = "Signer" /\ IsSigner(e.text)
       \/ /\ e.kind = "Domain" /\ DomainEnd(e.text, 1) = Len(e.text) + 1
          /\ asn(e.text, 1) = NoEntity
       \/ e.kind = "IPv4" /\ ReadsAsRange4(e.text)
       \/ e.kind = "IPv6" /\ IsWritten6(e.text)

\* A reading behind i of an entity that is so written.
WrittenAt(t, i, r) == r.next \in i .. Len(t) + 1 /\ IsWritten(EntityOf(r))

LEMMA ReadingIs ==
  ASSUME NEW i, NEW kind, NEW x
  PROVE  /\ Reading(i, kind, x).next = i /\ Reading(i, kind, x).kind = kind
         /\ Reading(i, kind, x).text = x
         /\ EntityOf(Reading(i, kind, x)) = [kind |-> kind, text |-> x]
         /\ kind # "none" => Reading(i, kind, x) # NoEntity
         /\ kind # "panic" => Reading(i, kind, x) # Panic
  BY DEF Reading, EntityOf, NoEntity, Panic

LEMMA PanicIs ==
  Panic = [next |-> 0, kind |-> "panic", text |-> <<>>] /\ Panic # NoEntity
  BY DEF Panic, NoEntity

LEMMA EMailWritten ==
  ASSUME NEW t \in Text, Hashable(t), NEW i \in 1 .. Len(t) + 1, email(t, i) # NoEntity
  PROVE  WrittenAt(t, i, email(t, i))
  <1>1. PICK j : j = EMailEnd(t, i)
    OBVIOUS
  <1>2. j # 0 /\ email(t, i) = Reading(j, "EMail", SubSeq(t, i, j - 1))
    BY <1>1 DEF email, Recognized
  <1>3. Ahead(t, i, i, Local \cup {"@"})
    BY AheadNow
  <1>4. Ahead(t, i, j, Local \cup {"@"})
    BY <1>1, <1>3, EMailAhead
  <1>5. j \in i .. Len(t) + 1 /\ Len(t) \in Nat
    BY <1>2, <1>4, TextIs DEF Ahead
  <1>6. PICK x : x = SubSeq(t, i, j - 1)
    OBVIOUS
  <1>7. PICK n \in Nat : n = j - i
    BY <1>5
  <1>8. x \in Text /\ Len(x) = n
    BY <1>5, <1>6, <1>7, PartIs DEF IsPart
  <1>9. Copy(t, i, x, 1, n, {}, FALSE)
    BY <1>5, <1>6, <1>7, PartCopies
  <1>10. i + n = j /\ j \in 1 .. i + n /\ i \in Nat \ {0} /\ 1 \in Nat
    BY <1>5, <1>7
  <1>11. Moved(t, i, 1, n, FALSE, i, 1)
    BY <1>10, MovedStart
  <1>12. (Local \cup {"@"}) \cap {} = {}
    OBVIOUS
  <1>13. Moved(t, i, 1, n, FALSE, EMailEnd(t, i), EMailEnd(x, 1))
    BY <1>1, <1>9, <1>10, <1>11, <1>12, EMailMoves
  <1>14. Moved(t, i, 1, n, FALSE, i + n, EMailEnd(x, 1))
    BY <1>1, <1>10, <1>13
  <1>15. EMailEnd(x, 1) = 1 + n
    BY <1>10, <1>14, MovedEnd
  <1>16. n # 0
    BY <1>8, <1>15, NothingThere
  <1>17. i \in 1 .. Len(t) /\ j - 1 \in i .. Len(t)
    BY <1>5, <1>7, <1>16
  <1>18. ReadsAsBase64(Digest(x))
    <2>1. IsBase64(Digest(x))
      BY <1>6, <1>17 DEF Hashable
    <2> QED BY <2>1, Base64Reads
  <1>19. PICK e : e = [kind |-> "EMail", text |-> x]
    OBVIOUS
  <1>20. e = EntityOf(email(t, i))
    <2>1. email(t, i) = Reading(j, "EMail", x)
      BY <1>2, <1>6
    <2> QED BY <1>19, <2>1, ReadingIs
  <1>21. IsWritten(e)
    <2>1. e.kind = "EMail" /\ e.text = x
      BY <1>19
    <2>2. EMailEnd(x, 1) = Len(x) + 1
      BY <1>8, <1>15
    <2> QED BY <1>8, <1>18, <1>19, <2>1, <2>2 DEF IsWritten
  <1>22. email(t, i).next = j
    BY <1>2, ReadingIs
  <1> QED BY <1>5, <1>20, <1>21, <1>22 DEF WrittenAt

LEMMA HashWritten ==
  ASSUME NEW t \in Text, Hashable(t), NEW i \in 1 .. Len(t) + 1, hash_value(t, i) # NoEntity
  PROVE  WrittenAt(t, i, hash_value(t, i))
  <1>1. PICK at : at = Tag(t, i, "#")
    OBVIOUS
  <1>2. PICK r : r = hash_value(t, i)
    OBVIOUS
  <1>3. at # 0 /\ Len(t) \in Nat
    BY <1>1, TextIs DEF hash_value
  <1>4. at = i + 1 /\ i \in 1 .. Len(t) /\ at \in 1 .. Len(t) + 1
    <2>1. i \in Nat
      BY <1>3
    <2> QED BY <1>1, <1>3, <2>1, OneIs DEF Tag
  <1>5. CASE EMailEnd(t, at) # 0
    <2>1. PICK j : j = EMailEnd(t, at)
      OBVIOUS
    <2>2. r = Reading(j, "HashValue", Digest(SubSeq(t, at, j - 1)))
      BY <1>1, <1>2, <1>3, <1>5, <2>1 DEF hash_value
    <2>3. email(t, at) = Reading(j, "EMail", SubSeq(t, at, j - 1))
      BY <1>5, <2>1 DEF email, Recognized
    <2>4. email(t, at) # NoEntity
      BY <2>3, ReadingIs
    <2>5. WrittenAt(t, at, email(t, at))
      BY <1>4, <2>4, EMailWritten
    <2>6. PICK x : x = SubSeq(t, at, j - 1)
      OBVIOUS
    <2>7. email(t, at).next = j /\ EntityOf(email(t, at)) = [kind |-> "EMail", text |-> x]
      <3>1. email(t, at) = Reading(j, "EMail", x)
        BY <2>3, <2>6
      <3> QED BY <3>1, ReadingIs
    <2>8. PICK e : e = [kind |-> "EMail", text |-> x]
      OBVIOUS
    <2>9. e.kind = "EMail" /\ e.text = x
      BY <2>8
    <2>10. j \in at .. Len(t) + 1 /\ IsWritten(e)
      BY <2>5, <2>7, <2>8 DEF WrittenAt
    <2>11. ReadsAsBase64(Digest(x))
      BY <2>9, <2>10 DEF IsWritten
    <2>12. PICK h : h = [kind |-> "HashValue", text |-> Digest(x)]
      OBVIOUS
    <2>13. h.kind = "HashValue" /\ h.text = Digest(x)
      BY <2>12
    <2>14. IsWritten(h)
      BY <2>11, <2>12, <2>13 DEF IsWritten, ReadsAsBase64
    <2>15. r.next = j /\ EntityOf(r) = h
      BY <2>2, <2>6, <2>12, ReadingIs
    <2>16. j \in i .. Len(t) + 1
      BY <1>3, <1>4, <2>10
    <2> QED BY <1>2, <2>14, <2>15, <2>16 DEF WrittenAt
  <1>6. CASE EMailEnd(t, at) = 0
    <2>1. PICK j : j = Base64End(t, at)
      OBVIOUS
    <2>2. r = Recognized(t, at, j, "HashValue")
      BY <1>1, <1>2, <1>3, <1>6, <2>1 DEF hash_value
    <2>3. PICK x : x = SubSeq(t, at, j - 1)
      OBVIOUS
    <2>4. j # 0 /\ r = Reading(j, "HashValue", x)
      BY <1>2, <2>2, <2>3 DEF Recognized
    <2>5. Ahead(t, at, at, Base64 \cup {"="})
      BY <1>4, AheadNow
    <2>6. Ahead(t, at, j, Base64 \cup {"="})
      BY <1>4, <2>1, <2>5, Base64Ahead
    <2>7. j \in at .. Len(t) + 1
      BY <2>4, <2>6 DEF Ahead
    <2>8. PICK n \in Nat : n = j - at
      BY <1>4, <2>7
    <2>9. x \in Text /\ Len(x) = n
      BY <1>4, <2>3, <2>7, <2>8, PartIs DEF IsPart
    <2>10. Copy(t, at, x, 1, n, {}, FALSE)
      BY <1>4, <2>3, <2>7, <2>8, PartCopies
    <2>11. at + n = j /\ at \in Nat \ {0} /\ 1 \in Nat
      BY <1>4, <2>7, <2>8
    <2>12. Moved(t, at, 1, n, FALSE, at, 1)
      BY <2>11, MovedStart
    <2>13. (Base64 \cup {"="}) \cap {} = {}
      OBVIOUS
    <2>14. Moved(t, at, 1, n, FALSE, Base64End(t, at), Base64End(x, 1))
      BY <2>10, <2>12, <2>13, Base64Moves
    <2>15. Moved(t, at, 1, n, FALSE, at + n, Base64End(x, 1))
      BY <2>1, <2>11, <2>14
    <2>16. Base64End(x, 1) = 1 + n
      BY <2>11, <2>15, MovedEnd
    <2>17. PICK h : h = [kind |-> "HashValue", text |-> x]
      OBVIOUS
    <2>18. h.kind = "HashValue" /\ h.text = x
      BY <2>17
    <2>19. IsWritten(h)
      <3>1. ReadsAsBase64(x)
        BY <2>9, <2>16 DEF ReadsAsBase64
      <3> QED BY <2>9, <2>17, <2>18, <3>1 DEF IsWritten
    <2>20. r.next = j /\ EntityOf(r) = h
      BY <2>4, <2>17, ReadingIs
    <2>21. j \in i .. Len(t) + 1
      BY <1>3, <1>4, <2>7
    <2> QED BY <1>2, <2>19, <2>20, <2>21 DEF WrittenAt
  <1> QED BY <1>5, <1>6

LEMMA Run1Is ==
  ASSUME NEW t \in Text, NEW i \in 1 .. Len(t) + 1, NEW class, NEW j, j = Run1(t, i, class), j # 0
  PROVE  j \in i + 1 .. Len(t) + 1 /\ \A p \in i .. j - 1 : t[p] \in class
  <1>1. Len(t) \in Nat /\ i \in Nat
    BY TextIs
  <1>2. PICK m : m = One(t, i, class)
    OBVIOUS
  <1>3. m # 0
    BY <1>2, RunZero DEF Run1
  <1>4. m = i + 1 /\ i \in 1 .. Len(t) /\ t[i] \in class
    BY <1>1, <1>2, <1>3, OneIs
  <1>5. m \in 1 .. Len(t) + 1
    BY <1>1, <1>4
  <1>6. EndsRun(t, m, class, j)
    BY <1>2, <1>5, RunIs DEF Run1
  <1>7. j \in m .. Len(t) + 1 /\ \A p \in m .. j - 1 : t[p] \in class
    BY <1>6 DEF EndsRun
  <1>8. ASSUME NEW p \in i .. j - 1
        PROVE  t[p] \in class
    <2>1. p = i \/ p \in m .. j - 1
      BY <1>1, <1>4
    <2> QED BY <1>4, <1>7, <2>1
  <1> QED BY <1>4, <1>7, <1>8

LEMMA LastOfDomain ==
  ASSUME NEW x \in Text, DomainEnd(x, 1) = Len(x) + 1
  PROVE  Len(x) \in 1 .. Len(x) /\ x[Len(x)] \in Letters
  <1>1. Len(x) \in Nat
    BY TextIs
  <1>2. PICK l : l = Many0(1, LabelsAndDots(x))
    OBVIOUS
  <1>3. l \in 1 .. Len(x) + 1
    BY <1>1, <1>2, LabelsAreItems, Many0Later
  <1>4. Len(x) + 1 = Run1(x, l, Letters) /\ Len(x) + 1 # 0
    BY <1>1, <1>2 DEF DomainEnd
  <1>5. Len(x) + 1 \in l + 1 .. Len(x) + 1 /\ \A p \in l .. (Len(x) + 1) - 1 : x[p] \in Letters
    BY <1>3, <1>4, Run1Is
  <1>6. Len(x) \in l .. (Len(x) + 1) - 1 /\ Len(x) \in 1 .. Len(x)
    BY <1>1, <1>3, <1>5
  <1> QED BY <1>5, <1>6

LEMMA DomainWritten ==
  ASSUME NEW t \in Text, NEW i \in 1 .. Len(t) + 1, domain(t, i) # NoEntity, asn(t, i) = NoEntity
  PROVE  WrittenAt(t, i, domain(t, i))
  <1>1. PICK j : j = DomainEnd(t, i)
    OBVIOUS
  <1>2. PICK x : x = SubSeq(t, i, j - 1)
    OBVIOUS
  <1>3. j # 0 /\ domain(t, i) = Reading(j, "Domain", x)
    BY <1>1, <1>2 DEF domain, Recognized
  <1>4. Ahead(t, i, i, DomainWords)
    BY AheadNow
  <1>5. Ahead(t, i, j, DomainWords)
    BY <1>1, <1>4, DomainAhead
  <1>6. j \in i .. Len(t) + 1 /\ Len(t) \in Nat
    BY <1>3, <1>5, TextIs DEF Ahead
  <1>7. PICK n \in Nat : n = j - i
    BY <1>6
  <1>8. x \in Text /\ Len(x) = n /\ \A d \in 0 .. n - 1 : x[1 + d] = t[i + d]
    BY <1>2, <1>6, <1>7, PartIs DEF IsPart
  <1>9. Copy(t, i, x, 1, n, {}, FALSE)
    BY <1>2, <1>6, <1>7, PartCopies
  <1>10. i + n = j /\ j \in 1 .. i + n /\ i \in Nat \ {0} /\ 1 \in Nat
    BY <1>6, <1>7
  <1>11. Moved(t, i, 1, n, FALSE, i, 1)
    BY <1>10, MovedStart
  <1>12. Moved(t, i, 1, n, FALSE, DomainEnd(t, i), DomainEnd(x, 1))
    <2>1. DomainWords \cap {} = {}
      OBVIOUS
    <2> QED BY <1>1, <1>9, <1>10, <1>11, <2>1, DomainMoves
  <1>13. Moved(t, i, 1, n, FALSE, i + n, DomainEnd(x, 1))
    BY <1>1, <1>10, <1>12
  <1>14. DomainEnd(x, 1) = 1 + n
    BY <1>10, <1>13, MovedEnd
  <1>15. DomainEnd(x, 1) = Len(x) + 1
    BY <1>8, <1>14
  <1>16. n \in 1 .. n /\ x[n] \in Letters
    BY <1>8, <1>15, LastOfDomain
  <1>17. asn(x, 1) = NoEntity
    <2> SUFFICES ASSUME asn(x, 1) # NoEntity
                 PROVE  FALSE
      OBVIOUS
    <2>1. PICK at : at = Tag(x, 1, "AS")
      OBVIOUS
    <2>2. PICK m : m = Run1(x, at, Digits)
      OBVIOUS
    <2>3. at # 0 /\ Converted(x, at, m, "AS", Numbers) # NoEntity
      BY <2>1, <2>2 DEF asn
    <2>4. m # 0 /\ SubSeq(x, at, m - 1) \in DOMAIN Numbers
      BY <2>3 DEF Converted
    <2>5. x[1] = "AS" /\ at = 2
      BY <1>8, <2>1, <2>3, OneIs DEF Tag
    <2>6. t[i] = "AS" /\ i \in 1 .. Len(t)
      <3>1. 0 \in 0 .. n - 1 /\ 1 + 0 = 1 /\ i + 0 = i
        BY <1>6, <1>16
      <3>2. t[i] = "AS"
        BY <1>8, <2>5, <3>1
      <3> QED BY <1>6, <1>10, <1>16, <3>2
    <2>7. Tag(t, i, "AS") = i + 1
      BY <1>10, <2>6, OneIs DEF Tag
    <2>8. Moved(t, i, 1, n, FALSE, i + 1, 2)
      <3>1. 1 \in 0 .. n /\ 2 = 1 + 1
        BY <1>16
      <3> QED BY <3>1 DEF Moved
    <2>9. PICK l : l = Run1(t, i + 1, Digits)
      OBVIOUS
    <2>10. Moved(t, i, 1, n, FALSE, l, m)
      <3>1. Digits \cap {} = {}
        OBVIOUS
      <3> QED BY <1>9, <2>2, <2>5, <2>8, <2>9, <3>1, Run1Moves
    <2>11. 2 \in 1 .. Len(x) + 1
      BY <1>8, <1>16
    <2>12. m \in 2 + 1 .. Len(x) + 1 /\ \A p \in 2 .. m - 1 : x[p] \in Digits
      BY <1>8, <2>2, <2>4, <2>5, <2>11, Run1Is
    <2>13. m # 1 + n
      <3> SUFFICES ASSUME m = 1 + n
                   PROVE  FALSE
        OBVIOUS
      <3>1. n \in 2 .. m - 1
        BY <2>12
      <3>2. x[n] \in Digits
        BY <2>12, <3>1
      <3> QED BY <1>16, <3>2, WordAssumption
    <2>14. PICK d \in 0 .. n : l = i + d /\ m = 1 + d
      BY <2>4, <2>10, <2>13 DEF Moved
    <2>15. SubSeq(t, i + 1, (i + d) - 1) = SubSeq(x, 1 + 1, (1 + d) - 1)
      <3>1. 1 \in 0 .. n /\ d \in 1 .. n
        BY <1>16, <2>12, <2>14
      <3>2. SamePart(t, i, x, 1, 1, d)
        BY <1>9, <3>1, PartMoves
      <3> QED BY <3>2 DEF SamePart
    <2>16. SubSeq(t, i + 1, l - 1) \in DOMAIN Numbers
      <3>1. 1 + 1 = at /\ (1 + d) - 1 = m - 1
        BY <2>5, <2>14
      <3> QED BY <2>4, <2>14, <2>15, <3>1
    <2>17. l # 0 /\ i + 1 # 0
      BY <1>10, <2>14
    <2>18. Converted(t, i + 1, l, "AS", Numbers) = Reading(l, "AS", Numbers[SubSeq(t, i + 1, l - 1)])
      BY <2>16, <2>17 DEF Converted
    <2>19. PICK c : c = Converted(t, i + 1, l, "AS", Numbers)
      OBVIOUS
    <2>20. c # NoEntity /\ c.kind = "AS" /\ DOMAIN c = {"next", "kind", "text"}
      BY <2>18, <2>19 DEF Reading, NoEntity
    <2>21. asn(t, i) = [c EXCEPT !.text = <<"AS">> \o @]
      BY <2>7, <2>9, <2>17, <2>19, <2>20 DEF asn
    <2>22. [c EXCEPT !.text = <<"AS">> \o @].kind = "AS"
      BY <2>20
    <2> QED BY <2>21, <2>22 DEF NoEntity
  <1>18. PICK e : e = [kind |-> "Domain", text |-> x]
    OBVIOUS
  <1>19. e.kind = "Domain" /\ e.text = x
    BY <1>18
  <1>20. IsWritten(e)
    BY <1>8, <1>15, <1>17, <1>18, <1>19 DEF IsWritten
  <1>21. domain(t, i).next = j /\ EntityOf(domain(t, i)) = e
    BY <1>3, <1>18, ReadingIs
  <1> QED BY <1>6, <1>20, <1>21 DEF WrittenAt

LEMMA TemplateWritten ==
  ASSUME NEW t \in Text, NEW i \in 1 .. Len(t) + 1, template(t, i) # NoEntity
  PROVE  WrittenAt(t, i, template(t, i))
  <1>1. PICK j : j = TemplateEnd(t, i)
    OBVIOUS
  <1>2. PICK x : x = SubSeq(t, i, j - 1)
    OBVIOUS
  <1>3. j # 0 /\ template(t, i) = Reading(j, "Template", x)
    BY <1>1, <1>2 DEF template, Recognized
  <1>4. PICK m : m = TypesEnd(t, i)
    OBVIOUS
  <1>5. j = Tag(t, m, ")")
    BY <1>1, <1>4 DEF TemplateEnd, TypesEnd
  <1>6. Ahead(t, i, i, TemplateWords)
    BY AheadNow
  <1>7. Ahead(t, i, m, TemplateWords)
    BY <1>4, <1>6, TypesAhead
  <1>8. Len(t) \in Nat /\ m \in Nat
    BY <1>7, TextIs DEF Ahead
  <1>9. m \in 1 .. Len(t) /\ j = m + 1
    BY <1>3, <1>5, <1>8, OneIs DEF Tag
  <1>10. m \in i .. Len(t) + 1
    BY <1>7, <1>9 DEF Ahead
  <1>11. j \in i .. Len(t) + 1
    BY <1>8, <1>9, <1>10
  <1>12. PICK n \in Nat : n = j - i
    BY <1>11
  <1>13. x \in Text /\ Len(x) = n
    BY <1>2, <1>11, <1>12, PartIs DEF IsPart
  <1>14. Copy(t, i, x, 1, n, {}, FALSE)
    BY <1>2, <1>11, <1>12, PartCopies
  <1>15. i + n = j /\ m \in 0 .. i + n /\ i \in Nat \ {0} /\ 1 \in Nat
    BY <1>8, <1>9, <1>11, <1>12
  <1>16. Moved(t, i, 1, n, FALSE, i, 1)
    BY <1>15, MovedStart
  <1>17. Moved(t, i, 1, n, FALSE, m, TypesEnd(x, 1))
    <2>1. TemplateWords \cap {} = {}
      OBVIOUS
    <2> QED BY <1>4, <1>14, <1>15, <1>16, <2>1, TypesMoves
  <1>18. Moved(t, i, 1, n, FALSE, Tag(t, m, ")"), Tag(x, TypesEnd(x, 1), ")"))
    <2>1. ")" \notin {}
      OBVIOUS
    <2> QED BY <1>14, <1>17, <2>1, TagMoves
  <1>19. Moved(t, i, 1, n, FALSE, i + n, TemplateEnd(x, 1))
    BY <1>5, <1>15, <1>18 DEF TemplateEnd, TypesEnd
  <1>20. TemplateEnd(x, 1) = 1 + n
    BY <1>15, <1>19, MovedEnd
  <1>21. PICK e : e = [kind |-> "Template", text |-> x]
    OBVIOUS
  <1>22. e.kind = "Template" /\ e.text = x
    BY <1>21
  <1>23. IsWritten(e)
    <2>1. TemplateEnd(x, 1) = Len(x) + 1
      BY <1>13, <1>20
    <2> QED BY <1>13, <1>21, <1>22, <2>1 DEF IsWritten
  <1>24. template(t, i).next = j /\ EntityOf(template(t, i)) = e
    BY <1>3, <1>21, ReadingIs
  <1> QED BY <1>11, <1>23, <1>24 DEF WrittenAt

LEMMA SignerWritten ==
  ASSUME NEW t \in Text, NEW i \in 1 .. Len(t) + 1, signer(t, i) \notin {NoEntity, Panic}
  PROVE  WrittenAt(t, i, signer(t, i))
  <1>1. PICK at : at = Tag(t, i, "secp256k1:")
    OBVIOUS
  <1>2. PICK j : j = Base64End(t, at)
    OBVIOUS
  <1>3. PICK x : x = SubSeq(t, i, j - 1)
    OBVIOUS
  <1>4. j # 0 /\ SubSeq(t, at, j - 1) \in Keys /\ signer(t, i) = Reading(j, "Signer", x)
    BY <1>1, <1>2, <1>3 DEF signer, Recognized
  <1>5. at # 0
    BY <1>2, <1>4, NothingAfter
  <1>6. Len(t) \in Nat /\ i \in Nat
    BY TextIs
  <1>7. at = i + 1 /\ at \in 1 .. Len(t) + 1
    BY <1>1, <1>5, <1>6, OneIs DEF Tag
  <1>8. Ahead(t, at, at, Base64 \cup {"="})
    BY <1>7, AheadNow
  <1>9. Ahead(t, at, j, Base64 \cup {"="})
    BY <1>2, <1>7, <1>8, Base64Ahead
  <1>10. j \in at .. Len(t) + 1
    BY <1>4, <1>9 DEF Ahead
  <1>11. j \in i .. Len(t) + 1
    BY <1>6, <1>7, <1>10
  <1>12. PICK n \in Nat : n = j - i
    BY <1>11
  <1>13. x \in Text /\ Len(x) = n
    BY <1>3, <1>11, <1>12, PartIs DEF IsPart
  <1>14. Copy(t, i, x, 1, n, {}, FALSE)
    BY <1>3, <1>11, <1>12, PartCopies
  <1>15. i + n = j /\ i \in Nat \ {0} /\ 1 \in Nat /\ 1 \in 0 .. n /\ n \in 1 .. n
    BY <1>6, <1>7, <1>10, <1>12
  <1>16. Moved(t, i, 1, n, FALSE, i, 1)
    BY <1>15, MovedStart
  <1>17. Moved(t, i, 1, n, FALSE, at, Tag(x, 1, "secp256k1:"))
    <2>1. "secp256k1:" \notin {}
      OBVIOUS
    <2> QED BY <1>1, <1>14, <1>16, <2>1, TagMoves
  <1>18. Tag(x, 1, "secp256k1:") = 2
    <2>1. PICK q : q = Tag(x, 1, "secp256k1:")
      OBVIOUS
    <2>2. at # 0 /\ at \notin i + n + 1 .. Len(t) + 1
      BY <1>6, <1>7, <1>15
    <2>3. PICK d \in 0 .. n : at = i + d /\ q = 1 + d
      BY <1>17, <2>1, <2>2 DEF Moved
    <2>4. d = 1
      BY <1>6, <1>7, <2>3
    <2> QED BY <2>1, <2>3, <2>4
  <1>19. Moved(t, i, 1, n, FALSE, Base64End(t, at), Base64End(x, 2))
    <2>1. (Base64 \cup {"="}) \cap {} = {}
      OBVIOUS
    <2>2. Moved(t, i, 1, n, FALSE, at, 2)
      BY <1>17, <1>18
    <2> QED BY <1>14, <2>1, <2>2, Base64Moves
  <1>20. Moved(t, i, 1, n, FALSE, i + n, Base64End(x, 2))
    BY <1>2, <1>15, <1>19
  <1>21. Base64End(x, 2) = 1 + n
    BY <1>15, <1>20, MovedEnd
  <1>22. SubSeq(x, 2, Len(x)) = SubSeq(t, at, j - 1)
    <2>1. SubSeq(t, i + 1, (i + n) - 1) = SubSeq(x, 1 + 1, (1 + n) - 1)
      <3>1. n \in 1 .. n
        BY <1>15
      <3>2. SamePart(t, i, x, 1, 1, n)
        BY <1>14, <1>15, <3>1, PartMoves
      <3> QED BY <3>2 DEF SamePart
    <2>2. (1 + n) - 1 = Len(x) /\ 1 + 1 = 2 /\ i + 1 = at /\ i + n = j
      BY <1>7, <1>13, <1>15
    <2> QED BY <2>1, <2>2
  <1>23. IsSigner(x)
    <2>1. Base64End(x, 2) = Len(x) + 1
      BY <1>13, <1>21
    <2> QED BY <1>4, <1>18, <1>22, <2>1 DEF IsSigner
  <1>24. PICK e : e = [kind |-> "Signer", text |-> x]
    OBVIOUS
  <1>25. e.kind = "Signer" /\ e.text = x
    BY <1>24
  <1>26. IsWritten(e)
    BY <1>13, <1>23, <1>24, <1>25 DEF IsWritten
  <1>27. signer(t, i).next = j /\ EntityOf(signer(t, i)) = e
    BY <1>4, <1>24, ReadingIs
  <1> QED BY <1>11, <1>26, <1>27 DEF WrittenAt

LEMMA ConvertedIs ==
  ASSUME NEW t, NEW i, NEW j, NEW kind, NEW table, Converted(t, i, j, kind, table) # NoEntity
  PROVE  /\ j # 0
         /\ \E a \in Range(table) : Converted(t, i, j, kind, table) = Reading(j, kind, a)
  BY DEF Converted, Range

LEMMA AsnWritten ==
  ASSUME NEW t \in Text, NEW i \in 1 .. Len(t) + 1, asn(t, i) # NoEntity
  PROVE  WrittenAt(t, i, asn(t, i))
  <1>1. PICK at : at = Tag(t, i, "AS")
    OBVIOUS
  <1>2. PICK j : j = Run1(t, at, Digits)
    OBVIOUS
  <1>3. PICK c : c = Converted(t, at, j, "AS", Numbers)
    OBVIOUS
  <1>4. at # 0 /\ c # NoEntity /\ asn(t, i) = [c EXCEPT !.text = <<"AS">> \o @]
    BY <1>1, <1>2, <1>3 DEF asn
  <1>5. j # 0 /\ \E a \in Range(Numbers) : c = Reading(j, "AS", a)
    BY <1>3, <1>4, ConvertedIs
  <1>6. PICK w \in Range(Numbers) : c = Reading(j, "AS", w)
    BY <1>5
  <1>7. ReadsAsNumber(w)
    BY TextAssumption, NumberReads
  <1>8. PICK x : x = <<"AS">> \o w
    OBVIOUS
  <1>9. asn(t, i) = Reading(j, "AS", x)
    BY <1>4, <1>6, <1>8 DEF Reading
  <1>10. x \in Text
    <2>1. w \in Text
      BY <1>7 DEF ReadsAsNumber
    <2>2. <<"AS">> \in Text
      BY WordAssumption DEF Text, Alphanumeric
    <2> QED BY <1>8, <2>1, <2>2 DEF Text
  <1>11. Len(t) \in Nat /\ i \in Nat
    BY TextIs
  <1>12. at = i + 1 /\ at \in 1 .. Len(t) + 1
    BY <1>1, <1>4, <1>11, OneIs DEF Tag
  <1>13. j \in at + 1 .. Len(t) + 1
    BY <1>2, <1>5, <1>12, Run1Is
  <1>14. j \in i .. Len(t) + 1
    BY <1>11, <1>12, <1>13
  <1>15. PICK e : e = [kind |-> "AS", text |-> x]
    OBVIOUS
  <1>16. e.kind = "AS" /\ e.text = x
    BY <1>15
  <1>17. IsWritten(e)
    <2>1. IsNumbered(x)
      BY <1>7, <1>8 DEF IsNumbered
    <2> QED BY <1>10, <1>15, <1>16, <2>1 DEF IsWritten
  <1>18. asn(t, i).next = j /\ EntityOf(asn(t, i)) = e
    BY <1>9, <1>15, ReadingIs
  <1> QED BY <1>14, <1>17, <1>18 DEF WrittenAt

LEMMA IPv4Written ==
  ASSUME NEW t \in Text, NEW i \in 1 .. Len(t) + 1, ipv4(t, i) # NoEntity
  PROVE  WrittenAt(t, i, ipv4(t, i))
  <1>1. PICK j : j = IPv4End(t, i)
    OBVIOUS
  <1>2. j # 0 /\ \E a \in Range(Addresses4) : ipv4(t, i) = Reading(j, "IPv4", a)
    BY <1>1, ConvertedIs DEF ipv4
  <1>3. PICK x \in Range(Addresses4) : ipv4(t, i) = Reading(j, "IPv4", x)
    BY <1>2
  <1>4. ReadsAsRange4(x)
    BY TextAssumption, Range4Reads
  <1>5. Ahead(t, i, i, Digits \cup {".", "/"})
    BY AheadNow
  <1>6. Ahead(t, i, j, Digits \cup {".", "/"})
    BY <1>1, <1>5, IPv4Ahead
  <1>7. j \in i .. Len(t) + 1
    BY <1>2, <1>6 DEF Ahead
  <1>8. PICK e : e = [kind |-> "IPv4", text |-> x]
    OBVIOUS
  <1>9. e.kind = "IPv4" /\ e.text = x
    BY <1>8
  <1>10. IsWritten(e)
    BY <1>4, <1>8, <1>9 DEF IsWritten, ReadsAsRange4
  <1>11. ipv4(t, i).next = j /\ EntityOf(ipv4(t, i)) = e
    BY <1>3, <1>8, ReadingIs
  <1> QED BY <1>7, <1>10, <1>11 DEF WrittenAt

LEMMA IPv6Written ==
  ASSUME NEW t \in Text, NEW i \in 1 .. Len(t) + 1, ipv6(t, i) # NoEntity
  PROVE  WrittenAt(t, i, ipv6(t, i))
  <1>1. PICK j : j = IPv6End(t, i)
    OBVIOUS
  <1>2. j # 0 /\ \E a \in Range(Addresses6) : ipv6(t, i) = Reading(j, "IPv6", a)
    BY <1>1, ConvertedIs DEF ipv6
  <1>3. PICK x \in Range(Addresses6) : ipv6(t, i) = Reading(j, "IPv6", x)
    BY <1>2
  <1>4. IsWritten6(x)
    BY TextAssumption
  <1>5. Ahead(t, i, i, Hexadecimal \cup {":", "/"})
    BY AheadNow
  <1>6. Ahead(t, i, j, Hexadecimal \cup {":", "/"})
    BY <1>1, <1>5, IPv6Ahead
  <1>7. j \in i .. Len(t) + 1
    BY <1>2, <1>6 DEF Ahead
  <1>8. PICK e : e = [kind |-> "IPv6", text |-> x]
    OBVIOUS
  <1>9. e.kind = "IPv6" /\ e.text = x
    BY <1>8
  <1>10. IsWritten(e)
    BY <1>4, <1>8, <1>9 DEF IsWritten, IsWritten6
  <1>11. ipv6(t, i).next = j /\ EntityOf(ipv6(t, i)) = e
    BY <1>3, <1>8, ReadingIs
  <1> QED BY <1>7, <1>10, <1>11 DEF WrittenAt

\* What is read in a text that can be hashed is written as its kind is.
LEMMA EntityWritten ==
  ASSUME NEW t \in Text, Hashable(t), NEW i \in 1 .. Len(t) + 1
  PROVE  entity(t, i) \in {NoEntity, Panic} \/ WrittenAt(t, i, entity(t, i))
  <1>1. entity(t, i) = FirstOf(email(t, i), hash_value(t, i), template(t, i), asn(t, i),
                               signer(t, i), domain(t, i), ipv4(t, i), ipv6(t, i))
    BY EntityIs
  <1>2. PICK a : a = email(t, i)
    OBVIOUS
  <1>3. PICK b : b = hash_value(t, i)
    OBVIOUS
  <1>4. PICK c : c = template(t, i)
    OBVIOUS
  <1>5. PICK d : d = asn(t, i)
    OBVIOUS
  <1>6. PICK e : e = signer(t, i)
    OBVIOUS
  <1>7. PICK f : f = domain(t, i)
    OBVIOUS
  <1>8. PICK g : g = ipv4(t, i)
    OBVIOUS
  <1>9. PICK h : h = ipv6(t, i)
    OBVIOUS
  <1>10. PICK r : r = entity(t, i)
    OBVIOUS
  <1>11. r = FirstOf(a, b, c, d, e, f, g, h)
    BY <1>1, <1>2, <1>3, <1>4, <1>5, <1>6, <1>7, <1>8, <1>9, <1>10
  <1>12. \/ r = NoEntity
         \/ r # NoEntity /\ r \in {a, b, c, d, e, g, h}
         \/ r # NoEntity /\ r = f /\ d = NoEntity
    BY <1>11 DEF FirstOf
  <1>13. /\ a # NoEntity => WrittenAt(t, i, a)
         /\ b # NoEntity => WrittenAt(t, i, b)
         /\ c # NoEntity => WrittenAt(t, i, c)
         /\ d # NoEntity => WrittenAt(t, i, d)
         /\ e \notin {NoEntity, Panic} => WrittenAt(t, i, e)
         /\ d = NoEntity /\ f # NoEntity => WrittenAt(t, i, f)
         /\ g # NoEntity => WrittenAt(t, i, g)
         /\ h # NoEntity => WrittenAt(t, i, h)
    BY <1>2, <1>3, <1>4, <1>5, <1>6, <1>7, <1>8, <1>9, EMailWritten, HashWritten, TemplateWritten,
       AsnWritten, SignerWritten, DomainWritten, IPv4Written, IPv6Written
  <1>14. r \in {NoEntity, Panic} \/ WrittenAt(t, i, r)
    BY <1>12, <1>13
  <1> QED BY <1>10, <1>14

-----------------------------------------------------------------------------
(* The text of an entity, read alone *)

OnlyOf(x, words) == \A p \in 1 .. Len(x) : x[p] \in words

\* Words of the texts of all entities but templates.
PlainWords == Local \cup {"@", ":", "secp256k1:"}

IsEntityText(e, x) ==
    /\ x \in Text /\ Len(x) \in Nat \ {0}
    /\ e.kind # "Template" => OnlyOf(x, PlainWords)
    /\ e.kind = "Template" => OnlyOf(x, TemplateWords \cup {")"})
    /\ e.kind = "HashValue" => x[1] = "#" /\ OnlyOf(x, Base64 \cup {"=", "#"})
    /\ e.kind = "AS" => x[1] = "AS" /\ OnlyOf(x, Digits \cup {"AS"})
    /\ e.kind = "Signer" => x[1] = "secp256k1:" /\ OnlyOf(x, Base64 \cup {"=", "secp256k1:"})
    /\ e.kind = "Domain" => OnlyOf(x, DomainWords)
    /\ e.kind = "IPv4" => OnlyOf(x, Digits \cup {".", "/"})
    /\ e.kind = "IPv6" => OnlyOf(x, Hexadecimal \cup {":", ".", "/"})
    /\ e.kind # "HashValue" => x = e.text

LEMMA OnlyAhead ==
  ASSUME NEW x \in Text, NEW words, Ahead(x, 1, Len(x) + 1, words)
  PROVE  OnlyOf(x, words)
  <1>1. Len(x) \in Nat /\ (Len(x) + 1) - 1 = Len(x) /\ Len(x) + 1 # 0
    BY TextIs
  <1> QED BY <1>1 DEF Ahead, OnlyOf

LEMMA OnlyMore ==
  ASSUME NEW x, NEW words, NEW more, words \subseteq more, OnlyOf(x, words)
  PROVE  OnlyOf(x, more)
  BY DEF OnlyOf

LEMMA PlainSets ==
  /\ Base64 \cup {"=", "#"} \subseteq PlainWords /\ Digits \cup {"AS"} \subseteq PlainWords
  /\ Base64 \cup {"=", "secp256k1:"} \subseteq PlainWords /\ DomainWords \subseteq PlainWords
  /\ Digits \cup {".", "/"} \subseteq PlainWords /\ Hexadecimal \cup {":", ".", "/"} \subseteq PlainWords
  /\ Local \cup {"@"} \subseteq PlainWords
  <1>1. Alphanumeric \subseteq PlainWords /\ LocalMarks \subseteq PlainWords /\ Local \subseteq PlainWords
    BY DEF PlainWords, Local
  <1>2. {"#", ".", "/", "-", "=", "_", "bar", "+"} \subseteq PlainWords
    BY <1>1, MarksApart
  <1>3. "AS" \in Alphanumeric /\ Hexadecimal \subseteq Alphanumeric /\ Digits \subseteq Alphanumeric
    BY WordAssumption DEF Alphanumeric
  <1>4. {"@", ":", "secp256k1:"} \subseteq PlainWords
    BY DEF PlainWords
  <1> QED BY <1>1, <1>2, <1>3, <1>4, WordsOf DEF Base64

LEMMA WholeWord ==
  ASSUME NEW x \in Text, NEW word, Tag(x, 1, word) = 2
  PROVE  x[1] = word /\ 1 \in 1 .. Len(x)
  BY OneIs DEF Tag

IsBehind(w, word, x) ==
    /\ x \in Text /\ Len(x) = Len(w) + 1 /\ Len(x) \in Nat \ {0} /\ x[1] = word
    /\ \A p \in 1 .. Len(w) : x[1 + p] = w[p]
    /\ Copy(w, 1, x, 2, Len(w), {}, TRUE)

LEMMA Behind ==
  ASSUME NEW w \in Text, NEW word \in Alphanumeric \cup Marks, NEW x, x = <<word>> \o w
  PROVE  IsBehind(w, word, x)
  <1>1. w \in Seq(Alphanumeric \cup Marks) /\ Len(w) \in Nat /\ <<word>> \in Seq(Alphanumeric \cup Marks)
        /\ Len(<<word>>) = 1 /\ <<word>>[1] = word
    BY DEF Text
  <1>2. /\ x \in Seq(Alphanumeric \cup Marks) /\ Len(x) = 1 + Len(w)
        /\ \A p \in 1 .. 1 + Len(w) : x[p] = IF p <= 1 THEN <<word>>[p] ELSE w[p - 1]
    BY <1>1, ConcatProperties
  <1>3. x[1] = word /\ Len(x) = Len(w) + 1 /\ Len(x) \in Nat \ {0}
    BY <1>1, <1>2
  <1>4. ASSUME NEW p \in 1 .. Len(w)
        PROVE  x[1 + p] = w[p]
    <2>1. 1 + p \in 1 .. 1 + Len(w) /\ ~(1 + p <= 1) /\ (1 + p) - 1 = p
      BY <1>1
    <2> QED BY <1>2, <2>1
  <1>5. Copy(w, 1, x, 2, Len(w), {}, TRUE)
    <2>1. PICK n \in Nat : n = Len(w)
      BY <1>1
    <2>2. \A d \in 0 .. n - 1 : w[1 + d] = x[2 + d]
      <3> SUFFICES ASSUME NEW d \in 0 .. n - 1
                   PROVE  w[1 + d] = x[2 + d]
        OBVIOUS
      <3>1. 1 + d \in 1 .. Len(w) /\ 1 + (1 + d) = 2 + d
        BY <2>1
      <3> QED BY <1>4, <3>1
    <2>3. /\ 1 \in 1 .. Len(w) + 1 /\ 1 + n \in 1 .. Len(w) + 1 /\ 2 \in 1 .. Len(x) + 1
          /\ 2 + n \in 1 .. Len(x) + 1 /\ 2 + n \notin 1 .. Len(x) /\ 1 + n \notin 1 .. Len(w)
      BY <1>3, <2>1
    <2>4. Copy(w, 1, x, 2, n, {}, TRUE)
      BY <1>2, <2>2, <2>3 DEF Copy, Text
    <2> QED BY <2>1, <2>4
  <1> QED BY <1>2, <1>3, <1>4, <1>5 DEF Text, IsBehind

LEMMA OnlyBehind ==
  ASSUME NEW w \in Text, NEW word \in Alphanumeric \cup Marks, NEW x, x = <<word>> \o w,
         NEW words, OnlyOf(w, words), word \in words
  PROVE  OnlyOf(x, words)
  <1>1. Len(w) \in Nat /\ Len(x) = Len(w) + 1 /\ x[1] = word /\ \A p \in 1 .. Len(w) : x[1 + p] = w[p]
    BY Behind, TextIs DEF IsBehind
  <1>2. ASSUME NEW p \in 1 .. Len(x)
        PROVE  x[p] \in words
    <2>1. CASE p = 1
      BY <1>1, <2>1
    <2>2. CASE p # 1
      <3>1. p - 1 \in 1 .. Len(w) /\ 1 + (p - 1) = p
        BY <1>1, <2>2
      <3> QED BY <1>1, <3>1 DEF OnlyOf
    <2> QED BY <2>1, <2>2
  <1> QED BY <1>2 DEF OnlyOf

LEMMA Base64Words ==
  ASSUME NEW x, ReadsAsBase64(x)
  PROVE  x \in Text /\ OnlyOf(x, Base64 \cup {"="}) /\ Len(x) \in Nat \ {0}
  <1>1. x \in Text /\ Base64End(x, 1) = Len(x) + 1 /\ Len(x) \in Nat
    BY TextIs DEF ReadsAsBase64
  <1>2. Ahead(x, 1, 1, Base64 \cup {"="})
    BY <1>1, AheadNow
  <1>3. Ahead(x, 1, Base64End(x, 1), Base64 \cup {"="})
    <2>1. 1 \in 1 .. Len(x) + 1
      BY <1>1
    <2> QED BY <1>1, <1>2, <2>1, Base64Ahead
  <1>4. Len(x) # 0
    BY <1>1, NothingThere
  <1> QED BY <1>1, <1>3, <1>4, OnlyAhead

LEMMA EntityTextIs ==
  ASSUME NEW e, IsWritten(e), NEW x, x = EntityText(e)
  PROVE  IsEntityText(e, x)
  <1>1. e.text \in Text /\ Len(e.text) \in Nat /\ 1 \in 1 .. Len(e.text) + 1
    BY TextIs DEF IsWritten
  <1>2. CASE e.kind = "EMail"
    <2>1. x = e.text /\ EMailEnd(x, 1) = Len(x) + 1
      BY <1>2 DEF EntityText, IsWritten
    <2>2. Ahead(x, 1, 1, Local \cup {"@"})
      BY <1>1, <2>1, AheadNow
    <2>3. Ahead(x, 1, EMailEnd(x, 1), Local \cup {"@"})
      BY <1>1, <2>1, <2>2, EMailAhead
    <2>4. OnlyOf(x, Local \cup {"@"})
      BY <1>1, <2>1, <2>3, OnlyAhead
    <2>5. Len(x) # 0
      BY <1>1, <2>1, NothingThere
    <2>6. OnlyOf(x, PlainWords)
      BY <2>4, OnlyMore, PlainSets
    <2> QED BY <1>1, <1>2, <2>1, <2>5, <2>6 DEF IsEntityText
  <1>3. CASE e.kind = "HashValue"
    <2>0. PICK w \in Text : w = e.text
      BY <1>1
    <2>1. x = <<"#">> \o w /\ ReadsAsBase64(w)
      BY <1>3, <2>0 DEF EntityText, IsWritten
    <2>2. OnlyOf(w, Base64 \cup {"="})
      BY <2>1, Base64Words
    <2>3. OnlyOf(w, Base64 \cup {"=", "#"})
      BY <2>2, OnlyMore
    <2>4. "#" \in Alphanumeric \cup Marks
      BY MarksApart
    <2>5. OnlyOf(x, Base64 \cup {"=", "#"})
      <3>1. PICK C : C = Base64 \cup {"=", "#"}
        OBVIOUS
      <3>2. "#" \in C /\ OnlyOf(w, C)
        BY <2>3, <3>1
      <3>3. OnlyOf(x, C)
        BY <2>1, <2>4, <3>2, OnlyBehind
      <3> QED BY <3>1, <3>3
    <2>6. x \in Text /\ Len(x) \in Nat \ {0} /\ x[1] = "#"
      <3>1. IsBehind(w, "#", x)
        BY <2>1, <2>4, Behind
      <3> QED BY <3>1 DEF IsBehind
    <2>7. OnlyOf(x, PlainWords)
      BY <2>5, OnlyMore, PlainSets
    <2> QED BY <1>3, <2>5, <2>6, <2>7 DEF IsEntityText
  <1>4. CASE e.kind = "Template"
    <2>1. x = e.text /\ TemplateEnd(x, 1) = Len(x) + 1
      BY <1>4 DEF EntityText, IsWritten
    <2>2. Ahead(x, 1, 1, TemplateWords \cup {")"})
      BY <1>1, <2>1, AheadNow
    <2>3. Ahead(x, 1, TypesEnd(x, 1), TemplateWords \cup {")"})
      <3>1. TemplateWords \subseteq TemplateWords \cup {")"}
        OBVIOUS
      <3> QED BY <1>1, <2>1, <2>2, <3>1, TypesAhead
    <2>4. Ahead(x, 1, Tag(x, TypesEnd(x, 1), ")"), TemplateWords \cup {")"})
      <3>1. ")" \in TemplateWords \cup {")"}
        OBVIOUS
      <3> QED BY <1>1, <2>1, <2>3, <3>1, TagAhead
    <2>5. Ahead(x, 1, Len(x) + 1, TemplateWords \cup {")"})
      BY <2>1, <2>4 DEF TemplateEnd, TypesEnd
    <2>6. OnlyOf(x, TemplateWords \cup {")"})
      BY <1>1, <2>1, <2>5, OnlyAhead
    <2>7. Len(x) # 0
      BY <1>1, <2>1, NothingThere
    <2> QED BY <1>1, <1>4, <2>1, <2>6, <2>7 DEF IsEntityText
  <1>5. CASE e.kind = "AS"
    <2>1. x = e.text /\ IsNumbered(x)
      BY <1>5 DEF EntityText, IsWritten
    <2>2. PICK w : ReadsAsNumber(w) /\ x = <<"AS">> \o w
      BY <2>1 DEF IsNumbered
    <2>3. w \in Text /\ Run1(w, 1, Digits) = Len(w) + 1 /\ Len(w) \in Nat
      BY <2>2, TextIs DEF ReadsAsNumber
    <2>4. Ahead(w, 1, Len(w) + 1, Digits)
      <3>1. 1 \in 1 .. Len(w) + 1
        BY <2>3
      <3>2. Ahead(w, 1, 1, Digits)
        BY <2>3, <3>1, AheadNow
      <3>3. Ahead(w, 1, Run1(w, 1, Digits), Digits)
        BY <2>3, <3>1, <3>2, Run1Ahead
      <3> QED BY <2>3, <3>3
    <2>5. OnlyOf(w, Digits \cup {"AS"})
      BY <2>3, <2>4, OnlyAhead, OnlyMore
    <2>6. "AS" \in Alphanumeric \cup Marks
      BY WordAssumption DEF Alphanumeric
    <2>7. OnlyOf(x, Digits \cup {"AS"})
      <3>1. "AS" \in Digits \cup {"AS"}
        OBVIOUS
      <3> QED BY <2>2, <2>3, <2>5, <2>6, <3>1, OnlyBehind
    <2>8. x \in Text /\ Len(x) \in Nat \ {0} /\ x[1] = "AS"
      <3>1. IsBehind(w, "AS", x)
        BY <2>2, <2>3, <2>6, Behind
      <3> QED BY <3>1 DEF IsBehind
    <2>9. OnlyOf(x, PlainWords)
      BY <2>7, OnlyMore, PlainSets
    <2> QED BY <1>5, <2>1, <2>7, <2>8, <2>9 DEF IsEntityText
  <1>6. CASE e.kind = "Signer"
    <2>1. x = e.text /\ IsSigner(x)
      BY <1>6 DEF EntityText, IsWritten
    <2>2. x[1] = "secp256k1:" /\ 1 \in 1 .. Len(x) /\ Base64End(x, 2) = Len(x) + 1
      BY <1>1, <2>1, WholeWord DEF IsSigner
    <2> DEFINE C == Base64 \cup {"=", "secp256k1:"}
    <2>3. Ahead(x, 1, 2, C)
      <3>1. 2 \in 1 .. Len(x) + 1 /\ \A p \in 1 .. 2 - 1 : p = 1
        BY <1>1, <2>1, <2>2
      <3> QED BY <2>2, <3>1 DEF Ahead
    <2>4. Ahead(x, 1, Base64End(x, 2), C)
      <3>1. Base64 \cup {"="} \subseteq C
        OBVIOUS
      <3> QED BY <1>1, <2>1, <2>3, <3>1, Base64Ahead
    <2>5. OnlyOf(x, C)
      BY <1>1, <2>1, <2>2, <2>4, OnlyAhead
    <2>6. OnlyOf(x, PlainWords)
      BY <2>5, OnlyMore, PlainSets
    <2>7. Len(x) \in Nat \ {0}
      BY <1>1, <2>1, <2>2
    <2> QED BY <1>1, <1>6, <2>1, <2>2, <2>5, <2>6, <2>7 DEF IsEntityText
  <1>7. CASE e.kind = "Domain"
    <2>1. x = e.text /\ DomainEnd(x, 1) = Len(x) + 1
      BY <1>7 DEF EntityText, IsWritten
    <2>2. Ahead(x, 1, 1, DomainWords)
      BY <1>1, <2>1, AheadNow
    <2>3. Ahead(x, 1, DomainEnd(x, 1), DomainWords)
      BY <1>1, <2>1, <2>2, DomainAhead
    <2>4. OnlyOf(x, DomainWords)
      BY <1>1, <2>1, <2>3, OnlyAhead
    <2>5. Len(x) # 0
      BY <1>1, <2>1, NothingThere
    <2>6. OnlyOf(x, PlainWords)
      BY <2>4, OnlyMore, PlainSets
    <2> QED BY <1>1, <1>7, <2>1, <2>4, <2>5, <2>6 DEF IsEntityText
  <1>8. CASE e.kind = "IPv4"
    <2>1. x = e.text /\ IPv4End(x, 1) = Len(x) + 1
      BY <1>8 DEF EntityText, IsWritten, ReadsAsRange4
    <2>2. Ahead(x, 1, 1, Digits \cup {".", "/"})
      BY <1>1, <2>1, AheadNow
    <2>3. Ahead(x, 1, IPv4End(x, 1), Digits \cup {".", "/"})
      BY <1>1, <2>1, <2>2, IPv4Ahead
    <2>4. OnlyOf(x, Digits \cup {".", "/"})
      BY <1>1, <2>1, <2>3, OnlyAhead
    <2>5. Len(x) # 0
      BY <1>1, <2>1, NothingThere
    <2>6. OnlyOf(x, PlainWords)
      BY <2>4, OnlyMore, PlainSets
    <2> QED BY <1>1, <1>8, <2>1, <2>4, <2>5, <2>6 DEF IsEntityText
  <1>9. CASE e.kind = "IPv6"
    <2>1. x = e.text /\ IsWritten6(x)
      BY <1>9 DEF EntityText, IsWritten
    <2>2. Range(x) \subseteq Hexadecimal \cup {":", ".", "/"} /\ ":" \in Range(x)
      BY <2>1 DEF IsWritten6
    <2>3. DOMAIN x = 1 .. Len(x)
      BY <1>1, <2>1, TextIs
    <2>4. OnlyOf(x, Hexadecimal \cup {":", ".", "/"})
      BY <2>2, <2>3 DEF OnlyOf, Range
    <2>5. Len(x) # 0
      BY <2>2, <2>3 DEF Range
    <2>6. OnlyOf(x, PlainWords)
      BY <2>4, OnlyMore, PlainSets
    <2> QED BY <1>1, <1>9, <2>1, <2>4, <2>5, <2>6 DEF IsEntityText
  <1> QED BY <1>2, <1>3, <1>4, <1>5, <1>6, <1>7, <1>8, <1>9 DEF IsWritten

Lacks(x, word) == \A p \in 1 .. Len(x) : x[p] # word

LEMMA LacksAny ==
  ASSUME NEW x, NEW words, OnlyOf(x, words), NEW word, word \notin words
  PROVE  Lacks(x, word)
  BY DEF OnlyOf, Lacks

LEMMA NoTag ==
  ASSUME NEW x \in Text, NEW word, Lacks(x, word), NEW j \in Nat
  PROVE  Tag(x, j, word) = 0
  BY OneIs DEF Tag, Lacks

LEMMA NoEMail ==
  ASSUME NEW x \in Text, NEW i \in 1 .. Len(x) + 1, Lacks(x, "@")
  PROVE  EMailEnd(x, i) = 0
  <1>1. PICK j : j = Run1(x, i, Local)
    OBVIOUS
  <1>2. Ahead(x, i, i, Local)
    BY AheadNow
  <1>3. Ahead(x, i, j, Local)
    BY <1>1, <1>2, Run1Ahead
  <1>4. j \in Nat
    BY <1>3, TextIs DEF Ahead
  <1>5. Tag(x, j, "@") = 0
    BY <1>4, NoTag
  <1> QED BY <1>1, <1>5, NothingAfter DEF EMailEnd

LEMMA NoTemplate ==
  ASSUME NEW x \in Text, NEW i \in 1 .. Len(x) + 1, Tag(x, NameEnd(x, i), "(") = 0
  PROVE  TemplateEnd(x, i) = 0
  <1>1. TypeEnd(x, 0) = 0
    BY NothingAfter DEF TypeEnd
  <1>2. Many0(0, MoreTypes(x)) = 0
    BY MoreTypesAreItems, Many0Zero
  <1> QED BY <1>1, <1>2, NothingAfter DEF TemplateEnd, Tag

LEMMA NoName ==
  ASSUME NEW x \in Text, NEW i \in 1 .. Len(x) + 1, Lacks(x, "(")
  PROVE  Tag(x, NameEnd(x, i), "(") = 0 /\ TemplateEnd(x, i) = 0
  <1>1. PICK j : j = NameEnd(x, i)
    OBVIOUS
  <1>2. Ahead(x, i, i, Letters \cup {"_"})
    BY AheadNow
  <1>3. Ahead(x, i, j, Letters \cup {"_"})
    BY <1>1, <1>2, NameAhead
  <1>4. j \in Nat
    <2>1. Len(x) \in Nat /\ i \in Nat /\ 0 \in Nat
      BY TextIs
    <2>2. j = 0 \/ j \in i .. Len(x) + 1
      BY <1>3 DEF Ahead
    <2> QED BY <2>1, <2>2
  <1>5. Tag(x, j, "(") = 0
    BY <1>4, NoTag
  <1> QED BY <1>1, <1>5, NoTemplate

LEMMA NoDomain ==
  ASSUME NEW x \in Text, NEW words, OnlyOf(x, words), words \cap Letters = {}
  PROVE  DomainEnd(x, 1) = 0
  <1>1. Len(x) \in Nat
    BY TextIs
  <1>2. PICK l : l = Many0(1, LabelsAndDots(x))
    OBVIOUS
  <1>3. l \in 1 .. Len(x) + 1 /\ l \in Nat
    <2>1. 1 \in 1 .. Len(x) + 1
      BY <1>1
    <2>2. l \in 1 .. Len(x) + 1
      BY <1>2, <2>1, LabelsAreItems, Many0Later
    <2> QED BY <1>1, <2>2
  <1>4. One(x, l, Letters) = 0
    <2>1. ~(l \in 1 .. Len(x) /\ x[l] \in Letters)
      BY DEF OnlyOf
    <2> QED BY <1>3, <2>1, OneIs
  <1> QED BY <1>2, <1>4, RunZero DEF DomainEnd, Run1

LEMMA NotFirst ==
  ASSUME NEW x \in Text, NEW word, x[1] # word
  PROVE  Tag(x, 1, word) = 0
  BY OneIs DEF Tag

LEMMA NoHash ==
  ASSUME NEW x \in Text, NEW i, Tag(x, i, "#") = 0
  PROVE  hash_value(x, i) = NoEntity
  BY DEF hash_value

LEMMA NoAsn ==
  ASSUME NEW x \in Text, NEW i, Tag(x, i, "AS") = 0
  PROVE  asn(x, i) = NoEntity
  BY DEF asn

LEMMA NoSigner ==
  ASSUME NEW x \in Text, NEW i, Tag(x, i, "secp256k1:") = 0
  PROVE  signer(x, i) = NoEntity
  <1>1. Base64End(x, Tag(x, i, "secp256k1:")) = 0
    BY NothingAfter
  <1> QED BY <1>1 DEF signer, Recognized

\* What is read of an entity's text alone: the entity up to the end, or of a range
\* of IPv6 less.
Alone(e, n, r) ==
    \/ r = Reading(n + 1, e.kind, e.text)
    \/ e.kind = "IPv6" /\ r = NoEntity
    \/ e.kind = "IPv6" /\ r # Panic /\ r.next \in 1 .. n

LEMMA EMailAlone ==
  ASSUME NEW e, IsWritten(e), NEW x, x = EntityText(e), e.kind = "EMail"
  PROVE  Alone(e, Len(x), entity(x, 1))
  <1>1. x \in Text /\ EMailEnd(x, 1) = Len(x) + 1 /\ x = e.text /\ Len(x) + 1 # 0
    BY TextIs DEF EntityText, IsWritten
  <1>2. email(x, 1) = Reading(Len(x) + 1, "EMail", x)
    BY <1>1, WholePart DEF email, Recognized
  <1>3. email(x, 1) # NoEntity
    BY <1>2, ReadingIs
  <1>4. entity(x, 1) = email(x, 1)
    BY <1>3, EntityIs DEF FirstOf
  <1> QED BY <1>1, <1>2, <1>4 DEF Alone

LEMMA HashAlone ==
  ASSUME NEW e, IsWritten(e), NEW x, x = EntityText(e), e.kind = "HashValue"
  PROVE  Alone(e, Len(x), entity(x, 1))
  <1>1. PICK w : w = e.text
    OBVIOUS
  <1>2. w \in Text /\ x = <<"#">> \o w /\ ReadsAsBase64(w)
    BY <1>1 DEF EntityText, IsWritten
  <1>3. IsEntityText(e, x)
    BY EntityTextIs
  <1>4. x \in Text /\ Len(x) \in Nat \ {0} /\ x[1] = "#" /\ OnlyOf(x, Base64 \cup {"=", "#"})
    BY <1>3 DEF IsEntityText
  <1>5. Lacks(x, "@")
    <2>1. "@" \notin Base64 \cup {"=", "#"}
      BY MarksApart DEF Base64, Punctuation
    <2> QED BY <1>4, <2>1, LacksAny
  <1>6. 1 \in 1 .. Len(x) + 1 /\ 2 \in 1 .. Len(x) + 1
    BY <1>4
  <1>7. EMailEnd(x, 1) = 0 /\ EMailEnd(x, 2) = 0
    BY <1>4, <1>5, <1>6, NoEMail
  <1>8. email(x, 1) = NoEntity
    BY <1>7 DEF email, Recognized
  <1>9. Tag(x, 1, "#") = 2
    <2>1. 1 \in 1 .. Len(x) /\ 1 \in Nat /\ 1 + 1 = 2
      BY <1>4
    <2> QED BY <1>4, <2>1, OneIs DEF Tag
  <1>10. IsBehind(w, "#", x)
    <2>1. "#" \in Alphanumeric \cup Marks
      BY MarksApart
    <2> QED BY <1>2, <2>1, Behind
  <1>11. Base64End(w, 1) = Len(w) + 1 /\ Len(w) \in Nat
    BY <1>2, TextIs DEF ReadsAsBase64
  <1>12. Copy(w, 1, x, 2, Len(w), {}, TRUE) /\ Len(x) = Len(w) + 1
    BY <1>10 DEF IsBehind
  <1>13. Moved(w, 1, 2, Len(w), TRUE, 1, 2)
    BY <1>11, MovedStart
  <1>14. Moved(w, 1, 2, Len(w), TRUE, Base64End(w, 1), Base64End(x, 2))
    <2>1. (Base64 \cup {"="}) \cap {} = {}
      OBVIOUS
    <2> QED BY <1>12, <1>13, <2>1, Base64Moves
  <1>15. Base64End(x, 2) = 2 + Len(w)
    <2>1. PICK n \in Nat : n = Len(w)
      BY <1>11
    <2>2. 1 \in Nat \ {0} /\ 2 \in Nat /\ Base64End(w, 1) = 1 + n
      BY <1>11, <2>1
    <2>3. Moved(w, 1, 2, n, TRUE, 1 + n, Base64End(x, 2))
      BY <1>14, <2>1, <2>2
    <2> QED BY <2>1, <2>2, <2>3, MovedEnd
  <1>16. Base64End(x, 2) = Len(x) + 1 /\ Len(x) + 1 # 0
    BY <1>4, <1>11, <1>12, <1>15
  <1>17. SubSeq(x, 2, (Len(x) + 1) - 1) = w
    <2>1. PICK n \in Nat : n = Len(w)
      BY <1>11
    <2>2. SamePart(w, 1, x, 2, 0, n)
      <3>1. 0 \in 0 .. n /\ n \in 0 .. n
        BY <2>1
      <3> QED BY <1>12, <2>1, <3>1, PartMoves
    <2>3. 1 + 0 = 1 /\ (1 + n) - 1 = Len(w) /\ 2 + 0 = 2 /\ (2 + n) - 1 = (Len(x) + 1) - 1
      BY <1>12, <2>1
    <2>4. SubSeq(w, 1, Len(w)) = SubSeq(x, 2, (Len(x) + 1) - 1)
      BY <2>2, <2>3 DEF SamePart
    <2>5. SubSeq(w, 1, Len(w)) = w
      BY <1>2, SubSeqFull DEF Text
    <2> QED BY <2>4, <2>5
  <1>18. hash_value(x, 1) = Reading(Len(x) + 1, "HashValue", w)
    <2>1. hash_value(x, 1) = Recognized(x, 2, Base64End(x, 2), "HashValue")
      BY <1>7, <1>9 DEF hash_value
    <2>2. PICK l : l = Len(x) + 1
      OBVIOUS
    <2>3. Base64End(x, 2) = l /\ l # 0 /\ SubSeq(x, 2, l - 1) = w
      BY <1>16, <1>17, <2>2
    <2>4. Recognized(x, 2, l, "HashValue") = Reading(l, "HashValue", w)
      BY <2>3 DEF Recognized
    <2> QED BY <2>1, <2>2, <2>3, <2>4
  <1>19. hash_value(x, 1) # NoEntity
    BY <1>18, ReadingIs
  <1>20. entity(x, 1) = hash_value(x, 1)
    BY <1>8, <1>19, EntityIs DEF FirstOf
  <1> QED BY <1>1, <1>18, <1>20 DEF Alone

LEMMA TemplateAlone ==
  ASSUME NEW e, IsWritten(e), NEW x, x = EntityText(e), e.kind = "Template"
  PROVE  Alone(e, Len(x), entity(x, 1))
  <1>1. x \in Text /\ TemplateEnd(x, 1) = Len(x) + 1 /\ x = e.text /\ Len(x) + 1 # 0
    BY TextIs DEF EntityText, IsWritten
  <1>2. IsEntityText(e, x)
    BY EntityTextIs
  <1>3. Len(x) \in Nat \ {0} /\ OnlyOf(x, TemplateWords \cup {")"}) /\ 1 \in 1 .. Len(x) /\ 1 \in 1 .. Len(x) + 1
    BY <1>2 DEF IsEntityText
  <1>4. Lacks(x, "@") /\ x[1] # "#"
    <2>1. "@" \notin TemplateWords \cup {")"} /\ "#" \notin TemplateWords \cup {")"}
      BY MarksApart, WordsOf DEF TemplateWords, Punctuation
    <2> QED BY <1>3, <2>1, LacksAny DEF Lacks
  <1>5. email(x, 1) = NoEntity
    BY <1>1, <1>3, <1>4, NoEMail DEF email, Recognized
  <1>6. hash_value(x, 1) = NoEntity
    BY <1>1, <1>4, NotFirst, NoHash
  <1>7. template(x, 1) = Reading(Len(x) + 1, "Template", x)
    BY <1>1, WholePart DEF template, Recognized
  <1>8. template(x, 1) # NoEntity
    BY <1>7, ReadingIs
  <1>9. entity(x, 1) = template(x, 1)
    BY <1>5, <1>6, <1>8, EntityIs DEF FirstOf
  <1> QED BY <1>1, <1>7, <1>9 DEF Alone

\* What neither begins with # nor has @ nor ( is no address, hash or template.
LEMMA NotTheFirst ==
  ASSUME NEW x \in Text, NEW words, OnlyOf(x, words), Len(x) \in Nat \ {0},
         "@" \notin words, "(" \notin words, "#" \notin words
  PROVE  email(x, 1) = NoEntity /\ hash_value(x, 1) = NoEntity /\ template(x, 1) = NoEntity
  <1>1. Lacks(x, "@") /\ Lacks(x, "(") /\ Lacks(x, "#") /\ 1 \in 1 .. Len(x) /\ 1 \in 1 .. Len(x) + 1
    BY LacksAny
  <1>2. x[1] # "#"
    BY <1>1 DEF Lacks
  <1>3. email(x, 1) = NoEntity
    BY <1>1, NoEMail DEF email, Recognized
  <1>4. hash_value(x, 1) = NoEntity
    BY <1>2, NotFirst, NoHash
  <1>5. template(x, 1) = NoEntity
    BY <1>1, NoName DEF template, Recognized
  <1> QED BY <1>3, <1>4, <1>5

Prefixed(at, number) ==
    IF at = 0 \/ number = NoEntity THEN NoEntity ELSE [number EXCEPT !.text = <<"AS">> \o @]

LEMMA AsnAlone ==
  ASSUME NEW e, IsWritten(e), NEW x, x = EntityText(e), e.kind = "AS"
  PROVE  Alone(e, Len(x), entity(x, 1))
  <1>1. x \in Text /\ x = e.text /\ IsNumbered(x)
    BY DEF EntityText, IsWritten
  <1>2. PICK w : ReadsAsNumber(w) /\ x = <<"AS">> \o w
    BY <1>1 DEF IsNumbered
  <1>3. /\ w \in Text /\ Run1(w, 1, Digits) = Len(w) + 1 /\ Len(w) \in Nat
        /\ w \in DOMAIN Numbers /\ Numbers[w] = w
    BY <1>2, TextIs DEF ReadsAsNumber, Converts
  <1>4. IsEntityText(e, x)
    BY EntityTextIs
  <1>5. Len(x) \in Nat \ {0} /\ x[1] = "AS" /\ OnlyOf(x, Digits \cup {"AS"})
    BY <1>4 DEF IsEntityText
  <1>6. email(x, 1) = NoEntity /\ hash_value(x, 1) = NoEntity /\ template(x, 1) = NoEntity
    <2>1. PICK C : C = Digits \cup {"AS"}
      OBVIOUS
    <2>2. "@" \notin C /\ "(" \notin C /\ "#" \notin C
      BY <2>1, MarksApart, WordsOf DEF Punctuation
    <2> QED BY <1>1, <1>5, <2>1, <2>2, NotTheFirst
  <1>7. Tag(x, 1, "AS") = 2
    <2>1. 1 \in 1 .. Len(x) /\ 1 \in Nat /\ 1 + 1 = 2
      BY <1>5
    <2> QED BY <1>1, <1>5, <2>1, OneIs DEF Tag
  <1>8. IsBehind(w, "AS", x)
    <2>1. "AS" \in Alphanumeric \cup Marks
      BY WordAssumption DEF Alphanumeric
    <2> QED BY <1>2, <1>3, <2>1, Behind
  <1>9. Copy(w, 1, x, 2, Len(w), {}, TRUE) /\ Len(x) = Len(w) + 1
    BY <1>8 DEF IsBehind
  <1>10. PICK n \in Nat : n = Len(w)
    BY <1>3
  <1>11. 1 \in Nat \ {0} /\ 2 \in Nat /\ Run1(w, 1, Digits) = 1 + n /\ 2 + n = Len(x) + 1 /\ Len(x) + 1 # 0
    BY <1>3, <1>9, <1>10
  <1>12. Moved(w, 1, 2, n, TRUE, 1, 2)
    BY <1>11, MovedStart
  <1>13. Moved(w, 1, 2, n, TRUE, 1 + n, Run1(x, 2, Digits))
    <2>1. Digits \cap {} = {}
      OBVIOUS
    <2>2. Moved(w, 1, 2, n, TRUE, Run1(w, 1, Digits), Run1(x, 2, Digits))
      BY <1>9, <1>10, <1>12, <2>1, Run1Moves
    <2> QED BY <1>11, <2>2
  <1>14. Run1(x, 2, Digits) = Len(x) + 1
    BY <1>11, <1>13, MovedEnd
  <1>15. SubSeq(x, 2, (Len(x) + 1) - 1) = w
    <2>1. SamePart(w, 1, x, 2, 0, n)
      <3>1. 0 \in 0 .. n /\ n \in 0 .. n
        BY <1>10
      <3> QED BY <1>9, <1>10, <3>1, PartMoves
    <2>2. 1 + 0 = 1 /\ (1 + n) - 1 = Len(w) /\ 2 + 0 = 2 /\ (2 + n) - 1 = (Len(x) + 1) - 1
      BY <1>9, <1>10
    <2>3. SubSeq(w, 1, Len(w)) = SubSeq(x, 2, (Len(x) + 1) - 1)
      BY <2>1, <2>2 DEF SamePart
    <2>4. SubSeq(w, 1, Len(w)) = w
      BY <1>3, SubSeqFull DEF Text
    <2> QED BY <2>3, <2>4
  <1>16. Converted(x, 2, Len(x) + 1, "AS", Numbers) = Reading(Len(x) + 1, "AS", w)
    BY <1>3, <1>11, <1>15 DEF Converted
  <1>17. PICK c : c = Converted(x, 2, Len(x) + 1, "AS", Numbers)
    OBVIOUS
  <1>18. c = Reading(Len(x) + 1, "AS", w) /\ c # NoEntity
    BY <1>16, <1>17, ReadingIs
  <1>19. asn(x, 1) = [c EXCEPT !.text = <<"AS">> \o @]
    <2>1. c = Converted(x, 2, Run1(x, 2, Digits), "AS", Numbers)
      BY <1>14, <1>17
    <2>2. asn(x, 1) = Prefixed(2, c)
      BY <1>7, <2>1 DEF asn, Prefixed
    <2> QED BY <1>18, <2>2 DEF Prefixed
  <1>20. asn(x, 1) = Reading(Len(x) + 1, "AS", x)
    BY <1>2, <1>18, <1>19 DEF Reading
  <1>21. asn(x, 1) # NoEntity
    BY <1>20, ReadingIs
  <1>22. entity(x, 1) = asn(x, 1)
    BY <1>6, <1>21, EntityIs DEF FirstOf
  <1> QED BY <1>1, <1>20, <1>22 DEF Alone

LEMMA SignerAlone ==
  ASSUME NEW e, IsWritten(e), NEW x, x = EntityText(e), e.kind = "Signer"
  PROVE  Alone(e, Len(x), entity(x, 1))
  <1>1. x \in Text /\ x = e.text /\ IsSigner(x)
    BY DEF EntityText, IsWritten
  <1>2. IsEntityText(e, x)
    BY EntityTextIs
  <1>3. Len(x) \in Nat \ {0} /\ x[1] = "secp256k1:" /\ OnlyOf(x, Base64 \cup {"=", "secp256k1:"})
    BY <1>2 DEF IsEntityText
  <1>4. email(x, 1) = NoEntity /\ hash_value(x, 1) = NoEntity /\ template(x, 1) = NoEntity
    <2>1. PICK C : C = Base64 \cup {"=", "secp256k1:"}
      OBVIOUS
    <2>2. "@" \notin C /\ "(" \notin C
      BY <2>1, MarksApart DEF Base64, Punctuation
    <2>3. "#" \notin C
      BY <2>1, MarksApart DEF Base64
    <2> QED BY <1>1, <1>3, <2>1, <2>2, <2>3, NotTheFirst
  <1>5. asn(x, 1) = NoEntity
    <2>1. x[1] # "AS"
      BY <1>3
    <2> QED BY <1>1, <2>1, NotFirst, NoAsn
  <1>6. /\ Tag(x, 1, "secp256k1:") = 2 /\ Base64End(x, 2) = Len(x) + 1 /\ Len(x) + 1 # 0
        /\ SubSeq(x, 2, (Len(x) + 1) - 1) \in Keys
    <2>1. (Len(x) + 1) - 1 = Len(x) /\ Len(x) + 1 # 0
      BY <1>3
    <2> QED BY <1>1, <2>1 DEF IsSigner
  <1>7. signer(x, 1) = Reading(Len(x) + 1, "Signer", x)
    BY <1>1, <1>6, WholePart DEF signer, Recognized
  <1>8. signer(x, 1) # NoEntity
    BY <1>7, ReadingIs
  <1>9. entity(x, 1) = signer(x, 1)
    BY <1>4, <1>5, <1>8, EntityIs DEF FirstOf
  <1> QED BY <1>1, <1>7, <1>9 DEF Alone

LEMMA DomainAlone ==
  ASSUME NEW e, IsWritten(e), NEW x, x = EntityText(e), e.kind = "Domain"
  PROVE  Alone(e, Len(x), entity(x, 1))
  <1>1. x \in Text /\ x = e.text /\ DomainEnd(x, 1) = Len(x) + 1 /\ asn(x, 1) = NoEntity
    BY DEF EntityText, IsWritten
  <1>2. IsEntityText(e, x)
    BY EntityTextIs
  <1>3. Len(x) \in Nat \ {0} /\ OnlyOf(x, DomainWords) /\ 1 \in 1 .. Len(x)
    BY <1>2 DEF IsEntityText
  <1>4. "@" \notin DomainWords /\ "(" \notin DomainWords /\ "secp256k1:" \notin DomainWords
    BY MarksApart DEF DomainWords, Punctuation
  <1>5. "#" \notin DomainWords
    BY MarksApart DEF DomainWords
  <1>6. email(x, 1) = NoEntity /\ hash_value(x, 1) = NoEntity /\ template(x, 1) = NoEntity
    BY <1>1, <1>3, <1>4, <1>5, NotTheFirst
  <1>7. signer(x, 1) = NoEntity
    <2>1. x[1] # "secp256k1:"
      BY <1>3, <1>4 DEF OnlyOf
    <2> QED BY <1>1, <2>1, NotFirst, NoSigner
  <1>8. domain(x, 1) = Reading(Len(x) + 1, "Domain", x)
    <2>1. Len(x) + 1 # 0
      BY <1>3
    <2> QED BY <1>1, <2>1, WholePart DEF domain, Recognized
  <1>9. domain(x, 1) # NoEntity
    BY <1>8, ReadingIs
  <1>10. entity(x, 1) = domain(x, 1)
    BY <1>1, <1>6, <1>7, <1>9, EntityIs DEF FirstOf
  <1> QED BY <1>1, <1>8, <1>10 DEF Alone

LEMMA IPv4Alone ==
  ASSUME NEW e, IsWritten(e), NEW x, x = EntityText(e), e.kind = "IPv4"
  PROVE  Alone(e, Len(x), entity(x, 1))
  <1>1. x \in Text /\ x = e.text /\ IPv4End(x, 1) = Len(x) + 1 /\ x \in DOMAIN Addresses4 /\ Addresses4[x] = x
    BY DEF EntityText, IsWritten, ReadsAsRange4, Converts
  <1>2. IsEntityText(e, x)
    BY EntityTextIs
  <1>3. PICK C : C = Digits \cup {".", "/"}
    OBVIOUS
  <1>4. Len(x) \in Nat \ {0} /\ OnlyOf(x, C) /\ 1 \in 1 .. Len(x)
    BY <1>2, <1>3 DEF IsEntityText
  <1>5. "@" \notin C /\ "(" \notin C /\ "secp256k1:" \notin C
    BY <1>3, MarksApart, WordsOf DEF Punctuation
  <1>6. "#" \notin C
    BY <1>3, MarksApart, WordsOf
  <1>7. "AS" \notin C /\ C \cap Letters = {}
    BY <1>3, WordAssumption, MarksApart, WordsOf
  <1>8. email(x, 1) = NoEntity /\ hash_value(x, 1) = NoEntity /\ template(x, 1) = NoEntity
    BY <1>1, <1>4, <1>5, <1>6, NotTheFirst
  <1>9. x[1] # "secp256k1:" /\ x[1] # "AS"
    BY <1>4, <1>5, <1>7 DEF OnlyOf
  <1>10. signer(x, 1) = NoEntity /\ asn(x, 1) = NoEntity
    BY <1>1, <1>9, NotFirst, NoSigner, NoAsn
  <1>11. domain(x, 1) = NoEntity
    BY <1>1, <1>4, <1>7, NoDomain DEF domain, Recognized
  <1>12. ipv4(x, 1) = Reading(Len(x) + 1, "IPv4", x)
    <2>1. Len(x) + 1 # 0
      BY <1>4
    <2> QED BY <1>1, <2>1, WholePart DEF ipv4, Converted
  <1>13. ipv4(x, 1) # NoEntity
    BY <1>12, ReadingIs
  <1>14. entity(x, 1) = ipv4(x, 1)
    BY <1>8, <1>10, <1>11, <1>13, EntityIs DEF FirstOf
  <1> QED BY <1>1, <1>12, <1>14 DEF Alone

LEMMA IPv6Alone ==
  ASSUME NEW e, IsWritten(e), NEW x, x = EntityText(e), e.kind = "IPv6"
  PROVE  Alone(e, Len(x), entity(x, 1))
  <1>1. x \in Text /\ x = e.text /\ (x \in DOMAIN Addresses6 => Addresses6[x] = x) /\ ":" \in Range(x)
    BY DEF EntityText, IsWritten, IsWritten6
  <1>2. IsEntityText(e, x)
    BY EntityTextIs
  <1>3. PICK C : C = Hexadecimal \cup {":", ".", "/"}
    OBVIOUS
  <1>4. Len(x) \in Nat \ {0} /\ OnlyOf(x, C) /\ 1 \in 1 .. Len(x) /\ 1 \in 1 .. Len(x) + 1
    BY <1>2, <1>3 DEF IsEntityText
  <1>5. PICK p \in 1 .. Len(x) : x[p] = ":"
    BY <1>1, TextIs DEF Range
  <1>6. "@" \notin C /\ "(" \notin C /\ "secp256k1:" \notin C
    BY <1>3, MarksApart DEF Punctuation
  <1>7. "#" \notin C
    BY <1>3, MarksApart
  <1>8. "AS" \notin C
    BY <1>3, WordAssumption
  <1>9. email(x, 1) = NoEntity /\ hash_value(x, 1) = NoEntity /\ template(x, 1) = NoEntity
    BY <1>1, <1>4, <1>6, <1>7, NotTheFirst
  <1>10. x[1] # "secp256k1:" /\ x[1] # "AS"
    BY <1>4, <1>6, <1>8 DEF OnlyOf
  <1>11. signer(x, 1) = NoEntity /\ asn(x, 1) = NoEntity
    BY <1>1, <1>10, NotFirst, NoSigner, NoAsn
  <1>12. PICK d : d = DomainEnd(x, 1)
    OBVIOUS
  <1>13. d \in 0 .. Len(x)
    <2>1. Ahead(x, 1, 1, DomainWords)
      BY <1>1, <1>4, AheadNow
    <2>2. Ahead(x, 1, d, DomainWords)
      BY <1>1, <1>4, <1>12, <2>1, DomainAhead
    <2>3. ":" \notin DomainWords
      BY MarksApart DEF DomainWords, Punctuation
    <2>4. d # Len(x) + 1
      <3> SUFFICES ASSUME d = Len(x) + 1
                   PROVE  FALSE
        OBVIOUS
      <3>1. OnlyOf(x, DomainWords)
        BY <1>1, <2>2, OnlyAhead
      <3> QED BY <1>5, <2>3, <3>1 DEF OnlyOf
    <2> QED BY <1>4, <2>2, <2>4 DEF Ahead
  <1>14. PICK f : f = IPv4End(x, 1)
    OBVIOUS
  <1>15. f \in 0 .. Len(x)
    <2>1. PICK D : D = Digits \cup {".", "/"}
      OBVIOUS
    <2>2. Ahead(x, 1, 1, D)
      BY <1>1, <1>4, AheadNow
    <2>3. Ahead(x, 1, f, D)
      BY <1>1, <1>4, <1>14, <2>1, <2>2, IPv4Ahead
    <2>4. ":" \notin D
      BY <2>1, MarksApart, WordsOf DEF Punctuation
    <2>5. f # Len(x) + 1
      <3> SUFFICES ASSUME f = Len(x) + 1
                   PROVE  FALSE
        OBVIOUS
      <3>1. OnlyOf(x, D)
        BY <1>1, <2>3, OnlyAhead
      <3> QED BY <1>5, <2>4, <3>1 DEF OnlyOf
    <2> QED BY <1>4, <2>3, <2>5 DEF Ahead
  <1>16. PICK g : g = IPv6End(x, 1)
    OBVIOUS
  <1>17. g \in 0 .. Len(x) + 1
    <2>1. PICK D : D = Hexadecimal \cup {":", "/"}
      OBVIOUS
    <2>2. Ahead(x, 1, 1, D)
      BY <1>1, <1>4, AheadNow
    <2>3. Ahead(x, 1, g, D)
      BY <1>1, <1>4, <1>16, <2>1, <2>2, IPv6Ahead
    <2> QED BY <1>4, <2>3 DEF Ahead
  <1>18. CASE domain(x, 1) # NoEntity
    <2>1. entity(x, 1) = domain(x, 1)
      BY <1>9, <1>11, <1>18, EntityIs DEF FirstOf
    <2>2. d # 0 /\ domain(x, 1) = Reading(d, "Domain", SubSeq(x, 1, d - 1))
      BY <1>12, <1>18 DEF domain, Recognized
    <2>3. domain(x, 1) # Panic /\ domain(x, 1).next = d
      BY <2>2, ReadingIs
    <2> QED BY <1>4, <1>13, <2>1, <2>2, <2>3 DEF Alone
  <1>19. CASE domain(x, 1) = NoEntity /\ ipv4(x, 1) # NoEntity
    <2>1. entity(x, 1) = ipv4(x, 1)
      BY <1>9, <1>11, <1>19, EntityIs DEF FirstOf
    <2>2. f # 0 /\ \E a \in Range(Addresses4) : ipv4(x, 1) = Reading(f, "IPv4", a)
      BY <1>14, <1>19, ConvertedIs DEF ipv4
    <2>3. ipv4(x, 1) # Panic /\ ipv4(x, 1).next = f
      BY <2>2, ReadingIs
    <2> QED BY <1>4, <1>15, <2>1, <2>2, <2>3 DEF Alone
  <1>20. CASE domain(x, 1) = NoEntity /\ ipv4(x, 1) = NoEntity
    <2>1. entity(x, 1) = ipv6(x, 1)
      BY <1>9, <1>11, <1>20, EntityIs DEF FirstOf
    <2>2. CASE ipv6(x, 1) = NoEntity
      BY <2>1, <2>2 DEF Alone
    <2>3. CASE ipv6(x, 1) # NoEntity
      <3>1. g # 0 /\ \E a \in Range(Addresses6) : ipv6(x, 1) = Reading(g, "IPv6", a)
        BY <1>16, <2>3, ConvertedIs DEF ipv6
      <3>2. ipv6(x, 1) # Panic /\ ipv6(x, 1).next = g
        BY <3>1, ReadingIs
      <3>3. CASE g \in 1 .. Len(x)
        BY <2>1, <3>2, <3>3 DEF Alone
      <3>4. CASE g = Len(x) + 1
        <4>1. SubSeq(x, 1, g - 1) = x
          BY <1>1, <3>4, WholePart
        <4>2. x \in DOMAIN Addresses6 /\ ipv6(x, 1) = Reading(g, "IPv6", Addresses6[x])
          BY <1>16, <2>3, <4>1 DEF ipv6, Converted
        <4>3. ipv6(x, 1) = Reading(Len(x) + 1, "IPv6", x)
          BY <1>1, <3>4, <4>2
        <4> QED BY <1>1, <2>1, <4>3 DEF Alone
      <3> QED BY <1>4, <1>17, <3>1, <3>3, <3>4
    <2> QED BY <2>2, <2>3
  <1> QED BY <1>18, <1>19, <1>20

LEMMA ReadAlone ==
  ASSUME NEW e, IsWritten(e), NEW x, x = EntityText(e)
  PROVE  Alone(e, Len(x), entity(x, 1))
  <1>1. e.kind \in {"EMail", "HashValue", "Template", "AS", "Signer", "Domain", "IPv4", "IPv6"}
    BY DEF IsWritten
  <1> QED BY <1>1, EMailAlone, HashAlone, TemplateAlone, AsnAlone, SignerAlone, DomainAlone, IPv4Alone,
             IPv6Alone

-----------------------------------------------------------------------------
(* The text of an entity, read inside of another *)

\* What may stand behind the text of an entity.
Stops == {",", ")", " "}

Kinds == {"EMail", "HashValue", "Template", "AS", "Signer", "Domain", "IPv4", "IPv6"}

LEMMA StopsApart ==
  /\ PlainWords \cap Stops = {} /\ (Letters \cup {"_"}) \cap Stops = {}
  /\ "(" \notin Stops /\ "#" \notin Stops /\ "AS" \notin Stops /\ "secp256k1:" \notin Stops
  /\ "(" \notin PlainWords
  <1>1. Stops \subseteq Punctuation
    BY DEF Stops, Punctuation
  <1>2. Local \cap Stops = {}
    BY <1>1, MarksApart
  <1>3. {"@", ":", "secp256k1:", "(", "#", "AS"} \cap Stops = {}
    BY DEF Stops
  <1>4. PlainWords \cap Stops = {}
    BY <1>2, <1>3 DEF PlainWords
  <1>5. (Letters \cup {"_"}) \cap Stops = {}
    <2>1. Letters \cup {"_"} \subseteq PlainWords
      BY PlainSets, WordsOf, MarksApart DEF PlainWords, Local
    <2> QED BY <1>4, <2>1
  <1>6. "(" \notin PlainWords
    BY MarksApart DEF PlainWords, Punctuation
  <1> QED BY <1>3, <1>4, <1>5, <1>6

\* x stands in u at k.
Stands(x, u, k) ==
    /\ x \in Text /\ u \in Text /\ Len(x) \in Nat \ {0} /\ k \in Nat \ {0}
    /\ Copy(x, 1, u, k, Len(x), Stops, TRUE)

\* The same reading of the one and of the other.
Alike(r, s, k, n) ==
    \/ r = NoEntity /\ s = NoEntity
    \/ r = Panic /\ s = Panic
    \/ \E d \in 0 .. n : \E kind \in Kinds : \E x :
          r = Reading(1 + d, kind, x) /\ s = Reading(k + d, kind, x)

LEMMA AlikeFails ==
  ASSUME NEW r, NEW s, NEW k, NEW n, Alike(r, s, k, n)
  PROVE  r = NoEntity <=> s = NoEntity
  <1>1. ASSUME NEW d, NEW kind \in Kinds, NEW x
        PROVE  Reading(d, kind, x) # NoEntity
    <2>1. kind # "none"
      BY DEF Kinds
    <2> QED BY <2>1, ReadingIs
  <1> QED BY <1>1, PanicIs DEF Alike

SamePlace(x, u, k, a, p, q) ==
    \/ p = 0 /\ q = 0
    \/ \E b \in a .. Len(x) : /\ p = 1 + b /\ q = k + b /\ p # 0 /\ q # 0
                              /\ SubSeq(x, 1 + a, p - 1) = SubSeq(u, k + a, q - 1)

\* Where what is read from a up to p of the one is read up to q of the other.
LEMMA SamePlaces ==
  ASSUME NEW x, NEW u, NEW k, Stands(x, u, k), NEW a \in 0 .. Len(x), NEW p, NEW q,
         p = 0 \/ p \in 1 + a .. Len(x) + 1, Moved(x, 1, k, Len(x), TRUE, p, q)
  PROVE  SamePlace(x, u, k, a, p, q)
  <1>1. PICK n \in Nat : n = Len(x)
    BY DEF Stands
  <1>2. k \in Nat \ {0} /\ a \in Nat
    BY <1>1 DEF Stands
  <1>3. CASE p = 0
    <2>1. \A d \in 0 .. n : 1 + d # 0
      BY <1>1
    <2>2. Moved(x, 1, k, n, TRUE, p, q)
      BY <1>1
    <2>3. q = 0
      BY <1>3, <2>1, <2>2 DEF Moved
    <2> QED BY <1>3, <2>3 DEF SamePlace
  <1>4. CASE p # 0
    <2>1. PICK b \in 0 .. n : p = 1 + b /\ q = k + b
      BY <1>1, <1>4 DEF Moved
    <2>2. b \in a .. n
      <3>1. p \in 1 + a .. n + 1
        BY <1>1, <1>4
      <3>2. 1 + b \in 1 + a .. n + 1
        BY <2>1, <3>1
      <3> QED BY <1>1, <1>2, <3>2
    <2>3. SamePart(x, 1, u, k, a, b)
      BY <1>1, <2>2, PartMoves DEF Stands
    <2>4. SubSeq(x, 1 + a, p - 1) = SubSeq(u, k + a, q - 1)
      BY <2>1, <2>3 DEF SamePart
    <2>5. p # 0 /\ q # 0
      BY <1>2, <1>4, <2>1
    <2> QED BY <1>1, <2>1, <2>2, <2>4, <2>5 DEF SamePlace
  <1> QED BY <1>3, <1>4

LEMMA RecognizedAlike ==
  ASSUME NEW x, NEW u, NEW k, Stands(x, u, k), NEW a \in 0 .. Len(x), NEW p, NEW q,
         SamePlace(x, u, k, a, p, q), NEW kind \in Kinds
  PROVE  Alike(Recognized(x, 1 + a, p, kind), Recognized(u, k + a, q, kind), k, Len(x))
  <1>1. PICK r : r = Recognized(x, 1 + a, p, kind)
    OBVIOUS
  <1>2. PICK s : s = Recognized(u, k + a, q, kind)
    OBVIOUS
  <1>3. PICK n \in Nat : n = Len(x)
    BY DEF Stands
  <1>4. CASE p = 0 /\ q = 0
    <2>1. r = NoEntity /\ s = NoEntity
      BY <1>1, <1>2, <1>4 DEF Recognized
    <2> QED BY <1>1, <1>2, <2>1 DEF Alike
  <1>5. CASE ~(p = 0 /\ q = 0)
    <2>1. PICK b \in a .. n : /\ p = 1 + b /\ q = k + b /\ p # 0 /\ q # 0
                              /\ SubSeq(x, 1 + a, p - 1) = SubSeq(u, k + a, q - 1)
      BY <1>3, <1>5 DEF SamePlace
    <2>2. PICK y : y = SubSeq(x, 1 + a, p - 1)
      OBVIOUS
    <2>3. r = Reading(p, kind, y) /\ s = Reading(q, kind, y)
      BY <1>1, <1>2, <2>1, <2>2 DEF Recognized
    <2>4. b \in 0 .. n
      BY <1>3
    <2>5. r = Reading(1 + b, kind, y) /\ s = Reading(k + b, kind, y)
      BY <2>1, <2>3
    <2>6. Alike(r, s, k, n)
      BY <2>4, <2>5 DEF Alike
    <2> QED BY <1>1, <1>2, <1>3, <2>6
  <1> QED BY <1>4, <1>5

LEMMA ConvertedAlike ==
  ASSUME NEW x, NEW u, NEW k, Stands(x, u, k), NEW a \in 0 .. Len(x), NEW p, NEW q,
         SamePlace(x, u, k, a, p, q), NEW kind \in Kinds, NEW table
  PROVE  Alike(Converted(x, 1 + a, p, kind, table), Converted(u, k + a, q, kind, table), k, Len(x))
  <1>1. PICK r : r = Converted(x, 1 + a, p, kind, table)
    OBVIOUS
  <1>2. PICK s : s = Converted(u, k + a, q, kind, table)
    OBVIOUS
  <1>3. PICK n \in Nat : n = Len(x)
    BY DEF Stands
  <1>4. CASE p = 0 /\ q = 0
    <2>1. r = NoEntity /\ s = NoEntity
      BY <1>1, <1>2, <1>4 DEF Converted
    <2> QED BY <1>1, <1>2, <2>1 DEF Alike
  <1>5. CASE ~(p = 0 /\ q = 0)
    <2>1. PICK b \in a .. n : /\ p = 1 + b /\ q = k + b /\ p # 0 /\ q # 0
                              /\ SubSeq(x, 1 + a, p - 1) = SubSeq(u, k + a, q - 1)
      BY <1>3, <1>5 DEF SamePlace
    <2>2. PICK y : y = SubSeq(x, 1 + a, p - 1)
      OBVIOUS
    <2>3. y = SubSeq(u, k + a, q - 1)
      BY <2>1, <2>2
    <2>4. CASE y \notin DOMAIN table
      <3>1. r = NoEntity
        BY <1>1, <2>1, <2>2, <2>4 DEF Converted
      <3>2. s = NoEntity
        BY <1>2, <2>1, <2>3, <2>4 DEF Converted
      <3>3. Alike(r, s, k, n)
        BY <3>1, <3>2 DEF Alike
      <3> QED BY <1>1, <1>2, <1>3, <3>3
    <2>5. CASE y \in DOMAIN table
      <3>1. r = Reading(p, kind, table[y])
        BY <1>1, <2>1, <2>2, <2>5 DEF Converted
      <3>2. s = Reading(q, kind, table[y])
        BY <1>2, <2>1, <2>3, <2>5 DEF Converted
      <3>3. b \in 0 .. n
        BY <1>3
      <3>4. r = Reading(1 + b, kind, table[y]) /\ s = Reading(k + b, kind, table[y])
        BY <2>1, <3>1, <3>2
      <3>5. Alike(r, s, k, n)
        BY <3>3, <3>4 DEF Alike
      <3> QED BY <1>1, <1>2, <1>3, <3>5
    <2> QED BY <2>4, <2>5
  <1> QED BY <1>4, <1>5

\* The start, and what is read from there.
LEMMA StandsMoves ==
  ASSUME NEW x, NEW u, NEW k, Stands(x, u, k)
  PROVE  /\ Moved(x, 1, k, Len(x), TRUE, 1, k) /\ 1 \in 1 .. Len(x) + 1
         /\ k \in 1 .. Len(u) + 1 /\ 0 \in 0 .. Len(x) /\ 1 \in 0 .. Len(x)
         /\ 1 + 0 = 1 /\ k + 0 = k
         /\ \A words : Ahead(x, 1, 1, words)
  <1>1. Len(x) \in Nat \ {0} /\ k \in Nat /\ 1 \in Nat /\ x \in Text
    BY DEF Stands
  <1>2. Moved(x, 1, k, Len(x), TRUE, 1, k)
    BY <1>1, MovedStart
  <1>3. k \in 1 .. Len(u) + 1
    BY DEF Stands, Copy
  <1>4. 1 \in 1 .. Len(x) + 1
    BY <1>1
  <1>5. \A words : Ahead(x, 1, 1, words)
    BY <1>1, <1>4, AheadNow
  <1>6. 0 \in 0 .. Len(x) /\ 1 \in 0 .. Len(x) /\ 1 + 0 = 1 /\ k + 0 = k
    BY <1>1
  <1> QED BY <1>2, <1>3, <1>4, <1>5, <1>6

\* A word first in both or in none.
WordIn(x, u, k, word, p, q) ==
    \/ p = 0 /\ q = 0
    \/ p = 2 /\ q = k + 1

LEMMA FirstWord ==
  ASSUME NEW x, NEW u, NEW k, Stands(x, u, k), NEW word, word \notin Stops
  PROVE  /\ WordIn(x, u, k, word, Tag(x, 1, word), Tag(u, k, word))
         /\ Moved(x, 1, k, Len(x), TRUE, Tag(x, 1, word), Tag(u, k, word))
  <1>1. PICK n \in Nat : n = Len(x)
    BY DEF Stands
  <1>2. PICK p : p = Tag(x, 1, word)
    OBVIOUS
  <1>3. PICK q : q = Tag(u, k, word)
    OBVIOUS
  <1>4. Moved(x, 1, k, n, TRUE, p, q)
    <2>1. Moved(x, 1, k, n, TRUE, 1, k) /\ Copy(x, 1, u, k, n, Stops, TRUE)
      BY <1>1, StandsMoves DEF Stands
    <2> QED BY <1>2, <1>3, <2>1, TagMoves
  <1>5. p = 0 \/ p = 2
    <2>1. x \in Text /\ 1 \in Nat
      BY DEF Stands
    <2> QED BY <1>2, <2>1, OneIs DEF Tag
  <1>6. k \in Nat \ {0} /\ 1 \in Nat \ {0}
    BY DEF Stands
  <1>7. CASE p = 0
    <2>1. q = 0
      <3>1. \A d \in 0 .. n : 1 + d # 0
        BY <1>1
      <3> QED BY <1>4, <1>7, <3>1 DEF Moved
    <2> QED BY <1>1, <1>2, <1>3, <1>4, <1>7, <2>1 DEF WordIn
  <1>8. CASE p = 2
    <2>1. PICK d \in 0 .. n : p = 1 + d /\ q = k + d
      BY <1>4, <1>8 DEF Moved
    <2>2. d = 1
      BY <1>1, <1>8, <2>1
    <2> QED BY <1>1, <1>2, <1>3, <1>4, <1>8, <2>1, <2>2 DEF WordIn
  <1> QED BY <1>5, <1>7, <1>8

LEMMA AtFirst ==
  ASSUME NEW x, NEW u, NEW k, Stands(x, u, k), NEW words, NEW p, NEW q,
         Ahead(x, 1, p, words), Moved(x, 1, k, Len(x), TRUE, p, q)
  PROVE  SamePlace(x, u, k, 0, p, q)
  <1>1. Len(x) \in Nat /\ 0 \in 0 .. Len(x) /\ 1 + 0 = 1
    BY DEF Stands
  <1>2. p = 0 \/ p \in 1 + 0 .. Len(x) + 1
    BY <1>1 DEF Ahead
  <1> QED BY <1>1, <1>2, SamePlaces

LEMMA AtSecond ==
  ASSUME NEW x, NEW u, NEW k, Stands(x, u, k), NEW words, NEW p, NEW q,
         Ahead(x, 2, p, words), Moved(x, 1, k, Len(x), TRUE, p, q)
  PROVE  SamePlace(x, u, k, 1, p, q)
  <1>1. Len(x) \in Nat \ {0} /\ 1 \in 0 .. Len(x) /\ 1 + 1 = 2
    BY DEF Stands
  <1>2. p = 0 \/ p \in 1 + 1 .. Len(x) + 1
    BY <1>1 DEF Ahead
  <1> QED BY <1>1, <1>2, SamePlaces

LEMMA RecognizedFirst ==
  ASSUME NEW x, NEW u, NEW k, Stands(x, u, k), NEW p, NEW q,
         SamePlace(x, u, k, 0, p, q), NEW kind \in Kinds
  PROVE  Alike(Recognized(x, 1, p, kind), Recognized(u, k, q, kind), k, Len(x))
  <1>1. 0 \in 0 .. Len(x) /\ 1 + 0 = 1 /\ k + 0 = k
    BY StandsMoves
  <1>2. Alike(Recognized(x, 1 + 0, p, kind), Recognized(u, k + 0, q, kind), k, Len(x))
    BY <1>1, RecognizedAlike
  <1> QED BY <1>1, <1>2

LEMMA ConvertedFirst ==
  ASSUME NEW x, NEW u, NEW k, Stands(x, u, k), NEW p, NEW q,
         SamePlace(x, u, k, 0, p, q), NEW kind \in Kinds, NEW table
  PROVE  Alike(Converted(x, 1, p, kind, table), Converted(u, k, q, kind, table), k, Len(x))
  <1>1. 0 \in 0 .. Len(x) /\ 1 + 0 = 1 /\ k + 0 = k
    BY StandsMoves
  <1>2. Alike(Converted(x, 1 + 0, p, kind, table), Converted(u, k + 0, q, kind, table), k, Len(x))
    BY <1>1, ConvertedAlike
  <1> QED BY <1>1, <1>2

\* The start of the second word.
LEMMA SecondWord ==
  ASSUME NEW x, NEW u, NEW k, Stands(x, u, k)
  PROVE  2 \in 1 .. Len(x) + 1 /\ k + 1 # 0 /\ \A words : Ahead(x, 2, 2, words)
  <1>1. x \in Text /\ Len(x) \in Nat \ {0}
    BY DEF Stands
  <1>2. 2 \in 1 .. Len(x) + 1
    BY <1>1
  <1>3. \A words : Ahead(x, 2, 2, words)
    BY <1>1, <1>2, AheadNow
  <1>4. k + 1 # 0
    BY DEF Stands
  <1> QED BY <1>2, <1>3, <1>4

LEMMA EMailAlike ==
  ASSUME NEW x, NEW u, NEW k, Stands(x, u, k)
  PROVE  Alike(email(x, 1), email(u, k), k, Len(x))
  <1>1. PICK p : p = EMailEnd(x, 1)
    OBVIOUS
  <1>2. PICK q : q = EMailEnd(u, k)
    OBVIOUS
  <1>3. (Local \cup {"@"}) \cap Stops = {}
    BY StopsApart, PlainSets
  <1>4. Moved(x, 1, k, Len(x), TRUE, p, q)
    <2>1. Moved(x, 1, k, Len(x), TRUE, 1, k) /\ Copy(x, 1, u, k, Len(x), Stops, TRUE)
      BY StandsMoves DEF Stands
    <2> QED BY <1>1, <1>2, <1>3, <2>1, EMailMoves
  <1>5. Ahead(x, 1, p, Local \cup {"@"})
    <2>1. x \in Text /\ 1 \in 1 .. Len(x) + 1 /\ Ahead(x, 1, 1, Local \cup {"@"})
      BY StandsMoves DEF Stands
    <2> QED BY <1>1, <2>1, EMailAhead
  <1>6. SamePlace(x, u, k, 0, p, q)
    BY <1>4, <1>5, AtFirst
  <1>7. "EMail" \in Kinds
    BY DEF Kinds
  <1>8. Alike(Recognized(x, 1, p, "EMail"), Recognized(u, k, q, "EMail"), k, Len(x))
    BY <1>6, <1>7, RecognizedFirst
  <1> QED BY <1>1, <1>2, <1>8 DEF email

LEMMA DomainAlike ==
  ASSUME NEW x, NEW u, NEW k, Stands(x, u, k)
  PROVE  Alike(domain(x, 1), domain(u, k), k, Len(x))
  <1>1. PICK p : p = DomainEnd(x, 1)
    OBVIOUS
  <1>2. PICK q : q = DomainEnd(u, k)
    OBVIOUS
  <1>3. DomainWords \cap Stops = {}
    BY StopsApart, PlainSets
  <1>4. Moved(x, 1, k, Len(x), TRUE, p, q)
    <2>1. Moved(x, 1, k, Len(x), TRUE, 1, k) /\ Copy(x, 1, u, k, Len(x), Stops, TRUE)
      BY StandsMoves DEF Stands
    <2> QED BY <1>1, <1>2, <1>3, <2>1, DomainMoves
  <1>5. Ahead(x, 1, p, DomainWords)
    <2>1. x \in Text /\ 1 \in 1 .. Len(x) + 1 /\ Ahead(x, 1, 1, DomainWords)
      BY StandsMoves DEF Stands
    <2> QED BY <1>1, <2>1, DomainAhead
  <1>6. SamePlace(x, u, k, 0, p, q)
    BY <1>4, <1>5, AtFirst
  <1>7. "Domain" \in Kinds
    BY DEF Kinds
  <1>8. Alike(Recognized(x, 1, p, "Domain"), Recognized(u, k, q, "Domain"), k, Len(x))
    BY <1>6, <1>7, RecognizedFirst
  <1> QED BY <1>1, <1>2, <1>8 DEF domain

LEMMA IPv4Alike ==
  ASSUME NEW x, NEW u, NEW k, Stands(x, u, k)
  PROVE  Alike(ipv4(x, 1), ipv4(u, k), k, Len(x))
  <1>1. PICK p : p = IPv4End(x, 1)
    OBVIOUS
  <1>2. PICK q : q = IPv4End(u, k)
    OBVIOUS
  <1>3. PICK C : C = Digits \cup {".", "/"}
    OBVIOUS
  <1>4. Moved(x, 1, k, Len(x), TRUE, p, q)
    <2>1. Moved(x, 1, k, Len(x), TRUE, 1, k) /\ Copy(x, 1, u, k, Len(x), Stops, TRUE)
      BY StandsMoves DEF Stands
    <2>2. (Digits \cup {".", "/"}) \cap Stops = {}
      BY StopsApart, PlainSets
    <2> QED BY <1>1, <1>2, <2>1, <2>2, IPv4Moves
  <1>5. Ahead(x, 1, p, C)
    <2>1. x \in Text /\ 1 \in 1 .. Len(x) + 1 /\ Ahead(x, 1, 1, C)
      BY StandsMoves DEF Stands
    <2> QED BY <1>1, <1>3, <2>1, IPv4Ahead
  <1>6. SamePlace(x, u, k, 0, p, q)
    BY <1>4, <1>5, AtFirst
  <1>7. "IPv4" \in Kinds
    BY DEF Kinds
  <1>8. Alike(Converted(x, 1, p, "IPv4", Addresses4), Converted(u, k, q, "IPv4", Addresses4), k, Len(x))
    BY <1>6, <1>7, ConvertedFirst
  <1> QED BY <1>1, <1>2, <1>8 DEF ipv4

LEMMA IPv6Alike ==
  ASSUME NEW x, NEW u, NEW k, Stands(x, u, k)
  PROVE  Alike(ipv6(x, 1), ipv6(u, k), k, Len(x))
  <1>1. PICK p : p = IPv6End(x, 1)
    OBVIOUS
  <1>2. PICK q : q = IPv6End(u, k)
    OBVIOUS
  <1>3. PICK C : C = Hexadecimal \cup {":", "/"}
    OBVIOUS
  <1>4. Moved(x, 1, k, Len(x), TRUE, p, q)
    <2>1. Moved(x, 1, k, Len(x), TRUE, 1, k) /\ Copy(x, 1, u, k, Len(x), Stops, TRUE)
      BY StandsMoves DEF Stands
    <2>2. (Hexadecimal \cup {":", "/"}) \cap Stops = {}
      BY StopsApart, PlainSets
    <2> QED BY <1>1, <1>2, <2>1, <2>2, IPv6Moves
  <1>5. Ahead(x, 1, p, C)
    <2>1. x \in Text /\ 1 \in 1 .. Len(x) + 1 /\ Ahead(x, 1, 1, C)
      BY StandsMoves DEF Stands
    <2> QED BY <1>1, <1>3, <2>1, IPv6Ahead
  <1>6. SamePlace(x, u, k, 0, p, q)
    BY <1>4, <1>5, AtFirst
  <1>7. "IPv6" \in Kinds
    BY DEF Kinds
  <1>8. Alike(Converted(x, 1, p, "IPv6", Addresses6), Converted(u, k, q, "IPv6", Addresses6), k, Len(x))
    BY <1>6, <1>7, ConvertedFirst
  <1> QED BY <1>1, <1>2, <1>8 DEF ipv6

LEMMA HashAlike ==
  ASSUME NEW x, NEW u, NEW k, Stands(x, u, k)
  PROVE  Alike(hash_value(x, 1), hash_value(u, k), k, Len(x))
  <1>1. PICK a : a = Tag(x, 1, "#")
    OBVIOUS
  <1>2. PICK b : b = Tag(u, k, "#")
    OBVIOUS
  <1>3. WordIn(x, u, k, "#", a, b) /\ Moved(x, 1, k, Len(x), TRUE, a, b)
    BY <1>1, <1>2, FirstWord, StopsApart
  <1>4. CASE a = 0 /\ b = 0
    <2>1. hash_value(x, 1) = NoEntity /\ hash_value(u, k) = NoEntity
      BY <1>1, <1>2, <1>4 DEF hash_value
    <2> QED BY <2>1 DEF Alike
  <1>5. CASE a = 2 /\ b = k + 1
    <2>1. x \in Text /\ 2 \in 1 .. Len(x) + 1 /\ Ahead(x, 2, 2, Local \cup {"@"})
          /\ Ahead(x, 2, 2, Base64 \cup {"="}) /\ b # 0
      <3>1. x \in Text
        BY DEF Stands
      <3> QED BY <1>5, <3>1, SecondWord
    <2>2. Moved(x, 1, k, Len(x), TRUE, 2, k + 1) /\ Copy(x, 1, u, k, Len(x), Stops, TRUE)
      BY <1>3, <1>5 DEF Stands
    <2>3. (Local \cup {"@"}) \cap Stops = {} /\ (Base64 \cup {"="}) \cap Stops = {}
      BY StopsApart, PlainSets
    <2>4. PICK p : p = EMailEnd(x, 2)
      OBVIOUS
    <2>5. PICK q : q = EMailEnd(u, k + 1)
      OBVIOUS
    <2>6. SamePlace(x, u, k, 1, p, q)
      <3>1. Moved(x, 1, k, Len(x), TRUE, p, q)
        BY <2>2, <2>3, <2>4, <2>5, EMailMoves
      <3>2. Ahead(x, 2, p, Local \cup {"@"})
        BY <2>1, <2>4, EMailAhead
      <3> QED BY <3>1, <3>2, AtSecond
    <2>7. CASE p = 0 /\ q = 0
      <3>1. PICK y : y = Base64End(x, 2)
        OBVIOUS
      <3>2. PICK z : z = Base64End(u, k + 1)
        OBVIOUS
      <3>3. SamePlace(x, u, k, 1, y, z)
        <4>1. Moved(x, 1, k, Len(x), TRUE, y, z)
          BY <2>2, <2>3, <3>1, <3>2, Base64Moves
        <4>2. Ahead(x, 2, y, Base64 \cup {"="})
          BY <2>1, <3>1, Base64Ahead
        <4> QED BY <4>1, <4>2, AtSecond
      <3>4. "HashValue" \in Kinds /\ 1 \in 0 .. Len(x) /\ 1 + 1 = 2
        <4>1. "HashValue" \in Kinds
          BY DEF Kinds
        <4>2. 1 \in 0 .. Len(x)
          BY StandsMoves
        <4> QED BY <4>1, <4>2
      <3>5. Alike(Recognized(x, 1 + 1, y, "HashValue"), Recognized(u, k + 1, z, "HashValue"), k, Len(x))
        BY <3>3, <3>4, RecognizedAlike
      <3>6. Alike(Recognized(x, 2, y, "HashValue"), Recognized(u, k + 1, z, "HashValue"), k, Len(x))
        BY <3>4, <3>5
      <3>7. hash_value(x, 1) = Recognized(x, 2, y, "HashValue")
        BY <1>1, <1>5, <2>4, <2>7, <3>1 DEF hash_value
      <3>8. hash_value(u, k) = Recognized(u, k + 1, z, "HashValue")
        <4>1. b # 0
          BY <2>1
        <4> QED BY <1>2, <1>5, <2>5, <2>7, <3>2, <4>1 DEF hash_value
      <3> QED BY <3>6, <3>7, <3>8
    <2>8. CASE ~(p = 0 /\ q = 0)
      <3>1. PICK c \in 1 .. Len(x) : /\ p = 1 + c /\ q = k + c /\ p # 0 /\ q # 0
                                     /\ SubSeq(x, 1 + 1, p - 1) = SubSeq(u, k + 1, q - 1)
        BY <2>6, <2>8 DEF SamePlace
      <3>2. PICK w : w = Digest(SubSeq(x, 2, p - 1))
        OBVIOUS
      <3>3. SubSeq(x, 2, p - 1) = SubSeq(u, k + 1, q - 1)
        <4>1. 1 + 1 = 2
          OBVIOUS
        <4> QED BY <3>1, <4>1
      <3>4. w = Digest(SubSeq(u, k + 1, q - 1))
        BY <3>2, <3>3
      <3>5. hash_value(x, 1) = Reading(p, "HashValue", w)
        BY <1>1, <1>5, <2>4, <3>1, <3>2 DEF hash_value
      <3>6. hash_value(u, k) = Reading(q, "HashValue", w)
        BY <1>2, <1>5, <2>1, <2>5, <3>1, <3>4 DEF hash_value
      <3>7. c \in 0 .. Len(x) /\ "HashValue" \in Kinds
        BY DEF Kinds, Stands
      <3>8. hash_value(x, 1) = Reading(1 + c, "HashValue", w) /\ hash_value(u, k) = Reading(k + c, "HashValue", w)
        BY <3>1, <3>5, <3>6
      <3> QED BY <3>7, <3>8 DEF Alike
    <2> QED BY <2>7, <2>8
  <1> QED BY <1>3, <1>4, <1>5 DEF WordIn

LEMMA AsnAlike ==
  ASSUME NEW x, NEW u, NEW k, Stands(x, u, k)
  PROVE  Alike(asn(x, 1), asn(u, k), k, Len(x))
  <1>1. PICK a : a = Tag(x, 1, "AS")
    OBVIOUS
  <1>2. PICK b : b = Tag(u, k, "AS")
    OBVIOUS
  <1>3. WordIn(x, u, k, "AS", a, b) /\ Moved(x, 1, k, Len(x), TRUE, a, b)
    BY <1>1, <1>2, FirstWord, StopsApart
  <1>4. CASE a = 0 /\ b = 0
    <2>1. asn(x, 1) = NoEntity /\ asn(u, k) = NoEntity
      BY <1>1, <1>2, <1>4, NoAsn DEF Stands
    <2> QED BY <2>1 DEF Alike
  <1>5. CASE a = 2 /\ b = k + 1
    <2>1. x \in Text /\ 2 \in 1 .. Len(x) + 1 /\ Ahead(x, 2, 2, Digits) /\ b # 0
      <3>1. x \in Text
        BY DEF Stands
      <3> QED BY <1>5, <3>1, SecondWord
    <2>2. Moved(x, 1, k, Len(x), TRUE, 2, k + 1) /\ Copy(x, 1, u, k, Len(x), Stops, TRUE)
      BY <1>3, <1>5 DEF Stands
    <2>3. Digits \cap Stops = {}
      BY StopsApart, PlainSets
    <2>4. PICK p : p = Run1(x, 2, Digits)
      OBVIOUS
    <2>5. PICK q : q = Run1(u, k + 1, Digits)
      OBVIOUS
    <2>6. SamePlace(x, u, k, 1, p, q)
      <3>1. Moved(x, 1, k, Len(x), TRUE, p, q)
        BY <2>2, <2>3, <2>4, <2>5, Run1Moves
      <3>2. Ahead(x, 2, p, Digits)
        BY <2>1, <2>4, Run1Ahead
      <3> QED BY <3>1, <3>2, AtSecond
    <2>7. "AS" \in Kinds /\ 1 \in 0 .. Len(x) /\ 1 + 1 = 2
      <3>1. "AS" \in Kinds
        BY DEF Kinds
      <3>2. 1 \in 0 .. Len(x)
        BY StandsMoves
      <3> QED BY <3>1, <3>2
    <2>8. Alike(Converted(x, 1 + 1, p, "AS", Numbers), Converted(u, k + 1, q, "AS", Numbers), k, Len(x))
      BY <2>6, <2>7, ConvertedAlike
    <2>9. PICK c : c = Converted(x, 2, p, "AS", Numbers)
      OBVIOUS
    <2>10. PICK d : d = Converted(u, k + 1, q, "AS", Numbers)
      OBVIOUS
    <2>11. Alike(c, d, k, Len(x))
      BY <2>7, <2>8, <2>9, <2>10
    <2>12. asn(x, 1) = Prefixed(2, c)
      BY <1>1, <1>5, <2>4, <2>9 DEF asn, Prefixed
    <2>13. asn(u, k) = Prefixed(k + 1, d)
      BY <1>2, <1>5, <2>5, <2>10 DEF asn, Prefixed
    <2>14. c # Panic /\ d # Panic
      <3>1. \A i, y : Reading(i, "AS", y) # Panic
        BY ReadingIs
      <3> QED BY <2>9, <2>10, <3>1, PanicIs DEF Converted
    <2>15. CASE c = NoEntity /\ d = NoEntity
      <3>1. asn(x, 1) = NoEntity /\ asn(u, k) = NoEntity
        BY <2>12, <2>13, <2>15 DEF Prefixed
      <3> QED BY <3>1 DEF Alike
    <2>16. CASE ~(c = NoEntity /\ d = NoEntity)
      <3>1. \E e \in 0 .. Len(x) : \E kind \in Kinds : \E y :
               c = Reading(1 + e, kind, y) /\ d = Reading(k + e, kind, y)
        BY <2>11, <2>14, <2>16 DEF Alike
      <3>2. PICK e \in 0 .. Len(x) : \E kind \in Kinds : \E y :
               c = Reading(1 + e, kind, y) /\ d = Reading(k + e, kind, y)
        BY <3>1
      <3>3. PICK kind \in Kinds : \E y : c = Reading(1 + e, kind, y) /\ d = Reading(k + e, kind, y)
        BY <3>2
      <3>4. PICK y : c = Reading(1 + e, kind, y) /\ d = Reading(k + e, kind, y)
        BY <3>3
      <3>5. c # NoEntity /\ d # NoEntity
        BY <2>11, <2>16, AlikeFails
      <3>6. PICK w : w = <<"AS">> \o y
        OBVIOUS
      <3>7. Prefixed(2, c) = Reading(1 + e, kind, w)
        <4>1. Prefixed(2, c) = [c EXCEPT !.text = <<"AS">> \o @]
          BY <3>5 DEF Prefixed
        <4> QED BY <3>4, <3>6, <4>1 DEF Reading
      <3>8. Prefixed(k + 1, d) = Reading(k + e, kind, w)
        <4>1. k + 1 # 0
          BY SecondWord
        <4>2. Prefixed(k + 1, d) = [d EXCEPT !.text = <<"AS">> \o @]
          BY <3>5, <4>1 DEF Prefixed
        <4> QED BY <3>4, <3>6, <4>2 DEF Reading
      <3> QED BY <2>12, <2>13, <3>7, <3>8 DEF Alike
    <2> QED BY <2>15, <2>16
  <1> QED BY <1>3, <1>4, <1>5 DEF WordIn

LEMMA SignerAlike ==
  ASSUME NEW x, NEW u, NEW k, Stands(x, u, k)
  PROVE  Alike(signer(x, 1), signer(u, k), k, Len(x))
  <1>1. PICK a : a = Tag(x, 1, "secp256k1:")
    OBVIOUS
  <1>2. PICK b : b = Tag(u, k, "secp256k1:")
    OBVIOUS
  <1>3. WordIn(x, u, k, "secp256k1:", a, b) /\ Moved(x, 1, k, Len(x), TRUE, a, b)
    BY <1>1, <1>2, FirstWord, StopsApart
  <1>4. CASE a = 0 /\ b = 0
    <2>1. signer(x, 1) = NoEntity /\ signer(u, k) = NoEntity
      BY <1>1, <1>2, <1>4, NoSigner DEF Stands
    <2> QED BY <2>1 DEF Alike
  <1>5. CASE a = 2 /\ b = k + 1
    <2>1. x \in Text /\ 2 \in 1 .. Len(x) + 1 /\ Ahead(x, 2, 2, Base64 \cup {"="})
      <3>1. x \in Text
        BY DEF Stands
      <3> QED BY <3>1, SecondWord
    <2>2. Moved(x, 1, k, Len(x), TRUE, 2, k + 1) /\ Copy(x, 1, u, k, Len(x), Stops, TRUE)
      BY <1>3, <1>5 DEF Stands
    <2>3. (Base64 \cup {"="}) \cap Stops = {}
      BY StopsApart, PlainSets
    <2>4. PICK p : p = Base64End(x, 2)
      OBVIOUS
    <2>5. PICK q : q = Base64End(u, k + 1)
      OBVIOUS
    <2>6. Moved(x, 1, k, Len(x), TRUE, p, q)
      BY <2>2, <2>3, <2>4, <2>5, Base64Moves
    <2>7. Ahead(x, 2, p, Base64 \cup {"="})
      BY <2>1, <2>4, Base64Ahead
    <2>8. SamePlace(x, u, k, 1, p, q)
      BY <2>6, <2>7, AtSecond
    <2>9. SamePlace(x, u, k, 0, p, q)
      <3>1. p = 0 \/ p \in 1 + 0 .. Len(x) + 1
        <4>1. Len(x) \in Nat
          BY DEF Stands
        <4> QED BY <2>7, <4>1 DEF Ahead
      <3>2. 0 \in 0 .. Len(x)
        BY StandsMoves
      <3> QED BY <2>6, <3>1, <3>2, SamePlaces
    <2>10. "Signer" \in Kinds
      BY DEF Kinds
    <2>11. Alike(Recognized(x, 1, p, "Signer"), Recognized(u, k, q, "Signer"), k, Len(x))
      BY <2>9, <2>10, RecognizedFirst
    <2>12. p = 0 <=> q = 0
      BY <2>8 DEF SamePlace
    <2>13. p # 0 => SubSeq(x, 2, p - 1) = SubSeq(u, k + 1, q - 1)
      <3>1. 1 + 1 = 2
        OBVIOUS
      <3> QED BY <2>8, <3>1 DEF SamePlace
    <2>14. signer(x, 1) = IF p # 0 /\ SubSeq(x, 2, p - 1) \notin Keys THEN Panic ELSE Recognized(x, 1, p, "Signer")
      BY <1>1, <1>5, <2>4 DEF signer
    <2>15. signer(u, k) = IF q # 0 /\ SubSeq(u, k + 1, q - 1) \notin Keys THEN Panic
                          ELSE Recognized(u, k, q, "Signer")
      BY <1>2, <1>5, <2>5 DEF signer
    <2>16. CASE p # 0 /\ SubSeq(x, 2, p - 1) \notin Keys
      <3>1. signer(x, 1) = Panic /\ signer(u, k) = Panic
        BY <2>12, <2>13, <2>14, <2>15, <2>16
      <3> QED BY <3>1 DEF Alike
    <2>17. CASE ~(p # 0 /\ SubSeq(x, 2, p - 1) \notin Keys)
      <3>1. signer(x, 1) = Recognized(x, 1, p, "Signer") /\ signer(u, k) = Recognized(u, k, q, "Signer")
        BY <2>12, <2>13, <2>14, <2>15, <2>17
      <3> QED BY <2>11, <3>1
    <2> QED BY <2>16, <2>17
  <1> QED BY <1>3, <1>4, <1>5 DEF WordIn

\* What does not hold ( or does not begin with a name and ( is no template there.
LEMMA NoTemplateAlike ==
  ASSUME NEW x, NEW u, NEW k, Stands(x, u, k), Lacks(x, "(")
  PROVE  template(x, 1) = NoEntity /\ template(u, k) = NoEntity
  <1>1. x \in Text /\ u \in Text /\ 1 \in 1 .. Len(x) + 1 /\ k \in 1 .. Len(u) + 1
        /\ Moved(x, 1, k, Len(x), TRUE, 1, k) /\ Copy(x, 1, u, k, Len(x), Stops, TRUE)
    <2>1. x \in Text /\ u \in Text /\ Copy(x, 1, u, k, Len(x), Stops, TRUE)
      BY DEF Stands
    <2> QED BY <2>1, StandsMoves
  <1>2. PICK p : p = Tag(x, NameEnd(x, 1), "(")
    OBVIOUS
  <1>3. PICK q : q = Tag(u, NameEnd(u, k), "(")
    OBVIOUS
  <1>4. p = 0 /\ TemplateEnd(x, 1) = 0
    BY <1>1, <1>2, NoName
  <1>5. Moved(x, 1, k, Len(x), TRUE, p, q)
    <2>1. (Letters \cup {"_"}) \cap Stops = {} /\ "(" \notin Stops
      BY StopsApart
    <2>2. Moved(x, 1, k, Len(x), TRUE, NameEnd(x, 1), NameEnd(u, k))
      BY <1>1, <2>1, NameMoves
    <2> QED BY <1>1, <1>2, <1>3, <2>1, <2>2, TagMoves
  <1>6. q = 0
    <2>1. PICK n \in Nat : n = Len(x)
      BY DEF Stands
    <2>2. \A d \in 0 .. n : 1 + d # 0
      BY <2>1
    <2> QED BY <1>4, <1>5, <2>1, <2>2 DEF Moved
  <1>7. TemplateEnd(u, k) = 0
    BY <1>1, <1>3, <1>6, NoTemplate
  <1> QED BY <1>4, <1>7 DEF template, Recognized

LEMMA FirstAlike ==
  ASSUME NEW k, NEW n,
         NEW a1, NEW a2, Alike(a1, a2, k, n), NEW b1, NEW b2, Alike(b1, b2, k, n),
         NEW c1, NEW c2, Alike(c1, c2, k, n), NEW d1, NEW d2, Alike(d1, d2, k, n),
         NEW e1, NEW e2, Alike(e1, e2, k, n), NEW f1, NEW f2, Alike(f1, f2, k, n),
         NEW g1, NEW g2, Alike(g1, g2, k, n), NEW h1, NEW h2, Alike(h1, h2, k, n)
  PROVE  Alike(FirstOf(a1, b1, c1, d1, e1, f1, g1, h1), FirstOf(a2, b2, c2, d2, e2, f2, g2, h2), k, n)
  <1>1. /\ a1 = NoEntity <=> a2 = NoEntity
        /\ b1 = NoEntity <=> b2 = NoEntity
        /\ c1 = NoEntity <=> c2 = NoEntity
        /\ d1 = NoEntity <=> d2 = NoEntity
        /\ e1 = NoEntity <=> e2 = NoEntity
        /\ f1 = NoEntity <=> f2 = NoEntity
        /\ g1 = NoEntity <=> g2 = NoEntity
        /\ h1 = NoEntity <=> h2 = NoEntity
    BY AlikeFails
  <1>2. PICK r : r = FirstOf(a1, b1, c1, d1, e1, f1, g1, h1)
    OBVIOUS
  <1>3. PICK s : s = FirstOf(a2, b2, c2, d2, e2, f2, g2, h2)
    OBVIOUS
  <1>4. \/ r = a1 /\ s = a2
        \/ r = b1 /\ s = b2
        \/ r = c1 /\ s = c2
        \/ r = d1 /\ s = d2
        \/ r = e1 /\ s = e2
        \/ r = f1 /\ s = f2
        \/ r = g1 /\ s = g2
        \/ r = h1 /\ s = h2
    BY <1>1, <1>2, <1>3 DEF FirstOf
  <1> QED BY <1>2, <1>3, <1>4

LEMMA EntityAlike ==
  ASSUME NEW x, NEW u, NEW k, Stands(x, u, k), Lacks(x, "(")
  PROVE  Alike(entity(x, 1), entity(u, k), k, Len(x))
  <1>1. Alike(template(x, 1), template(u, k), k, Len(x))
    BY NoTemplateAlike DEF Alike
  <1>2. Alike(FirstOf(email(x, 1), hash_value(x, 1), template(x, 1), asn(x, 1),
                      signer(x, 1), domain(x, 1), ipv4(x, 1), ipv6(x, 1)),
              FirstOf(email(u, k), hash_value(u, k), template(u, k), asn(u, k),
                      signer(u, k), domain(u, k), ipv4(u, k), ipv6(u, k)), k, Len(x))
    BY <1>1, EMailAlike, HashAlike, AsnAlike, SignerAlike, DomainAlike, IPv4Alike, IPv6Alike, FirstAlike
  <1> QED BY <1>2, EntityIs

\* The last word of a template closes it; the ones before are types and the like.
LEMMA LastOfTemplate ==
  ASSUME NEW x \in Text, TemplateEnd(x, 1) = Len(x) + 1
  PROVE  Len(x) \in Nat \ {0} /\ x[Len(x)] = ")" /\ TypesEnd(x, 1) = Len(x)
  <1>1. PICK n \in Nat : n = Len(x)
    BY TextIs
  <1>2. PICK p : p = TypesEnd(x, 1)
    OBVIOUS
  <1>3. Tag(x, p, ")") = n + 1
    BY <1>1, <1>2 DEF TemplateEnd, TypesEnd
  <1>4. p \in Nat
    <2>1. 1 \in 1 .. Len(x) + 1
      BY <1>1
    <2>2. Ahead(x, 1, 1, TemplateWords)
      BY <2>1, AheadNow
    <2>3. Ahead(x, 1, p, TemplateWords)
      BY <1>2, <2>1, <2>2, TypesAhead
    <2> QED BY <1>1, <2>3 DEF Ahead
  <1>5. p \in 1 .. n /\ x[p] \in {")"} /\ p + 1 = n + 1
    BY <1>1, <1>3, <1>4, OneIs DEF Tag
  <1>6. p = n
    BY <1>1, <1>4, <1>5
  <1> QED BY <1>1, <1>2, <1>5, <1>6

LEMMA TemplateInside ==
  ASSUME NEW x, NEW u, NEW k, Stands(x, u, k), TemplateEnd(x, 1) = Len(x) + 1,
         OnlyOf(x, TemplateWords \cup {")"})
  PROVE  entity(u, k) = Reading(k + Len(x), "Template", x)
  <1>1. x \in Text /\ u \in Text /\ 1 \in 1 .. Len(x) + 1 /\ k \in 1 .. Len(u) + 1 /\ k \in Nat \ {0}
        /\ Moved(x, 1, k, Len(x), TRUE, 1, k) /\ Copy(x, 1, u, k, Len(x), Stops, TRUE)
    <2>1. x \in Text /\ u \in Text /\ Copy(x, 1, u, k, Len(x), Stops, TRUE) /\ k \in Nat \ {0}
      BY DEF Stands
    <2> QED BY <2>1, StandsMoves
  <1>2. PICK n \in Nat : n = Len(x)
    BY DEF Stands
  <1>3. n # 0 /\ x[n] = ")" /\ TypesEnd(x, 1) = n
    BY <1>1, <1>2, LastOfTemplate
  <1>4. Lacks(x, "@") /\ x[1] # "#"
    <2>1. PICK C : C = TemplateWords \cup {")"}
      OBVIOUS
    <2>2. "@" \notin C /\ "#" \notin C
      BY <2>1, MarksApart, WordsOf DEF TemplateWords, Punctuation
    <2>3. 1 \in 1 .. Len(x)
      BY <1>2, <1>3
    <2> QED BY <2>1, <2>2, <2>3, LacksAny DEF Lacks
  <1>5. email(u, k) = NoEntity
    <2>1. email(x, 1) = NoEntity
      BY <1>1, <1>4, NoEMail DEF email, Recognized
    <2> QED BY <2>1, EMailAlike, AlikeFails
  <1>6. hash_value(u, k) = NoEntity
    <2>1. hash_value(x, 1) = NoEntity
      BY <1>1, <1>4, NotFirst, NoHash
    <2> QED BY <2>1, HashAlike, AlikeFails
  <1>7. TypesEnd(u, k) = k + (n - 1) /\ u[k + (n - 1)] = ")" /\ k + (n - 1) \in 1 .. Len(u)
    <2>1. PICK C : C = {")"}
      OBVIOUS
    <2>2. PICK m \in Nat : m = n - 1
      BY <1>2, <1>3
    <2>3. n = m + 1 /\ 1 + m = n
      BY <2>2
    <2>4. u[k + m] = ")" /\ k + m \in 1 .. Len(u)
      <3>1. m \in 0 .. n - 1 /\ k + n \in 1 .. Len(u) + 1 /\ Len(u) \in Nat
        BY <1>1, <1>2, <2>2, TextIs DEF Copy
      <3>2. x[1 + m] = u[k + m]
        BY <1>1, <1>2, <3>1 DEF Copy
      <3>3. k + m \in 1 .. Len(u)
        BY <1>1, <2>3, <3>1
      <3> QED BY <1>3, <2>3, <3>2, <3>3
    <2>5. Copy(x, 1, u, k, m, C, TRUE)
      <3>1. /\ \A d \in 0 .. n - 1 : x[1 + d] = u[k + d]
            /\ k + n \in 1 .. Len(u) + 1 /\ Len(u) \in Nat
        BY <1>1, <1>2, TextIs DEF Copy
      <3>2. \A d \in 0 .. m - 1 : d \in 0 .. n - 1
        BY <2>2
      <3>3. 1 + m \in 1 .. Len(x) + 1 /\ k + m \in 1 .. Len(u) + 1
        BY <1>1, <1>2, <2>3, <3>1
      <3>4. x[1 + m] \in C /\ u[k + m] \in C
        BY <1>3, <2>1, <2>3, <2>4
      <3> QED BY <1>1, <3>1, <3>2, <3>3, <3>4 DEF Copy
    <2>6. Moved(x, 1, k, m, TRUE, 1, k)
      BY <1>1, MovedStart
    <2>7. TemplateWords \cap C = {}
      <3>1. ")" \notin TemplateWords
        BY MarksApart, WordsOf DEF TemplateWords, Punctuation
      <3> QED BY <2>1, <3>1
    <2>8. Moved(x, 1, k, m, TRUE, TypesEnd(x, 1), TypesEnd(u, k))
      BY <2>5, <2>6, <2>7, TypesMoves
    <2>9. Moved(x, 1, k, m, TRUE, 1 + m, TypesEnd(u, k))
      BY <1>3, <2>3, <2>8
    <2>10. TypesEnd(u, k) = k + m
      <3>1. 1 \in Nat \ {0} /\ k \in Nat
        BY <1>1
      <3> QED BY <2>9, <3>1, MovedEnd
    <2> QED BY <2>2, <2>4, <2>10
  <1>8. TemplateEnd(u, k) = k + n
    <2>1. PICK q : q = k + (n - 1)
      OBVIOUS
    <2>2. q \in Nat /\ q + 1 = k + n
      BY <1>1, <1>2, <1>3, <2>1
    <2>3. Tag(u, q, ")") = q + 1
      BY <1>1, <1>7, <2>1, <2>2, OneIs DEF Tag
    <2> QED BY <1>7, <2>1, <2>2, <2>3 DEF TemplateEnd, TypesEnd
  <1>9. SubSeq(u, k, (k + n) - 1) = x
    <2>1. SamePart(x, 1, u, k, 0, n)
      <3>1. 0 \in 0 .. n /\ n \in 0 .. n
        BY <1>2
      <3> QED BY <1>1, <1>2, <3>1, PartMoves
    <2>2. 1 + 0 = 1 /\ (1 + n) - 1 = Len(x) /\ k + 0 = k
      BY <1>1, <1>2
    <2>3. SubSeq(x, 1, Len(x)) = SubSeq(u, k, (k + n) - 1)
      BY <2>1, <2>2 DEF SamePart
    <2> QED BY <1>1, <2>3, SubSeqFull DEF Text
  <1>10. template(u, k) = Reading(k + n, "Template", x)
    <2>1. k + n # 0
      BY <1>1, <1>2
    <2> QED BY <1>8, <1>9, <2>1 DEF template, Recognized
  <1>11. template(u, k) # NoEntity
    BY <1>10, ReadingIs
  <1>12. entity(u, k) = template(u, k)
    BY <1>5, <1>6, <1>11, EntityIs DEF FirstOf
  <1> QED BY <1>2, <1>10, <1>12

\* Whether the text of an entity is read up to its end.
Readable(e) == entity(EntityText(e), 1).next = Len(EntityText(e)) + 1

\* What is read where the text of an entity, of n words, stands.
Inside(e, n, k, r) ==
    /\ Readable(e) => r = Reading(k + n, e.kind, e.text)
    /\ ~Readable(e) => /\ e.kind = "IPv6"
                       /\ r # NoEntity => r # Panic /\ r.next \in k .. k + (n - 1)

LEMMA ReadInside ==
  ASSUME NEW e, IsWritten(e), NEW x, x = EntityText(e), NEW u, NEW k, Stands(x, u, k)
  PROVE  Inside(e, Len(x), k, entity(u, k))
  <1>1. PICK n \in Nat \ {0} : n = Len(x)
    BY DEF Stands
  <1>2. PICK w : w = e.text
    OBVIOUS
  <1>3. PICK kind : kind = e.kind
    OBVIOUS
  <1>4. PICK r : r = entity(x, 1)
    OBVIOUS
  <1>5. PICK s : s = entity(u, k)
    OBVIOUS
  <1>6. Readable(e) <=> r.next = n + 1
    BY <1>1, <1>4 DEF Readable
  <1>7. \/ r = Reading(n + 1, kind, w)
        \/ kind = "IPv6" /\ r = NoEntity
        \/ kind = "IPv6" /\ r # Panic /\ r.next \in 1 .. n
    BY <1>1, <1>2, <1>3, <1>4, ReadAlone DEF Alone
  <1>8. IsEntityText(e, x)
    BY EntityTextIs
  <1>9. kind \in Kinds /\ k \in Nat \ {0}
    BY <1>3 DEF IsWritten, Kinds, Stands
  <1>10. NoEntity.next = 0 /\ Reading(n + 1, kind, w).next = n + 1
    BY ReadingIs DEF NoEntity
  <1>11. CASE kind = "Template"
    <2>1. r = Reading(n + 1, kind, w)
      BY <1>7, <1>11
    <2>2. Readable(e)
      BY <1>6, <1>10, <2>1
    <2>3. x = w /\ TemplateEnd(x, 1) = Len(x) + 1
      BY <1>2, <1>3, <1>11 DEF IsWritten, EntityText
    <2>4. OnlyOf(x, TemplateWords \cup {")"})
      BY <1>3, <1>8, <1>11 DEF IsEntityText
    <2>5. s = Reading(k + n, kind, w)
      BY <1>1, <1>5, <1>11, <2>3, <2>4, TemplateInside
    <2> QED BY <1>1, <1>2, <1>3, <1>5, <2>2, <2>5 DEF Inside
  <1>12. CASE kind # "Template"
    <2>1. Lacks(x, "(")
      BY <1>3, <1>8, <1>12, StopsApart, LacksAny DEF IsEntityText
    <2>2. Alike(r, s, k, n)
      BY <1>1, <1>4, <1>5, <2>1, EntityAlike
    <2>3. CASE r.next = n + 1
      <3>1. r = Reading(n + 1, kind, w)
        <4>1. n + 1 # 0 /\ n + 1 \notin 1 .. n
          BY <1>1
        <4> QED BY <1>7, <1>10, <2>3, <4>1
      <3>2. r # NoEntity /\ r # Panic
        <4>1. kind # "none" /\ kind # "panic"
          BY <1>9 DEF Kinds
        <4> QED BY <3>1, <4>1, ReadingIs
      <3>3. \E d \in 0 .. n : \E c \in Kinds : \E y : r = Reading(1 + d, c, y) /\ s = Reading(k + d, c, y)
        BY <2>2, <3>2 DEF Alike
      <3>4. PICK d \in 0 .. n : \E c \in Kinds : \E y : r = Reading(1 + d, c, y) /\ s = Reading(k + d, c, y)
        BY <3>3
      <3>5. PICK c, y : r = Reading(1 + d, c, y) /\ s = Reading(k + d, c, y)
        BY <3>4
      <3>6. 1 + d = n + 1 /\ c = kind /\ y = w
        <4>1. r.next = 1 + d /\ r.kind = c /\ r.text = y
          BY <3>5, ReadingIs
        <4>2. r.next = n + 1 /\ r.kind = kind /\ r.text = w
          BY <3>1, ReadingIs
        <4> QED BY <4>1, <4>2
      <3>7. d = n
        BY <1>1, <3>6
      <3>8. s = Reading(k + n, kind, w)
        BY <3>5, <3>6, <3>7
      <3> QED BY <1>1, <1>2, <1>3, <1>5, <1>6, <2>3, <3>8 DEF Inside
    <2>4. CASE r.next # n + 1
      <3>1. kind = "IPv6"
        BY <1>7, <1>10, <2>4
      <3>2. ASSUME s # NoEntity
            PROVE  s # Panic /\ s.next \in k .. k + (n - 1)
        <4>1. r # NoEntity
          BY <2>2, <3>2, AlikeFails
        <4>2. r # Panic /\ r.next \in 1 .. n
          BY <1>7, <1>10, <2>4, <4>1
        <4>3. PICK d \in 0 .. n : \E c \in Kinds : \E y : r = Reading(1 + d, c, y) /\ s = Reading(k + d, c, y)
          BY <2>2, <4>1, <4>2 DEF Alike
        <4>4. PICK c \in Kinds : \E y : r = Reading(1 + d, c, y) /\ s = Reading(k + d, c, y)
          BY <4>3
        <4>5. PICK y : r = Reading(1 + d, c, y) /\ s = Reading(k + d, c, y)
          BY <4>4
        <4>6. r.next = 1 + d /\ s.next = k + d
          BY <4>5, ReadingIs
        <4>7. d \in 0 .. n - 1
          BY <1>1, <4>2, <4>6
        <4>8. s # Panic
          <5>1. c # "panic"
            BY <4>4 DEF Kinds
          <5> QED BY <4>5, <5>1, ReadingIs
        <4>9. k + d \in k .. k + (n - 1)
          BY <1>1, <1>9, <4>7
        <4> QED BY <4>6, <4>8, <4>9
      <3> QED BY <1>1, <1>3, <1>5, <1>6, <2>4, <3>1, <3>2 DEF Inside
    <2> QED BY <2>3, <2>4
  <1> QED BY <1>11, <1>12

-----------------------------------------------------------------------------
(* Texts joined with separators *)

Words == Alphanumeric \cup Marks

\* z is x, the word, and y.
Chain(x, word, y, z) ==
    /\ z \in Text /\ Len(z) = (Len(x) + 1) + Len(y)
    /\ \A p \in 1 .. Len(x) : z[p] = x[p]
    /\ z[Len(x) + 1] = word
    /\ \A p \in 1 .. Len(y) : z[(Len(x) + 1) + p] = y[p]

LEMMA Chained ==
  ASSUME NEW x \in Text, NEW word \in Words, NEW y \in Text, NEW z, z = x \o <<word>> \o y
  PROVE  Chain(x, word, y, z)
  <1>1. /\ x \in Seq(Words) /\ y \in Seq(Words) /\ <<word>> \in Seq(Words) /\ Len(<<word>>) = 1
        /\ <<word>>[1] = word /\ Len(x) \in Nat /\ Len(y) \in Nat
    BY DEF Text, Words
  <1>2. PICK v : v = x \o <<word>>
    OBVIOUS
  <1>3. /\ v \in Seq(Words) /\ Len(v) = Len(x) + 1
        /\ \A p \in 1 .. Len(x) + 1 : v[p] = IF p <= Len(x) THEN x[p] ELSE <<word>>[p - Len(x)]
    BY <1>1, <1>2, ConcatProperties
  <1>4. /\ z \in Seq(Words) /\ Len(z) = Len(v) + Len(y)
        /\ \A p \in 1 .. Len(v) + Len(y) : z[p] = IF p <= Len(v) THEN v[p] ELSE y[p - Len(v)]
    BY <1>1, <1>2, <1>3, ConcatProperties
  <1>5. PICK n \in Nat, l \in Nat : n = Len(x) /\ l = Len(y)
    BY <1>1
  <1>6. ASSUME NEW p \in 1 .. n
        PROVE  z[p] = x[p]
    <2>1. p \in 1 .. n + 1 /\ p <= n /\ p \in 1 .. (n + 1) + l /\ p <= n + 1
      BY <1>5
    <2> QED BY <1>3, <1>4, <1>5, <2>1
  <1>7. z[n + 1] = word
    <2>1. n + 1 \in 1 .. n + 1 /\ ~(n + 1 <= n) /\ n + 1 \in 1 .. (n + 1) + l /\ (n + 1) - n = 1
      BY <1>5
    <2> QED BY <1>1, <1>3, <1>4, <1>5, <2>1
  <1>8. ASSUME NEW p \in 1 .. l
        PROVE  z[(n + 1) + p] = y[p]
    <2>1. (n + 1) + p \in 1 .. (n + 1) + l /\ ~((n + 1) + p <= n + 1) /\ ((n + 1) + p) - (n + 1) = p
      BY <1>5
    <2> QED BY <1>3, <1>4, <1>5, <2>1
  <1>9. Len(z) = (n + 1) + l
    BY <1>3, <1>4, <1>5
  <1> QED BY <1>4, <1>5, <1>6, <1>7, <1>8, <1>9 DEF Chain, Text, Words

AreJoined(f, texts, word) ==
    f = [n \in 1 .. Len(texts) |-> IF n = 1 THEN texts[1] ELSE f[n - 1] \o <<word>> \o texts[n]]

LEMMA JoinedStep ==
  ASSUME NEW texts \in Seq(Text), Len(texts) # 0, NEW word \in Words
  PROVE  \E f : AreJoined(f, texts, word) /\ f[Len(texts)] = Joined(texts, word)
  <1>1. PICK n \in Nat \ {0} : n = Len(texts)
    BY LenProperties
  <1>2. \A m \in 1 .. n : texts[m] \in Text
    BY <1>1, ElementOfSeq
  <1> DEFINE Turn == [m \in 1 + 1 .. n |-> [v \in Text |-> v \o <<word>> \o texts[m]]]
  <1>3. Turn \in [1 + 1 .. n -> [Text -> Text]]
    <2>1. ASSUME NEW m \in 1 + 1 .. n, NEW v \in Text
          PROVE  v \o <<word>> \o texts[m] \in Text
      <3>1. PICK z : z = v \o <<word>> \o texts[m]
        OBVIOUS
      <3>2. m \in 1 .. n
        OBVIOUS
      <3>3. Chain(v, word, texts[m], z)
        BY <1>2, <3>1, <3>2, Chained
      <3> QED BY <3>1, <3>3 DEF Chain
    <2> QED BY <2>1
  <1>4. \E f : IsRecursion(f, Text, 1, n, texts[1], Turn)
    <2>1. texts[1] \in Text /\ 1 \in Nat /\ 1 <= n
      BY <1>2
    <2> HIDE DEF Turn
    <2> QED BY <1>3, <2>1, RecursionExists
  <1>5. PICK f : IsRecursion(f, Text, 1, n, texts[1], Turn)
    BY <1>4
  <1>6. /\ f \in [1 .. n -> Text] /\ f[1] = texts[1]
        /\ \A m \in 1 + 1 .. n : f[m] = Turn[m][f[m - 1]]
    <2> HIDE DEF Turn
    <2> QED BY <1>5 DEF IsRecursion
  <1>7. ASSUME NEW m \in 1 .. n
        PROVE  f[m] = IF m = 1 THEN texts[1] ELSE f[m - 1] \o <<word>> \o texts[m]
    <2>1. CASE m = 1
      BY <1>6, <2>1
    <2>2. CASE m # 1
      <3>1. m \in 1 + 1 .. n /\ m - 1 \in 1 .. n
        BY <2>2
      <3>2. f[m - 1] \in Text
        BY <1>6, <3>1
      <3> QED BY <1>6, <2>2, <3>1, <3>2
    <2> QED BY <2>1, <2>2
  <1>8. AreJoined(f, texts, word)
    <2>1. f = [m \in 1 .. n |-> f[m]]
      BY <1>6
    <2> QED BY <1>1, <1>7, <2>1 DEF AreJoined
  <1>9. PICK g : g = CHOOSE h : AreJoined(h, texts, word)
    OBVIOUS
  <1>10. AreJoined(g, texts, word)
    BY <1>8, <1>9
  <1>11. g[Len(texts)] = Joined(texts, word)
    BY <1>9 DEF Joined, AreJoined
  <1> QED BY <1>10, <1>11

\* The first n texts are in u, each after its offset, with the word between them.
LaidOut(u, texts, n, word, off) ==
    /\ u \in Text /\ off \in [1 .. n + 1 -> Nat] /\ off[n + 1] <= Len(u) + 1
    /\ \A m \in 1 .. n : off[m + 1] = (off[m] + Len(texts[m])) + 1
    /\ \A m \in 1 .. n : \A d \in 1 .. Len(texts[m]) : u[off[m] + d] = texts[m][d]
    /\ \A m \in 1 .. n - 1 : u[off[m + 1]] = word

Filled(u, texts, n, word, off) ==
    LaidOut(u, texts, n, word, off) /\ off[1] = 0 /\ off[n + 1] = Len(u) + 1

\* Offsets only grow.
LEMMA LaidBelow ==
  ASSUME NEW texts \in Seq(Text), NEW n \in 1 .. Len(texts), NEW word, NEW u, NEW off,
         LaidOut(u, texts, n, word, off)
  PROVE  \A m \in 1 .. n + 1 : off[m] <= off[n + 1]
  <1>1. Len(texts) \in Nat /\ n \in Nat \ {0}
    BY LenProperties
  <1>2. /\ off \in [1 .. n + 1 -> Nat]
        /\ \A m \in 1 .. n : off[m + 1] = (off[m] + Len(texts[m])) + 1
    BY DEF LaidOut
  <1>3. \A m \in 1 .. n : Len(texts[m]) \in Nat
    <2>1. \A m \in 1 .. Len(texts) : texts[m] \in Text /\ Len(texts[m]) \in Nat
      BY ElementOfSeq, TextIs
    <2> QED BY <1>1, <2>1
  <1>4. PICK c \in Nat : c = off[n + 1]
    BY <1>1, <1>2
  <1> DEFINE T == {m \in 1 .. n + 1 : off[n + 2 - m] <= c}
  <1>5. 1 \in T
    <2>1. n + 2 - 1 = n + 1 /\ 1 \in 1 .. n + 1
      BY <1>1
    <2> QED BY <1>4, <2>1
  <1>6. ASSUME NEW m \in 1 .. (n + 1) - 1, m \in T
        PROVE  m + 1 \in T
    <2>1. PICK i \in 1 .. n : i = n + 1 - m /\ i + 1 = n + 2 - m /\ i = n + 2 - (m + 1) /\ m + 1 \in 1 .. n + 1
      BY <1>1
    <2>2. off[i + 1] = (off[i] + Len(texts[i])) + 1 /\ off[i + 1] <= c
      BY <1>2, <1>6, <2>1
    <2>3. off[i] \in Nat /\ Len(texts[i]) \in Nat
      BY <1>1, <1>2, <1>3
    <2>4. off[i] <= c
      BY <2>2, <2>3
    <2> QED BY <2>1, <2>4
  <1>7. \A m \in 1 .. n + 1 : m \in T
    <2>1. 1 \in Nat /\ n + 1 \in Nat
      BY <1>1
    <2> HIDE DEF T
    <2> QED BY <1>5, <1>6, <2>1, Ascending
  <1>8. ASSUME NEW i \in 1 .. n + 1
        PROVE  off[i] <= c
    <2>1. n + 2 - i \in 1 .. n + 1 /\ n + 2 - (n + 2 - i) = i
      BY <1>1
    <2> QED BY <1>7, <2>1
  <1> QED BY <1>4, <1>8

LEMMA FilledMore ==
  ASSUME NEW texts \in Seq(Text), NEW n \in 1 .. Len(texts) - 1, NEW word \in Words,
         NEW u, NEW off, Filled(u, texts, n, word, off), NEW z, z = u \o <<word>> \o texts[n + 1]
  PROVE  \E more : Filled(z, texts, n + 1, word, more)
  <1>1. Len(texts) \in Nat /\ n \in Nat \ {0} /\ n + 1 \in 1 .. Len(texts)
    BY LenProperties
  <1>2. \A m \in 1 .. Len(texts) : texts[m] \in Text /\ Len(texts[m]) \in Nat
    BY ElementOfSeq, TextIs
  <1>3. /\ u \in Text /\ off \in [1 .. n + 1 -> Nat] /\ off[1] = 0 /\ off[n + 1] = Len(u) + 1
        /\ \A m \in 1 .. n : off[m + 1] = (off[m] + Len(texts[m])) + 1
        /\ \A m \in 1 .. n : \A d \in 1 .. Len(texts[m]) : u[off[m] + d] = texts[m][d]
        /\ \A m \in 1 .. n - 1 : u[off[m + 1]] = word /\ Len(u) \in Nat
    BY TextIs DEF Filled, LaidOut
  <1>4. PICK y : y = texts[n + 1]
    OBVIOUS
  <1>5. PICK l \in Nat : l = Len(y)
    BY <1>1, <1>2, <1>4
  <1>6. PICK b \in Nat : b = Len(u)
    BY <1>3, TextIs
  <1>7. /\ z \in Text /\ Len(z) = (b + 1) + l /\ z[b + 1] = word
        /\ \A p \in 1 .. b : z[p] = u[p]
        /\ \A p \in 1 .. l : z[(b + 1) + p] = y[p]
    <2>1. Chain(u, word, y, z)
      BY <1>1, <1>2, <1>3, <1>4, Chained
    <2> QED BY <1>5, <1>6, <2>1 DEF Chain
  <1>8. PICK more : more = [m \in 1 .. (n + 1) + 1 |-> IF m <= n + 1 THEN off[m] ELSE ((b + 1) + l) + 1]
    OBVIOUS
  <1>9. /\ \A m \in 1 .. n + 1 : more[m] = off[m] /\ off[m] \in Nat
        /\ more[(n + 1) + 1] = ((b + 1) + l) + 1 /\ off[n + 1] = b + 1
    <2>1. \A m \in 1 .. n + 1 : m \in 1 .. (n + 1) + 1 /\ m <= n + 1
      BY <1>1
    <2>2. (n + 1) + 1 \in 1 .. (n + 1) + 1 /\ ~((n + 1) + 1 <= n + 1)
      BY <1>1
    <2> QED BY <1>3, <1>6, <1>8, <2>1, <2>2
  <1>10. more \in [1 .. (n + 1) + 1 -> Nat]
    <2>1. ((b + 1) + l) + 1 \in Nat
      OBVIOUS
    <2>2. ASSUME NEW m \in 1 .. (n + 1) + 1
          PROVE  m <= n + 1 => off[m] \in Nat
      <3>1. m <= n + 1 => m \in 1 .. n + 1
        BY <1>1
      <3> QED BY <1>3, <3>1
    <2> QED BY <1>8, <2>1, <2>2
  <1>11. ASSUME NEW m \in 1 .. n + 1
         PROVE  more[m + 1] = (more[m] + Len(texts[m])) + 1
    <2>1. CASE m = n + 1
      BY <1>4, <1>5, <1>9, <2>1
    <2>2. CASE m # n + 1
      <3>1. m \in 1 .. n /\ m + 1 \in 1 .. n + 1
        BY <1>1, <2>2
      <3> QED BY <1>3, <1>9, <3>1
    <2> QED BY <2>1, <2>2
  <1>12. \A m \in 1 .. n + 1 : off[m] <= b + 1
    <2>1. n \in 1 .. Len(texts) /\ LaidOut(u, texts, n, word, off)
      BY <1>1 DEF Filled
    <2> QED BY <1>9, <2>1, LaidBelow
  <1>13. ASSUME NEW m \in 1 .. n + 1, NEW d \in 1 .. Len(texts[m])
         PROVE  z[more[m] + d] = texts[m][d]
    <2>1. CASE m = n + 1
      <3>1. more[m] = b + 1 /\ d \in 1 .. l
        BY <1>4, <1>5, <1>9, <2>1
      <3> QED BY <1>4, <1>7, <2>1, <3>1
    <2>2. CASE m # n + 1
      <3>1. m \in 1 .. n /\ m + 1 \in 1 .. n + 1 /\ m \in 1 .. Len(texts)
        BY <1>1, <2>2
      <3>2. off[m + 1] = (off[m] + Len(texts[m])) + 1 /\ off[m + 1] <= b + 1 /\ off[m] \in Nat
            /\ Len(texts[m]) \in Nat
        BY <1>2, <1>3, <1>9, <1>12, <3>1
      <3>3. off[m] + d \in 1 .. b
        BY <3>2
      <3>4. more[m] = off[m] /\ u[off[m] + d] = texts[m][d]
        BY <1>3, <1>9, <3>1
      <3> QED BY <1>7, <3>3, <3>4
    <2> QED BY <2>1, <2>2
  <1>14. ASSUME NEW m \in 1 .. (n + 1) - 1
         PROVE  z[more[m + 1]] = word
    <2>1. m \in 1 .. n /\ m + 1 \in 1 .. n + 1
      BY <1>1
    <2>2. CASE m = n
      BY <1>7, <1>9, <2>1, <2>2
    <2>3. CASE m # n
      <3>1. m \in 1 .. n - 1 /\ m + 1 \in 1 .. n /\ (m + 1) + 1 \in 1 .. n + 1 /\ m + 1 \in 1 .. Len(texts)
        BY <1>1, <2>1, <2>3
      <3>2. u[off[m + 1]] = word /\ more[m + 1] = off[m + 1]
        BY <1>3, <1>9, <2>1, <3>1
      <3>3. off[m + 1] \in 1 .. b
        <4>1. off[(m + 1) + 1] = (off[m + 1] + Len(texts[m + 1])) + 1 /\ off[(m + 1) + 1] <= b + 1
          BY <1>3, <1>12, <3>1
        <4>2. off[m + 1] = (off[m] + Len(texts[m])) + 1
          BY <1>3, <2>1
        <4>3. off[m] \in Nat /\ off[m + 1] \in Nat /\ Len(texts[m]) \in Nat /\ Len(texts[m + 1]) \in Nat
          <5>1. m \in 1 .. n + 1 /\ m \in 1 .. Len(texts)
            BY <1>1, <2>1
          <5> QED BY <1>2, <1>9, <2>1, <3>1, <5>1
        <4>4. PICK i, j, p, q : i = off[m] /\ j = off[m + 1] /\ p = Len(texts[m]) /\ q = Len(texts[m + 1])
          OBVIOUS
        <4>5. i \in Nat /\ j \in Nat /\ p \in Nat /\ q \in Nat /\ j = (i + p) + 1 /\ (j + q) + 1 <= b + 1
          BY <4>1, <4>2, <4>3, <4>4
        <4>6. j \in 1 .. b
          BY <4>5
        <4> QED BY <4>4, <4>6
      <3> QED BY <1>7, <3>2, <3>3
    <2> QED BY <2>2, <2>3
  <1>15. more[1] = 0 /\ more[(n + 1) + 1] = Len(z) + 1
    <2>1. 1 \in 1 .. n + 1
      BY <1>1
    <2> QED BY <1>3, <1>7, <1>9, <2>1
  <1>16. LaidOut(z, texts, n + 1, word, more)
    <2>1. Len(z) \in Nat
      BY <1>7, TextIs
    <2>2. more[(n + 1) + 1] <= Len(z) + 1
      BY <1>15, <2>1
    <2> QED BY <1>7, <1>10, <1>11, <1>13, <1>14, <2>2 DEF LaidOut
  <1> QED BY <1>15, <1>16 DEF Filled

LEMMA JoinedIs ==
  ASSUME NEW texts \in Seq(Text), Len(texts) # 0, NEW word \in Words
  PROVE  \E off : Filled(Joined(texts, word), texts, Len(texts), word, off)
  <1>1. PICK n \in Nat \ {0} : n = Len(texts)
    BY LenProperties
  <1>2. \A m \in 1 .. n : texts[m] \in Text /\ Len(texts[m]) \in Nat
    BY <1>1, ElementOfSeq, TextIs
  <1>3. PICK f : AreJoined(f, texts, word) /\ f[n] = Joined(texts, word)
    BY <1>1, JoinedStep
  <1>4. \A m \in 1 .. n : f[m] = IF m = 1 THEN texts[1] ELSE f[m - 1] \o <<word>> \o texts[m]
    BY <1>1, <1>3 DEF AreJoined
  <1> DEFINE T == {m \in 1 .. n : \E off : Filled(f[m], texts, m, word, off)}
  <1>5. 1 \in T
    <2>1. PICK l \in Nat : l = Len(texts[1])
      BY <1>2
    <2>2. PICK off : off = [m \in 1 .. 1 + 1 |-> IF m = 1 THEN 0 ELSE l + 1]
      OBVIOUS
    <2>3. off \in [1 .. 1 + 1 -> Nat] /\ off[1] = 0 /\ off[1 + 1] = l + 1
      BY <2>2
    <2>4. f[1] = texts[1] /\ texts[1] \in Text /\ 1 \in 1 .. n
      BY <1>2, <1>4
    <2>5. \A d \in 1 .. l : 0 + d = d
      OBVIOUS
    <2>6. LaidOut(texts[1], texts, 1, word, off)
      <3>1. \A m \in 1 .. 1 : m = 1
        OBVIOUS
      <3>2. off[1 + 1] = (off[1] + Len(texts[1])) + 1 /\ off[1 + 1] <= Len(texts[1]) + 1
        BY <2>1, <2>3
      <3>3. \A d \in 1 .. Len(texts[1]) : texts[1][off[1] + d] = texts[1][d]
        BY <2>1, <2>3, <2>5
      <3>4. 1 .. 1 - 1 = {}
        OBVIOUS
      <3> QED BY <2>3, <2>4, <3>1, <3>2, <3>3, <3>4 DEF LaidOut
    <2>7. Filled(f[1], texts, 1, word, off)
      BY <2>1, <2>3, <2>4, <2>6 DEF Filled
    <2> QED BY <2>4, <2>7
  <1>6. ASSUME NEW m \in 1 .. n - 1, m \in T
        PROVE  m + 1 \in T
    <2>1. PICK off : Filled(f[m], texts, m, word, off)
      BY <1>6
    <2>2. m + 1 \in 1 .. n /\ m + 1 # 1 /\ (m + 1) - 1 = m /\ m \in 1 .. Len(texts) - 1
      BY <1>1
    <2>3. f[m + 1] = f[m] \o <<word>> \o texts[m + 1]
      BY <1>4, <2>2
    <2>4. \E more : Filled(f[m + 1], texts, m + 1, word, more)
      BY <2>1, <2>2, <2>3, FilledMore
    <2> QED BY <2>2, <2>4
  <1>7. \A m \in 1 .. n : m \in T
    <2>1. 1 \in Nat
      OBVIOUS
    <2> HIDE DEF T
    <2> QED BY <1>5, <1>6, <2>1, Ascending
  <1>8. n \in 1 .. n
    OBVIOUS
  <1> QED BY <1>1, <1>3, <1>7, <1>8

\* u holds v behind b words.
Holds(u, b, v) ==
    /\ u \in Text /\ b \in Nat /\ b + Len(v) <= Len(u)
    /\ \A p \in 1 .. Len(v) : u[b + p] = v[p]

\* What is laid out in a text is so in one that holds this text behind b words.
LEMMA LaidWithin ==
  ASSUME NEW texts \in Seq(Text), NEW n \in 1 .. Len(texts), NEW word, NEW v, NEW off,
         LaidOut(v, texts, n, word, off), NEW u, NEW b, Holds(u, b, v)
  PROVE  LaidOut(u, texts, n, word, [m \in 1 .. n + 1 |-> b + off[m]])
  <1>0. /\ u \in Text /\ b \in Nat /\ b + Len(v) <= Len(u)
        /\ \A p \in 1 .. Len(v) : u[b + p] = v[p]
    BY DEF Holds
  <1> PICK more : more = [m \in 1 .. n + 1 |-> b + off[m]]
    OBVIOUS
  <1>1. Len(texts) \in Nat /\ n \in Nat \ {0}
    BY LenProperties
  <1>2. /\ v \in Text /\ off \in [1 .. n + 1 -> Nat] /\ off[n + 1] <= Len(v) + 1
        /\ \A m \in 1 .. n : off[m + 1] = (off[m] + Len(texts[m])) + 1
        /\ \A m \in 1 .. n : \A d \in 1 .. Len(texts[m]) : v[off[m] + d] = texts[m][d]
        /\ \A m \in 1 .. n - 1 : v[off[m + 1]] = word
    BY DEF LaidOut
  <1>3. \A m \in 1 .. n : Len(texts[m]) \in Nat
    <2>1. \A m \in 1 .. Len(texts) : texts[m] \in Text /\ Len(texts[m]) \in Nat
      BY ElementOfSeq, TextIs
    <2> QED BY <1>1, <2>1
  <1>4. PICK l \in Nat, k \in Nat : l = Len(v) /\ k = Len(u)
    BY <1>0, <1>2, TextIs
  <1>5. \A m \in 1 .. n + 1 : off[m] \in Nat /\ off[m] <= l + 1 /\ more[m] = b + off[m]
    <2>1. \A m \in 1 .. n + 1 : off[m] <= off[n + 1]
      BY LaidBelow
    <2>2. n + 1 \in 1 .. n + 1
      BY <1>1
    <2>3. off[n + 1] \in Nat /\ off[n + 1] <= l + 1
      BY <1>2, <1>4, <2>2
    <2>4. ASSUME NEW m \in 1 .. n + 1
          PROVE  off[m] \in Nat /\ off[m] <= l + 1
      <3>1. off[m] \in Nat /\ off[m] <= off[n + 1]
        BY <1>2, <2>1
      <3> QED BY <2>3, <3>1
    <2> QED BY <2>4
  <1>6. more \in [1 .. n + 1 -> Nat]
    BY <1>0, <1>5
  <1>7. more[n + 1] <= Len(u) + 1
    <2>1. n + 1 \in 1 .. n + 1
      BY <1>1
    <2> QED BY <1>0, <1>4, <1>5, <2>1
  <1>8. ASSUME NEW m \in 1 .. n
        PROVE  more[m + 1] = (more[m] + Len(texts[m])) + 1
    <2>1. m \in 1 .. n + 1 /\ m + 1 \in 1 .. n + 1
      BY <1>1
    <2>2. PICK x \in Nat, y \in Nat : x = off[m] /\ y = Len(texts[m])
      BY <1>3, <1>5, <2>1
    <2>3. more[m + 1] = b + ((x + y) + 1) /\ more[m] = b + x
      BY <1>2, <1>5, <2>1, <2>2
    <2>4. b + ((x + y) + 1) = ((b + x) + y) + 1
      BY <1>0
    <2> QED BY <2>2, <2>3, <2>4
  <1>9. ASSUME NEW m \in 1 .. n, NEW d \in 1 .. Len(texts[m])
        PROVE  u[more[m] + d] = texts[m][d]
    <2>1. m \in 1 .. n + 1 /\ m + 1 \in 1 .. n + 1
      BY <1>1
    <2>2. PICK x \in Nat, y \in Nat : x = off[m] /\ y = Len(texts[m])
      BY <1>3, <1>5, <2>1
    <2>3. (x + y) + 1 <= l + 1 /\ more[m] = b + x
      BY <1>2, <1>5, <2>1, <2>2
    <2>4. d \in 1 .. y
      BY <2>2
    <2>5. x + d \in 1 .. l /\ (b + x) + d = b + (x + d)
      <3>1. b \in Nat
        BY <1>0
      <3>2. x + y <= l /\ d \in Nat \ {0} /\ d <= y
        BY <2>3, <2>4
      <3> HIDE <1>0
      <3> QED BY <3>1, <3>2
    <2>6. off[m] + d \in 1 .. l /\ more[m] + d = b + (off[m] + d)
      BY <2>2, <2>3, <2>5
    <2>7. u[b + (off[m] + d)] = v[off[m] + d]
      BY <1>0, <1>4, <2>6
    <2> QED BY <1>2, <2>6, <2>7
  <1>10. ASSUME NEW m \in 1 .. n - 1
         PROVE  u[more[m + 1]] = word
    <2>1. m \in 1 .. n /\ m \in 1 .. n + 1 /\ m + 1 \in 1 .. n /\ m + 1 \in 1 .. n + 1 /\ (m + 1) + 1 \in 1 .. n + 1
      BY <1>1
    <2>2. off[m + 1] \in 1 .. l
      <3>1. PICK x \in Nat, y \in Nat, z \in Nat, w \in Nat :
               x = off[m] /\ y = Len(texts[m]) /\ z = off[m + 1] /\ w = Len(texts[m + 1])
        BY <1>3, <1>5, <2>1
      <3>2. (z + w) + 1 <= l + 1 /\ z = (x + y) + 1
        BY <1>2, <1>5, <2>1, <3>1
      <3>3. z \in 1 .. l
        BY <3>2
      <3> QED BY <3>1, <3>3
    <2>3. u[b + off[m + 1]] = v[off[m + 1]]
      BY <1>0, <1>4, <2>2
    <2> QED BY <1>2, <1>5, <2>1, <2>3
  <1> QED BY <1>0, <1>6, <1>7, <1>8, <1>9, <1>10 DEF LaidOut

-----------------------------------------------------------------------------
(* The texts of a statement *)

\* u is a name, a word, texts with a word between them, and what closes it.
Spread(u, name, opening, texts, word, close, off) ==
    /\ name \in Text /\ LaidOut(u, texts, Len(texts), word, off)
    /\ \A p \in 1 .. Len(name) : u[p] = name[p]
    /\ u[Len(name) + 1] = opening /\ off[1] = Len(name) + 1
    /\ \/ close = <<>> /\ off[Len(texts) + 1] = Len(u) + 1
       \/ close = <<")">> /\ off[Len(texts) + 1] = Len(u) /\ u[Len(u)] = ")"

\* What opens and separates the entities are words that may stand behind one.
LEMMA FormWords ==
  /\ \A form : Opening(form) \in Words /\ Separator(form) \in Words /\ Separator(form) \in Stops
  /\ Opening("standard") = "("
  BY DEF Opening, Separator, Words, Marks, Stops

LEMMA SpreadSpaced ==
  ASSUME NEW name \in Text, NEW texts \in Seq(Text), Len(texts) # 0,
         NEW opening \in Words, NEW word \in Words, NEW u, u = name \o <<opening>> \o Joined(texts, word)
  PROVE  \E off : Spread(u, name, opening, texts, word, <<>>, off)
  <1>1. opening \in Words /\ word \in Words
    OBVIOUS
  <1>2. PICK n \in Nat \ {0} : n = Len(texts)
    BY LenProperties
  <1>3. PICK v : v = Joined(texts, word)
    OBVIOUS
  <1>4. PICK old : Filled(v, texts, n, word, old)
    BY <1>1, <1>2, <1>3, JoinedIs
  <1>5. LaidOut(v, texts, n, word, old) /\ old[1] = 0 /\ old[n + 1] = Len(v) + 1
    BY <1>4 DEF Filled
  <1>6. v \in Text /\ Len(v) \in Nat
    BY <1>5, TextIs DEF LaidOut
  <1>7. Chain(name, opening, v, u)
    BY <1>1, <1>3, <1>6, Chained
  <1>8. PICK b \in Nat : b = Len(name) + 1
    BY TextIs
  <1>9. PICK off : off = [m \in 1 .. n + 1 |-> b + old[m]]
    OBVIOUS
  <1>10. u \in Text /\ Len(u) = b + Len(v) /\ \A p \in 1 .. Len(v) : u[b + p] = v[p]
    BY <1>7, <1>8 DEF Chain
  <1>11. b + Len(v) <= Len(u)
    BY <1>6, <1>10
  <1>12. LaidOut(u, texts, n, word, off)
    <2>1. n \in 1 .. Len(texts)
      BY <1>2
    <2>2. off = [m \in 1 .. n + 1 |-> b + old[m]] /\ LaidOut(v, texts, n, word, old)
      BY <1>5, <1>9
    <2>3. Holds(u, b, v)
      BY <1>10, <1>11 DEF Holds
    <2> QED BY <2>1, <2>2, <2>3, LaidWithin
  <1>13. off[1] = Len(name) + 1 /\ off[n + 1] = Len(u) + 1
    <2>1. 1 \in 1 .. n + 1 /\ n + 1 \in 1 .. n + 1
      OBVIOUS
    <2>2. off[1] = b + 0 /\ off[n + 1] = b + (Len(v) + 1)
      BY <1>5, <1>9, <2>1
    <2>3. PICK l \in Nat : l = Len(v)
      BY <1>6
    <2>4. off[1] = b /\ off[n + 1] = (b + l) + 1
      BY <2>2, <2>3
    <2> QED BY <1>8, <1>10, <2>3, <2>4
  <1> QED BY <1>2, <1>7, <1>12, <1>13 DEF Spread, Chain

LEMMA SpreadStandard ==
  ASSUME NEW name \in Text, NEW texts \in Seq(Text), Len(texts) # 0,
         NEW opening \in Words, NEW word \in Words,
         NEW u, u = name \o <<opening>> \o Joined(texts, word) \o <<")">>
  PROVE  \E off : Spread(u, name, opening, texts, word, <<")">>, off)
  <1>1. opening \in Words /\ word \in Words /\ ")" \in Words
    BY DEF Words, Marks
  <1>2. PICK n \in Nat \ {0} : n = Len(texts)
    BY LenProperties
  <1>3. PICK v : v = Joined(texts, word)
    OBVIOUS
  <1>4. PICK old : Filled(v, texts, n, word, old)
    BY <1>1, <1>2, <1>3, JoinedIs
  <1>5. LaidOut(v, texts, n, word, old) /\ old[1] = 0 /\ old[n + 1] = Len(v) + 1
    BY <1>4 DEF Filled
  <1>6. v \in Text /\ Len(v) \in Nat
    BY <1>5, TextIs DEF LaidOut
  <1>7. PICK w : w = name \o <<opening>> \o v
    OBVIOUS
  <1>8. Chain(name, opening, v, w)
    BY <1>1, <1>6, <1>7, Chained
  <1>9. w \in Text /\ Len(w) \in Nat
    BY <1>8, TextIs DEF Chain
  <1>10. PICK z : z = w \o <<")">> \o <<>>
    OBVIOUS
  <1>11. z = u
    <2>1. <<")">> \in Seq(Words) /\ w \in Seq(Words)
      BY <1>1, <1>9 DEF Text, Words
    <2>2. w \o <<")">> \in Seq(Words)
      BY <2>1, ConcatProperties
    <2>3. w \o <<")">> \o <<>> = w \o <<")">>
      BY <2>2, ConcatEmptySeq
    <2> QED BY <1>3, <1>7, <1>10, <2>3
  <1>12. Chain(w, ")", <<>>, u)
    <2>1. <<>> \in Text
      BY DEF Text
    <2> QED BY <1>1, <1>9, <1>10, <1>11, <2>1, Chained
  <1>13. u \in Text /\ Len(u) = Len(w) + 1 /\ u[Len(w) + 1] = ")" /\ \A p \in 1 .. Len(w) : u[p] = w[p]
    <2>1. Len(<<>>) = 0
      OBVIOUS
    <2> QED BY <1>9, <1>12, <2>1 DEF Chain
  <1>14. PICK a \in Nat, b \in Nat, l \in Nat : a = Len(name) /\ b = a + 1 /\ l = Len(v)
    <2>1. Len(name) \in Nat /\ Len(name) + 1 \in Nat
      BY TextIs
    <2> QED BY <1>6, <2>1
  <1>15. Len(w) = b + l /\ Len(u) = (b + l) + 1
    BY <1>8, <1>13, <1>14 DEF Chain
  <1>16. \A p \in 1 .. l : u[b + p] = v[p]
    <2> SUFFICES ASSUME NEW p \in 1 .. l
                 PROVE  u[b + p] = v[p]
      OBVIOUS
    <2>1. b + p \in 1 .. Len(w)
      BY <1>14, <1>15
    <2>2. w[b + p] = v[p]
      BY <1>8, <1>14 DEF Chain
    <2> QED BY <1>13, <2>1, <2>2
  <1>17. \A p \in 1 .. a + 1 : u[p] = w[p]
    BY <1>13, <1>14, <1>15
  <1>18. (\A p \in 1 .. a : u[p] = name[p]) /\ u[a + 1] = opening
    <2>1. \A p \in 1 .. a : p \in 1 .. a + 1 /\ w[p] = name[p]
      BY <1>8, <1>14 DEF Chain
    <2>2. a + 1 \in 1 .. a + 1 /\ w[a + 1] = opening
      BY <1>8, <1>14 DEF Chain
    <2> QED BY <1>17, <2>1, <2>2
  <1>19. PICK off : off = [m \in 1 .. n + 1 |-> b + old[m]]
    OBVIOUS
  <1>20. LaidOut(u, texts, n, word, off)
    <2>1. n \in 1 .. Len(texts) /\ b + Len(v) <= Len(u) /\ \A p \in 1 .. Len(v) : u[b + p] = v[p]
      BY <1>2, <1>14, <1>15, <1>16
    <2>2. off = [m \in 1 .. n + 1 |-> b + old[m]] /\ LaidOut(v, texts, n, word, old)
      BY <1>5, <1>19
    <2>3. Holds(u, b, v)
      BY <1>13, <2>1 DEF Holds
    <2> QED BY <2>1, <2>2, <2>3, LaidWithin
  <1>21. off[1] = Len(name) + 1 /\ off[n + 1] = Len(u) /\ u[Len(u)] = ")"
    <2>1. 1 \in 1 .. n + 1 /\ n + 1 \in 1 .. n + 1
      OBVIOUS
    <2>2. off[1] = b + 0 /\ off[n + 1] = b + (l + 1)
      BY <1>5, <1>14, <1>19, <2>1
    <2>3. off[1] = Len(name) + 1 /\ off[n + 1] = Len(u)
      BY <1>14, <1>15, <2>2
    <2> QED BY <1>13, <1>15, <2>3
  <1>22. \A p \in 1 .. Len(name) : u[p] = name[p]
    BY <1>14, <1>18
  <1>23. u[Len(name) + 1] = opening
    BY <1>14, <1>18
  <1> QED BY <1>2, <1>20, <1>21, <1>22, <1>23 DEF Spread

LEMMA StandsSpread ==
  ASSUME NEW name, NEW opening, NEW texts \in Seq(Text), NEW word \in Stops, NEW close, NEW u, NEW off,
         Spread(u, name, opening, texts, word, close, off), NEW m \in 1 .. Len(texts), Len(texts[m]) # 0
  PROVE  Stands(texts[m], u, off[m] + 1) /\ (off[m] + 1) + Len(texts[m]) = off[m + 1]
  <1>1. PICK n \in Nat : n = Len(texts)
    BY LenProperties
  <1>2. PICK x : x = texts[m]
    OBVIOUS
  <1>3. x \in Text /\ Len(x) \in Nat \ {0}
    BY <1>2, ElementOfSeq, TextIs
  <1>4. PICK l \in Nat \ {0} : l = Len(x)
    BY <1>3
  <1>5. LaidOut(u, texts, n, word, off)
    BY <1>1 DEF Spread
  <1>6. /\ u \in Text /\ Len(u) \in Nat /\ off \in [1 .. n + 1 -> Nat] /\ off[n + 1] <= Len(u) + 1
        /\ off[m + 1] = (off[m] + l) + 1
        /\ \A d \in 1 .. l : u[off[m] + d] = x[d]
        /\ m \in 1 .. n - 1 => u[off[m + 1]] = word
    BY <1>1, <1>2, <1>4, <1>5, TextIs DEF LaidOut
  <1>7. m \in 1 .. n /\ m \in 1 .. n + 1 /\ m + 1 \in 1 .. n + 1 /\ n + 1 \in 1 .. n + 1 /\ n \in 1 .. Len(texts)
    BY <1>1
  <1>8. off[m + 1] <= off[n + 1]
    BY <1>5, <1>7, LaidBelow
  <1>9. PICK k \in Nat \ {0} : k = off[m] + 1
    BY <1>6, <1>7
  <1>10. k + l = off[m + 1] /\ off[m] \in Nat /\ off[n + 1] \in Nat
    BY <1>6, <1>7, <1>9
  <1>11. k + l <= Len(u) + 1
    BY <1>6, <1>8, <1>10
  <1>12. k + l \in 1 .. Len(u) => u[k + l] \in Stops
    <2>1. CASE m \in 1 .. n - 1
      BY <1>6, <1>10, <2>1
    <2>2. CASE m \notin 1 .. n - 1
      <3>1. m = n
        BY <1>1, <1>7, <2>2
      <3>2. \/ k + l = Len(u) + 1
            \/ k + l = Len(u) /\ u[Len(u)] = ")"
        BY <1>1, <1>10, <3>1 DEF Spread
      <3>3. k + l = Len(u) + 1 => k + l \notin 1 .. Len(u)
        BY <1>6
      <3>4. ")" \in Stops
        BY DEF Stops
      <3> QED BY <3>2, <3>3, <3>4
    <2> QED BY <2>1, <2>2
  <1>13. \A d \in 0 .. l - 1 : x[1 + d] = u[k + d]
    <2> SUFFICES ASSUME NEW d \in 0 .. l - 1
                 PROVE  x[1 + d] = u[k + d]
      OBVIOUS
    <2>1. PICK c \in Nat : c = off[m]
      BY <1>10
    <2>2. 1 + d \in 1 .. l /\ c + (1 + d) = (c + 1) + d
      OBVIOUS
    <2>3. k = c + 1
      BY <1>9, <2>1
    <2> QED BY <1>6, <2>1, <2>2, <2>3
  <1>14. k \in 1 .. Len(u) + 1 /\ k + l \in 1 .. Len(u) + 1 /\ 1 \in 1 .. l + 1 /\ 1 + l \in 1 .. l + 1
         /\ 1 + l \notin 1 .. l
    BY <1>6, <1>11
  <1>15. Copy(x, 1, u, k, l, Stops, TRUE)
    BY <1>3, <1>4, <1>6, <1>12, <1>13, <1>14 DEF Copy
  <1>16. Stands(x, u, k)
    BY <1>3, <1>4, <1>6, <1>15 DEF Stands
  <1> QED BY <1>2, <1>4, <1>9, <1>10, <1>16

-----------------------------------------------------------------------------
(* Lists of entities *)

Space == " "

LEMMA AfterIs ==
  ASSUME NEW t, NEW i, NEW mark
  PROVE  After(t, i, mark) = IF mark = Space THEN Run1(t, i, {Space}) ELSE Tag(t, i, mark)
  BY DEF After, Space

LEMMA AfterOne ==
  ASSUME NEW t \in Text, NEW i \in 1 .. Len(t), NEW mark, t[i] = mark,
         i + 1 \in 1 .. Len(t) => t[i + 1] # Space
  PROVE  After(t, i, mark) = i + 1
  <1>1. Len(t) \in Nat /\ i \in Nat /\ i + 1 \in 1 .. Len(t) + 1
    BY TextIs
  <1>2. CASE mark = Space
    <2>1. One(t, i, {Space}) = i + 1
      BY <1>1, <1>2, OneIs
    <2>2. EndsRun(t, i + 1, {Space}, i + 1)
      <3>1. i + 1 \in i + 1 .. Len(t) + 1
        BY <1>1
      <3>2. \A p : p \notin i + 1 .. (i + 1) - 1
        BY <1>1
      <3> QED BY <3>1, <3>2 DEF EndsRun
    <2>3. Run(t, i + 1, {Space}) = i + 1
      BY <1>1, <2>2, RunOnly
    <2> QED BY <1>2, <2>1, <2>3, AfterIs DEF Run1
  <1>3. CASE mark # Space
    <2>1. One(t, i, {mark}) = i + 1
      BY <1>1, OneIs
    <2> QED BY <1>3, <2>1, AfterIs DEF Tag
  <1> QED BY <1>2, <1>3

LEMMA AfterNone ==
  ASSUME NEW t \in Text, NEW i \in Nat, NEW mark, i \in 1 .. Len(t) => t[i] # mark
  PROVE  After(t, i, mark) = 0
  <1>1. One(t, i, {mark}) = 0
    BY OneIs
  <1>2. Run1(t, i, {mark}) = 0
    BY <1>1, RunZero DEF Run1
  <1> QED BY <1>1, <1>2, AfterIs DEF Tag

\* Nothing is read, or what is read is not before where it starts.
Progress(t, i, p) == p = 0 \/ p \in i .. Len(t) + 1

LEMMA AfterLater ==
  ASSUME NEW t \in Text, NEW i \in 1 .. Len(t) + 1, NEW p, Progress(t, i, p), NEW mark
  PROVE  After(t, p, mark) = 0 \/ After(t, p, mark) \in i + 1 .. Len(t) + 1
  <1>1. PICK l \in Nat : l = Len(t)
    BY TextIs
  <1>2. p \in Nat /\ i \in Nat \ {0}
    BY <1>1 DEF Progress
  <1>3. CASE p = 0
    <2>1. p \notin 1 .. Len(t)
      BY <1>1, <1>3
    <2> QED BY <1>2, <2>1, AfterNone
  <1>4. CASE p # 0 /\ mark = Space
    <2>1. PICK j : j = Run1(t, p, {Space})
      OBVIOUS
    <2>2. p \in 1 .. Len(t) + 1 /\ p \in i .. l + 1
      BY <1>1, <1>2, <1>4 DEF Progress
    <2>3. j = 0 \/ j \in p + 1 .. Len(t) + 1
      BY <2>1, <2>2, Run1Is
    <2>4. j = 0 \/ j \in i + 1 .. Len(t) + 1
      BY <1>1, <1>2, <2>2, <2>3
    <2> QED BY <1>4, <2>1, <2>4, AfterIs
  <1>5. CASE p # 0 /\ mark # Space
    <2>1. PICK j : j = Tag(t, p, mark)
      OBVIOUS
    <2>2. j = 0 \/ (p \in 1 .. Len(t) /\ j = p + 1)
      BY <1>2, <2>1, OneIs DEF Tag
    <2>3. p \in i .. l + 1
      BY <1>1, <1>5 DEF Progress
    <2>4. j = 0 \/ j \in i + 1 .. Len(t) + 1
      BY <1>1, <1>2, <2>2, <2>3
    <2> QED BY <1>5, <2>1, <2>4, AfterIs
  <1> QED BY <1>3, <1>4, <1>5

LEMMA RecognizedProgress ==
  ASSUME NEW t, NEW i, NEW a, NEW p, NEW kind, Progress(t, i, p)
  PROVE  Progress(t, i, Recognized(t, a, p, kind).next)
  <1>1. Recognized(t, a, p, kind).next \in {0, p}
    BY ReadingIs DEF Recognized, NoEntity
  <1> QED BY <1>1 DEF Progress

LEMMA ConvertedProgress ==
  ASSUME NEW t, NEW i, NEW a, NEW p, NEW kind, NEW table, Progress(t, i, p)
  PROVE  Progress(t, i, Converted(t, a, p, kind, table).next)
  <1>1. Converted(t, a, p, kind, table).next \in {0, p}
    BY ReadingIs DEF Converted, NoEntity
  <1> QED BY <1>1 DEF Progress

LEMMA AheadProgress ==
  ASSUME NEW t, NEW i, NEW p, NEW words, Ahead(t, i, p, words)
  PROVE  Progress(t, i, p)
  BY DEF Ahead, Progress

LEMMA EntityProgress ==
  ASSUME NEW t \in Text, NEW i \in 1 .. Len(t) + 1
  PROVE  Progress(t, i, entity(t, i).next)
  <1> PICK all : all = Words
    OBVIOUS
  <1>1. \A p : p \in 1 .. Len(t) => t[p] \in all
    BY ElementOfSeq DEF Text, Words
  <1>2. PICK more : more = all \cup Local \cup {"@", "=", "#", ":", "/", ".", "AS", "secp256k1:", "(", ")"} \cup TemplateWords
                           \cup Base64 \cup Digits \cup Hexadecimal
    OBVIOUS
  <1>3. Ahead(t, i, i, more) /\ DomainWords \subseteq more
    BY <1>2, AheadNow, WordsOf
  <1>4. Progress(t, i, email(t, i).next)
    <2>1. Local \cup {"@"} \subseteq more
      BY <1>2
    <2>2. Ahead(t, i, EMailEnd(t, i), more)
      BY <1>3, <2>1, EMailAhead
    <2> QED BY <2>2, AheadProgress, RecognizedProgress DEF email
  <1>5. Progress(t, i, hash_value(t, i).next)
    <2>1. PICK at : at = Tag(t, i, "#")
      OBVIOUS
    <2>2. Local \cup {"@"} \subseteq more /\ Base64 \cup {"="} \subseteq more /\ "#" \in more
      BY <1>2
    <2>3. Ahead(t, i, at, more)
      BY <1>3, <2>1, <2>2, TagAhead
    <2>4. Ahead(t, i, EMailEnd(t, at), more) /\ Ahead(t, i, Base64End(t, at), more)
      BY <2>2, <2>3, EMailAhead, Base64Ahead
    <2>5. hash_value(t, i).next \in {0, EMailEnd(t, at), Base64End(t, at)}
      BY <2>1, ReadingIs DEF hash_value, Recognized, NoEntity
    <2>6. Progress(t, i, EMailEnd(t, at)) /\ Progress(t, i, Base64End(t, at)) /\ Progress(t, i, 0)
      BY <2>4, AheadProgress DEF Progress
    <2> QED BY <2>5, <2>6
  <1>6. Progress(t, i, template(t, i).next)
    <2>1. TemplateWords \subseteq more /\ ")" \in more
      BY <1>2
    <2>2. Ahead(t, i, TypesEnd(t, i), more)
      BY <1>3, <2>1, TypesAhead
    <2>3. Ahead(t, i, Tag(t, TypesEnd(t, i), ")"), more)
      BY <2>1, <2>2, TagAhead
    <2>4. Ahead(t, i, TemplateEnd(t, i), more)
      BY <2>3 DEF TemplateEnd, TypesEnd
    <2> QED BY <2>4, AheadProgress, RecognizedProgress DEF template
  <1>7. Progress(t, i, asn(t, i).next)
    <2>1. PICK at : at = Tag(t, i, "AS")
      OBVIOUS
    <2>2. Digits \subseteq more /\ "AS" \in more
      BY <1>2
    <2>3. Ahead(t, i, at, more)
      BY <1>3, <2>1, <2>2, TagAhead
    <2>4. PICK p : p = Run1(t, at, Digits)
      OBVIOUS
    <2>5. Ahead(t, i, p, more)
      BY <2>2, <2>3, <2>4, Run1Ahead
    <2>6. PICK c : c = Converted(t, at, p, "AS", Numbers)
      OBVIOUS
    <2>7. Progress(t, i, c.next)
      BY <2>5, <2>6, AheadProgress, ConvertedProgress
    <2>8. asn(t, i) = Prefixed(at, c)
      BY <2>1, <2>4, <2>6 DEF asn, Prefixed
    <2>9. Prefixed(at, c) = NoEntity \/ Prefixed(at, c).next = c.next
      <3>1. c = NoEntity \/ \E y : c = Reading(p, "AS", y)
        BY <2>6 DEF Converted
      <3> QED BY <3>1 DEF Prefixed, Reading
    <2>10. NoEntity.next = 0 /\ Progress(t, i, 0)
      BY DEF NoEntity, Progress
    <2> QED BY <2>7, <2>8, <2>9, <2>10
  <1>8. Progress(t, i, signer(t, i).next)
    <2>1. PICK at : at = Tag(t, i, "secp256k1:")
      OBVIOUS
    <2>2. Base64 \cup {"="} \subseteq more /\ "secp256k1:" \in more
      BY <1>2
    <2>3. Ahead(t, i, at, more)
      BY <1>3, <2>1, <2>2, TagAhead
    <2>4. PICK p : p = Base64End(t, at)
      OBVIOUS
    <2>5. Ahead(t, i, p, more)
      BY <2>2, <2>3, <2>4, Base64Ahead
    <2>6. Progress(t, i, Recognized(t, i, p, "Signer").next)
      BY <2>5, AheadProgress, RecognizedProgress
    <2>7. signer(t, i) = Panic \/ signer(t, i) = Recognized(t, i, p, "Signer")
      BY <2>1, <2>4 DEF signer
    <2>8. Panic.next = 0 /\ Progress(t, i, 0)
      BY PanicIs DEF Progress
    <2> QED BY <2>6, <2>7, <2>8
  <1>9. Progress(t, i, domain(t, i).next)
    <2>1. Ahead(t, i, DomainEnd(t, i), more)
      BY <1>3, DomainAhead
    <2> QED BY <2>1, AheadProgress, RecognizedProgress DEF domain
  <1>10. Progress(t, i, ipv4(t, i).next)
    <2>1. Digits \cup {".", "/"} \subseteq more
      BY <1>2
    <2>2. Ahead(t, i, IPv4End(t, i), more)
      BY <1>3, <2>1, IPv4Ahead
    <2> QED BY <2>2, AheadProgress, ConvertedProgress DEF ipv4
  <1>11. Progress(t, i, ipv6(t, i).next)
    <2>1. Hexadecimal \cup {":", "/"} \subseteq more
      BY <1>2
    <2>2. Ahead(t, i, IPv6End(t, i), more)
      BY <1>3, <2>1, IPv6Ahead
    <2> QED BY <2>2, AheadProgress, ConvertedProgress DEF ipv6
  <1>12. NoEntity.next = 0 /\ Progress(t, i, 0)
    BY DEF NoEntity, Progress
  <1>13. entity(t, i) \in {email(t, i), hash_value(t, i), template(t, i), asn(t, i), signer(t, i), domain(t, i),
                           ipv4(t, i), ipv6(t, i)}
    BY EntityIs DEF FirstOf
  <1> QED BY <1>4, <1>5, <1>6, <1>7, <1>8, <1>9, <1>10, <1>11, <1>13

ReadingsOf(t) == {entity(t, j) : j \in Positions(t)}

AreLists(f, t, form) ==
    f = [j \in 0 .. Len(t) + 1 |->
            IF j = 0 \/ entity(t, j) = NoEntity THEN <<>>
            ELSE <<entity(t, j)>> \o f[After(t, entity(t, j).next, Separator(form))]]

\* The entities from a position on: none, or the first and those behind it.
ListStep(t, form, j) ==
    /\ EntityList(t, j, form) \in Seq(ReadingsOf(t))
    /\ j = 0 \/ entity(t, j) = NoEntity => EntityList(t, j, form) = <<>>
    /\ j # 0 /\ entity(t, j) # NoEntity =>
          EntityList(t, j, form)
             = <<entity(t, j)>> \o EntityList(t, After(t, entity(t, j).next, Separator(form)), form)

LEMMA Listed ==
  ASSUME NEW t \in Text, NEW form, NEW i \in Positions(t)
  PROVE  ListStep(t, form, i)
  <1>1. PICK b \in Nat : b = Len(t) + 1
    BY TextIs
  <1>2. Positions(t) = 0 .. b
    BY <1>1 DEF Positions
  <1>3. PICK S : S = Seq(ReadingsOf(t))
    OBVIOUS
  <1> DEFINE stop == {j \in 0 .. b : j = 0 \/ entity(t, j) = NoEntity}
             base == [j \in 0 .. b |-> <<>>]
             next == [j \in 0 .. b |-> After(t, entity(t, j).next, Separator(form))]
             Turn == [j \in 0 .. b |-> [v \in S |-> <<entity(t, j)>> \o v]]
  <1>4. <<>> \in S
    BY <1>3
  <1>5. 0 \in stop /\ base \in [0 .. b -> S]
    BY <1>4
  <1>6. Turn \in [0 .. b -> [S -> S]]
    <2>1. ASSUME NEW j \in 0 .. b, NEW v \in S
          PROVE  <<entity(t, j)>> \o v \in S
      <3>1. entity(t, j) \in ReadingsOf(t)
        BY <1>2 DEF ReadingsOf
      <3>2. <<entity(t, j)>> \in Seq(ReadingsOf(t))
        BY <3>1
      <3> QED BY <1>3, <3>2, ConcatProperties
    <2> QED BY <2>1
  <1>7. \A j \in 0 .. b : j \notin stop => next[j] = 0 \/ next[j] \in j + 1 .. b
    <2> SUFFICES ASSUME NEW j \in 0 .. b, j # 0
                 PROVE  next[j] = 0 \/ next[j] \in j + 1 .. b
      OBVIOUS
    <2>1. j \in 1 .. Len(t) + 1
      BY <1>1
    <2>2. Progress(t, j, entity(t, j).next)
      BY <2>1, EntityProgress
    <2>3. next[j] = After(t, entity(t, j).next, Separator(form))
      OBVIOUS
    <2> HIDE DEF next
    <2> QED BY <1>1, <2>1, <2>2, <2>3, AfterLater
  <1>8. \E f : Backward(f, S, 0 .. b, stop, base, next, Turn)
    <2> HIDE DEF stop, base, next, Turn
    <2> QED BY <1>5, <1>6, <1>7, BackwardExists
  <1>9. PICK f : Backward(f, S, 0 .. b, stop, base, next, Turn)
    BY <1>8
  <1>10. /\ f \in [0 .. b -> S]
         /\ \A j \in 0 .. b : f[j] = IF j \in stop THEN base[j] ELSE Turn[j][f[next[j]]]
    <2> HIDE DEF stop, base, next, Turn
    <2> QED BY <1>9 DEF Backward
  <1>11. ASSUME NEW j \in 0 .. b
         PROVE  f[j] = IF j = 0 \/ entity(t, j) = NoEntity THEN <<>>
                       ELSE <<entity(t, j)>> \o f[After(t, entity(t, j).next, Separator(form))]
    <2>1. CASE j = 0 \/ entity(t, j) = NoEntity
      <3>1. j \in stop
        BY <2>1
      <3> QED BY <1>10, <2>1, <3>1
    <2>2. CASE ~(j = 0 \/ entity(t, j) = NoEntity)
      <3>1. j \notin stop
        BY <2>2
      <3>2. next[j] \in 0 .. b
        <4>1. next[j] = 0 \/ next[j] \in j + 1 .. b
          <5> HIDE DEF stop, next
          <5> QED BY <1>7, <3>1
        <4> HIDE DEF next
        <4> QED BY <4>1
      <3>3. f[next[j]] \in S
        <4> HIDE DEF next
        <4> QED BY <1>10, <3>2
      <3>4. f[j] = Turn[j][f[next[j]]]
        <4> HIDE DEF stop, base, Turn, next
        <4> QED BY <1>10, <3>1
      <3>5. Turn[j][f[next[j]]] = <<entity(t, j)>> \o f[next[j]]
        <4> HIDE DEF next
        <4> QED BY <3>3
      <3>6. next[j] = After(t, entity(t, j).next, Separator(form))
        OBVIOUS
      <3> HIDE DEF stop, base, Turn, next
      <3> QED BY <2>2, <3>4, <3>5, <3>6
    <2> QED BY <2>1, <2>2
  <1>12. AreLists(f, t, form)
    <2>1. f = [j \in 0 .. b |-> f[j]]
      <3> HIDE DEF stop, base, Turn, next
      <3> QED BY <1>10
    <2> HIDE DEF stop, base, Turn, next
    <2> QED BY <1>1, <1>11, <2>1 DEF AreLists
  <1>13. PICK g : g = CHOOSE h : AreLists(h, t, form)
    OBVIOUS
  <1>14. AreLists(g, t, form)
    BY <1>12, <1>13
  <1>15. ASSUME NEW j
         PROVE  EntityList(t, j, form) = g[j]
    BY <1>13 DEF EntityList, AreLists
  <1>16. ASSUME NEW j \in 0 .. b
         PROVE  g[j] = IF j = 0 \/ entity(t, j) = NoEntity THEN <<>>
                       ELSE <<entity(t, j)>> \o g[After(t, entity(t, j).next, Separator(form))]
    BY <1>1, <1>14 DEF AreLists
  <1>17. ASSUME NEW k \in 0 .. b
         PROVE  g[b - k] \in S
    <2> DEFINE T == {m \in 0 .. b : \A j \in b - m .. b : g[j] \in S}
    <2>1. ASSUME NEW j \in 0 .. b, \A l \in j + 1 .. b : g[l] \in S
          PROVE  g[j] \in S
      <3>1. CASE j = 0 \/ entity(t, j) = NoEntity
        BY <1>4, <1>16, <3>1
      <3>2. CASE ~(j = 0 \/ entity(t, j) = NoEntity)
        <4>1. PICK l : l = After(t, entity(t, j).next, Separator(form))
          OBVIOUS
        <4>2. l = 0 \/ l \in j + 1 .. b
          <5>1. j \in 1 .. Len(t) + 1
            BY <1>1, <3>2
          <5>2. Progress(t, j, entity(t, j).next)
            BY <5>1, EntityProgress
          <5> QED BY <1>1, <4>1, <5>1, <5>2, AfterLater
        <4>3. g[0] \in S
          <5>1. 0 \in 0 .. b
            OBVIOUS
          <5>2. g[0] = <<>>
            BY <1>16, <5>1
          <5> QED BY <1>4, <5>2
        <4>4. g[l] \in S
          BY <2>1, <4>2, <4>3
        <4>5. <<entity(t, j)>> \o g[l] \in S
          <5>1. entity(t, j) \in ReadingsOf(t)
            BY <1>2 DEF ReadingsOf
          <5>2. <<entity(t, j)>> \in Seq(ReadingsOf(t))
            BY <5>1
          <5> QED BY <1>3, <4>4, <5>2, ConcatProperties
        <4> QED BY <1>16, <3>2, <4>1, <4>5
      <3> QED BY <3>1, <3>2
    <2>2. 0 \in T
      <3>1. g[b] \in S
        <4>1. b \in 0 .. b /\ \A l \in b + 1 .. b : FALSE
          OBVIOUS
        <4> QED BY <2>1, <4>1
      <3>2. \A j \in b - 0 .. b : j = b
        OBVIOUS
      <3> QED BY <3>1, <3>2
    <2>3. ASSUME NEW m \in 0 .. b - 1, m \in T
          PROVE  m + 1 \in T
      <3>1. \A l \in b - m .. b : g[l] \in S
        BY <2>3
      <3>2. PICK a \in 0 .. b : a = b - (m + 1) /\ a + 1 = b - m
        OBVIOUS
      <3>3. g[a] \in S
        BY <2>1, <3>1, <3>2
      <3>4. \A l \in a .. b : l = a \/ l \in b - m .. b
        BY <3>2
      <3>5. \A l \in b - (m + 1) .. b : g[l] \in S
        BY <3>1, <3>2, <3>3, <3>4
      <3> QED BY <3>5
    <2>4. \A m \in 0 .. b : m \in T
      <3>1. 0 \in Nat
        OBVIOUS
      <3> HIDE DEF T
      <3> QED BY <2>2, <2>3, <3>1, Ascending
    <2>5. k \in T /\ b - k \in b - k .. b
      BY <2>4
    <2> QED BY <2>5
  <1>18. g[i] \in S
    <2>1. b - i \in 0 .. b /\ b - (b - i) = i
      BY <1>2
    <2>2. g[b - (b - i)] \in S
      BY <1>17, <2>1
    <2> QED BY <2>1, <2>2
  <1> QED BY <1>2, <1>3, <1>15, <1>16, <1>18 DEF ListStep

-----------------------------------------------------------------------------
(* Reading the text of a statement *)

IsStatement(s) ==
    /\ s = [name |-> s.name, entities |-> s.entities]
    /\ s.name \in Text /\ NameEnd(s.name, 1) = Len(s.name) + 1
    /\ s.entities \in Seq(Range(s.entities)) /\ Len(s.entities) \in Nat \ {0}
    /\ \A m \in 1 .. Len(s.entities) : IsWritten(s.entities[m])

\* texts are those of the entities.
AreTexts(texts, es) ==
    /\ texts \in Seq(Text) /\ Len(texts) = Len(es) /\ Len(es) \in Nat \ {0}
    /\ \A m \in 1 .. Len(es) : texts[m] = EntityText(es[m]) /\ IsEntityText(es[m], texts[m])

LEMMA TextsIs ==
  ASSUME NEW s, IsStatement(s)
  PROVE  AreTexts(Texts(s), s.entities)
  <1>1. PICK es : es = s.entities
    OBVIOUS
  <1>2. PICK n \in Nat \ {0} : n = Len(es)
    BY <1>1 DEF IsStatement
  <1>3. DOMAIN es = 1 .. n
    BY <1>1, <1>2 DEF IsStatement
  <1>4. PICK texts : texts = [m \in 1 .. n |-> EntityText(es[m])]
    OBVIOUS
  <1>5. Texts(s) = texts
    BY <1>1, <1>3, <1>4 DEF Texts
  <1>6. ASSUME NEW m \in 1 .. n
        PROVE  texts[m] = EntityText(es[m]) /\ IsEntityText(es[m], texts[m]) /\ texts[m] \in Text
    <2>1. texts[m] = EntityText(es[m])
      BY <1>4
    <2>2. IsWritten(es[m])
      BY <1>1, <1>2 DEF IsStatement
    <2>3. IsEntityText(es[m], texts[m])
      BY <2>1, <2>2, EntityTextIs
    <2> QED BY <2>1, <2>3 DEF IsEntityText
  <1>7. texts \in Seq(Text) /\ Len(texts) = n
    BY <1>4, <1>6
  <1> QED BY <1>1, <1>2, <1>5, <1>6, <1>7 DEF AreTexts

\* A first element and the others.
IsFront(list, r, rest) ==
    /\ Len(rest) \in Nat /\ Len(list) = Len(rest) + 1 /\ list[1] = r
    /\ \A d \in 1 .. Len(rest) : list[d + 1] = rest[d]

LEMMA FrontIs ==
  ASSUME NEW S, NEW r \in S, NEW rest \in Seq(S), NEW list, list = <<r>> \o rest
  PROVE  IsFront(list, r, rest)
  <1>1. <<r>> \in Seq(S) /\ Len(<<r>>) = 1 /\ <<r>>[1] = r /\ Len(rest) \in Nat
    OBVIOUS
  <1>2. /\ Len(list) = 1 + Len(rest)
        /\ \A p \in 1 .. 1 + Len(rest) : list[p] = IF p <= 1 THEN <<r>>[p] ELSE rest[p - 1]
    BY <1>1, ConcatProperties
  <1>3. list[1] = r /\ Len(list) = Len(rest) + 1
    BY <1>1, <1>2
  <1>4. ASSUME NEW d \in 1 .. Len(rest)
        PROVE  list[d + 1] = rest[d]
    <2>1. d + 1 \in 1 .. 1 + Len(rest) /\ ~(d + 1 <= 1) /\ (d + 1) - 1 = d
      BY <1>1
    <2> QED BY <1>2, <2>1
  <1> QED BY <1>1, <1>3, <1>4 DEF IsFront

\* What is read of the entities from the mth on: all of them, or too little.
AllRead(list, es, off, m, n) ==
    /\ \A q \in m .. n : Readable(es[q])
    /\ Len(list) = (n + 1) - m
    /\ \A d \in 1 .. (n + 1) - m :
          list[d] = Reading(off[m + d], es[m + d - 1].kind, es[m + d - 1].text)

SomeUnread(list, es, off, m, n) ==
    /\ \E q \in m .. n : ~Readable(es[q])
    /\ \/ list = <<>>
       \/ /\ Len(list) \in Nat \ {0} /\ list[Len(list)] # Panic
          /\ list[Len(list)].next \in 1 .. off[n + 1] - 1

ListedFrom(list, es, off, m, n) == AllRead(list, es, off, m, n) \/ SomeUnread(list, es, off, m, n)

LEMMA ListedLast ==
  ASSUME NEW es, NEW off, NEW n \in Nat \ {0}, Readable(es[n]), NEW r, NEW list, IsFront(list, r, <<>>),
         r = Reading(off[n + 1], es[n].kind, es[n].text)
  PROVE  ListedFrom(list, es, off, n, n)
  <1>1. Len(<<>>) = 0
    OBVIOUS
  <1>2. Len(list) = 1 /\ list[1] = r
    BY <1>1 DEF IsFront
  <1>3. (n + 1) - n = 1 /\ n + 1 - 1 = n /\ \A q \in n .. n : q = n
    OBVIOUS
  <1>4. \A d \in 1 .. 1 : d = 1
    OBVIOUS
  <1> QED BY <1>2, <1>3, <1>4 DEF AllRead, ListedFrom

LEMMA ListedMore ==
  ASSUME NEW es, NEW off, NEW n \in Nat \ {0}, NEW m \in 1 .. n - 1, Readable(es[m]), NEW r, NEW list, NEW rest,
         IsFront(list, r, rest), r = Reading(off[m + 1], es[m].kind, es[m].text), es[m].kind \in Kinds,
         off[m + 1] \in 1 .. off[n + 1] - 1, ListedFrom(rest, es, off, m + 1, n)
  PROVE  ListedFrom(list, es, off, m, n)
  <1>1. m \in Nat \ {0} /\ m + 1 \in m .. n /\ m \in m .. n
        /\ (\A q \in m .. n : q = m \/ q \in m + 1 .. n)
        /\ \A q \in m + 1 .. n : q \in m .. n
    OBVIOUS
  <1>2. CASE AllRead(rest, es, off, m + 1, n)
    <2>1. \A q \in m .. n : Readable(es[q])
      BY <1>1, <1>2 DEF AllRead
    <2>2. PICK l \in Nat : l = (n + 1) - m
      BY <1>1
    <2>3. (n + 1) - (m + 1) = l - 1 /\ l - 1 \in Nat
      BY <1>1, <2>2
    <2>4. Len(rest) = l - 1 /\ Len(list) = l
      BY <1>2, <2>2, <2>3 DEF AllRead, IsFront
    <2>5. ASSUME NEW d \in 1 .. l
          PROVE  list[d] = Reading(off[m + d], es[m + d - 1].kind, es[m + d - 1].text)
      <3>1. CASE d = 1
        <4>1. m + 1 - 1 = m
          BY <1>1
        <4> QED BY <3>1, <4>1 DEF IsFront
      <3>2. CASE d # 1
        <4>1. PICK c \in 1 .. l - 1 : d = c + 1
          <5>1. d - 1 \in 1 .. l - 1 /\ d = (d - 1) + 1
            BY <2>2, <3>2
          <5> QED BY <5>1
        <4>2. (m + 1) + c = m + d /\ (m + 1) + c - 1 = m + d - 1
          BY <1>1, <2>2, <4>1
        <4>3. list[d] = rest[c]
          BY <2>4, <4>1 DEF IsFront
        <4>4. rest[c] = Reading(off[(m + 1) + c], es[(m + 1) + c - 1].kind, es[(m + 1) + c - 1].text)
          BY <1>2, <2>3, <4>1 DEF AllRead
        <4> QED BY <4>2, <4>3, <4>4
      <3> QED BY <3>1, <3>2
    <2> QED BY <2>1, <2>2, <2>4, <2>5 DEF AllRead, ListedFrom
  <1>3. CASE SomeUnread(rest, es, off, m + 1, n)
    <2>1. \E q \in m .. n : ~Readable(es[q])
      BY <1>1, <1>3 DEF SomeUnread
    <2>2. CASE rest = <<>>
      <3>1. Len(list) = 1 /\ list[1] = r
        <4>1. Len(<<>>) = 0
          OBVIOUS
        <4> QED BY <2>2, <4>1 DEF IsFront
      <3>2. r # Panic /\ r.next \in 1 .. off[n + 1] - 1
        BY ReadingIs DEF Kinds
      <3> QED BY <2>1, <3>1, <3>2 DEF SomeUnread, ListedFrom
    <2>3. CASE rest # <<>>
      <3>1. PICK l \in Nat \ {0} : l = Len(rest)
        BY <1>3, <2>3 DEF SomeUnread
      <3>2. Len(list) = l + 1 /\ list[l + 1] = rest[l] /\ l + 1 \in Nat \ {0}
        BY <3>1 DEF IsFront
      <3>3. rest[l] # Panic /\ rest[l].next \in 1 .. off[n + 1] - 1
        BY <1>3, <2>3, <3>1 DEF SomeUnread
      <3> QED BY <2>1, <3>2, <3>3 DEF SomeUnread, ListedFrom
    <2> QED BY <2>2, <2>3
  <1> QED BY <1>2, <1>3 DEF ListedFrom

Close(form) == IF form = "standard" THEN <<")">> ELSE <<>>

\* u is a text of the statement, of the one form or the other.
Said(u, s, form, off) ==
    /\ IsStatement(s) /\ form \in {"standard", "spaced"}
    /\ Spread(u, s.name, Opening(form), Texts(s), Separator(form), Close(form), off)

\* What stands at the mth entity of a text, and behind it.
SaidAt(u, s, form, off, m, x) ==
    /\ x \in Text /\ IsEntityText(s.entities[m], x) /\ Len(x) \in Nat \ {0}
    /\ Stands(x, u, off[m] + 1) /\ (off[m] + 1) + Len(x) = off[m + 1]
    /\ off[m] \in Nat /\ off[m + 1] \in Nat \ {0} /\ off[m + 1] \in 1 .. Len(u) + 1
    /\ off[m + 1] <= off[Len(s.entities) + 1] /\ off[Len(s.entities) + 1] \in 1 .. Len(u) + 1
    /\ m # Len(s.entities) => u[off[m + 1]] = Separator(form) /\ off[m + 1] \in 1 .. Len(u)
    /\ \A d \in 0 .. Len(x) - 1 : u[(off[m] + 1) + d] = x[1 + d]

LEMMA SaidThere ==
  ASSUME NEW u, NEW s, NEW form, NEW off, Said(u, s, form, off),
         NEW m \in 1 .. Len(s.entities), NEW x, x = Texts(s)[m]
  PROVE  SaidAt(u, s, form, off, m, x)
  <1>1. PICK es : es = s.entities
    OBVIOUS
  <1>2. PICK texts : texts = Texts(s)
    OBVIOUS
  <1>3. AreTexts(texts, es)
    BY <1>1, <1>2, TextsIs DEF Said
  <1>4. PICK n \in Nat \ {0} : n = Len(es)
    BY <1>3 DEF AreTexts
  <1>5. texts \in Seq(Text) /\ Len(texts) = n /\ m \in 1 .. n /\ m \in 1 .. Len(texts)
    BY <1>1, <1>3, <1>4 DEF AreTexts
  <1>6. x = texts[m] /\ IsEntityText(es[m], x)
    BY <1>2, <1>3, <1>4, <1>5 DEF AreTexts
  <1>7. x \in Text /\ Len(x) \in Nat \ {0}
    BY <1>6 DEF IsEntityText
  <1>8. Spread(u, s.name, Opening(form), texts, Separator(form), Close(form), off)
    BY <1>2 DEF Said
  <1>9. Separator(form) \in Stops
    BY FormWords
  <1>10. PICK name, opening, word, close :
            name = s.name /\ opening = Opening(form) /\ word = Separator(form) /\ close = Close(form)
    OBVIOUS
  <1>11. Spread(u, name, opening, texts, word, close, off) /\ word \in Stops
    BY <1>8, <1>9, <1>10
  <1>12. Stands(x, u, off[m] + 1) /\ (off[m] + 1) + Len(x) = off[m + 1]
    BY <1>5, <1>6, <1>7, <1>11, StandsSpread
  <1>13. LaidOut(u, texts, n, word, off)
    BY <1>5, <1>11 DEF Spread
  <1>14. /\ u \in Text /\ Len(u) \in Nat /\ off \in [1 .. n + 1 -> Nat] /\ off[n + 1] <= Len(u) + 1
         /\ m \in 1 .. n - 1 => u[off[m + 1]] = word
    BY <1>13, TextIs DEF LaidOut
  <1>15. off[m + 1] <= off[n + 1]
    <2>1. n \in 1 .. Len(texts) /\ m + 1 \in 1 .. n + 1
      BY <1>4, <1>5
    <2> QED BY <1>5, <1>13, <2>1, LaidBelow
  <1>16. m \in 1 .. n + 1 /\ m + 1 \in 1 .. n + 1 /\ n + 1 \in 1 .. n + 1
    BY <1>4, <1>5
  <1>17. off[m] \in Nat /\ off[m + 1] \in Nat \ {0} /\ off[m + 1] \in 1 .. Len(u) + 1
         /\ off[n + 1] \in 1 .. Len(u) + 1
    <2>1. PICK a \in Nat, b \in Nat, c \in Nat, l \in Nat \ {0} :
             a = off[m] /\ b = off[m + 1] /\ c = off[n + 1] /\ l = Len(x)
      BY <1>7, <1>14, <1>16
    <2>2. (a + 1) + l = b /\ b <= c /\ c <= Len(u) + 1
      BY <1>12, <1>14, <1>15, <2>1
    <2>3. b # 0 /\ b \in 1 .. Len(u) + 1 /\ c \in 1 .. Len(u) + 1
      BY <1>14, <2>2
    <2> QED BY <2>1, <2>3
  <1>18. m # n => u[off[m + 1]] = word /\ off[m + 1] \in 1 .. Len(u)
    <2> SUFFICES ASSUME m # n
                 PROVE  u[off[m + 1]] = word /\ off[m + 1] \in 1 .. Len(u)
      OBVIOUS
    <2>1. m \in 1 .. n - 1 /\ (m + 1) + 1 \in 1 .. n + 1 /\ m + 1 \in 1 .. n
      BY <1>4, <1>5
    <2>2. PICK b \in Nat, c \in Nat, d \in Nat, l \in Nat :
             b = off[m + 1] /\ c = off[(m + 1) + 1] /\ d = off[n + 1] /\ l = Len(texts[m + 1])
      <3>1. texts[m + 1] \in Text
        BY <1>5, <2>1, ElementOfSeq
      <3> QED BY <1>14, <1>16, <2>1, <3>1, TextIs
    <2>3. c = (b + l) + 1
      BY <1>13, <2>1, <2>2 DEF LaidOut
    <2>4. c <= d
      <3>1. n \in 1 .. Len(texts)
        BY <1>4, <1>5
      <3>2. off[(m + 1) + 1] <= off[n + 1]
        BY <1>5, <1>13, <2>1, <3>1, LaidBelow
      <3> QED BY <2>2, <3>2
    <2>5. b <= Len(u) /\ b \in 1 .. Len(u) + 1
      BY <1>14, <1>17, <2>2, <2>3, <2>4
    <2> QED BY <1>14, <2>1, <2>2, <2>5
  <1>19. \A d \in 0 .. Len(x) - 1 : u[(off[m] + 1) + d] = x[1 + d]
    BY <1>12 DEF Stands, Copy
  <1> QED BY <1>1, <1>4, <1>6, <1>7, <1>10, <1>12, <1>15, <1>17, <1>18, <1>19 DEF SaidAt

\* No entity begins with a space.
LEMMA NotSpace ==
  ASSUME NEW e, NEW x, IsEntityText(e, x), NEW p \in 1 .. Len(x)
  PROVE  x[p] # Space
  <1>1. Space \in Punctuation \ {"(", ")", ",", "@", ":", "secp256k1:"}
    BY DEF Space, Punctuation
  <1>2. Space \notin PlainWords
    <2>1. Space \in Stops
      BY DEF Space, Stops
    <2> QED BY <2>1, StopsApart
  <1>3. Space \notin TemplateWords \cup {")"}
    <2>1. Space \notin Letters
      BY <1>1, MarksApart, WordsOf
    <2>2. Space \notin {"_", "(", "bar", ",", ")"}
      BY DEF Space
    <2> QED BY <2>1, <2>2 DEF TemplateWords
  <1> QED BY <1>2, <1>3 DEF IsEntityText, OnlyOf

\* The end of a list: what was read last, and nothing behind it.
LEMMA ListedEnd ==
  ASSUME NEW t \in Text, NEW form, NEW j \in 1 .. Len(t) + 1, NEW r, r = entity(t, j), r # NoEntity,
         After(t, r.next, Separator(form)) = 0
  PROVE  IsFront(EntityList(t, j, form), r, <<>>)
  <1>1. j \in Positions(t) /\ 0 \in Positions(t) /\ j # 0
    BY TextIs DEF Positions
  <1>2. ListStep(t, form, j) /\ ListStep(t, form, 0)
    BY <1>1, Listed
  <1>3. EntityList(t, 0, form) = <<>>
    BY <1>2 DEF ListStep
  <1>4. PICK list : list = EntityList(t, j, form)
    OBVIOUS
  <1>5. list = <<r>> \o EntityList(t, 0, form)
    BY <1>1, <1>2, <1>4 DEF ListStep
  <1>6. list = <<r>> \o <<>>
    BY <1>3, <1>5
  <1>7. PICK S : S = ReadingsOf(t)
    OBVIOUS
  <1>8. r \in S /\ <<>> \in Seq(S)
    BY <1>1, <1>7 DEF ReadingsOf
  <1>9. IsFront(list, r, <<>>)
    BY <1>6, <1>8, FrontIs
  <1> QED BY <1>4, <1>9

LEMMA ListedBefore ==
  ASSUME NEW t \in Text, NEW form, NEW j \in 1 .. Len(t) + 1, NEW r, r = entity(t, j), r # NoEntity,
         NEW k \in 1 .. Len(t) + 1, After(t, r.next, Separator(form)) = k
  PROVE  IsFront(EntityList(t, j, form), r, EntityList(t, k, form))
  <1>1. j \in Positions(t) /\ k \in Positions(t) /\ j # 0
    BY TextIs DEF Positions
  <1>2. ListStep(t, form, j) /\ ListStep(t, form, k)
    BY <1>1, Listed
  <1>3. PICK rest : rest = EntityList(t, k, form)
    OBVIOUS
  <1>4. PICK list : list = EntityList(t, j, form)
    OBVIOUS
  <1>5. list = <<r>> \o rest
    BY <1>1, <1>2, <1>3, <1>4 DEF ListStep
  <1>6. PICK S : S = ReadingsOf(t)
    OBVIOUS
  <1>7. r \in S /\ rest \in Seq(S)
    BY <1>1, <1>2, <1>3, <1>6 DEF ReadingsOf, ListStep
  <1>8. IsFront(list, r, rest)
    BY <1>5, <1>7, FrontIs
  <1> QED BY <1>3, <1>4, <1>8

LEMMA ListedNone ==
  ASSUME NEW t \in Text, NEW form, NEW j \in 1 .. Len(t) + 1, entity(t, j) = NoEntity
  PROVE  EntityList(t, j, form) = <<>>
  <1>1. j \in Positions(t)
    BY TextIs DEF Positions
  <1> QED BY <1>1, Listed DEF ListStep

\* What is read from the mth entity on, given what is from the next.
LEMMA ListedAt ==
  ASSUME NEW u, NEW s, NEW form, NEW off, Said(u, s, form, off),
         NEW es, es = s.entities, NEW n, n = Len(es), NEW m \in 1 .. n,
         m # n => ListedFrom(EntityList(u, off[m + 1] + 1, form), es, off, m + 1, n)
  PROVE  ListedFrom(EntityList(u, off[m] + 1, form), es, off, m, n)
  <1>1. n \in Nat \ {0} /\ m \in Nat \ {0}
    BY DEF Said, IsStatement
  <1>2. PICK x : x = Texts(s)[m]
    OBVIOUS
  <1>3. SaidAt(u, s, form, off, m, x)
    BY <1>2, SaidThere
  <1>4. PICK j \in Nat \ {0} : j = off[m] + 1
    BY <1>3 DEF SaidAt
  <1>5. PICK l \in Nat \ {0} : l = Len(x)
    BY <1>3 DEF SaidAt
  <1>6. PICK k \in Nat \ {0} : k = off[m + 1] /\ k \in 1 .. Len(u) + 1
    BY <1>3 DEF SaidAt
  <1>7. PICK z \in 1 .. Len(u) + 1 : z = off[n + 1] /\ k <= z
    BY <1>3, <1>6 DEF SaidAt
  <1>8. j + l = k /\ Stands(x, u, j) /\ u \in Text /\ Len(u) \in Nat
    BY <1>3, <1>4, <1>5, <1>6, TextIs DEF SaidAt, Stands
  <1>9. j \in 1 .. Len(u) + 1
    BY <1>4, <1>5, <1>6, <1>8
  <1>10. PICK e : e = es[m]
    OBVIOUS
  <1>11. IsWritten(e) /\ x = EntityText(e) /\ IsEntityText(e, x) /\ e.kind \in Kinds
    <2>1. IsWritten(e) /\ AreTexts(Texts(s), es)
      BY <1>10, TextsIs DEF Said, IsStatement
    <2>2. e.kind \in Kinds
      BY <2>1 DEF IsWritten, Kinds
    <2> QED BY <1>2, <1>10, <2>1, <2>2 DEF AreTexts
  <1>12. PICK r : r = entity(u, j)
    OBVIOUS
  <1>13. Inside(e, l, j, r)
    BY <1>5, <1>8, <1>11, <1>12, ReadInside
  <1>14. Separator(form) \in Stops /\ ")" \in Stops
    BY FormWords DEF Stops
  <1>15. PICK word : word = Separator(form)
    OBVIOUS
  <1>16. CASE Readable(e)
    <2>1. r = Reading(k, e.kind, e.text) /\ r # NoEntity /\ r.next = k
      <3>1. r = Reading(k, e.kind, e.text)
        BY <1>8, <1>13, <1>16 DEF Inside
      <3>2. e.kind # "none"
        BY <1>11 DEF Kinds
      <3> QED BY <3>1, <3>2, ReadingIs
    <2>2. CASE m = n
      <3>1. k \in 1 .. Len(u) => u[k] = ")" /\ form = "standard"
        <4>1. Spread(u, s.name, Opening(form), Texts(s), word, Close(form), off)
          BY <1>15 DEF Said
        <4>2. Len(Texts(s)) = n
          BY TextsIs DEF Said, AreTexts
        <4>3. \/ Close(form) = <<>> /\ k = Len(u) + 1
              \/ Close(form) = <<")">> /\ k = Len(u) /\ u[Len(u)] = ")"
          BY <1>6, <2>2, <4>1, <4>2 DEF Spread
        <4>4. k = Len(u) + 1 => k \notin 1 .. Len(u)
          BY <1>8
        <4>5. Close(form) = <<")">> => form = "standard"
          BY DEF Close
        <4> QED BY <4>3, <4>4, <4>5
      <3>2. ")" # Separator("standard")
        BY DEF Separator
      <3>3. After(u, k, word) = 0
        BY <1>8, <1>15, <3>1, <3>2, AfterNone
      <3>4. IsFront(EntityList(u, j, form), r, <<>>)
        BY <1>8, <1>9, <1>12, <1>15, <2>1, <3>3, ListedEnd
      <3>5. Readable(es[n]) /\ r = Reading(off[n + 1], es[n].kind, es[n].text)
        BY <1>6, <1>10, <1>16, <2>1, <2>2
      <3>6. ListedFrom(EntityList(u, j, form), es, off, n, n)
        BY <1>1, <3>4, <3>5, ListedLast
      <3> QED BY <1>4, <2>2, <3>6
    <2>3. CASE m # n
      <3>1. k \in 1 .. Len(u) /\ u[k] = word
        BY <1>3, <1>6, <1>15, <2>3 DEF SaidAt
      <3>2. m \in 1 .. n - 1 /\ m + 1 \in 1 .. n
        BY <1>1, <2>3
      <3>3. PICK y : y = Texts(s)[m + 1]
        OBVIOUS
      <3>4. SaidAt(u, s, form, off, m + 1, y) /\ IsEntityText(es[m + 1], y)
        <4>1. m + 1 \in 1 .. Len(s.entities)
          BY <3>2
        <4>2. SaidAt(u, s, form, off, m + 1, y)
          BY <3>3, <4>1, SaidThere
        <4> QED BY <4>2 DEF SaidAt
      <3>5. 1 \in 1 .. Len(y) /\ 0 \in 0 .. Len(y) - 1 /\ 1 + 0 = 1 /\ (k + 1) + 0 = k + 1
        BY <3>4 DEF IsEntityText
      <3>6. u[k + 1] = y[1]
        BY <1>6, <3>4, <3>5 DEF SaidAt
      <3>7. u[k + 1] # Space
        BY <3>4, <3>5, <3>6, NotSpace
      <3>8. After(u, k, word) = k + 1
        BY <1>8, <3>1, <3>7, AfterOne
      <3>9. k + 1 \in 1 .. Len(u) + 1
        BY <1>8, <3>1
      <3>10. IsFront(EntityList(u, j, form), r, EntityList(u, k + 1, form))
        BY <1>8, <1>9, <1>12, <1>15, <2>1, <3>8, <3>9, ListedBefore
      <3>11. ListedFrom(EntityList(u, k + 1, form), es, off, m + 1, n)
        BY <1>6, <2>3
      <3>12. off[m + 1] \in 1 .. off[n + 1] - 1
        <4>1. PICK b \in Nat, c \in Nat, d \in Nat :
                 b = off[(m + 1) + 1] /\ c = off[n + 1] /\ d = Len(y) /\ d # 0
          <5>1. off[(m + 1) + 1] \in Nat /\ Len(y) \in Nat \ {0}
            BY <3>4 DEF SaidAt
          <5>2. off[n + 1] \in Nat
            BY <1>7
          <5> QED BY <5>1, <5>2
        <4>2. (k + 1) + d = b /\ b <= c
          BY <1>6, <3>4, <4>1 DEF SaidAt
        <4>3. k \in 1 .. c - 1
          BY <4>1, <4>2
        <4> QED BY <1>6, <4>1, <4>3
      <3>13. Readable(es[m]) /\ r = Reading(off[m + 1], es[m].kind, es[m].text) /\ es[m].kind \in Kinds
        BY <1>6, <1>10, <1>11, <1>16, <2>1
      <3>14. ListedFrom(EntityList(u, j, form), es, off, m, n)
        BY <1>1, <3>2, <3>10, <3>11, <3>12, <3>13, ListedMore
      <3> QED BY <1>4, <3>14
    <2> QED BY <2>2, <2>3
  <1>17. CASE ~Readable(e)
    <2>1. \E q \in m .. n : ~Readable(es[q])
      <3>1. m \in m .. n
        BY <1>1
      <3> QED BY <1>10, <1>17, <3>1
    <2>2. CASE r = NoEntity
      <3>1. EntityList(u, j, form) = <<>>
        BY <1>8, <1>9, <1>12, <2>2, ListedNone
      <3> QED BY <1>4, <2>1, <3>1 DEF ListedFrom, SomeUnread
    <2>3. CASE r # NoEntity
      <3>1. r # Panic /\ r.next \in j .. j + (l - 1) /\ e.kind = "IPv6"
        BY <1>13, <1>17, <2>3 DEF Inside
      <3>2. PICK i \in j .. j + (l - 1) : i = r.next
        BY <3>1
      <3>3. i \in Nat /\ i - j \in 0 .. l - 1 /\ j + (i - j) = i /\ 1 + (i - j) \in 1 .. l /\ i \in 1 .. z - 1
        <4>1. j + l = k /\ k \in Nat /\ z \in Nat /\ k <= z /\ i \in j .. j + (l - 1)
          BY <1>6, <1>7, <1>8, <3>2
        <4> QED BY <4>1
      <3>4. u[i] = x[1 + (i - j)]
        BY <1>3, <1>4, <1>5, <3>3 DEF SaidAt
      <3>5. x[1 + (i - j)] \in PlainWords
        BY <1>5, <1>11, <3>1, <3>3 DEF IsEntityText, OnlyOf
      <3>6. u[i] # word
        BY <1>14, <1>15, <3>4, <3>5, StopsApart
      <3>7. After(u, i, word) = 0
        BY <1>8, <3>3, <3>6, AfterNone
      <3>8. IsFront(EntityList(u, j, form), r, <<>>)
        BY <1>8, <1>9, <1>12, <1>15, <2>3, <3>2, <3>7, ListedEnd
      <3>9. PICK list : list = EntityList(u, j, form)
        OBVIOUS
      <3>10. Len(list) = 1 /\ list[1] = r
        <4>1. Len(<<>>) = 0
          OBVIOUS
        <4> QED BY <3>8, <3>9, <4>1 DEF IsFront
      <3>11. SomeUnread(list, es, off, m, n)
        BY <1>7, <2>1, <3>1, <3>2, <3>3, <3>10 DEF SomeUnread
      <3> QED BY <1>4, <3>9, <3>11 DEF ListedFrom
    <2> QED BY <2>2, <2>3
  <1> QED BY <1>16, <1>17

\* The list of a text of a statement.
LEMMA ListedAll ==
  ASSUME NEW u, NEW s, NEW form, NEW off, Said(u, s, form, off),
         NEW es, es = s.entities, NEW n, n = Len(es)
  PROVE  ListedFrom(EntityList(u, off[1] + 1, form), es, off, 1, n)
  <1>1. n \in Nat \ {0}
    BY DEF Said, IsStatement
  <1> DEFINE T == {d \in Nat : ListedFrom(EntityList(u, off[n - d] + 1, form), es, off, n - d, n)}
  <1>2. 0 \in T
    <2>1. n - 0 = n /\ n \in 1 .. n
      BY <1>1
    <2>2. ListedFrom(EntityList(u, off[n] + 1, form), es, off, n, n)
      BY <2>1, ListedAt
    <2> QED BY <2>1, <2>2
  <1>3. ASSUME NEW d \in 0 .. (n - 1) - 1, d \in T
        PROVE  d + 1 \in T
    <2>1. PICK m \in 1 .. n - 1 : m = n - (d + 1) /\ m + 1 = n - d
      <3>1. n - (d + 1) \in 1 .. n - 1 /\ (n - (d + 1)) + 1 = n - d
        BY <1>1
      <3> QED BY <3>1
    <2>2. m \in 1 .. n /\ d + 1 \in Nat
      BY <1>1, <2>1
    <2>3. ListedFrom(EntityList(u, off[m + 1] + 1, form), es, off, m + 1, n)
      BY <1>3, <2>1
    <2>4. ListedFrom(EntityList(u, off[m] + 1, form), es, off, m, n)
      BY <2>2, <2>3, ListedAt
    <2> QED BY <2>1, <2>2, <2>4
  <1>4. \A d \in 0 .. n - 1 : d \in T
    <2>1. n - 1 \in Nat /\ 0 \in Nat
      BY <1>1
    <2> HIDE DEF T
    <2> QED BY <1>2, <1>3, <2>1, Ascending
  <1>5. n - 1 \in T /\ n - (n - 1) = 1
    <2>1. n - 1 \in 0 .. n - 1 /\ n - (n - 1) = 1
      BY <1>1
    <2> HIDE DEF T
    <2> QED BY <1>4, <2>1
  <1> QED BY <1>5

LEMMA OpeningIs ==
  /\ \A form : Opening(form) \in Punctuation /\ Opening(form) \notin Letters \cup {"_"}
  /\ Opening("standard") = "(" /\ Opening("spaced") # "("
  <1>1. \A form : Opening(form) \in Punctuation
    BY DEF Opening, Punctuation
  <1>2. \A form : Opening(form) # "_"
    BY DEF Opening
  <1>3. Opening("standard") = "(" /\ Opening("spaced") # "("
    BY DEF Opening
  <1>4. \A form : Opening(form) \notin Letters
    BY <1>1, MarksApart, WordsOf
  <1> QED BY <1>1, <1>2, <1>3, <1>4

\* The name of a text, and what is behind it.
LEMMA NameRead ==
  ASSUME NEW u, NEW s, NEW form, NEW off, Said(u, s, form, off)
  PROVE  /\ NameEnd(u, 1) = Len(s.name) + 1 /\ SubSeq(u, 1, NameEnd(u, 1) - 1) = s.name
         /\ Tag(u, NameEnd(u, 1), "(") # 0 <=> form = "standard"
         /\ After(u, NameEnd(u, 1), Opening(form)) = off[1] + 1 /\ off[1] + 1 \in 1 .. Len(u) + 1
  <1>1. PICK name : name = s.name
    OBVIOUS
  <1>2. name \in Text /\ NameEnd(name, 1) = Len(name) + 1
    BY <1>1 DEF Said, IsStatement
  <1>3. PICK n \in Nat : n = Len(name)
    BY <1>2, TextIs
  <1>4. PICK word : word = Opening(form)
    OBVIOUS
  <1>5. PICK x : x = Texts(s)[1]
    OBVIOUS
  <1>6. SaidAt(u, s, form, off, 1, x)
    <2>1. 1 \in 1 .. Len(s.entities)
      BY DEF Said, IsStatement
    <2> QED BY <1>5, <2>1, SaidThere
  <1>7. off[1] = n + 1 /\ u[n + 1] = word /\ \A p \in 1 .. n : u[p] = name[p]
    BY <1>1, <1>3, <1>4 DEF Said, Spread
  <1>8. PICK l \in Nat : u \in Text /\ l = Len(u)
    BY <1>6, TextIs DEF SaidAt, Stands
  <1>9. n + 2 <= l + 1
    <2>1. PICK d \in Nat \ {0}, b \in Nat : d = Len(x) /\ b = off[1 + 1]
      BY <1>6 DEF SaidAt
    <2>2. ((n + 1) + 1) + d = b /\ b <= l + 1
      BY <1>6, <1>7, <1>8, <2>1 DEF SaidAt
    <2> QED BY <2>2
  <1>10. n + 1 \in 1 .. l /\ n + 1 \in Nat
    BY <1>9
  <1>11. PICK C : C = {word}
    OBVIOUS
  <1>12. Copy(name, 1, u, 1, n, C, TRUE)
    <2>1. \A d \in 0 .. n - 1 : name[1 + d] = u[1 + d]
      <3>1. \A d \in 0 .. n - 1 : 1 + d \in 1 .. n
        OBVIOUS
      <3> QED BY <1>7, <3>1
    <2>2. 1 + n = n + 1 /\ 1 + n \in 1 .. Len(name) + 1 /\ 1 + n \notin 1 .. Len(name)
          /\ 1 \in 1 .. Len(name) + 1
      BY <1>3
    <2>3. 1 \in 1 .. Len(u) + 1 /\ 1 + n \in 1 .. Len(u) + 1
      BY <1>8, <1>10
    <2>4. u[1 + n] \in C
      BY <1>7, <1>11, <2>2
    <2> QED BY <1>2, <1>8, <2>1, <2>2, <2>3, <2>4 DEF Copy
  <1>13. (Letters \cup {"_"}) \cap C = {}
    BY <1>4, <1>11, OpeningIs
  <1>14. Moved(name, 1, 1, n, TRUE, NameEnd(name, 1), NameEnd(u, 1))
    <2>1. 1 \in Nat
      OBVIOUS
    <2>2. Moved(name, 1, 1, n, TRUE, 1, 1)
      BY <2>1, MovedStart
    <2> QED BY <1>12, <1>13, <2>2, NameMoves
  <1>15. NameEnd(u, 1) = n + 1
    <2>1. NameEnd(name, 1) = 1 + n /\ 1 \in Nat \ {0} /\ 1 \in Nat /\ 1 + n = n + 1
      BY <1>2, <1>3
    <2>2. Moved(name, 1, 1, n, TRUE, 1 + n, NameEnd(u, 1))
      BY <1>14, <2>1
    <2>3. NameEnd(u, 1) = 1 + n
      BY <2>1, <2>2, MovedEnd
    <2> QED BY <2>1, <2>3
  <1>16. SubSeq(u, 1, NameEnd(u, 1) - 1) = name
    <2>1. SamePart(name, 1, u, 1, 0, n)
      <3>1. 0 \in 0 .. n /\ n \in 0 .. n
        OBVIOUS
      <3> QED BY <1>12, <3>1, PartMoves
    <2>2. 1 + 0 = 1 /\ (1 + n) - 1 = n /\ (n + 1) - 1 = n
      OBVIOUS
    <2>3. SubSeq(name, 1, n) = SubSeq(u, 1, n)
      BY <2>1, <2>2 DEF SamePart
    <2>4. SubSeq(name, 1, n) = name
      BY <1>2, <1>3, SubSeqFull DEF Text
    <2> QED BY <1>15, <2>2, <2>3, <2>4
  <1>17. Tag(u, n + 1, "(") # 0 <=> form = "standard"
    <2>1. Tag(u, n + 1, "(") = IF word = "(" THEN (n + 1) + 1 ELSE 0
      BY <1>7, <1>8, <1>10, OneIs DEF Tag
    <2>2. word = "(" <=> form = "standard"
      BY <1>4, OpeningIs DEF Said
    <2>3. (n + 1) + 1 # 0
      OBVIOUS
    <2> QED BY <2>1, <2>2, <2>3
  <1>18. After(u, n + 1, word) = (n + 1) + 1
    <2>1. u[(n + 1) + 1] # Space
      <3>1. 1 \in 1 .. Len(x) /\ 0 \in 0 .. Len(x) - 1 /\ 1 + 0 = 1 /\ ((n + 1) + 1) + 0 = (n + 1) + 1
        BY <1>6 DEF SaidAt
      <3>2. u[(n + 1) + 1] = x[1]
        BY <1>6, <1>7, <3>1 DEF SaidAt
      <3>3. IsEntityText(s.entities[1], x)
        BY <1>6 DEF SaidAt
      <3> QED BY <3>1, <3>2, <3>3, NotSpace
    <2> QED BY <1>7, <1>8, <1>10, <2>1, AfterOne
  <1>19. off[1] + 1 = (n + 1) + 1 /\ (n + 1) + 1 \in 1 .. l + 1
    BY <1>7, <1>9
  <1> QED BY <1>1, <1>3, <1>4, <1>7, <1>8, <1>15, <1>16, <1>17, <1>18, <1>19

\* Behind the entities there is only what closes the text.
LEMMA CloseIs ==
  ASSUME NEW u, NEW s, NEW form, NEW off, Said(u, s, form, off), NEW z, z = off[Len(s.entities) + 1],
         NEW i \in 1 .. z
  PROVE  SubSeq(u, i, Len(u)) = Close(form) <=> i = z
  <1>1. PICK n : n = Len(s.entities)
    OBVIOUS
  <1>2. n \in Nat \ {0} /\ Len(Texts(s)) = n
    BY <1>1, TextsIs DEF Said, IsStatement, AreTexts
  <1>3. PICK close : close = Close(form)
    OBVIOUS
  <1>4. \/ close = <<>> /\ z = Len(u) + 1
        \/ close = <<")">> /\ z = Len(u) /\ u[Len(u)] = ")"
    BY <1>1, <1>2, <1>3 DEF Said, Spread
  <1>5. u \in Text
    BY DEF Said, Spread, LaidOut
  <1>6. PICK l \in Nat : l = Len(u)
    BY <1>5, TextIs
  <1>7. i \in 1 .. Len(u) + 1 /\ l + 1 \in i .. Len(u) + 1 /\ (l + 1) - 1 = l
    BY <1>4, <1>6
  <1>8. PICK x : x = SubSeq(u, i, l)
    OBVIOUS
  <1>9. IsPart(u, i, l + 1, x)
    BY <1>5, <1>7, <1>8, PartIs
  <1>10. x \in Text /\ Len(x) = (l + 1) - i /\ \A d \in 0 .. ((l + 1) - i) - 1 : x[1 + d] = u[i + d]
    BY <1>9 DEF IsPart
  <1>11. CASE close = <<>> /\ z = l + 1
    <2>1. x = <<>> <=> Len(x) = 0
      BY <1>10, EmptySeq DEF Text
    <2>2. (l + 1) - i = 0 <=> i = z
      BY <1>6, <1>7, <1>11
    <2> QED BY <1>3, <1>6, <1>8, <1>10, <1>11, <2>1, <2>2
  <1>12. CASE close = <<")">> /\ z = l /\ u[l] = ")"
    <2>1. Len(close) = 1 /\ close[1] = ")" /\ close \in Seq(Words)
      BY <1>12 DEF Words, Marks
    <2>2. CASE i = z
      <3>1. (l + 1) - i = 1 /\ 0 \in 0 .. ((l + 1) - i) - 1 /\ 1 + 0 = 1 /\ i + 0 = l
        BY <1>6, <1>12, <2>2
      <3>2. Len(x) = 1 /\ x[1] = ")"
        BY <1>10, <1>12, <3>1
      <3>3. \A p \in 1 .. 1 : p = 1
        OBVIOUS
      <3>4. x = close
        <4>1. x \in Seq(Words)
          BY <1>10 DEF Text, Words
        <4> QED BY <2>1, <3>2, <3>3, <4>1, SeqEqual
      <3> QED BY <1>3, <1>6, <1>8, <2>2, <3>4
    <2>3. CASE i # z
      <3>1. (l + 1) - i # 1
        BY <1>6, <1>7, <1>12, <2>3
      <3> QED BY <1>3, <1>6, <1>8, <1>10, <2>1, <2>3, <3>1
    <2> QED BY <2>2, <2>3
  <1> QED BY <1>4, <1>6, <1>11, <1>12

\* Whether all texts of a statement are read up to their ends.
AllReadable(s) == \A m \in 1 .. Len(s.entities) : Readable(s.entities[m])

LEMMA AllAssembled ==
  ASSUME NEW u, NEW s, NEW form, NEW off, Said(u, s, form, off),
         NEW list, NEW es, es = s.entities, NEW n, n = Len(es), AllRead(list, es, off, 1, n),
         NEW S, list \in Seq(S)
  PROVE  Assembled(u, list, Close(form)) = s
  <1>1. n \in Nat \ {0} /\ es \in Seq(Range(es)) /\ DOMAIN es = 1 .. n
    BY DEF Said, IsStatement
  <1>2. PICK close : close = Close(form)
    OBVIOUS
  <1>3. (n + 1) - 1 = n /\ n \in 1 .. n /\ \A d \in 1 .. n : 1 + d = d + 1 /\ 1 + d - 1 = d
    BY <1>1
  <1>4. Len(list) = n /\ \A d \in 1 .. n : list[d] = Reading(off[d + 1], es[d].kind, es[d].text)
    <2>1. Len(list) = n /\ \A d \in 1 .. n : list[d] = Reading(off[1 + d], es[1 + d - 1].kind, es[1 + d - 1].text)
      BY <1>3 DEF AllRead
    <2> QED BY <1>3, <2>1
  <1>5. DOMAIN list = 1 .. n /\ list # <<>> /\ Last(list) = list[n]
    <2>1. list # <<>>
      <3>1. Len(<<>>) = 0
        OBVIOUS
      <3> QED BY <1>1, <1>4, <3>1
    <2> QED BY <1>4, <2>1 DEF Last
  <1>6. ASSUME NEW d \in 1 .. n
        PROVE  es[d].kind \in Kinds /\ es[d] = [kind |-> es[d].kind, text |-> es[d].text]
    <2>1. IsWritten(es[d])
      BY DEF Said, IsStatement
    <2> QED BY <2>1 DEF IsWritten, Kinds
  <1>7. Last(list) # Panic /\ Last(list).next = off[n + 1]
    <2>1. es[n].kind # "panic"
      BY <1>3, <1>6 DEF Kinds
    <2>2. Last(list) = Reading(off[n + 1], es[n].kind, es[n].text)
      BY <1>3, <1>4, <1>5
    <2> QED BY <2>1, <2>2, ReadingIs
  <1>8. SubSeq(u, off[n + 1], Len(u)) = close
    <2>1. PICK x : x = Texts(s)[n]
      OBVIOUS
    <2>2. SaidAt(u, s, form, off, n, x)
      BY <1>3, <2>1, SaidThere
    <2>3. PICK z : z = off[n + 1]
      OBVIOUS
    <2>4. z \in 1 .. z
      BY <2>2, <2>3 DEF SaidAt
    <2> QED BY <1>2, <2>3, <2>4, CloseIs
  <1>9. SubSeq(u, 1, NameEnd(u, 1) - 1) = s.name
    BY NameRead
  <1>10. [d \in DOMAIN list |-> EntityOf(list[d])] = es
    <2>1. ASSUME NEW d \in 1 .. n
          PROVE  EntityOf(list[d]) = es[d]
      <3>1. list[d] = Reading(off[d + 1], es[d].kind, es[d].text)
        BY <1>4
      <3>2. EntityOf(list[d]) = [kind |-> es[d].kind, text |-> es[d].text]
        BY <3>1, ReadingIs
      <3> QED BY <1>6, <3>2
    <2>2. es = [d \in 1 .. n |-> es[d]]
      BY <1>1
    <2> QED BY <1>5, <2>1, <2>2
  <1>11. s = [name |-> s.name, entities |-> es]
    BY DEF Said, IsStatement
  <1>12. Assembled(u, list, close) = [name |-> SubSeq(u, 1, NameEnd(u, 1) - 1),
                                      entities |-> [d \in DOMAIN list |-> EntityOf(list[d])]]
    BY <1>5, <1>7, <1>8 DEF Assembled
  <1> QED BY <1>2, <1>9, <1>10, <1>11, <1>12

LEMMA SomeAssembled ==
  ASSUME NEW u, NEW s, NEW form, NEW off, Said(u, s, form, off),
         NEW list, NEW es, es = s.entities, NEW n, n = Len(es), SomeUnread(list, es, off, 1, n)
  PROVE  Assembled(u, list, Close(form)) = Unreadable
  <1>1. PICK close : close = Close(form)
    OBVIOUS
  <1>2. CASE list = <<>>
    BY <1>1, <1>2 DEF Assembled
  <1>3. CASE list # <<>>
    <2>1. Last(list) # Panic /\ Last(list).next \in 1 .. off[n + 1] - 1
      BY <1>3 DEF SomeUnread, Last
    <2>2. PICK i : i = Last(list).next
      OBVIOUS
    <2>3. PICK z \in Nat : z = off[n + 1]
      <3>1. PICK x : x = Texts(s)[n]
        OBVIOUS
      <3>2. n \in 1 .. Len(s.entities)
        BY DEF Said, IsStatement
      <3>3. SaidAt(u, s, form, off, n, x)
        BY <3>1, <3>2, SaidThere
      <3> QED BY <3>3 DEF SaidAt
    <2>4. i \in 1 .. z /\ i # z
      BY <2>1, <2>2, <2>3
    <2>5. SubSeq(u, i, Len(u)) # close
      BY <1>1, <2>3, <2>4, CloseIs
    <2> QED BY <1>1, <1>3, <2>1, <2>2, <2>5 DEF Assembled
  <1> QED BY <1>2, <1>3

\* A text of a statement, of either form, is read as this statement, if that of
\* each entity alone is read up to its end, and else not at all.
LEMMA ReadSaid ==
  ASSUME NEW u, NEW s, NEW form, NEW off, Said(u, s, form, off)
  PROVE  ReadStatement(u) = IF AllReadable(s) THEN s ELSE Unreadable
  <1>1. PICK es : es = s.entities
    OBVIOUS
  <1>2. PICK n : n = Len(es)
    OBVIOUS
  <1>3. PICK j : j = off[1] + 1
    OBVIOUS
  <1>4. After(u, NameEnd(u, 1), Opening(form)) = j /\ j \in 1 .. Len(u) + 1
    BY <1>3, NameRead
  <1>5. PICK list : list = EntityList(u, j, form)
    OBVIOUS
  <1>6. ListedFrom(list, es, off, 1, n)
    BY <1>1, <1>2, <1>3, <1>5, ListedAll
  <1>7. u \in Text /\ j \in Positions(u)
    <2>1. u \in Text
      BY DEF Said, Spread, LaidOut
    <2> QED BY <1>4, <2>1, TextIs DEF Positions
  <1>8. list \in Seq(ReadingsOf(u))
    BY <1>5, <1>7, Listed DEF ListStep
  <1>9. Reads(u, form) = Assembled(u, list, Close(form))
    BY <1>4, <1>5 DEF Reads, Close
  <1>10. ReadStatement(u) = Reads(u, form)
    <2>1. form \in {"standard", "spaced"}
      BY DEF Said
    <2>2. Tag(u, NameEnd(u, 1), "(") # 0 <=> form = "standard"
      BY NameRead
    <2> QED BY <2>1, <2>2 DEF ReadStatement
  <1>11. AllReadable(s) <=> \A q \in 1 .. n : Readable(es[q])
    BY <1>1, <1>2 DEF AllReadable
  <1>12. CASE AllRead(list, es, off, 1, n)
    <2>1. AllReadable(s)
      BY <1>11, <1>12 DEF AllRead
    <2>2. Assembled(u, list, Close(form)) = s
      BY <1>1, <1>2, <1>8, <1>12, AllAssembled
    <2> QED BY <1>9, <1>10, <2>1, <2>2
  <1>13. CASE SomeUnread(list, es, off, 1, n)
    <2>1. ~AllReadable(s)
      BY <1>11, <1>13 DEF SomeUnread
    <2>2. Assembled(u, list, Close(form)) = Unreadable
      BY <1>1, <1>2, <1>13, SomeAssembled
    <2> QED BY <1>9, <1>10, <2>1, <2>2
  <1> QED BY <1>6, <1>12, <1>13 DEF ListedFrom

\* Both texts of a statement are texts of it.
LEMMA TextsSaid ==
  ASSUME NEW s, IsStatement(s)
  PROVE  /\ \E off : Said(StatementText(s), s, "standard", off)
         /\ \E off : Said(SpacedText(s), s, "spaced", off)
  <1>1. PICK name : name = s.name
    OBVIOUS
  <1>2. PICK texts : texts = Texts(s)
    OBVIOUS
  <1>3. name \in Text /\ texts \in Seq(Text) /\ Len(texts) # 0
    BY <1>1, <1>2, TextsIs DEF IsStatement, AreTexts
  <1>4. /\ StatementText(s) = name \o <<Opening("standard")>> \o Joined(texts, Separator("standard")) \o <<")">>
        /\ SpacedText(s) = name \o <<Opening("spaced")>> \o Joined(texts, Separator("spaced"))
    BY <1>1, <1>2, Zenon DEF StatementText, SpacedText, Opening, Separator
  <1>5. \A form : Opening(form) \in Words /\ Separator(form) \in Words
    BY FormWords
  <1>6. \E off : Said(StatementText(s), s, "standard", off)
    <2>1. PICK opening, word : opening = Opening("standard") /\ word = Separator("standard")
      OBVIOUS
    <2>2. PICK u : u = StatementText(s)
      OBVIOUS
    <2>3. u = name \o <<"(">> \o Joined(texts, word) \o <<")">> /\ opening = "("
      BY <1>4, <2>1, <2>2, FormWords
    <2>4. \E off : Spread(u, name, opening, texts, word, <<")">>, off)
      BY <1>3, <1>5, <2>1, <2>3, SpreadStandard
    <2>5. Close("standard") = <<")">>
      BY DEF Close
    <2> QED BY <1>1, <1>2, <2>1, <2>2, <2>4, <2>5 DEF Said
  <1>7. \E off : Said(SpacedText(s), s, "spaced", off)
    <2>1. PICK opening, word : opening = Opening("spaced") /\ word = Separator("spaced")
      OBVIOUS
    <2>2. PICK u : u = SpacedText(s)
      OBVIOUS
    <2>3. u = name \o <<opening>> \o Joined(texts, word)
      BY <1>4, <2>1, <2>2
    <2>4. \E off : Spread(u, name, opening, texts, word, <<>>, off)
      BY <1>3, <1>5, <2>1, <2>3, SpreadSpaced
    <2>5. Close("spaced") = <<>>
      BY DEF Close
    <2> QED BY <1>1, <1>2, <2>1, <2>2, <2>4, <2>5 DEF Said
  <1> QED BY <1>6, <1>7

LEMMA ReadTexts ==
  ASSUME NEW s, IsStatement(s)
  PROVE  /\ ReadStatement(StatementText(s)) = IF AllReadable(s) THEN s ELSE Unreadable
         /\ ReadStatement(SpacedText(s)) = IF AllReadable(s) THEN s ELSE Unreadable
  BY TextsSaid, ReadSaid

-----------------------------------------------------------------------------
(* Reading what the user types *)

\* Entities were read somewhere in t; only the last may have been fatal.
AreRead(t, list) ==
    /\ Len(list) \in Nat /\ DOMAIN list = 1 .. Len(list)
    /\ \A i \in 1 .. Len(list) :
          /\ list[i] # NoEntity /\ \E k \in 1 .. Len(t) + 1 : list[i] = entity(t, k)
          /\ list[i] = Panic => i = Len(list)

LEMMA NoneRead ==
  ASSUME NEW t
  PROVE  AreRead(t, <<>>)
  <1>1. Len(<<>>) = 0 /\ DOMAIN <<>> = 1 .. 0 /\ \A i : i \notin 1 .. 0
    OBVIOUS
  <1> QED BY <1>1 DEF AreRead

LEMMA MoreRead ==
  ASSUME NEW t, NEW S, NEW list \in Seq(S), NEW r, NEW rest, IsFront(list, r, rest), AreRead(t, rest),
         r # NoEntity, NEW k \in 1 .. Len(t) + 1, r = entity(t, k), r = Panic => rest = <<>>
  PROVE  AreRead(t, list)
  <1>1. PICK n \in Nat : n = Len(rest)
    BY DEF IsFront
  <1>2. Len(list) = n + 1 /\ list[1] = r /\ (\A d \in 1 .. n : list[d + 1] = rest[d]) /\ DOMAIN list = 1 .. n + 1
    BY <1>1 DEF IsFront
  <1>3. rest = <<>> => n = 0
    <2>1. Len(<<>>) = 0
      OBVIOUS
    <2> QED BY <1>1, <2>1
  <1>4. ASSUME NEW i \in 1 .. n + 1
        PROVE  /\ list[i] # NoEntity /\ \E l \in 1 .. Len(t) + 1 : list[i] = entity(t, l)
               /\ list[i] = Panic => i = n + 1
    <2>1. CASE i = 1
      BY <1>2, <1>3, <2>1
    <2>2. CASE i # 1
      <3>1. PICK d \in 1 .. n : i = d + 1
        <4>1. i - 1 \in 1 .. n /\ i = (i - 1) + 1
          BY <2>2
        <4> QED BY <4>1
      <3>2. list[i] = rest[d]
        BY <1>2, <3>1
      <3>3. /\ rest[d] # NoEntity /\ \E l \in 1 .. Len(t) + 1 : rest[d] = entity(t, l)
            /\ rest[d] = Panic => d = n
        BY <1>1, <3>1 DEF AreRead
      <3> QED BY <3>1, <3>2, <3>3
    <2> QED BY <2>1, <2>2
  <1>5. PICK m \in Nat : m = n + 1
    OBVIOUS
  <1>6. \A i \in 1 .. m : /\ list[i] # NoEntity /\ \E l \in 1 .. Len(t) + 1 : list[i] = entity(t, l)
                          /\ list[i] = Panic => i = m
    BY <1>4, <1>5
  <1>7. Len(list) = m /\ DOMAIN list = 1 .. m
    BY <1>2, <1>5
  <1>8. \A i \in 1 .. Len(list) : /\ list[i] # NoEntity /\ \E l \in 1 .. Len(t) + 1 : list[i] = entity(t, l)
                                  /\ list[i] = Panic => i = Len(list)
    BY <1>6, <1>7, Zenon
  <1>9. Len(list) \in Nat /\ DOMAIN list = 1 .. Len(list)
    BY <1>7
  <1> QED BY <1>8, <1>9, Zenon DEF AreRead

LEMMA ListRead ==
  ASSUME NEW t \in Text, NEW form, NEW i \in Positions(t)
  PROVE  AreRead(t, EntityList(t, i, form))
  <1>1. PICK b \in Nat : b = Len(t) + 1
    BY TextIs
  <1>2. Positions(t) = 0 .. b
    BY <1>1 DEF Positions
  <1>3. AreRead(t, EntityList(t, 0, form))
    <2>1. 0 \in Positions(t)
      BY <1>2
    <2>2. EntityList(t, 0, form) = <<>>
      BY <2>1, Listed DEF ListStep
    <2> QED BY <2>2, NoneRead
  <1>4. ASSUME NEW j \in 0 .. b, \A l \in j + 1 .. b : AreRead(t, EntityList(t, l, form))
        PROVE  AreRead(t, EntityList(t, j, form))
    <2>1. CASE j = 0
      BY <1>3, <2>1
    <2>2. CASE j # 0 /\ entity(t, j) = NoEntity
      <3>1. j \in 1 .. Len(t) + 1
        BY <1>1, <2>2
      <3>2. EntityList(t, j, form) = <<>>
        BY <2>2, <3>1, ListedNone
      <3> QED BY <3>2, NoneRead
    <2>3. CASE j # 0 /\ entity(t, j) # NoEntity
      <3>1. j \in 1 .. Len(t) + 1
        BY <1>1, <2>3
      <3>2. PICK r : r = entity(t, j)
        OBVIOUS
      <3>3. PICK l : l = After(t, r.next, Separator(form))
        OBVIOUS
      <3>4. l = 0 \/ l \in j + 1 .. Len(t) + 1
        <4>1. Progress(t, j, r.next)
          BY <3>1, <3>2, EntityProgress
        <4> QED BY <3>1, <3>3, <4>1, AfterLater
      <3>5. AreRead(t, EntityList(t, l, form)) /\ l \in Positions(t)
        BY <1>1, <1>2, <1>3, <1>4, <3>4
      <3>6. IsFront(EntityList(t, j, form), r, EntityList(t, l, form))
        <4>1. CASE l = 0
          <5>1. IsFront(EntityList(t, j, form), r, <<>>)
            BY <2>3, <3>1, <3>2, <3>3, <4>1, ListedEnd
          <5>2. EntityList(t, l, form) = <<>>
            BY <3>5, <4>1, Listed DEF ListStep
          <5> QED BY <5>1, <5>2
        <4>2. CASE l # 0
          BY <2>3, <3>1, <3>2, <3>3, <3>4, <4>2, ListedBefore
        <4> QED BY <4>1, <4>2
      <3>7. r = Panic => EntityList(t, l, form) = <<>>
        <4> SUFFICES ASSUME r = Panic
                     PROVE  EntityList(t, l, form) = <<>>
          OBVIOUS
        <4>1. r.next = 0 /\ 0 \in Nat /\ 0 \notin 1 .. Len(t)
          BY PanicIs
        <4>2. l = 0
          BY <3>3, <4>1, AfterNone
        <4> QED BY <3>5, <4>2, Listed DEF ListStep
      <3>8. EntityList(t, j, form) \in Seq(ReadingsOf(t))
        <4>1. j \in Positions(t)
          BY <1>2
        <4> QED BY <4>1, Listed DEF ListStep
      <3>9. PICK list, rest : list = EntityList(t, j, form) /\ rest = EntityList(t, l, form)
        OBVIOUS
      <3>10. AreRead(t, list)
        BY <2>3, <3>1, <3>2, <3>5, <3>6, <3>7, <3>8, <3>9, MoreRead
      <3> QED BY <3>9, <3>10
    <2> QED BY <2>1, <2>2, <2>3
  <1> DEFINE T == {m \in 0 .. b : \A j \in b - m .. b : AreRead(t, EntityList(t, j, form))}
  <1>5. 0 \in T
    <2>1. b \in 0 .. b /\ \A l \in b + 1 .. b : FALSE
      OBVIOUS
    <2>2. AreRead(t, EntityList(t, b, form))
      BY <1>4, <2>1
    <2>3. \A j \in b - 0 .. b : j = b
      OBVIOUS
    <2> QED BY <2>2, <2>3
  <1>6. ASSUME NEW m \in 0 .. b - 1, m \in T
        PROVE  m + 1 \in T
    <2>1. \A l \in b - m .. b : AreRead(t, EntityList(t, l, form))
      BY <1>6
    <2>2. PICK a \in 0 .. b : a = b - (m + 1) /\ a + 1 = b - m
      OBVIOUS
    <2>3. AreRead(t, EntityList(t, a, form))
      BY <1>4, <2>1, <2>2
    <2>4. \A l \in a .. b : l = a \/ l \in b - m .. b
      BY <2>2
    <2>5. \A l \in b - (m + 1) .. b : AreRead(t, EntityList(t, l, form))
      BY <2>1, <2>2, <2>3, <2>4
    <2> QED BY <2>5
  <1>7. \A m \in 0 .. b : m \in T
    <2>1. 0 \in Nat
      OBVIOUS
    <2> HIDE DEF T
    <2> QED BY <1>5, <1>6, <2>1, Ascending
  <1>8. b \in T /\ \A j \in 0 .. b : j \in b - b .. b
    BY <1>7
  <1>9. \A j \in 0 .. b : AreRead(t, EntityList(t, j, form))
    BY <1>8
  <1> QED BY <1>2, <1>9

\* A name that is read is one.
LEMMA NameIs ==
  ASSUME NEW t \in Text, NameEnd(t, 1) # 0, NEW x, x = SubSeq(t, 1, NameEnd(t, 1) - 1)
  PROVE  x \in Text /\ NameEnd(x, 1) = Len(x) + 1
  <1>1. PICK p : p = NameEnd(t, 1)
    OBVIOUS
  <1>2. 1 \in 1 .. Len(t) + 1
    BY TextIs
  <1>3. PICK words : words = Letters \cup {"_"}
    OBVIOUS
  <1>4. Ahead(t, 1, p, words)
    <2>1. Ahead(t, 1, 1, words)
      BY <1>2, AheadNow
    <2>2. Letters \cup {"_"} \subseteq words
      BY <1>3
    <2> QED BY <1>1, <1>2, <2>1, <2>2, NameAhead
  <1>5. p \in 1 .. Len(t) + 1 /\ Len(t) \in Nat
    BY <1>1, <1>4, TextIs DEF Ahead
  <1>6. PICK n \in Nat : n = p - 1
    BY <1>5
  <1>7. x \in Text /\ Len(x) = n
    BY <1>1, <1>2, <1>5, <1>6, PartIs DEF IsPart
  <1>8. Copy(t, 1, x, 1, n, {}, FALSE)
    BY <1>1, <1>2, <1>5, <1>6, PartCopies
  <1>9. 1 + n = p /\ 1 \in Nat \ {0} /\ 1 \in Nat /\ 1 + n = n + 1
    BY <1>5, <1>6
  <1>10. Moved(t, 1, 1, n, FALSE, 1, 1)
    BY <1>9, MovedStart
  <1>11. (Letters \cup {"_"}) \cap {} = {}
    OBVIOUS
  <1>12. Moved(t, 1, 1, n, FALSE, NameEnd(t, 1), NameEnd(x, 1))
    BY <1>8, <1>10, <1>11, NameMoves
  <1>13. Moved(t, 1, 1, n, FALSE, 1 + n, NameEnd(x, 1))
    BY <1>1, <1>9, <1>12
  <1>14. NameEnd(x, 1) = 1 + n
    BY <1>9, <1>13, MovedEnd
  <1>15. Len(x) + 1 = 1 + n
    BY <1>7, <1>9, Zenon
  <1> QED BY <1>7, <1>14, <1>15, Zenon

\* What a line is read as, if it is read, is a statement.
LEMMA ReadIsStatement ==
  ASSUME NEW t \in Text, Hashable(t), NEW s, s = ReadStatement(t), s # Unreadable, s # Panic
  PROVE  IsStatement(s)
  <1>1. PICK form : s = Reads(t, form)
    BY DEF ReadStatement
  <1>2. PICK j : j = After(t, NameEnd(t, 1), Opening(form))
    OBVIOUS
  <1>3. PICK list : list = EntityList(t, j, form)
    OBVIOUS
  <1>4. PICK close : s = Assembled(t, list, close)
    BY <1>1, <1>2, <1>3 DEF Reads
  <1>5. /\ list # <<>> /\ Last(list) # Panic
        /\ s = [name |-> SubSeq(t, 1, NameEnd(t, 1) - 1),
                entities |-> [i \in DOMAIN list |-> EntityOf(list[i])]]
    BY <1>4 DEF Assembled
  <1>6. Progress(t, 1, NameEnd(t, 1)) /\ 1 \in 1 .. Len(t) + 1
    <2>1. 1 \in 1 .. Len(t) + 1
      BY TextIs
    <2>2. PICK words : words = Letters \cup {"_"}
      OBVIOUS
    <2>3. Ahead(t, 1, 1, words) /\ Letters \cup {"_"} \subseteq words
      BY <2>1, <2>2, AheadNow
    <2>4. Ahead(t, 1, NameEnd(t, 1), words)
      BY <2>1, <2>3, NameAhead
    <2> QED BY <2>1, <2>4, AheadProgress
  <1>7. j \in Positions(t)
    <2>1. j = 0 \/ j \in 1 + 1 .. Len(t) + 1
      BY <1>2, <1>6, AfterLater
    <2> QED BY <2>1, TextIs DEF Positions
  <1>8. NameEnd(t, 1) # 0
    <2> SUFFICES ASSUME NameEnd(t, 1) = 0
                 PROVE  FALSE
      OBVIOUS
    <2>1. 0 \in Nat /\ 0 \notin 1 .. Len(t)
      OBVIOUS
    <2>2. j = 0
      BY <1>2, <2>1, AfterNone
    <2>3. list = <<>>
      BY <1>3, <1>7, <2>2, Listed DEF ListStep
    <2> QED BY <1>5, <2>3
  <1>9. AreRead(t, list) /\ list \in Seq(ReadingsOf(t))
    BY <1>3, <1>7, ListRead, Listed DEF ListStep
  <1>10. PICK n \in Nat : n = Len(list)
    BY <1>9
  <1>11. n # 0 /\ DOMAIN list = 1 .. n /\ Last(list) = list[n]
    <2>1. n # 0
      BY <1>5, <1>9, <1>10, EmptySeq
    <2> QED BY <1>9, <1>10, <2>1 DEF Last
  <1>12. PICK es : es = [i \in 1 .. n |-> EntityOf(list[i])]
    OBVIOUS
  <1>13. ASSUME NEW i \in 1 .. n
         PROVE  IsWritten(es[i])
    <2>1. list[i] # NoEntity /\ list[i] # Panic
      BY <1>5, <1>9, <1>10, <1>11 DEF AreRead
    <2>2. PICK k \in 1 .. Len(t) + 1 : list[i] = entity(t, k)
      BY <1>9, <1>10 DEF AreRead
    <2>3. WrittenAt(t, k, entity(t, k))
      BY <2>1, <2>2, EntityWritten
    <2> QED BY <1>12, <2>2, <2>3 DEF WrittenAt
  <1>14. es \in Seq(Range(es)) /\ Len(es) = n
    <2>1. es \in [1 .. n -> Range(es)]
      BY <1>12 DEF Range
    <2> QED BY <2>1
  <1>15. PICK x : x = SubSeq(t, 1, NameEnd(t, 1) - 1)
    OBVIOUS
  <1>16. x \in Text /\ NameEnd(x, 1) = Len(x) + 1
    BY <1>8, <1>15, NameIs
  <1>17. s = [name |-> x, entities |-> es]
    BY <1>5, <1>11, <1>12, <1>15
  <1>18. s.name = x /\ s.entities = es
    BY <1>17
  <1> QED BY <1>11, <1>13, <1>14, <1>16, <1>17, <1>18 DEF IsStatement

\* So is one with its addresses hashed.
LEMMA HashedIsStatement ==
  ASSUME NEW s, IsStatement(s)
  PROVE  IsStatement(hash_emails(s))
  <1>1. PICK es : es = s.entities
    OBVIOUS
  <1>2. PICK n \in Nat \ {0} : n = Len(es)
    BY <1>1 DEF IsStatement
  <1>3. DOMAIN es = 1 .. n /\ s = [name |-> s.name, entities |-> es]
    BY <1>1, <1>2 DEF IsStatement
  <1> DEFINE hashed(e) == IF e.kind = "EMail" THEN [kind |-> "HashValue", text |-> Digest(e.text)] ELSE e
  <1>4. PICK hs : hs = [i \in 1 .. n |-> hashed(es[i])]
    OBVIOUS
  <1>5. hash_emails(s) = [name |-> s.name, entities |-> hs]
    <2>1. hash_emails(s) = [s EXCEPT !.entities = [i \in DOMAIN es |-> hashed(es[i])]]
      BY <1>1 DEF hash_emails
    <2>2. hash_emails(s) = [s EXCEPT !.entities = hs]
      BY <1>3, <1>4, <2>1
    <2>3. PICK name : name = s.name
      OBVIOUS
    <2>4. s = [name |-> name, entities |-> es]
      BY <1>3, <2>3
    <2>5. [s EXCEPT !.entities = hs] = [name |-> name, entities |-> hs]
      BY <2>4
    <2> QED BY <2>2, <2>3, <2>5
  <1>6. ASSUME NEW i \in 1 .. n
        PROVE  IsWritten(hs[i])
    <2>1. PICK e : e = es[i]
      OBVIOUS
    <2>2. IsWritten(e)
      BY <1>1, <1>2, <2>1 DEF IsStatement
    <2>3. hs[i] = hashed(e)
      BY <1>4, <2>1
    <2>4. CASE e.kind = "EMail"
      <3>1. PICK h : h = [kind |-> "HashValue", text |-> Digest(e.text)]
        OBVIOUS
      <3>2. h.kind = "HashValue" /\ h.text = Digest(e.text)
        BY <3>1
      <3>3. ReadsAsBase64(Digest(e.text))
        BY <2>2, <2>4 DEF IsWritten
      <3>4. IsWritten(h)
        BY <3>1, <3>2, <3>3 DEF IsWritten, ReadsAsBase64
      <3> QED BY <2>3, <2>4, <3>1, <3>4
    <2>5. CASE e.kind # "EMail"
      BY <2>2, <2>3, <2>5
    <2> QED BY <2>4, <2>5
  <1>7. hs \in Seq(Range(hs)) /\ Len(hs) = n
    <2>1. hs \in [1 .. n -> Range(hs)]
      <3> HIDE DEF hashed
      <3> QED BY <1>4 DEF Range
    <2> QED BY <2>1
  <1>8. PICK h : h = hash_emails(s)
    OBVIOUS
  <1>9. h = [name |-> s.name, entities |-> hs]
    BY <1>5, <1>8
  <1>10. h.name = s.name /\ h.entities = hs
    BY <1>9
  <1>11. s.name \in Text /\ NameEnd(s.name, 1) = Len(s.name) + 1
    BY DEF IsStatement
  <1> HIDE DEF hashed
  <1> QED BY <1>2, <1>6, <1>7, <1>8, <1>9, <1>10, <1>11 DEF IsStatement

-----------------------------------------------------------------------------
(* The text of an opinion *)

AreMarks(f, t, separator) ==
    f = [n \in 0 .. Len(t) + 1 |->
            IF n = 0 THEN 0
            ELSE Min({j \in f[n - 1] + 1 .. Len(t) : t[j] = separator} \cup {Len(t) + 1})]

SplitAt(t, f) ==
    [n \in {m \in 1 .. Len(t) + 1 : f[m - 1] <= Len(t)} |-> SubSeq(t, f[n - 1] + 1, f[n] - 1)]

LEMMA MarksStep ==
  ASSUME NEW t \in Text, NEW separator
  PROVE  \E f : AreMarks(f, t, separator) /\ Split(t, separator) = SplitAt(t, f)
  <1>1. PICK b \in Nat \ {0} : b = Len(t) + 1
    BY TextIs
  <1> DEFINE T(v) == {j \in v + 1 .. Len(t) : t[j] = separator} \cup {Len(t) + 1}
             Turn == [n \in 1 .. b |-> [v \in Nat |-> Min(T(v))]]
  <1>2. ASSUME NEW v \in Nat
        PROVE  Min(T(v)) \in Nat
    <2>1. T(v) \in SUBSET Nat /\ T(v) # {}
      BY <1>1
    <2>2. IsLeast(Min(T(v)), T(v))
      <3> HIDE DEF T
      <3> QED BY <2>1, MinIs
    <2> HIDE DEF T
    <2> QED BY <2>1, <2>2 DEF IsLeast
  <1>3. Turn \in [1 .. b -> [Nat -> Nat]]
    <2> HIDE DEF T
    <2> QED BY <1>2
  <1>4. \E f : IsRecursion(f, Nat, 0, b, 0, Turn)
    <2>1. 0 \in Nat /\ b \in Nat /\ 0 <= b /\ 0 + 1 = 1
      OBVIOUS
    <2>2. Turn \in [0 + 1 .. b -> [Nat -> Nat]]
      <3> HIDE DEF Turn
      <3> QED BY <1>3, <2>1
    <2> HIDE DEF Turn
    <2> QED BY <2>1, <2>2, RecursionExists
  <1>5. PICK f : IsRecursion(f, Nat, 0, b, 0, Turn)
    BY <1>4
  <1>6. f \in [0 .. b -> Nat] /\ f[0] = 0 /\ \A n \in 1 .. b : f[n] = Turn[n][f[n - 1]]
    <2>1. \A n \in 1 .. b : n \in 0 + 1 .. b
      OBVIOUS
    <2> HIDE DEF Turn
    <2> QED BY <1>5, <2>1 DEF IsRecursion
  <1>7. ASSUME NEW n \in 0 .. b
        PROVE  f[n] = IF n = 0 THEN 0 ELSE Min(T(f[n - 1]))
    <2>1. CASE n = 0
      BY <1>6, <2>1
    <2>2. CASE n # 0
      <3>1. n \in 1 .. b /\ n - 1 \in 0 .. b
        BY <2>2
      <3>2. f[n - 1] \in Nat /\ f[n] = Turn[n][f[n - 1]]
        <4> HIDE DEF Turn
        <4> QED BY <1>6, <3>1
      <3>3. Turn[n][f[n - 1]] = Min(T(f[n - 1]))
        <4> HIDE DEF T
        <4> QED BY <3>1, <3>2
      <3> HIDE DEF T, Turn
      <3> QED BY <2>2, <3>2, <3>3
    <2> QED BY <2>1, <2>2
  <1>8. AreMarks(f, t, separator)
    <2>1. f = [n \in 0 .. b |-> f[n]]
      <3> HIDE DEF Turn
      <3> QED BY <1>6
    <2> QED BY <1>1, <1>7, <2>1 DEF AreMarks
  <1>9. PICK g : g = CHOOSE h : AreMarks(h, t, separator)
    OBVIOUS
  <1>10. AreMarks(g, t, separator)
    BY <1>8, <1>9
  <1>11. Split(t, separator) = SplitAt(t, g)
    BY <1>9 DEF Split, SplitAt, AreMarks
  <1> QED BY <1>10, <1>11

\* What is between a word that none of the texts has, when they are joined by it.
LEMMA SplitJoined ==
  ASSUME NEW texts \in Seq(Text), Len(texts) # 0, NEW word \in Words,
         \A m \in 1 .. Len(texts) : Lacks(texts[m], word)
  PROVE  Split(Joined(texts, word), word) = texts
  <1>1. PICK n \in Nat \ {0} : n = Len(texts)
    BY LenProperties
  <1>2. PICK t : t = Joined(texts, word)
    OBVIOUS
  <1>3. PICK off : Filled(t, texts, n, word, off)
    BY <1>1, <1>2, JoinedIs
  <1>4. LaidOut(t, texts, n, word, off) /\ off[1] = 0 /\ off[n + 1] = Len(t) + 1 /\ t \in Text
    BY <1>3 DEF Filled, LaidOut
  <1>5. PICK l \in Nat : l = Len(t)
    BY <1>4, TextIs
  <1>6. /\ off \in [1 .. n + 1 -> Nat]
        /\ \A m \in 1 .. n : off[m + 1] = (off[m] + Len(texts[m])) + 1
        /\ \A m \in 1 .. n : \A d \in 1 .. Len(texts[m]) : t[off[m] + d] = texts[m][d]
        /\ \A m \in 1 .. n - 1 : t[off[m + 1]] = word
    BY <1>4 DEF LaidOut
  <1>7. \A m \in 1 .. n : texts[m] \in Text /\ Len(texts[m]) \in Nat
    BY <1>1, ElementOfSeq, TextIs
  <1>8. \A m \in 1 .. n + 1 : off[m] \in Nat /\ off[m] <= l + 1
    <2>1. \A m \in 1 .. n + 1 : off[m] <= off[n + 1]
      <3>1. n \in 1 .. Len(texts)
        BY <1>1
      <3> QED BY <1>4, <3>1, LaidBelow
    <2> QED BY <1>4, <1>5, <1>6, <2>1
  <1>9. ASSUME NEW m \in 1 .. n
        PROVE  off[m] <= l /\ off[m] + 1 \in 1 .. l + 1 /\ off[m] < off[m + 1]
    <2>1. PICK a \in Nat, b \in Nat, c \in Nat : a = off[m] /\ b = off[m + 1] /\ c = Len(texts[m])
      <3>1. m \in 1 .. n + 1 /\ m + 1 \in 1 .. n + 1
        OBVIOUS
      <3> QED BY <1>7, <1>8, <3>1
    <2>2. b = (a + c) + 1 /\ b <= l + 1
      <3>1. m + 1 \in 1 .. n + 1
        OBVIOUS
      <3> QED BY <1>6, <1>8, <2>1, <3>1
    <2>3. a <= l /\ a + 1 \in 1 .. l + 1 /\ a < b
      BY <2>2
    <2> QED BY <2>1, <2>3
  <1>10. PICK f : AreMarks(f, t, word) /\ Split(t, word) = SplitAt(t, f)
    BY <1>4, MarksStep
  <1>11. ASSUME NEW k \in 0 .. l + 1
         PROVE  f[k] = IF k = 0 THEN 0
                       ELSE Min({j \in f[k - 1] + 1 .. l : t[j] = word} \cup {l + 1})
    BY <1>5, <1>10 DEF AreMarks
  <1>12. n <= l + 1 /\ \A m \in 1 .. n + 1 : m - 1 <= off[m]
    <2> DEFINE T == {m \in 1 .. n + 1 : m - 1 <= off[m]}
    <2>1. 1 \in T
      BY <1>4
    <2>2. ASSUME NEW m \in 1 .. (n + 1) - 1, m \in T
          PROVE  m + 1 \in T
      <3>1. m \in 1 .. n /\ m + 1 \in 1 .. n + 1 /\ m \in 1 .. n + 1
        OBVIOUS
      <3>2. PICK a \in Nat, b \in Nat : a = off[m] /\ b = off[m + 1]
        BY <1>8, <3>1
      <3>3. a < b /\ m - 1 <= a
        BY <1>9, <2>2, <3>1, <3>2
      <3>4. (m + 1) - 1 <= b
        BY <3>1, <3>3
      <3> QED BY <3>1, <3>2, <3>4
    <2>3. \A m \in 1 .. n + 1 : m \in T
      <3>1. 1 \in Nat /\ n + 1 \in Nat
        OBVIOUS
      <3> HIDE DEF T
      <3> QED BY <2>1, <2>2, <3>1, Ascending
    <2>4. n + 1 \in T
      <3>1. n + 1 \in 1 .. n + 1
        OBVIOUS
      <3> HIDE DEF T
      <3> QED BY <2>3, <3>1
    <2>5. (n + 1) - 1 <= off[n + 1] /\ off[n + 1] = l + 1
      BY <1>4, <1>5, <2>4
    <2> QED BY <2>3, <2>5
  <1>13. ASSUME NEW m \in 1 .. n
         PROVE  Min({j \in off[m] + 1 .. l : t[j] = word} \cup {l + 1}) = off[m + 1]
    <2>1. PICK a \in Nat, b \in Nat, c \in Nat : a = off[m] /\ b = off[m + 1] /\ c = Len(texts[m])
      <3>1. m \in 1 .. n + 1 /\ m + 1 \in 1 .. n + 1
        OBVIOUS
      <3> QED BY <1>7, <1>8, <3>1
    <2>2. b = (a + c) + 1 /\ b <= l + 1
      <3>1. m + 1 \in 1 .. n + 1
        OBVIOUS
      <3> QED BY <1>6, <1>8, <2>1, <3>1
    <2> DEFINE S == {j \in a + 1 .. l : t[j] = word} \cup {l + 1}
    <2>3. b \in S
      <3>1. CASE m = n
        BY <1>4, <1>5, <2>1, <3>1
      <3>2. CASE m # n
        <4>1. m \in 1 .. n - 1 /\ m + 1 \in 1 .. n
          BY <3>2
        <4>2. b <= l /\ t[b] = word
          BY <1>6, <1>9, <2>1, <4>1
        <4>3. b \in a + 1 .. l
          BY <2>2, <4>2
        <4> QED BY <4>2, <4>3
      <3> QED BY <3>1, <3>2
    <2>4. ASSUME NEW j \in a + 1 .. l, t[j] = word
          PROVE  b <= j
      <3> SUFFICES ASSUME ~(b <= j)
                   PROVE  FALSE
        OBVIOUS
      <3>1. PICK d \in Nat : d = j - a
        OBVIOUS
      <3>2. d \in 1 .. c /\ a + d = j
        BY <2>2, <3>1
      <3>3. t[j] = texts[m][d]
        BY <1>6, <2>1, <3>2
      <3>4. texts[m][d] # word
        BY <1>1, <2>1, <3>2 DEF Lacks
      <3> QED BY <2>4, <3>3, <3>4
    <2>5. \A j \in S : b <= j
      BY <2>2, <2>4
    <2>6. S \in SUBSET Nat
      OBVIOUS
    <2>7. Min(S) = b
      <3> HIDE DEF S
      <3>1. IsLeast(b, S)
        BY <2>3, <2>5 DEF IsLeast
      <3> QED BY <2>6, <3>1, LeastIsMin
    <2> QED BY <2>1, <2>7
  <1>14. \A k \in 0 .. n : f[k] = off[k + 1]
    <2> DEFINE T == {k \in 0 .. n : f[k] = off[k + 1]}
    <2>1. 0 \in T
      <3>1. 0 \in 0 .. l + 1 /\ 0 \in 0 .. n /\ 0 + 1 = 1
        OBVIOUS
      <3>2. f[0] = 0
        BY <1>11, <3>1
      <3> QED BY <1>4, <3>1, <3>2
    <2>2. ASSUME NEW k \in 0 .. n - 1, k \in T
          PROVE  k + 1 \in T
      <3>1. k + 1 \in 0 .. l + 1 /\ k + 1 # 0 /\ (k + 1) - 1 = k /\ k + 1 \in 1 .. n /\ k + 1 \in 0 .. n
        BY <1>12
      <3>2. f[k] = off[k + 1]
        BY <2>2
      <3>3. f[k + 1] = Min({j \in f[k] + 1 .. l : t[j] = word} \cup {l + 1})
        BY <1>11, <3>1
      <3>4. f[k + 1] = off[(k + 1) + 1]
        BY <1>13, <3>1, <3>2, <3>3
      <3> QED BY <3>1, <3>4
    <2>3. 0 \in Nat /\ n \in Nat
      OBVIOUS
    <2>4. \A k \in 0 .. n : k \in T
      <3> HIDE DEF T
      <3> QED BY <2>1, <2>2, <2>3, Ascending
    <2> QED BY <2>4
  <1>15. \A k \in n .. l + 1 : f[k] = l + 1
    <2> DEFINE T == {k \in n .. l + 1 : f[k] = l + 1}
    <2>1. n \in T
      BY <1>4, <1>5, <1>12, <1>14
    <2>2. ASSUME NEW k \in n .. (l + 1) - 1, k \in T
          PROVE  k + 1 \in T
      <3>1. k + 1 \in 0 .. l + 1 /\ k + 1 # 0 /\ (k + 1) - 1 = k /\ k + 1 \in n .. l + 1
        OBVIOUS
      <3>2. f[k] = l + 1
        BY <2>2
      <3>3. f[k + 1] = Min({j \in f[k] + 1 .. l : t[j] = word} \cup {l + 1})
        BY <1>11, <3>1
      <3>4. {j \in f[k] + 1 .. l : t[j] = word} \cup {l + 1} = {l + 1}
        BY <3>2
      <3>5. IsLeast(l + 1, {l + 1}) /\ {l + 1} \in SUBSET Nat
        BY DEF IsLeast
      <3>6. Min({l + 1}) = l + 1
        BY <3>5, LeastIsMin
      <3> QED BY <3>1, <3>3, <3>4, <3>6
    <2>3. n \in Nat /\ l + 1 \in Nat
      OBVIOUS
    <2>4. \A k \in n .. l + 1 : k \in T
      <3> HIDE DEF T
      <3> QED BY <2>1, <2>2, <2>3, Ascending
    <2> QED BY <2>4
  <1>16. {m \in 1 .. l + 1 : f[m - 1] <= l} = 1 .. n
    <2>1. ASSUME NEW m \in 1 .. n
          PROVE  m \in 1 .. l + 1 /\ f[m - 1] <= l
      <3>1. m - 1 \in 0 .. n /\ (m - 1) + 1 = m
        OBVIOUS
      <3>2. f[m - 1] = off[m]
        BY <1>14, <3>1
      <3> QED BY <1>9, <1>12, <3>2
    <2>2. ASSUME NEW m \in 1 .. l + 1, m \notin 1 .. n
          PROVE  ~(f[m - 1] <= l)
      <3>1. m - 1 \in n .. l + 1
        BY <2>2
      <3>2. f[m - 1] = l + 1
        BY <1>15, <3>1
      <3> QED BY <3>2
    <2> QED BY <2>1, <2>2
  <1>17. ASSUME NEW m \in 1 .. n
         PROVE  SubSeq(t, f[m - 1] + 1, f[m] - 1) = texts[m]
    <2>1. m - 1 \in 0 .. n /\ (m - 1) + 1 = m /\ m \in 0 .. n /\ m \in 1 .. n + 1 /\ m + 1 \in 1 .. n + 1
      OBVIOUS
    <2>2. f[m - 1] = off[m] /\ f[m] = off[m + 1]
      BY <1>14, <2>1
    <2>3. PICK a \in Nat, b \in Nat, c \in Nat : a = off[m] /\ b = off[m + 1] /\ c = Len(texts[m])
      BY <1>7, <1>8, <2>1
    <2>4. b = (a + c) + 1 /\ b <= l + 1
      BY <1>6, <1>8, <2>1, <2>3
    <2>5. b - 1 = a + c /\ a + c <= Len(t)
      BY <1>5, <2>4
    <2>6. PICK x : x = SubSeq(t, a + 1, a + c)
      OBVIOUS
    <2>7. IsPiece(Words, x, t, a, c)
      <3>1. t \in Seq(Words)
        BY <1>4 DEF Text, Words
      <3> QED BY <2>5, <2>6, <3>1, Piece
    <2>8. x \in Seq(Words) /\ Len(x) = c /\ \A d \in 1 .. c : x[d] = t[a + d]
      BY <2>7 DEF IsPiece
    <2>9. \A d \in 1 .. c : x[d] = texts[m][d]
      BY <1>6, <2>3, <2>8
    <2>10. texts[m] \in Seq(Words)
      BY <1>7 DEF Text, Words
    <2>11. x = texts[m]
      BY <2>3, <2>8, <2>9, <2>10, SeqEqual
    <2> QED BY <2>2, <2>3, <2>5, <2>6, <2>11
  <1>18. SplitAt(t, f) = [m \in 1 .. n |-> texts[m]]
    BY <1>5, <1>16, <1>17 DEF SplitAt
  <1>19. texts = [m \in 1 .. n |-> texts[m]]
    BY <1>1
  <1> QED BY <1>2, <1>10, <1>18, <1>19

Semicolon == ";"

LEMMA SemicolonIs ==
  /\ Semicolon \in Words /\ Semicolon \notin Alphanumeric /\ Semicolon # "secp256k1:"
  <1>1. Semicolon \in Punctuation
    BY DEF Semicolon, Punctuation
  <1>2. Semicolon # "secp256k1:"
    BY DEF Semicolon
  <1> QED BY <1>1, <1>2, MarksApart DEF Words

IsPlain(x) == x \in Text /\ Lacks(x, Semicolon)

\* A part of an opinion that is a number, or that is none.
LEMMA NumberPlain ==
  ASSUME NEW x, ReadsAsNumber(x)
  PROVE  IsPlain(x) /\ x \in DOMAIN Numbers /\ Numbers[x] = x
  <1>1. x \in Text /\ Run1(x, 1, Digits) = Len(x) + 1 /\ x \in DOMAIN Numbers /\ Numbers[x] = x
    BY DEF ReadsAsNumber, Converts
  <1>2. 1 \in 1 .. Len(x) + 1
    BY <1>1, TextIs
  <1>3. PICK D : D = Digits
    OBVIOUS
  <1>4. Ahead(x, 1, Len(x) + 1, D)
    <2>1. Ahead(x, 1, 1, D) /\ Digits \subseteq D
      BY <1>1, <1>2, <1>3, AheadNow
    <2> QED BY <1>1, <1>2, <2>1, Run1Ahead
  <1>5. OnlyOf(x, D)
    BY <1>1, <1>4, OnlyAhead
  <1>6. Semicolon \notin D
    BY <1>3, SemicolonIs, WordsOf
  <1> QED BY <1>1, <1>5, <1>6, LacksAny DEF IsPlain

KeyText(x) == <<"secp256k1:">> \o x

LEMMA KeyPlain ==
  ASSUME NEW x \in Keys, IsPlain(x)
  PROVE  IsPlain(KeyText(x)) /\ IsKey(KeyText(x)) /\ Tail(KeyText(x)) = x
  <1>1. PICK y : y = KeyText(x)
    OBVIOUS
  <1>2. PICK word : word = "secp256k1:" /\ word \in Words
    BY DEF Words, Marks
  <1>3. x \in Text /\ y = <<word>> \o x
    BY <1>1, <1>2 DEF IsPlain, KeyText
  <1>4. IsBehind(x, word, y)
    BY <1>2, <1>3, Behind DEF Words
  <1>5. y \in Text /\ Len(y) = Len(x) + 1 /\ y[1] = word /\ \A p \in 1 .. Len(x) : y[1 + p] = x[p]
    BY <1>4 DEF IsBehind
  <1>6. PICK n \in Nat : n = Len(x)
    BY <1>3, TextIs
  <1>7. Lacks(y, Semicolon)
    <2> SUFFICES ASSUME NEW p \in 1 .. n + 1
                 PROVE  y[p] # Semicolon
      BY <1>5, <1>6 DEF Lacks
    <2>1. CASE p = 1
      BY <1>2, <1>5, <2>1, SemicolonIs
    <2>2. CASE p # 1
      <3>1. p - 1 \in 1 .. Len(x) /\ 1 + (p - 1) = p
        BY <1>6, <2>2
      <3>2. y[p] = x[p - 1]
        BY <1>5, <3>1
      <3> QED BY <3>1, <3>2 DEF IsPlain, Lacks
    <2> QED BY <2>1, <2>2
  <1>8. y # <<>> /\ y \in Seq(Words) /\ x \in Seq(Words)
    <2>1. Len(<<>>) = 0
      OBVIOUS
    <2>2. y # <<>>
      BY <1>5, <1>6, <2>1
    <2> QED BY <1>3, <1>5, <2>2 DEF Text, Words
  <1>9. Head(y) = word
    BY <1>5, <1>8, HeadTailProperties
  <1>10. Tail(y) = x
    <2>1. PICK z : z = Tail(y)
      OBVIOUS
    <2>2. z \in Seq(Words) /\ Len(z) = Len(y) - 1 /\ \A p \in 1 .. Len(z) : z[p] = y[p + 1]
      BY <1>8, <2>1, HeadTailProperties
    <2>3. Len(z) = n
      BY <1>5, <1>6, <2>2
    <2>4. ASSUME NEW p \in 1 .. n
          PROVE  z[p] = x[p]
      <3>1. 1 + p = p + 1
        OBVIOUS
      <3> QED BY <1>5, <1>6, <2>2, <2>3, <3>1
    <2> QED BY <1>6, <1>8, <2>1, <2>2, <2>3, <2>4, SeqEqual
  <1>11. IsKey(y)
    BY <1>2, <1>8, <1>9, <1>10 DEF IsKey
  <1> QED BY <1>1, <1>5, <1>7, <1>10, <1>11 DEF IsPlain

\* What is written of an opinion is read as this opinion.
LEMMA OpinionRead ==
  ASSUME NEW o, IsOpinion(o)
  PROVE  ReadOpinion(OpinionText(o)) = o
  <1>1. IsPlain(o.signer) /\ IsPlain(o.signature)
    <2>1. \A t \in {o.signer, o.signature} : t \in Text /\ Semicolon \notin Range(t)
      BY Zenon DEF IsOpinion, Semicolon
    <2>2. ASSUME NEW t \in Text, Semicolon \notin Range(t)
          PROVE  IsPlain(t)
      <3>1. \A p \in 1 .. Len(t) : t[p] \in Range(t)
        BY TextIs DEF Range
      <3> QED BY <2>2, <3>1 DEF IsPlain, Lacks
    <2> QED BY <2>1, <2>2
  <1>2. PICK date, valid, serial, certainty, who, signature :
           /\ date = o.date /\ valid = o.valid /\ serial = o.serial /\ certainty = o.certainty
           /\ who = o.signer /\ signature = o.signature
    OBVIOUS
  <1>3. /\ o = [date |-> date, valid |-> valid, serial |-> serial, certainty |-> certainty,
                signer |-> who, signature |-> signature]
        /\ who \in Keys
        /\ \A x \in {date, valid, serial, certainty} : IsWrittenNumber(x)
    BY <1>2, Zenon DEF IsOpinion
  <1>4. IsPlain(who) /\ IsPlain(signature)
    BY <1>1, <1>2
  <1>5. PICK key : key = KeyText(who)
    OBVIOUS
  <1>6. IsPlain(key) /\ IsKey(key) /\ Tail(key) = who
    BY <1>3, <1>4, <1>5, KeyPlain
  <1>7. \A x \in {date, valid, serial, certainty} : IsPlain(x) /\ x \in DOMAIN Numbers /\ Numbers[x] = x
    BY <1>3, NumberReads, NumberPlain
  <1>8. PICK texts : texts = <<date, valid, serial, certainty, <<>>, key, signature>>
    OBVIOUS
  <1>9. OpinionText(o) = Joined(texts, Semicolon)
    BY <1>2, <1>5, <1>8, Zenon DEF OpinionText, KeyText, Semicolon
  <1>10. IsPlain(<<>>)
    <2>1. <<>> \in Seq(Words) /\ Len(<<>>) = 0 /\ \A p : p \notin 1 .. 0
      OBVIOUS
    <2> QED BY <2>1 DEF IsPlain, Text, Words, Lacks
  <1>11. /\ Len(texts) = 7 /\ texts[1] = date /\ texts[2] = valid /\ texts[3] = serial
         /\ texts[4] = certainty /\ texts[5] = <<>> /\ texts[6] = key /\ texts[7] = signature
         /\ DOMAIN texts = 1 .. 7
    BY <1>8
  <1>12. \A m \in 1 .. 7 : IsPlain(texts[m])
    <2>1. \A m \in 1 .. 7 : m \in {1, 2, 3, 4, 5, 6, 7}
      OBVIOUS
    <2> QED BY <1>4, <1>6, <1>7, <1>10, <1>11, <2>1
  <1>13. texts \in Seq(Text)
    <2>1. date \in Text /\ valid \in Text /\ serial \in Text /\ certainty \in Text /\ <<>> \in Text
          /\ key \in Text /\ signature \in Text
      BY <1>4, <1>6, <1>7, <1>10 DEF IsPlain
    <2> QED BY <1>8, <2>1
  <1>14. Split(Joined(texts, Semicolon), Semicolon) = texts
    <2>1. Len(texts) # 0 /\ Semicolon \in Words
      BY <1>11, SemicolonIs
    <2>2. \A m \in 1 .. Len(texts) : Lacks(texts[m], Semicolon)
      BY <1>11, <1>12 DEF IsPlain
    <2> QED BY <1>13, <2>1, <2>2, SplitJoined
  <1>15. PICK parts : parts = Split(OpinionText(o), Semicolon)
    OBVIOUS
  <1>16. parts = texts
    BY <1>9, <1>14, <1>15
  <1>17. \A k \in 1 .. 4 : parts[k] \in DOMAIN Numbers
    <2>1. \A k \in 1 .. 4 : k \in {1, 2, 3, 4}
      OBVIOUS
    <2> QED BY <1>7, <1>11, <1>16, <2>1
  <1>18. Len(parts) = 7 /\ IsKey(parts[6])
    BY <1>6, <1>11, <1>16
  <1>19. ReadOpinion(OpinionText(o))
           = [date |-> Numbers[parts[1]], valid |-> Numbers[parts[2]],
              serial |-> Numbers[parts[3]], certainty |-> Numbers[parts[4]],
              signer |-> Tail(parts[6]), signature |-> parts[7]]
    <2>1. parts = Split(OpinionText(o), ";")
      BY <1>15, Zenon DEF Semicolon
    <2> QED BY <1>17, <1>18, <2>1, Zenon DEF ReadOpinion
  <1>20. Numbers[parts[1]] = date /\ Numbers[parts[2]] = valid /\ Numbers[parts[3]] = serial
         /\ Numbers[parts[4]] = certainty /\ Tail(parts[6]) = who /\ parts[7] = signature
    BY <1>6, <1>7, <1>11, <1>16
  <1> QED BY <1>3, <1>19, <1>20

-----------------------------------------------------------------------------
(* The life of a line *)

LEMMA RecordsApart ==
  /\ Unreadable # None
  /\ \A a, b : [kind |-> a, text |-> b] # Unreadable
  /\ \A a, b : [name |-> a, entities |-> b] \notin {Unreadable, Panic, None}
  /\ \A a, b : [statement |-> a, opinion |-> b] \notin {Unreadable, None}
  /\ \A a, b, c, d, e, f : [date |-> a, valid |-> b, serial |-> c, certainty |-> d, signer |-> e, signature |-> f]
                              \notin {Unreadable, Panic}
  <1>1. /\ DOMAIN Unreadable = {"text"} /\ DOMAIN None = {"text"}
        /\ DOMAIN Panic = {"next", "kind", "text"}
    BY PanicIs DEF Unreadable, None
  <1>2. Unreadable # None
    BY DEF Unreadable, None
  <1>3. ASSUME NEW a, NEW b
        PROVE  [kind |-> a, text |-> b] # Unreadable
    <2>1. "kind" \in DOMAIN [kind |-> a, text |-> b]
      OBVIOUS
    <2> QED BY <1>1, <2>1
  <1>4. ASSUME NEW a, NEW b
        PROVE  [name |-> a, entities |-> b] \notin {Unreadable, Panic, None}
    <2>1. "name" \in DOMAIN [name |-> a, entities |-> b]
      OBVIOUS
    <2> QED BY <1>1, <2>1
  <1>5. ASSUME NEW a, NEW b
        PROVE  [statement |-> a, opinion |-> b] \notin {Unreadable, None}
    <2>1. "opinion" \in DOMAIN [statement |-> a, opinion |-> b]
      OBVIOUS
    <2> QED BY <1>1, <2>1
  <1>6. ASSUME NEW a, NEW b, NEW c, NEW d, NEW e, NEW f
        PROVE  [date |-> a, valid |-> b, serial |-> c, certainty |-> d, signer |-> e, signature |-> f]
                  \notin {Unreadable, Panic}
    <2>1. "date" \in DOMAIN [date |-> a, valid |-> b, serial |-> c, certainty |-> d, signer |-> e, signature |-> f]
      OBVIOUS
    <2> QED BY <1>1, <2>1
  <1> QED BY <1>2, <1>3, <1>4, <1>5, <1>6

\* The text of an entity, alone, is read as this entity, or it is that of an IPv6
\* range that is not read at all.
LEMMA EntityBack ==
  ASSUME NEW e, IsWritten(e), NEW x, x = EntityText(e)
  PROVE  /\ ReadEntity(x) = IF Readable(e) THEN e ELSE Unreadable
         /\ ~Readable(e) => e.kind = "IPv6"
         /\ e # Unreadable
  <1>1. PICK n \in Nat \ {0} : n = Len(x)
    BY EntityTextIs DEF IsEntityText
  <1>2. PICK r : r = entity(x, 1)
    OBVIOUS
  <1>3. Readable(e) <=> r.next = n + 1
    BY <1>1, <1>2 DEF Readable
  <1>4. PICK kind, w : kind = e.kind /\ w = e.text
    OBVIOUS
  <1>5. \/ r = Reading(n + 1, kind, w)
        \/ kind = "IPv6" /\ r = NoEntity
        \/ kind = "IPv6" /\ r # Panic /\ r.next \in 1 .. n
    BY <1>1, <1>2, <1>4, ReadAlone DEF Alone
  <1>6. NoEntity.next = 0 /\ Reading(n + 1, kind, w).next = n + 1
    BY ReadingIs DEF NoEntity
  <1>7. e = [kind |-> kind, text |-> w]
    BY <1>4 DEF IsWritten
  <1>8. ReadEntity(x) = IF r.next = n + 1 THEN EntityOf(r) ELSE Unreadable
    BY <1>1, <1>2 DEF ReadEntity
  <1>9. r.next = n + 1 => r = Reading(n + 1, kind, w)
    <2>1. n + 1 # 0 /\ n + 1 \notin 1 .. n
      BY <1>1
    <2> QED BY <1>5, <1>6, <2>1
  <1>10. r.next = n + 1 => EntityOf(r) = e
    BY <1>7, <1>9, ReadingIs
  <1>11. r.next # n + 1 => kind = "IPv6"
    BY <1>5, <1>6
  <1>12. e # Unreadable
    BY <1>7, RecordsApart
  <1> QED BY <1>3, <1>4, <1>8, <1>10, <1>11, <1>12

\* What the row keeps of a statement.
Kept(s) == [s EXCEPT !.entities = SubSeq(@, 1, Min({4, Len(@)}))]
Columns(s) == SubSeq(Texts(s), 1, Min({4, Len(s.entities)}))

\* What look-ups make of columns.
Looked(s, columns) ==
    LET entities == [i \in DOMAIN columns |-> ReadEntity(columns[i])]
    IN  IF \E i \in DOMAIN columns : entities[i] = Unreadable THEN Unreadable
        ELSE [name |-> s.name, entities |-> entities]

LEMMA LookedIs ==
  ASSUME NEW s, IsStatement(s), NEW columns, columns = Columns(s)
  PROVE  \/ Looked(s, columns) = Kept(s)
         \/ Looked(s, columns) = Unreadable /\ ~AllReadable(s)
  <1>1. PICK es, texts, name : es = s.entities /\ texts = Texts(s) /\ name = s.name
    OBVIOUS
  <1>2. AreTexts(texts, es) /\ s = [name |-> name, entities |-> es] /\ es \in Seq(Range(es))
    BY <1>1, TextsIs DEF IsStatement
  <1>3. PICK n \in Nat \ {0} : n = Len(es)
    BY <1>2 DEF AreTexts
  <1>4. texts \in Seq(Text) /\ Len(texts) = n
    BY <1>2, <1>3 DEF AreTexts
  <1>5. PICK m \in 1 .. n : m = Min({4, n})
    <2>1. PICK S : S = {4, n}
      OBVIOUS
    <2>2. S \in SUBSET Nat /\ S # {}
      BY <2>1
    <2>3. IsLeast(Min(S), S)
      BY <2>2, MinIs
    <2>4. Min(S) \in S /\ Min(S) <= n
      BY <2>1, <2>3 DEF IsLeast
    <2>5. Min(S) \in 1 .. n
      BY <2>1, <2>4
    <2> QED BY <2>1, <2>5
  <1>6. 0 + 1 = 1 /\ 0 + m = m /\ 0 \in Nat /\ m \in Nat /\ 0 + m <= n
    BY <1>5
  <1>7. PICK kept : kept = SubSeq(es, 1, m)
    OBVIOUS
  <1>8. kept \in Seq(Range(es)) /\ Len(kept) = m /\ \A i \in 1 .. m : kept[i] = es[i]
    <2>1. IsPiece(Range(es), SubSeq(es, 0 + 1, 0 + m), es, 0, m)
      BY <1>2, <1>3, <1>6, Piece
    <2>2. IsPiece(Range(es), kept, es, 0, m)
      BY <1>6, <1>7, <2>1
    <2>3. \A i \in 1 .. m : 0 + i = i
      OBVIOUS
    <2> QED BY <2>2, <2>3 DEF IsPiece
  <1>9. DOMAIN columns = 1 .. m /\ \A i \in 1 .. m : columns[i] = texts[i]
    <2>1. columns = SubSeq(texts, 1, m)
      BY <1>1, <1>3, <1>5 DEF Columns
    <2>2. IsPiece(Text, SubSeq(texts, 0 + 1, 0 + m), texts, 0, m)
      BY <1>4, <1>6, Piece
    <2>3. IsPiece(Text, columns, texts, 0, m)
      BY <1>6, <2>1, <2>2
    <2>4. columns \in Seq(Text) /\ Len(columns) = m
      BY <2>3 DEF IsPiece
    <2>5. \A i \in 1 .. m : 0 + i = i
      OBVIOUS
    <2> QED BY <2>3, <2>4, <2>5 DEF IsPiece
  <1>10. ASSUME NEW i \in 1 .. m
         PROVE  /\ ReadEntity(columns[i]) = IF Readable(es[i]) THEN es[i] ELSE Unreadable
                /\ es[i] # Unreadable
    <2>1. i \in 1 .. n
      BY <1>5
    <2>2. columns[i] = EntityText(es[i])
      BY <1>2, <1>3, <1>9, <2>1 DEF AreTexts
    <2>3. IsWritten(es[i])
      BY <1>1, <1>3, <2>1 DEF IsStatement
    <2>4. PICK e, x : e = es[i] /\ x = columns[i]
      OBVIOUS
    <2>5. IsWritten(e) /\ x = EntityText(e)
      BY <2>2, <2>3, <2>4
    <2>6. ReadEntity(x) = (IF Readable(e) THEN e ELSE Unreadable) /\ e # Unreadable
      BY <2>5, EntityBack
    <2> QED BY <2>4, <2>6
  <1>11. PICK entities : entities = [i \in DOMAIN columns |-> ReadEntity(columns[i])]
    OBVIOUS
  <1>12. \A i \in 1 .. m : entities[i] = IF Readable(es[i]) THEN es[i] ELSE Unreadable
    BY <1>9, <1>10, <1>11
  <1>13. Looked(s, columns) = IF \E i \in 1 .. m : entities[i] = Unreadable THEN Unreadable
                              ELSE [name |-> name, entities |-> entities]
    BY <1>1, <1>9, <1>11 DEF Looked
  <1>14. CASE \E i \in 1 .. m : ~Readable(es[i])
    <2>1. Looked(s, columns) = Unreadable
      BY <1>12, <1>13, <1>14
    <2>2. ~AllReadable(s)
      <3>1. \A i \in 1 .. m : i \in 1 .. n
        BY <1>5
      <3> QED BY <1>1, <1>3, <1>14, <3>1 DEF AllReadable
    <2> QED BY <2>1, <2>2
  <1>15. CASE \A i \in 1 .. m : Readable(es[i])
    <2>1. entities = [i \in 1 .. m |-> entities[i]] /\ \A i \in 1 .. m : entities[i] = es[i]
      BY <1>9, <1>11, <1>12, <1>15
    <2>2. kept = [i \in 1 .. m |-> kept[i]]
      BY <1>8
    <2>3. entities = kept
      BY <1>8, <2>1, <2>2
    <2>4. Looked(s, columns) = [name |-> name, entities |-> kept]
      BY <1>10, <1>12, <1>13, <1>15, <2>3
    <2>5. Kept(s) = [s EXCEPT !.entities = kept]
      BY <1>1, <1>3, <1>5, <1>7 DEF Kept
    <2>6. [s EXCEPT !.entities = kept] = [name |-> name, entities |-> kept]
      BY <1>2
    <2> QED BY <2>4, <2>5, <2>6
  <1> QED BY <1>14, <1>15

\* What was stored is a statement whose entities are written as entities are; the
\* row has the texts of the first of them; and what was read again, from the row
\* or by a peer, is what was written, or nothing where a text cannot be read.
FormsInv ==
    /\ line \in Lines
    /\ fate # "stored" => stored = None /\ back = None /\ heard = None
    /\ fate = "stored" =>
          /\ IsStatement(stored) /\ row = Columns(stored)
          /\ \/ back \in {None, Kept(stored)}
             \/ back = Unreadable /\ ~AllReadable(stored)
          /\ \/ heard \in {None, [statement |-> stored, opinion |-> Opinion]}
             \/ heard = Unreadable /\ ~AllReadable(stored)

LEMMA FormsInit ==
  ASSUME Init
  PROVE  FormsInv
  BY DEF Init, FormsInv

LEMMA StoreKeeps ==
  ASSUME FormsInv, Store
  PROVE  FormsInv'
  <1>1. fate = "typed" /\ fate' = "stored" /\ line' = line /\ back' = back /\ heard' = heard
    BY DEF Store
  <1>2. line \in Lines /\ back = None /\ heard = None
    BY <1>1 DEF FormsInv
  <1>3. PICK said \in {ReadStatement(line)} \ {Unreadable, Panic} :
           \E s \in {said, hash_emails(said)} :
              /\ stored' = s
              /\ row' = SubSeq(Texts(s), 1, Min({4, Len(s.entities)}))
    BY DEF Store
  <1>4. IsStatement(said)
    <2>1. line \in Text /\ Hashable(line)
      BY <1>2, TextAssumption
    <2> QED BY <1>3, <2>1, ReadIsStatement
  <1>5. PICK s \in {said, hash_emails(said)} : stored' = s /\ row' = Columns(s)
    BY <1>3 DEF Columns
  <1>6. IsStatement(s)
    BY <1>4, <1>5, HashedIsStatement
  <1>7. IsStatement(stored') /\ row' = Columns(stored')
    BY <1>5, <1>6
  <1>8. IsStatement(stored)' /\ row' = Columns(stored)'
    BY <1>7 DEF IsStatement, Columns, Texts, EntityText, IsWritten, IsNumbered, IsSigner
  <1> QED BY <1>1, <1>2, <1>8 DEF FormsInv

\* What the invariant says of a stored statement it says after a step that keeps it.
LEMMA StaysStored ==
  ASSUME FormsInv, fate = "stored", stored' = stored, row' = row
  PROVE  /\ IsStatement(stored)' /\ row' = Columns(stored)'
         /\ Kept(stored)' = Kept(stored) /\ AllReadable(stored)' = AllReadable(stored)
  <1>1. IsStatement(stored) /\ row = Columns(stored)
    BY DEF FormsInv
  <1>2. IsStatement(stored') /\ row' = Columns(stored')
    BY <1>1
  <1>3. IsStatement(stored)' /\ row' = Columns(stored)'
    BY <1>2 DEF IsStatement, Columns, Texts, EntityText, IsWritten, IsNumbered, IsSigner
  <1>4. Kept(stored') = Kept(stored) /\ AllReadable(stored') = AllReadable(stored)
    OBVIOUS
  <1>5. Kept(stored)' = Kept(stored)
    BY <1>4, Zenon DEF Kept
  <1>6. AllReadable(stored)' = AllReadable(stored)
    BY <1>4, Zenon DEF AllReadable, Readable, EntityText
  <1> QED BY <1>3, <1>5, <1>6

LEMMA GetKeeps ==
  ASSUME FormsInv, Get
  PROVE  FormsInv'
  <1>1. /\ fate = "stored" /\ fate' = fate /\ line' = line /\ stored' = stored /\ row' = row /\ heard' = heard
        /\ back' = Looked(stored, row)
    BY DEF Get, Looked
  <1>2. IsStatement(stored) /\ row = Columns(stored)
    BY <1>1 DEF FormsInv
  <1>3. PICK s : s = stored
    OBVIOUS
  <1>4. \/ Looked(s, row) = Kept(s)
        \/ Looked(s, row) = Unreadable /\ ~AllReadable(s)
    BY <1>2, <1>3, LookedIs
  <1>5. \/ back' = Kept(stored)
        \/ back' = Unreadable /\ ~AllReadable(stored)
    BY <1>1, <1>3, <1>4
  <1>6. /\ IsStatement(stored)' /\ row' = Columns(stored)' /\ Kept(stored)' = Kept(stored)
        /\ AllReadable(stored)' = AllReadable(stored)
    BY <1>1, StaysStored
  <1> QED BY <1>1, <1>5, <1>6 DEF FormsInv

LEMMA HearKeeps ==
  ASSUME FormsInv, Hear
  PROVE  FormsInv'
  <1>1. /\ fate = "stored" /\ fate' = fate /\ line' = line /\ stored' = stored /\ row' = row /\ back' = back
    BY DEF Hear
  <1>2. IsStatement(stored) /\ row = Columns(stored)
    BY <1>1 DEF FormsInv
  <1>3. PICK statement : statement = ReadStatement(StatementText(stored))
    OBVIOUS
  <1>4. PICK opinion : opinion = ReadOpinion(OpinionText(Opinion))
    OBVIOUS
  <1>5. heard' = IF {statement, opinion} \cap {Unreadable, Panic} # {} THEN Unreadable
                 ELSE [statement |-> statement, opinion |-> opinion]
    BY <1>3, <1>4 DEF Hear
  <1>6. statement = IF AllReadable(stored) THEN stored ELSE Unreadable
    BY <1>2, <1>3, ReadTexts
  <1>7. opinion = Opinion /\ Opinion \notin {Unreadable, Panic}
    <2>1. IsOpinion(Opinion)
      BY TextAssumption
    <2>2. Opinion = [date |-> Opinion.date, valid |-> Opinion.valid, serial |-> Opinion.serial,
                     certainty |-> Opinion.certainty, signer |-> Opinion.signer, signature |-> Opinion.signature]
      BY <2>1, Zenon DEF IsOpinion
    <2> QED BY <1>4, <2>1, <2>2, OpinionRead, RecordsApart
  <1>8. stored \notin {Unreadable, Panic}
    <2>1. stored = [name |-> stored.name, entities |-> stored.entities]
      BY <1>2 DEF IsStatement
    <2> QED BY <2>1, RecordsApart
  <1>9. \/ heard' = [statement |-> stored, opinion |-> Opinion]
        \/ heard' = Unreadable /\ ~AllReadable(stored)
    <2>1. CASE AllReadable(stored)
      <3>1. {statement, opinion} \cap {Unreadable, Panic} = {}
        BY <1>6, <1>7, <1>8, <2>1
      <3> QED BY <1>5, <1>6, <1>7, <2>1, <3>1
    <2>2. CASE ~AllReadable(stored)
      BY <1>5, <1>6, <2>2
    <2> QED BY <2>1, <2>2
  <1>10. /\ IsStatement(stored)' /\ row' = Columns(stored)' /\ Kept(stored)' = Kept(stored)
         /\ AllReadable(stored)' = AllReadable(stored)
    BY <1>1, StaysStored
  <1> QED BY <1>1, <1>9, <1>10 DEF FormsInv

\* What is not stored is as it was.
LEMMA ElseKeeps ==
  ASSUME FormsInv, Ask \/ Refuse \/ UNCHANGED vars
  PROVE  FormsInv'
  <1>1. CASE Ask \/ Refuse
    <2>1. fate = "typed" /\ fate' \in {"dead", "answered", "refused"}
          /\ line' = line /\ stored' = stored /\ back' = back /\ heard' = heard
      BY <1>1 DEF Ask, Refuse
    <2> QED BY <2>1 DEF FormsInv
  <1>2. CASE UNCHANGED vars
    <2>1. fate' = fate /\ line' = line /\ stored' = stored /\ row' = row /\ back' = back /\ heard' = heard
      BY <1>2 DEF vars
    <2>2. CASE fate = "stored"
      <3>1. /\ IsStatement(stored)' /\ row' = Columns(stored)' /\ Kept(stored)' = Kept(stored)
            /\ AllReadable(stored)' = AllReadable(stored)
        BY <2>1, <2>2, StaysStored
      <3> QED BY <2>1, <2>2, <3>1 DEF FormsInv
    <2>3. CASE fate # "stored"
      BY <2>1, <2>3 DEF FormsInv
    <2> QED BY <2>2, <2>3
  <1> QED BY <1>1, <1>2

\* The invariant behind the properties of this module: what a line was read as is
\* kept, and read again, as the same statement.
THEOREM FormsInvariant ==
  Spec => []FormsInv
  <1>1. Init => FormsInv
    BY FormsInit
  <1>2. FormsInv /\ [Next]_vars => FormsInv'
    BY StoreKeeps, GetKeeps, HearKeeps, ElseKeeps DEF Next
  <1> QED BY <1>1, <1>2, PTL DEF Spec

\* retrieve (repository.rs) and a peer's from_str read, of every line that was
\* stored, what was stored and said, or nothing.
THEOREM ReadsWhatIsMeant ==
  Spec => []ReadAsMeant
  <1>1. FormsInv => ReadAsMeant
    <2> SUFFICES ASSUME FormsInv
                 PROVE  ReadAsMeant
      OBVIOUS
    <2>1. None \notin {Unreadable}
      BY RecordsApart
    <2>2. ReadBackAsStored
      BY DEF FormsInv, ReadBackAsStored, Kept
    <2>3. HeardAsSaid
      BY DEF FormsInv, HeardAsSaid
    <2> QED BY <2>2, <2>3 DEF ReadAsMeant
  <1> QED BY <1>1, FormsInvariant, PTL

\* entity (parser.rs): the order of its alternatives makes no text unreadable
\* that Display of Entity writes, but that of an IPv6 range.
THEOREM OnlyIPv6IsUnreadable ==
  Spec => []OthersReadable
  <1>1. FormsInv => OthersReadable
    <2> SUFFICES ASSUME FormsInv, Unreadable \in {back, heard}
                 PROVE  \E i \in DOMAIN stored.entities : stored.entities[i].kind = "IPv6"
      BY DEF OthersReadable
    <2>1. fate = "stored"
      BY RecordsApart DEF FormsInv
    <2>2. IsStatement(stored)
      BY <2>1 DEF FormsInv
    <2>3. stored = [name |-> stored.name, entities |-> stored.entities]
          /\ stored.entities \in Seq(Range(stored.entities))
      BY <2>2 DEF IsStatement
    <2>4. Kept(stored) # Unreadable
      <3>1. PICK name, es, kept : /\ name = stored.name /\ es = stored.entities
                                  /\ kept = SubSeq(es, 1, Min({4, Len(es)}))
        OBVIOUS
      <3>2. Kept(stored) = [stored EXCEPT !.entities = kept]
        BY <3>1 DEF Kept
      <3>3. stored = [name |-> name, entities |-> es]
        BY <2>3, <3>1
      <3>4. Kept(stored) = [name |-> name, entities |-> kept]
        BY <3>2, <3>3
      <3> QED BY <3>4, RecordsApart
    <2>5. ~AllReadable(stored)
      BY <2>1, <2>4, RecordsApart DEF FormsInv
    <2>6. PICK i \in 1 .. Len(stored.entities) : ~Readable(stored.entities[i])
      BY <2>5 DEF AllReadable
    <2>7. PICK e, x : e = stored.entities[i] /\ x = EntityText(e)
      OBVIOUS
    <2>8. IsWritten(e) /\ ~Readable(e)
      BY <2>2, <2>6, <2>7 DEF IsStatement
    <2>9. e.kind = "IPv6"
      BY <2>7, <2>8, EntityBack
    <2> QED BY <2>3, <2>6, <2>7, <2>9
  <1> QED BY <1>1, FormsInvariant, PTL

\* standard_statement and spaced_statement (parser.rs): the same statement is
\* read from both forms of the text, or none from either.
THEOREM BothFormsAgree ==
  Spec => []FormsAgree
  <1>1. FormsInv => FormsAgree
    <2> SUFFICES ASSUME FormsInv, stored # None
                 PROVE  ReadStatement(SpacedText(stored)) = ReadStatement(StatementText(stored))
      BY DEF FormsAgree
    <2>1. IsStatement(stored)
      BY DEF FormsInv
    <2> QED BY <2>1, ReadTexts
  <1> QED BY <1>1, FormsInvariant, PTL

=============================================================================
