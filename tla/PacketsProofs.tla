-------------------------- MODULE PacketsProofs --------------------------
(***************************************************************************)
(* What Packets claims, for all commands and reasons that can be sent.     *)
(***************************************************************************)
EXTENDS Packets, FiniteSetTheorems, SequenceTheorems, WellFoundedInduction, TLAPS

-----------------------------------------------------------------------------
(* Induction and recursion, as facts about sets and functions *)

LEMMA LeastNatural ==
  ASSUME NEW T \in SUBSET Nat, T # {}
  PROVE  \E n \in T : \A m \in T : n <= m
  <1> DEFINE R == {ss \in Nat \X Nat : ss[1] < ss[2]}
  <1>1. IsWellFoundedOn(R, Nat)
    BY NatLessThanWellFounded DEF OpToRel
  <1> HIDE DEF R
  <1>2. PICK n \in T : \A m \in T : <<m, n>> \notin R
    BY <1>1, WFMin
  <1>3. \A m \in T : ~(m < n)
    BY <1>2 DEF R
  <1> QED BY <1>3

\* What is true of a number, and of each next one up to another, is true of all
\* in between.
LEMMA Ascending ==
  ASSUME NEW a \in Nat, NEW b \in Nat, NEW S,
         a \in S, \A n \in a .. b - 1 : n \in S => n + 1 \in S
  PROVE  \A n \in a .. b : n \in S
  <1> SUFFICES ASSUME NEW k \in a .. b, k \notin S
               PROVE  FALSE
    OBVIOUS
  <1> DEFINE T == {n \in Nat : n \in a .. b /\ n \notin S}
  <1>1. T \in SUBSET Nat /\ T # {}
    <2>1. k \in T
      OBVIOUS
    <2> QED BY <2>1
  <1>2. PICK n \in T : \A m \in T : n <= m
    <2> HIDE DEF T
    <2> QED BY <1>1, LeastNatural
  <1>3. n \in Nat /\ n \in a .. b /\ n \notin S /\ n # a
    BY <1>2
  <1>4. n - 1 \in a .. b - 1 /\ n - 1 \in Nat /\ n - 1 \in a .. b /\ ~(n <= n - 1) /\ (n - 1) + 1 = n
    BY <1>3
  <1>5. n - 1 \in S
    BY <1>2, <1>4
  <1> QED BY <1>3, <1>4, <1>5

\* A function may be defined step by step.
IsRecursion(f, S, a, b, first, Turn) ==
    /\ f \in [a .. b -> S]
    /\ f[a] = first
    /\ \A n \in a + 1 .. b : f[n] = Turn[n][f[n - 1]]

LEMMA RecursionExists ==
  ASSUME NEW S, NEW a \in Nat, NEW b \in Nat, a <= b, NEW first \in S,
         NEW Turn \in [a + 1 .. b -> [S -> S]]
  PROVE  \E f : IsRecursion(f, S, a, b, first, Turn)
  <1> DEFINE T == {m \in Nat : m \in a .. b => \E f : IsRecursion(f, S, a, m, first, Turn)}
  <1>1. a \in T
    <2> DEFINE f == [n \in a .. a |-> first]
    <2>1. f \in [a .. a -> S] /\ f[a] = first
      OBVIOUS
    <2>2. IsRecursion(f, S, a, a, first, Turn)
      BY <2>1 DEF IsRecursion
    <2> QED BY <2>2
  <1>2. ASSUME NEW m \in a .. b - 1, m \in T
        PROVE  m + 1 \in T
    <2>1. m \in Nat /\ m \in a .. b /\ m + 1 \in a + 1 .. b /\ m + 1 \in Nat /\ m + 1 # a
      OBVIOUS
    <2>2. PICK f : IsRecursion(f, S, a, m, first, Turn)
      BY <1>2, <2>1
    <2>3. /\ f \in [a .. m -> S] /\ f[a] = first
          /\ \A n \in a + 1 .. m : f[n] = Turn[n][f[n - 1]]
      BY <2>2 DEF IsRecursion
    <2> DEFINE h == [n \in a .. m + 1 |-> IF n = m + 1 THEN Turn[m + 1][f[m]] ELSE f[n]]
    <2>4. Turn[m + 1][f[m]] \in S
      <3>1. f[m] \in S
        BY <2>1, <2>3
      <3>2. Turn[m + 1] \in [S -> S]
        BY <2>1
      <3> QED BY <3>1, <3>2
    <2>5. h \in [a .. m + 1 -> S]
      <3>1. ASSUME NEW n \in a .. m + 1
            PROVE  h[n] \in S
        <4>1. CASE n = m + 1
          BY <2>4, <4>1
        <4>2. CASE n # m + 1
          <5>1. n \in a .. m
            BY <2>1, <4>2
          <5> QED BY <2>3, <4>2, <5>1
        <4> QED BY <4>1, <4>2
      <3> QED BY <3>1
    <2>6. h[a] = first
      BY <2>1, <2>3
    <2>7. ASSUME NEW n \in a + 1 .. m + 1
          PROVE  h[n] = Turn[n][h[n - 1]]
      <3>1. n - 1 \in a .. m + 1 /\ n - 1 # m + 1 /\ n \in a .. m + 1
        BY <2>1
      <3>2. h[n - 1] = f[n - 1]
        BY <3>1
      <3>3. CASE n = m + 1
        <4>1. n - 1 = m
          BY <2>1, <3>3
        <4> QED BY <3>1, <3>2, <3>3, <4>1
      <3>4. CASE n # m + 1
        <4>1. n \in a + 1 .. m
          BY <2>1, <3>4
        <4> QED BY <2>3, <3>1, <3>2, <3>4, <4>1
      <3> QED BY <3>3, <3>4
    <2>8. IsRecursion(h, S, a, m + 1, first, Turn)
      <3> HIDE DEF h
      <3> QED BY <2>5, <2>6, <2>7 DEF IsRecursion
    <2> QED BY <2>1, <2>8
  <1>3. \A m \in a .. b : m \in T
    <2> HIDE DEF T
    <2> QED BY <1>1, <1>2, Ascending
  <1>4. b \in a .. b /\ b \in T
    <2> HIDE DEF T
    <2> QED BY <1>3
  <1> QED BY <1>4

-----------------------------------------------------------------------------
(* Sequences put together *)

IsJoin(S, c, a, b) ==
    /\ c \in Seq(S) /\ Len(c) = Len(a) + Len(b)
    /\ Len(a) \in Nat /\ Len(b) \in Nat /\ Len(c) \in Nat
    /\ \A p \in 1 .. Len(a) : c[p] = a[p]
    /\ \A p \in 1 .. Len(b) : c[Len(a) + p] = b[p]

LEMMA Joined ==
  ASSUME NEW S, NEW a \in Seq(S), NEW b \in Seq(S), NEW c, c = a \o b
  PROVE  IsJoin(S, c, a, b)
  BY DEF IsJoin

Regroups(a, b, c) == (a \o b) \o c = a \o (b \o c)

LEMMA Regrouped ==
  ASSUME NEW S, NEW a \in Seq(S), NEW b \in Seq(S), NEW c \in Seq(S)
  PROVE  Regroups(a, b, c)
  BY ConcatAssociative DEF Regroups

\* What FlattenSeq makes of the first members of s, one after the other.
Parts(f, s) ==
    /\ f[0] = <<>>
    /\ \A i \in 1 .. Len(s) : f[i] = f[i - 1] \o s[i]

LEMMA PartsTyped ==
  ASSUME NEW S, NEW s \in Seq(Seq(S)), NEW f, Parts(f, s)
  PROVE  \A i \in 0 .. Len(s) : f[i] \in Seq(S)
  <1> DEFINE T == {i \in Nat : f[i] \in Seq(S)}
  <1>0. Len(s) \in Nat
    OBVIOUS
  <1>1. 0 \in T
    <2>1. f[0] = <<>> /\ <<>> \in Seq(S)
      BY DEF Parts
    <2> QED BY <2>1
  <1>2. ASSUME NEW i \in 0 .. Len(s) - 1, i \in T
        PROVE  i + 1 \in T
    <2>1. i \in Nat /\ i + 1 \in 1 .. Len(s) /\ (i + 1) - 1 = i /\ i + 1 \in Nat
      OBVIOUS
    <2>2. f[i + 1] = f[i] \o s[i + 1]
      BY <2>1 DEF Parts
    <2>3. s[i + 1] \in Seq(S) /\ f[i] \in Seq(S)
      BY <1>2, <2>1
    <2>4. f[i] \o s[i + 1] \in Seq(S)
      BY <2>3
    <2>5. f[i + 1] \in Seq(S)
      BY <2>2, <2>4
    <2> QED BY <2>1, <2>5
  <1>3. \A i \in 0 .. Len(s) : i \in T
    <2> HIDE DEF T
    <2> QED BY <1>0, <1>1, <1>2, Ascending
  <1> QED BY <1>3

LEMMA PartsUnique ==
  ASSUME NEW S, NEW s \in Seq(Seq(S)), NEW f, Parts(f, s), NEW g, Parts(g, s)
  PROVE  \A i \in 0 .. Len(s) : f[i] = g[i]
  <1> DEFINE T == {i \in Nat : f[i] = g[i]}
  <1>0. Len(s) \in Nat
    OBVIOUS
  <1>1. 0 \in T
    BY DEF Parts
  <1>2. ASSUME NEW i \in 0 .. Len(s) - 1, i \in T
        PROVE  i + 1 \in T
    <2>1. i + 1 \in 1 .. Len(s) /\ (i + 1) - 1 = i /\ i + 1 \in Nat
      OBVIOUS
    <2>2. f[i + 1] = f[i] \o s[i + 1] /\ g[i + 1] = g[i] \o s[i + 1]
      BY <2>1 DEF Parts
    <2> QED BY <1>2, <2>1, <2>2
  <1>3. \A i \in 0 .. Len(s) : i \in T
    <2> HIDE DEF T
    <2> QED BY <1>0, <1>1, <1>2, Ascending
  <1> QED BY <1>3

IsFlatten(h, s) == h = [i \in 1 .. Len(s) |-> IF i = 1 THEN s[i] ELSE h[i - 1] \o s[i]]

LEMMA FlattenExists ==
  ASSUME NEW S, NEW s \in Seq(Seq(S)), s # <<>>
  PROVE  \E h : IsFlatten(h, s)
  <1>0. Len(s) \in Nat \ {0} /\ 1 \in Nat /\ 1 <= Len(s) /\ 1 + 1 = 2
    OBVIOUS
  <1> DEFINE Turn == [i \in 2 .. Len(s) |-> [t \in Seq(S) |-> t \o s[i]]]
  <1>1. Turn \in [2 .. Len(s) -> [Seq(S) -> Seq(S)]]
    <2>1. ASSUME NEW i \in 2 .. Len(s), NEW t \in Seq(S)
          PROVE  t \o s[i] \in Seq(S)
      <3>1. s[i] \in Seq(S)
        BY <1>0
      <3> QED BY <3>1
    <2> QED BY <2>1
  <1>2. s[1] \in Seq(S)
    BY <1>0
  <1>3. \E h : IsRecursion(h, Seq(S), 1, Len(s), s[1], Turn)
    <2> HIDE DEF Turn
    <2> QED BY <1>0, <1>1, <1>2, RecursionExists
  <1>4. PICK h : IsRecursion(h, Seq(S), 1, Len(s), s[1], Turn)
    BY <1>3
  <1>5. /\ h \in [1 .. Len(s) -> Seq(S)] /\ h[1] = s[1]
        /\ \A i \in 2 .. Len(s) : h[i] = Turn[i][h[i - 1]]
    <2> HIDE DEF Turn
    <2> QED BY <1>0, <1>4 DEF IsRecursion
  <1>6. ASSUME NEW i \in 1 .. Len(s)
        PROVE  h[i] = IF i = 1 THEN s[i] ELSE h[i - 1] \o s[i]
    <2>1. CASE i = 1
      BY <1>5, <2>1
    <2>2. CASE i # 1
      <3>1. i \in 2 .. Len(s) /\ i - 1 \in 1 .. Len(s)
        BY <1>0, <2>2
      <3>2. h[i] = Turn[i][h[i - 1]] /\ h[i - 1] \in Seq(S)
        <4> HIDE DEF Turn
        <4> QED BY <1>5, <3>1
      <3> QED BY <2>2, <3>1, <3>2
    <2> QED BY <2>1, <2>2
  <1>7. h = [i \in 1 .. Len(s) |-> IF i = 1 THEN s[i] ELSE h[i - 1] \o s[i]]
    <2>1. h = [i \in 1 .. Len(s) |-> h[i]]
      BY <1>5
    <2> QED BY <1>6, <2>1
  <1> QED BY <1>7 DEF IsFlatten

LEMMA PartsOf ==
  ASSUME NEW S, NEW s \in Seq(Seq(S))
  PROVE  \E f : Parts(f, s) /\ FlattenSeq(s) = f[Len(s)]
  <1>1. CASE s = <<>>
    <2> DEFINE f == [i \in 0 .. 0 |-> <<>>]
    <2>1. Parts(f, s) /\ f[0] = <<>> /\ Len(s) = 0
      BY <1>1 DEF Parts
    <2>2. FlattenSeq(s) = <<>>
      BY <1>1, <2>1 DEF FlattenSeq
    <2> QED BY <2>1, <2>2
  <1>2. CASE s # <<>>
    <2>0. Len(s) \in Nat \ {0} /\ Len(s) # 0 /\ 1 \in 1 .. Len(s) /\ Len(s) \in 0 .. Len(s)
      BY <1>2
    <2>1. PICK h : h = CHOOSE g : IsFlatten(g, s)
      OBVIOUS
    <2>2. IsFlatten(h, s)
      BY <1>2, <2>1, FlattenExists
    <2>3. FlattenSeq(s) = h[Len(s)]
      BY <2>0, <2>1 DEF FlattenSeq, IsFlatten
    <2>4. \A i \in 1 .. Len(s) : h[i] = IF i = 1 THEN s[i] ELSE h[i - 1] \o s[i]
      BY <2>2 DEF IsFlatten
    <2> DEFINE f == [i \in 0 .. Len(s) |-> IF i = 0 THEN <<>> ELSE h[i]]
    <2>5. ASSUME NEW i \in 1 .. Len(s)
          PROVE  f[i] = f[i - 1] \o s[i]
      <3>1. f[i] = h[i] /\ i - 1 \in 0 .. Len(s)
        OBVIOUS
      <3>2. CASE i = 1
        <4>1. f[i - 1] = <<>> /\ s[i] \in Seq(S) /\ h[i] = s[i]
          BY <2>0, <2>4, <3>2
        <4>2. <<>> \o s[i] = s[i]
          BY <4>1, ConcatEmptySeq
        <4> QED BY <3>1, <4>1, <4>2
      <3>3. CASE i # 1
        <4>1. f[i - 1] = h[i - 1]
          BY <3>1, <3>3
        <4> QED BY <2>4, <3>1, <3>3, <4>1
      <3> QED BY <3>2, <3>3
    <2>6. f[0] = <<>> /\ f[Len(s)] = h[Len(s)]
      BY <2>0
    <2>7. Parts(f, s)
      <3> HIDE DEF f
      <3> QED BY <2>5, <2>6 DEF Parts
    <2> QED BY <2>3, <2>6, <2>7
  <1> QED BY <1>1, <1>2

LEMMA FlattenedParts ==
  ASSUME NEW S, NEW s \in Seq(Seq(S)), NEW f, Parts(f, s)
  PROVE  FlattenSeq(s) = f[Len(s)] /\ FlattenSeq(s) \in Seq(S)
  <1>1. PICK g : Parts(g, s) /\ FlattenSeq(s) = g[Len(s)]
    BY PartsOf
  <1>2. Len(s) \in 0 .. Len(s)
    OBVIOUS
  <1> QED BY <1>1, <1>2, PartsUnique, PartsTyped

LEMMA FlattenNone ==
  FlattenSeq(<<>>) = <<>>
  BY DEF FlattenSeq

LEMMA FlattenAppend ==
  ASSUME NEW S, NEW s \in Seq(Seq(S)), NEW x \in Seq(S)
  PROVE  FlattenSeq(Append(s, x)) = FlattenSeq(s) \o x
  <1>1. PICK f : Parts(f, s) /\ FlattenSeq(s) = f[Len(s)]
    BY PartsOf
  <1>2. PICK t : t = Append(s, x)
    OBVIOUS
  <1>3. /\ t \in Seq(Seq(S)) /\ Len(t) = Len(s) + 1 /\ Len(s) \in Nat
        /\ t[Len(s) + 1] = x /\ \A i \in 1 .. Len(s) : t[i] = s[i]
    BY <1>2
  <1> DEFINE g == [i \in 0 .. Len(t) |-> IF i = Len(t) THEN f[Len(s)] \o x ELSE f[i]]
  <1>4. g[0] = <<>>
    <2>1. g[0] = f[0]
      BY <1>3
    <2> QED BY <1>1, <2>1 DEF Parts
  <1>5. ASSUME NEW i \in 1 .. Len(t)
        PROVE  g[i] = g[i - 1] \o t[i]
    <2>1. i - 1 \in 0 .. Len(t) /\ i - 1 # Len(t) /\ i \in 0 .. Len(t)
      BY <1>3
    <2>2. g[i - 1] = f[i - 1]
      BY <2>1
    <2>3. CASE i = Len(t)
      <3>1. i - 1 = Len(s) /\ t[i] = x
        BY <1>3, <2>3
      <3>2. g[i] = f[Len(s)] \o x
        BY <2>1, <2>3
      <3> QED BY <2>2, <3>1, <3>2
    <2>4. CASE i # Len(t)
      <3>1. i \in 1 .. Len(s) /\ t[i] = s[i]
        BY <1>3, <2>4
      <3>2. g[i] = f[i]
        BY <2>1, <2>4
      <3>3. f[i] = f[i - 1] \o s[i]
        BY <1>1, <3>1 DEF Parts
      <3> QED BY <2>2, <3>1, <3>2, <3>3
    <2> QED BY <2>3, <2>4
  <1>6. Parts(g, t) /\ g[Len(t)] = f[Len(s)] \o x
    <2>1. g[Len(t)] = f[Len(s)] \o x
      BY <1>3
    <2> HIDE DEF g
    <2> QED BY <1>4, <1>5, <2>1 DEF Parts
  <1>7. FlattenSeq(t) = g[Len(t)]
    <2> HIDE DEF g
    <2> QED BY <1>3, <1>6, FlattenedParts
  <1> QED BY <1>1, <1>2, <1>6, <1>7

LEMMA FlattenFirst ==
  ASSUME NEW S, NEW s \in Seq(Seq(S)), NEW x \in Seq(S),
         NEW t \in Seq(Seq(S)), Len(t) = Len(s) + 1, t[1] = x,
         \A i \in 1 .. Len(s) : t[i + 1] = s[i]
  PROVE  FlattenSeq(t) = x \o FlattenSeq(s)
  <1>1. PICK f : Parts(f, s) /\ FlattenSeq(s) = f[Len(s)]
    BY PartsOf
  <1>2. Len(s) \in Nat
    OBVIOUS
  <1>3. \A i \in 0 .. Len(s) : f[i] \in Seq(S)
    BY <1>1, PartsTyped
  <1> DEFINE g == [i \in 0 .. Len(t) |-> IF i = 0 THEN <<>> ELSE x \o f[i - 1]]
  <1>4. ASSUME NEW i \in 1 .. Len(t)
        PROVE  g[i] = g[i - 1] \o t[i]
    <2>1. i \in 0 .. Len(t) /\ i # 0 /\ i - 1 \in 0 .. Len(t) /\ i - 1 \in 0 .. Len(s)
      BY <1>2
    <2>2. g[i] = x \o f[i - 1]
      BY <2>1
    <2>3. CASE i = 1
      <3>1. i - 1 = 0 /\ f[0] = <<>> /\ t[i] = x
        BY <1>1, <2>3 DEF Parts
      <3>2. g[i - 1] = <<>>
        BY <2>1, <3>1
      <3>3. x \o <<>> = x /\ <<>> \o x = x
        BY ConcatEmptySeq
      <3> QED BY <2>2, <3>1, <3>2, <3>3
    <2>4. CASE i # 1
      <3>1. i - 1 \in 1 .. Len(s) /\ i - 1 # 0 /\ (i - 1) - 1 \in 0 .. Len(s) /\ (i - 1) + 1 = i
        BY <2>1, <2>4
      <3>2. f[i - 1] = f[(i - 1) - 1] \o s[i - 1] /\ t[i] = s[i - 1]
        <4>1. t[(i - 1) + 1] = s[i - 1]
          BY <3>1
        <4> QED BY <1>1, <3>1, <4>1 DEF Parts
      <3>3. g[i - 1] = x \o f[(i - 1) - 1]
        BY <2>1, <3>1
      <3>4. f[(i - 1) - 1] \in Seq(S) /\ s[i - 1] \in Seq(S)
        BY <1>3, <3>1
      <3>5. (x \o f[(i - 1) - 1]) \o s[i - 1] = x \o (f[(i - 1) - 1] \o s[i - 1])
        <4>1. Regroups(x, f[(i - 1) - 1], s[i - 1])
          BY <3>4, Regrouped
        <4> QED BY <4>1 DEF Regroups
      <3> QED BY <2>2, <3>2, <3>3, <3>5
    <2> QED BY <2>3, <2>4
  <1>5. g[0] = <<>> /\ g[Len(t)] = x \o f[Len(s)]
    <2>1. 0 \in 0 .. Len(t) /\ Len(t) \in 0 .. Len(t) /\ Len(t) # 0 /\ Len(t) - 1 = Len(s)
      BY <1>2
    <2> QED BY <2>1
  <1>6. FlattenSeq(t) = g[Len(t)]
    <2> HIDE DEF g
    <2>1. Parts(g, t)
      BY <1>4, <1>5 DEF Parts
    <2> QED BY <2>1, FlattenedParts
  <1> QED BY <1>1, <1>5, <1>6

\* Each part begins with those before it, and ends with a member of s.
LEMMA PartsGrow ==
  ASSUME NEW S, NEW s \in Seq(Seq(S)), NEW f, Parts(f, s),
         NEW i \in 0 .. Len(s), NEW j \in i .. Len(s)
  PROVE  /\ Len(f[i]) <= Len(f[j])
         /\ \A p \in 1 .. Len(f[i]) : f[j][p] = f[i][p]
  <1> DEFINE T == {k \in Nat : /\ Len(f[i]) <= Len(f[k])
                               /\ \A p \in 1 .. Len(f[i]) : f[k][p] = f[i][p]}
  <1>0. i \in Nat /\ Len(s) \in Nat /\ j \in i .. Len(s)
    OBVIOUS
  <1>1. \A k \in 0 .. Len(s) : f[k] \in Seq(S) /\ Len(f[k]) \in Nat
    <2>1. \A k \in 0 .. Len(s) : f[k] \in Seq(S)
      BY PartsTyped
    <2> QED BY <2>1
  <1>2. i \in T
    <2>1. Len(f[i]) \in Nat
      BY <1>1
    <2> QED BY <1>0, <2>1
  <1>3. ASSUME NEW k \in i .. Len(s) - 1, k \in T
        PROVE  k + 1 \in T
    <2>1. k \in Nat /\ k + 1 \in Nat /\ k + 1 \in 1 .. Len(s) /\ (k + 1) - 1 = k /\ k \in 0 .. Len(s)
      BY <1>0
    <2>2. f[k + 1] = f[k] \o s[k + 1]
      BY <2>1 DEF Parts
    <2>3. f[k] \in Seq(S) /\ s[k + 1] \in Seq(S) /\ Len(f[i]) \in Nat
      BY <1>1, <2>1
    <2>4. /\ Len(f[k + 1]) = Len(f[k]) + Len(s[k + 1])
          /\ Len(f[k]) \in Nat /\ Len(s[k + 1]) \in Nat
          /\ \A p \in 1 .. Len(f[k]) : f[k + 1][p] = f[k][p]
      <3>1. IsJoin(S, f[k + 1], f[k], s[k + 1])
        BY <2>2, <2>3, Joined
      <3> QED BY <3>1 DEF IsJoin
    <2>5. \A a, b, c, d \in Nat :
             a <= b /\ d = b + c => a <= d /\ \A p \in 1 .. a : p \in 1 .. b
      OBVIOUS
    <2>6. /\ Len(f[i]) <= Len(f[k])
          /\ \A p \in 1 .. Len(f[i]) : f[k][p] = f[i][p]
      BY <1>3
    <2>7. Len(f[i]) <= Len(f[k + 1]) /\ \A p \in 1 .. Len(f[i]) : p \in 1 .. Len(f[k])
      <3>1. PICK a, b, c, d : a = Len(f[i]) /\ b = Len(f[k]) /\ c = Len(s[k + 1]) /\ d = Len(f[k + 1])
        OBVIOUS
      <3>2. a \in Nat /\ b \in Nat /\ c \in Nat /\ d = b + c /\ a <= b
        BY <2>3, <2>4, <2>6, <3>1
      <3>3. d \in Nat
        BY <3>2
      <3>4. a <= d /\ \A p \in 1 .. a : p \in 1 .. b
        BY <2>5, <3>2, <3>3
      <3> QED BY <3>1, <3>4
    <2>8. \A p \in 1 .. Len(f[i]) : f[k + 1][p] = f[i][p]
      BY <2>4, <2>6, <2>7
    <2> QED BY <2>1, <2>7, <2>8
  <1>4. \A k \in i .. Len(s) : k \in T
    <2> HIDE DEF T
    <2> QED BY <1>0, <1>2, <1>3, Ascending
  <1> QED BY <1>0, <1>4

IsPartAt(f, s, i) ==
    /\ Len(f[i]) = Len(f[i - 1]) + Len(s[i])
    /\ Len(f[i - 1]) \in Nat /\ Len(f[i]) \in Nat /\ Len(f[Len(s)]) \in Nat
    /\ Len(f[i]) <= Len(f[Len(s)])
    /\ \A p \in 1 .. Len(s[i]) : f[Len(s)][Len(f[i - 1]) + p] = s[i][p]

LEMMA PartAt ==
  ASSUME NEW S, NEW s \in Seq(Seq(S)), NEW f, Parts(f, s), NEW i \in 1 .. Len(s)
  PROVE  IsPartAt(f, s, i)
  <1>0. i \in 0 .. Len(s) /\ i - 1 \in 0 .. Len(s) /\ Len(s) \in i .. Len(s) /\ Len(s) \in 0 .. Len(s)
    OBVIOUS
  <1>1. f[i] = f[i - 1] \o s[i]
    BY DEF Parts
  <1>2. f[i - 1] \in Seq(S) /\ s[i] \in Seq(S) /\ f[i] \in Seq(S) /\ f[Len(s)] \in Seq(S)
    BY <1>0, PartsTyped
  <1>3. /\ Len(f[i]) = Len(f[i - 1]) + Len(s[i])
        /\ Len(f[i - 1]) \in Nat /\ Len(s[i]) \in Nat
        /\ \A p \in 1 .. Len(s[i]) : f[i][Len(f[i - 1]) + p] = s[i][p]
    <2>1. IsJoin(S, f[i], f[i - 1], s[i])
      BY <1>1, <1>2, Joined
    <2> QED BY <2>1 DEF IsJoin
  <1>6. Len(f[i]) \in Nat /\ Len(f[Len(s)]) \in Nat
    BY <1>2
  <1>4. /\ Len(f[i]) <= Len(f[Len(s)])
        /\ \A p \in 1 .. Len(f[i]) : f[Len(s)][p] = f[i][p]
    BY <1>0, PartsGrow
  <1>5. ASSUME NEW p \in 1 .. Len(s[i])
        PROVE  f[Len(s)][Len(f[i - 1]) + p] = s[i][p]
    <2>1. Len(f[i - 1]) + p \in 1 .. Len(f[i])
      <3>1. \A a, b, c \in Nat : c = a + b => \A q \in 1 .. b : a + q \in 1 .. c
        OBVIOUS
      <3> QED BY <1>3, <1>6, <3>1
    <2> QED BY <1>3, <1>4, <2>1
  <1> QED BY <1>3, <1>4, <1>5, <1>6 DEF IsPartAt

-----------------------------------------------------------------------------
(* Numbers and their bytes *)

IsValue(v, bytes) == v = [i \in 0 .. Len(bytes) |-> IF i = 0 THEN 0 ELSE 256 * v[i - 1] + bytes[i]]

LEMMA ValueExists ==
  ASSUME NEW bytes \in Seq(Nat)
  PROVE  \E v : IsValue(v, bytes)
  <1>0. Len(bytes) \in Nat /\ 0 <= Len(bytes) /\ 0 + 1 = 1 /\ 0 \in Nat
    OBVIOUS
  <1> DEFINE Turn == [i \in 1 .. Len(bytes) |-> [n \in Nat |-> 256 * n + bytes[i]]]
  <1>1. Turn \in [1 .. Len(bytes) -> [Nat -> Nat]]
    <2>1. ASSUME NEW i \in 1 .. Len(bytes), NEW n \in Nat
          PROVE  256 * n + bytes[i] \in Nat
      <3>1. bytes[i] \in Nat
        OBVIOUS
      <3> QED BY <3>1
    <2> QED BY <2>1
  <1>2. \E v : IsRecursion(v, Nat, 0, Len(bytes), 0, Turn)
    <2> HIDE DEF Turn
    <2> QED BY <1>0, <1>1, RecursionExists
  <1>3. PICK v : IsRecursion(v, Nat, 0, Len(bytes), 0, Turn)
    BY <1>2
  <1>4. v \in [0 .. Len(bytes) -> Nat] /\ v[0] = 0
    <2> HIDE DEF Turn
    <2> QED BY <1>3 DEF IsRecursion
  <1>5. \A i \in 1 .. Len(bytes) : v[i] = 256 * v[i - 1] + bytes[i]
    <2> SUFFICES ASSUME NEW i \in 1 .. Len(bytes)
                 PROVE  v[i] = 256 * v[i - 1] + bytes[i]
      OBVIOUS
    <2>1. v[i] = Turn[i][v[i - 1]]
      <3> HIDE DEF Turn
      <3> QED BY <1>0, <1>3 DEF IsRecursion
    <2>2. v[i - 1] \in Nat
      BY <1>4
    <2> QED BY <2>1, <2>2
  <1>6. v = [i \in 0 .. Len(bytes) |-> IF i = 0 THEN 0 ELSE 256 * v[i - 1] + bytes[i]]
    <2>1. v = [i \in 0 .. Len(bytes) |-> v[i]]
      BY <1>4
    <2>2. \A i \in 0 .. Len(bytes) : v[i] = IF i = 0 THEN 0 ELSE 256 * v[i - 1] + bytes[i]
      <3>1. \A i \in 0 .. Len(bytes) : i # 0 => i \in 1 .. Len(bytes)
        OBVIOUS
      <3> QED BY <1>4, <1>5, <3>1
    <2> QED BY <2>1, <2>2
  <1> QED BY <1>6 DEF IsValue

LEMMA NumberOf ==
  ASSUME NEW bytes \in Seq(Nat)
  PROVE  \E v : /\ v[0] = 0
                /\ \A i \in 1 .. Len(bytes) : v[i] = 256 * v[i - 1] + bytes[i]
                /\ Number(bytes) = v[Len(bytes)]
  <1>1. PICK v : v = CHOOSE w : IsValue(w, bytes)
    OBVIOUS
  <1>2. IsValue(v, bytes)
    BY <1>1, ValueExists
  <1>3. Number(bytes) = v[Len(bytes)]
    BY <1>1 DEF Number, IsValue
  <1>4. \A i \in 0 .. Len(bytes) : v[i] = IF i = 0 THEN 0 ELSE 256 * v[i - 1] + bytes[i]
    BY <1>2 DEF IsValue
  <1>5. 0 \in 0 .. Len(bytes) /\ \A i \in 1 .. Len(bytes) : i \in 0 .. Len(bytes) /\ i # 0
    OBVIOUS
  <1>6. v[0] = 0 /\ \A i \in 1 .. Len(bytes) : v[i] = 256 * v[i - 1] + bytes[i]
    BY <1>4, <1>5
  <1> QED BY <1>3, <1>6

LEMMA NumberOfOne ==
  ASSUME NEW bytes \in Seq(Nat), Len(bytes) = 1
  PROVE  Number(bytes) = bytes[1]
  <1>1. PICK v : /\ v[0] = 0
                 /\ \A i \in 1 .. Len(bytes) : v[i] = 256 * v[i - 1] + bytes[i]
                 /\ Number(bytes) = v[Len(bytes)]
    BY NumberOf
  <1>2. v[1] = 256 * v[0] + bytes[1]
    <2>1. 1 \in 1 .. Len(bytes) /\ 1 - 1 = 0
      OBVIOUS
    <2> QED BY <1>1, <2>1
  <1>3. bytes[1] \in Nat
    <2>1. 1 \in 1 .. Len(bytes)
      OBVIOUS
    <2> QED BY <2>1, ElementOfSeq
  <1> QED BY <1>1, <1>2, <1>3

LEMMA NumberOfTwo ==
  ASSUME NEW bytes \in Seq(Nat), Len(bytes) = 2
  PROVE  Number(bytes) = 256 * bytes[1] + bytes[2]
  <1>1. PICK v : /\ v[0] = 0
                 /\ \A i \in 1 .. Len(bytes) : v[i] = 256 * v[i - 1] + bytes[i]
                 /\ Number(bytes) = v[Len(bytes)]
    BY NumberOf
  <1>2. v[1] = 256 * v[0] + bytes[1] /\ v[2] = 256 * v[1] + bytes[2]
    <2>1. 1 \in 1 .. Len(bytes) /\ 2 \in 1 .. Len(bytes) /\ 1 - 1 = 0 /\ 2 - 1 = 1
      OBVIOUS
    <2> QED BY <1>1, <2>1
  <1>3. bytes[1] \in Nat /\ bytes[2] \in Nat
    <2>1. 1 \in 1 .. Len(bytes) /\ 2 \in 1 .. Len(bytes)
      OBVIOUS
    <2> QED BY <2>1
  <1> QED BY <1>1, <1>2, <1>3

LEMMA NumberOfFour ==
  ASSUME NEW bytes \in Seq(Nat), Len(bytes) = 4
  PROVE  Number(bytes) = 256 * (256 * (256 * bytes[1] + bytes[2]) + bytes[3]) + bytes[4]
  <1>1. PICK v : /\ v[0] = 0
                 /\ \A i \in 1 .. Len(bytes) : v[i] = 256 * v[i - 1] + bytes[i]
                 /\ Number(bytes) = v[Len(bytes)]
    BY NumberOf
  <1>2. /\ v[1] = 256 * v[0] + bytes[1] /\ v[2] = 256 * v[1] + bytes[2]
        /\ v[3] = 256 * v[2] + bytes[3] /\ v[4] = 256 * v[3] + bytes[4]
    <2>1. /\ 1 \in 1 .. Len(bytes) /\ 2 \in 1 .. Len(bytes) /\ 3 \in 1 .. Len(bytes) /\ 4 \in 1 .. Len(bytes)
          /\ 1 - 1 = 0 /\ 2 - 1 = 1 /\ 3 - 1 = 2 /\ 4 - 1 = 3
      OBVIOUS
    <2> QED BY <1>1, <2>1
  <1>3. bytes[1] \in Nat /\ bytes[2] \in Nat /\ bytes[3] \in Nat /\ bytes[4] \in Nat
    <2>1. 1 \in 1 .. Len(bytes) /\ 2 \in 1 .. Len(bytes) /\ 3 \in 1 .. Len(bytes) /\ 4 \in 1 .. Len(bytes)
      OBVIOUS
    <2> QED BY <2>1, ElementOfSeq
  <1>4. v[1] = bytes[1]
    BY <1>1, <1>2, <1>3
  <1> QED BY <1>1, <1>2, <1>4

IsDivided(n, q, r) == n = 256 * q + r /\ q \in Nat /\ r \in Byte

LEMMA Divided ==
  ASSUME NEW n \in Nat, NEW q, q = n \div 256, NEW r, r = n % 256
  PROVE  IsDivided(n, q, r)
  <1>1. q \in Nat /\ r \in Nat
     OBVIOUS
  <1>2. r \in Byte
    BY DEF Byte
  <1>3. n = 256 * q + r
    BY <1>1
  <1> QED BY <1>1, <1>2, <1>3 DEF IsDivided

LEMMA DividedTwice ==
  ASSUME NEW n \in Nat, NEW q, q = n \div 256, NEW w, w = q \div 256, NEW v, v = w \div 256
  PROVE  w = n \div (256 * 256) /\ v = n \div (256 * 256 * 256)
  <1>0. q \in Nat /\ w \in Nat /\ v \in Nat
    OBVIOUS
  <1>1. w = n \div (256 * 256)
    BY <1>0
  <1>2. v = n \div (256 * 256 * 256)
    BY <1>0
  <1> QED BY <1>1, <1>2

LEMMA Below256 ==
  ASSUME NEW n \in Nat, n < 256
  PROVE  n % 256 = n /\ n \in Byte
  BY DEF Byte

LEMMA FourDigits ==
  ASSUME NEW n \in Nat, n \div (256 * 256 * 256) < 256,
         NEW a, a = (n \div (256 * 256 * 256)) % 256, NEW b, b = (n \div (256 * 256)) % 256,
         NEW c, c = (n \div 256) % 256, NEW d, d = (n \div 1) % 256
  PROVE  n = 256 * (256 * (256 * a + b) + c) + d
  <1>1. PICK q, w, v : q = n \div 256 /\ w = q \div 256 /\ v = w \div 256
    OBVIOUS
  <1>2. w = n \div (256 * 256) /\ v = n \div (256 * 256 * 256)
    BY <1>1, DividedTwice
  <1>3. n \div 1 = n
    OBVIOUS
  <1>4. a = v % 256 /\ b = w % 256 /\ c = q % 256 /\ d = n % 256 /\ v < 256
    BY <1>1, <1>2, <1>3
  <1>5. IsDivided(n, q, d)
    BY <1>1, <1>4, Divided
  <1>10. q \in Nat
    BY <1>5 DEF IsDivided
  <1>6. IsDivided(q, w, c)
    BY <1>1, <1>4, <1>10, Divided
  <1>11. w \in Nat
    BY <1>6 DEF IsDivided
  <1>7. IsDivided(w, v, b)
    BY <1>1, <1>4, <1>11, Divided
  <1>8. a = v
    BY <1>4, <1>7, Below256 DEF IsDivided
  <1>9. n = 256 * q + d /\ q = 256 * w + c /\ w = 256 * a + b
    BY <1>5, <1>6, <1>7, <1>8 DEF IsDivided
  <1> QED BY <1>9

DividesInto(n, q, r) == n \in Nat /\ n \div 256 = q /\ n % 256 = r

LEMMA DividedBack ==
  ASSUME NEW q \in Nat, NEW r \in Byte, NEW n, n = 256 * q + r
  PROVE  DividesInto(n, q, r)
  <1> USE DEF Byte
  <1>1. n \in Nat
    OBVIOUS
  <1>2. n \div 256 = q /\ n % 256 = r
    OBVIOUS
  <1> QED BY <1>1, <1>2 DEF DividesInto

AreDigits(n, a, b, c, d) ==
    /\ n \in Nat /\ n \div (256 * 256 * 256) = a
    /\ (n \div (256 * 256 * 256)) % 256 = a /\ (n \div (256 * 256)) % 256 = b
    /\ (n \div 256) % 256 = c /\ (n \div 1) % 256 = d

LEMMA FourDigitsBack ==
  ASSUME NEW a \in Byte, NEW b \in Byte, NEW c \in Byte, NEW d \in Byte,
         NEW n, n = 256 * (256 * (256 * a + b) + c) + d
  PROVE  AreDigits(n, a, b, c, d)
  <1>1. PICK q, w : w = 256 * a + b /\ q = 256 * w + c
    OBVIOUS
  <1>0. a \in Nat /\ a < 256 /\ a % 256 = a
    BY DEF Byte
  <1>2. DividesInto(w, a, b)
    BY <1>0, <1>1, DividedBack
  <1>3. DividesInto(q, w, c)
    <2>1. w \in Nat
      BY <1>2 DEF DividesInto
    <2> QED BY <1>1, <2>1, DividedBack
  <1>4. n = 256 * q + d
    BY <1>1
  <1>5. DividesInto(n, q, d)
    <2>1. q \in Nat
      BY <1>3 DEF DividesInto
    <2> QED BY <1>4, <2>1, DividedBack
  <1>8. /\ n \in Nat /\ q = n \div 256 /\ w = q \div 256 /\ a = w \div 256
        /\ b = w % 256 /\ c = q % 256 /\ d = n % 256
    BY <1>2, <1>3, <1>5 DEF DividesInto
  <1>6. w = n \div (256 * 256) /\ a = n \div (256 * 256 * 256)
    <2>1. n \in Nat /\ q = n \div 256 /\ w = q \div 256 /\ a = w \div 256
      BY <1>8
    <2> HIDE <1>8
    <2> QED BY <2>1, DividedTwice
  <1>7. n \div 1 = n
    <2>1. n \in Nat
      BY <1>8
    <2> QED BY <2>1
  <1>9. (n \div (256 * 256 * 256)) % 256 = a
    BY <1>0, <1>6
  <1>10. (n \div (256 * 256)) % 256 = b
    <2>1. w % 256 = b
      BY <1>8
    <2> QED BY <1>6, <2>1
  <1>11. (n \div 256) % 256 = c
    <2>1. q % 256 = c /\ q = n \div 256
      BY <1>8
    <2> QED BY <2>1
  <1>12. n \in Nat /\ n \div (256 * 256 * 256) = a
    BY <1>6, <1>8
  <1>13. (n \div 1) % 256 = d
    <2>1. n % 256 = d
      BY <1>8
    <2> QED BY <1>7, <2>1
  <1> QED BY <1>9, <1>10, <1>11, <1>12, <1>13 DEF AreDigits

\* Numbers come back from their bytes.
AreBytesOf(b, n, size) ==
    /\ b \in Seq(Byte) /\ b \in Seq(Nat) /\ Len(b) = size
    /\ \A i \in 1 .. size : b[i] = (n \div Weights[size - i + 1]) % 256

LEMMA BigEndianTyped ==
  ASSUME NEW n \in Nat, NEW size \in {1, 2, 4}
  PROVE  AreBytesOf(BigEndian(n, size), n, size)
  <1> DEFINE b == [i \in 1 .. size |-> (n \div Weights[size - i + 1]) % 256]
  <1>1. \A i \in 1 .. size : b[i] \in Byte
    <2> SUFFICES ASSUME NEW i \in 1 .. size
                 PROVE  (n \div Weights[size - i + 1]) % 256 \in Byte
      OBVIOUS
    <2>1. size - i + 1 \in {1, 2, 3, 4}
      OBVIOUS
    <2>2. Weights[size - i + 1] \in {1, 256, (256 * 256), (256 * 256 * 256)}
      BY <2>1 DEF Weights
    <2>3. \A w \in {1, 256, (256 * 256), (256 * 256 * 256)} : (n \div w) % 256 \in Byte
      BY DEF Byte
    <2> QED BY <2>2, <2>3
  <1>2. b \in Seq(Byte) /\ b \in Seq(Nat) /\ Len(b) = size
    <2>1. b \in [1 .. size -> Byte] /\ Byte \subseteq Nat /\ size \in Nat
      BY <1>1 DEF Byte
    <2>2. b \in [1 .. size -> Nat]
      BY <2>1
    <2> HIDE DEF b
    <2> QED BY <2>1, <2>2
  <1>3. \A i \in 1 .. size : b[i] = (n \div Weights[size - i + 1]) % 256
    OBVIOUS
  <1> HIDE DEF b
  <1> QED BY <1>2, <1>3 DEF b, BigEndian, AreBytesOf

LEMMA NumberBack ==
  ASSUME NEW n \in Nat, NEW size \in {1, 2, 4}, n \div Weights[size] < 256
  PROVE  Number(BigEndian(n, size)) = n
  <1>1. PICK b : b = BigEndian(n, size)
    OBVIOUS
  <1>2. /\ b \in Seq(Nat) /\ Len(b) = size
        /\ \A i \in 1 .. size : b[i] = (n \div Weights[size - i + 1]) % 256
    <2>1. AreBytesOf(b, n, size)
      BY <1>1, BigEndianTyped
    <2> QED BY <2>1 DEF AreBytesOf
  <1>3. /\ Weights[1] = 1 /\ Weights[2] = 256 /\ Weights[3] = 256 * 256
        /\ Weights[4] = 256 * 256 * 256
    BY DEF Weights
  <1>4. CASE size = 1
    <2>1. b[1] = (n \div Weights[1]) % 256 /\ n \div 1 = n
      <3>1. 1 \in 1 .. size /\ size - 1 + 1 = 1
        BY <1>4
      <3> QED BY <1>2, <3>1
    <2>2. n < 256
      BY <1>3, <1>4, <2>1
    <2>3. b[1] = n
      BY <1>3, <2>1, <2>2, Below256
    <2>4. Number(b) = b[1]
      BY <1>2, <1>4, NumberOfOne
    <2> QED BY <1>1, <2>3, <2>4
  <1>5. CASE size = 2
    <2>1. b[1] = (n \div Weights[2]) % 256 /\ b[2] = (n \div Weights[1]) % 256 /\ n \div 1 = n
      <3>1. 1 \in 1 .. size /\ 2 \in 1 .. size /\ size - 1 + 1 = 2 /\ size - 2 + 1 = 1
        BY <1>5
      <3> QED BY <1>2, <3>1
    <2>2. PICK q : q = n \div 256
      OBVIOUS
    <2>3. IsDivided(n, q, b[2])
      BY <1>3, <2>1, <2>2, Divided
    <2>4. b[1] = q
      <3>1. q \in Nat /\ q < 256
        BY <1>3, <1>5, <2>2
      <3>2. b[1] = q % 256
        BY <1>3, <2>1, <2>2
      <3> QED BY <3>1, <3>2, Below256
    <2>5. Number(b) = 256 * b[1] + b[2]
      BY <1>2, <1>5, NumberOfTwo
    <2> QED BY <1>1, <2>3, <2>4, <2>5 DEF IsDivided
  <1>6. CASE size = 4
    <2>1. /\ b[1] = (n \div Weights[4]) % 256 /\ b[2] = (n \div Weights[3]) % 256
          /\ b[3] = (n \div Weights[2]) % 256 /\ b[4] = (n \div Weights[1]) % 256
      <3>1. /\ 1 \in 1 .. size /\ 2 \in 1 .. size /\ 3 \in 1 .. size /\ 4 \in 1 .. size
            /\ size - 1 + 1 = 4 /\ size - 2 + 1 = 3 /\ size - 3 + 1 = 2 /\ size - 4 + 1 = 1
        BY <1>6
      <3> QED BY <1>2, <3>1
    <2>2. /\ b[1] = (n \div (256 * 256 * 256)) % 256 /\ b[2] = (n \div (256 * 256)) % 256
          /\ b[3] = (n \div 256) % 256 /\ b[4] = (n \div 1) % 256
      BY <1>3, <2>1
    <2>3. n \div (256 * 256 * 256) < 256
      BY <1>3, <1>6
    <2>4. n = 256 * (256 * (256 * b[1] + b[2]) + b[3]) + b[4]
      BY <2>2, <2>3, FourDigits
    <2>5. Number(b) = 256 * (256 * (256 * b[1] + b[2]) + b[3]) + b[4]
      BY <1>2, <1>6, NumberOfFour
    <2> QED BY <1>1, <2>4, <2>5
  <1> QED BY <1>4, <1>5, <1>6

\* And so do four bytes from the number they are.
LEMMA BytesBack ==
  ASSUME NEW b \in Seq(Byte), Len(b) = 4
  PROVE  IsU32(Number(b)) /\ BigEndian(Number(b), 4) = b
  <1>1. b[1] \in Byte /\ b[2] \in Byte /\ b[3] \in Byte /\ b[4] \in Byte
    <2>1. 1 \in 1 .. Len(b) /\ 2 \in 1 .. Len(b) /\ 3 \in 1 .. Len(b) /\ 4 \in 1 .. Len(b)
      OBVIOUS
    <2> QED BY <2>1, ElementOfSeq
  <1>2. b \in Seq(Nat)
    <2>1. Byte \subseteq Nat
      BY DEF Byte
    <2> QED BY <2>1, SeqMonotonic
  <1>3. PICK n : n = Number(b)
    OBVIOUS
  <1>4. n = 256 * (256 * (256 * b[1] + b[2]) + b[3]) + b[4]
    BY <1>2, <1>3, NumberOfFour
  <1>5. /\ n \in Nat /\ n \div (256 * 256 * 256) = b[1]
        /\ (n \div (256 * 256 * 256)) % 256 = b[1] /\ (n \div (256 * 256)) % 256 = b[2]
        /\ (n \div 256) % 256 = b[3] /\ (n \div 1) % 256 = b[4]
    <2>1. PICK e, f, g, h : e = b[1] /\ f = b[2] /\ g = b[3] /\ h = b[4]
      OBVIOUS
    <2>2. e \in Byte /\ f \in Byte /\ g \in Byte /\ h \in Byte
      BY <1>1, <2>1
    <2>3. n = 256 * (256 * (256 * e + f) + g) + h
      BY <1>4, <2>1
    <2>4. AreDigits(n, e, f, g, h)
      BY <2>2, <2>3, FourDigitsBack
    <2> QED BY <2>1, <2>4 DEF AreDigits
  <1>6. /\ Weights[1] = 1 /\ Weights[2] = 256 /\ Weights[3] = 256 * 256
        /\ Weights[4] = 256 * 256 * 256
    BY DEF Weights
  <1>7. IsU32(n)
    <2>0. \A x \in Byte : x < 256
      BY DEF Byte
    <2>1. b[1] < 256
      BY <1>1, <2>0
    <2> QED BY <1>5, <1>6, <2>1 DEF IsU32
  <1>8. PICK d : d = BigEndian(n, 4)
    OBVIOUS
  <1>9. /\ d \in Seq(Byte) /\ Len(d) = 4
        /\ \A i \in 1 .. 4 : d[i] = (n \div Weights[4 - i + 1]) % 256
    BY <1>5, <1>8, BigEndianTyped DEF AreBytesOf
  <1>10. d[1] = b[1] /\ d[2] = b[2] /\ d[3] = b[3] /\ d[4] = b[4]
    <2>1. /\ d[1] = (n \div Weights[4]) % 256 /\ d[2] = (n \div Weights[3]) % 256
          /\ d[3] = (n \div Weights[2]) % 256 /\ d[4] = (n \div Weights[1]) % 256
      <3>1. /\ 1 \in 1 .. 4 /\ 2 \in 1 .. 4 /\ 3 \in 1 .. 4 /\ 4 \in 1 .. 4
            /\ 4 - 1 + 1 = 4 /\ 4 - 2 + 1 = 3 /\ 4 - 3 + 1 = 2 /\ 4 - 4 + 1 = 1
        OBVIOUS
      <3> QED BY <1>9, <3>1
    <2> QED BY <1>5, <1>6, <2>1
  <1>11. \A i \in 1 .. Len(d) : d[i] = b[i]
    <2>1. \A i \in 1 .. 4 : i \in {1, 2, 3, 4}
      OBVIOUS
    <2> QED BY <1>9, <1>10, <2>1
  <1>12. d = b
    BY <1>9, <1>11, SeqEqual
  <1> QED BY <1>3, <1>7, <1>8, <1>12

-----------------------------------------------------------------------------
(* The packets of a stream of bytes *)

IsPiece(S, d, b, k, l) ==
    /\ d \in Seq(S) /\ Len(d) = l
    /\ \A i \in 1 .. l : d[i] = b[k + i]

LEMMA Piece ==
  ASSUME NEW S, NEW b \in Seq(S), NEW k \in Nat, NEW l \in Nat, k + l <= Len(b)
  PROVE  IsPiece(S, SubSeq(b, k + 1, k + l), b, k, l)
  <1>1. \A i \in k + 1 .. k + l : b[i] \in S
    <2>1. \A i \in k + 1 .. k + l : i \in 1 .. Len(b)
      OBVIOUS
    <2> QED BY <2>1, ElementOfSeq
  <1>2. k + 1 \in Int /\ k + l \in Int
    OBVIOUS
  <1>3. PICK d : d = SubSeq(b, k + 1, k + l)
    OBVIOUS
  <1>4. /\ d \in Seq(S)
        /\ Len(d) = IF k + 1 <= k + l THEN (k + l) - (k + 1) + 1 ELSE 0
        /\ \A i \in 1 .. (k + l) - (k + 1) + 1 : d[i] = b[(k + 1) + i - 1]
    BY <1>1, <1>2, <1>3, SubSeqProperties
  <1>5. (k + l) - (k + 1) + 1 = l /\ (~(k + 1 <= k + l) => l = 0)
    OBVIOUS
  <1>6. \A i \in 1 .. l : (k + 1) + i - 1 = k + i
    OBVIOUS
  <1>7. Len(d) = l /\ \A i \in 1 .. l : d[i] = b[k + i]
    BY <1>4, <1>5, <1>6
  <1> QED BY <1>3, <1>4, <1>7 DEF IsPiece

LEMMA MinOfTwo ==
  ASSUME NEW a \in Nat, NEW b \in Nat
  PROVE  Min({a, b}) = IF a <= b THEN a ELSE b
  BY DEF Min

\* Where packets end in a stream of bytes.
AreEnds(end, bytes) ==
    /\ end \in [0 .. Len(bytes) \div 4 -> 0 .. Len(bytes) + 1] /\ end[0] = 0
    /\ \A n \in 1 .. Len(bytes) \div 4 :
          LET l == Number(SubSeq(bytes, end[n - 1] + 1, end[n - 1] + 4))
          IN  end[n] = IF end[n - 1] + 4 > Len(bytes) \/ (end[n - 1] + 4) + l > Len(bytes) THEN Len(bytes) + 1
                       ELSE (end[n - 1] + 4) + l

FramesBy(end, bytes) ==
    [n \in {m \in 1 .. Len(bytes) \div 4 : end[m] < Len(bytes) + 1} |->
        SubSeq(bytes, end[n - 1] + 5, end[n])]

IsNext(after, bytes) ==
    /\ after \in [0 .. Len(bytes) + 1 -> 0 .. Len(bytes) + 1]
    /\ \A p \in 0 .. Len(bytes) + 1 :
          LET l == Number(SubSeq(bytes, p + 1, p + 4))
          IN  after[p] = IF p + 4 > Len(bytes) \/ (p + 4) + l > Len(bytes) THEN Len(bytes) + 1
                         ELSE (p + 4) + l

\* The function after of Frames.
After(bytes) ==
    [p \in 0 .. Len(bytes) + 1 |->
        IF p + 4 > Len(bytes) THEN Len(bytes) + 1
        ELSE Min({p + 4 + Number(SubSeq(bytes, p + 1, p + 4)), Len(bytes) + 1})]

LEMMA NumberTyped ==
  ASSUME NEW bytes \in Seq(Byte), NEW p \in Nat, p + 4 <= Len(bytes)
  PROVE  Number(SubSeq(bytes, p + 1, p + 4)) \in Nat
  <1>1. PICK d : d = SubSeq(bytes, p + 1, p + 4)
    OBVIOUS
  <1>2. IsPiece(Byte, d, bytes, p, 4)
    BY <1>1, Piece
  <1>3. d \in Seq(Byte) /\ Len(d) = 4
    BY <1>2 DEF IsPiece
  <1> QED BY <1>1, <1>3, BytesBack DEF IsU32

LEMMA AfterIsNext ==
  ASSUME NEW bytes \in Seq(Byte)
  PROVE  IsNext(After(bytes), bytes)
  <1>0. Len(bytes) \in Nat
    OBVIOUS
  <1>1. ASSUME NEW p \in 0 .. Len(bytes) + 1, NEW l, l = Number(SubSeq(bytes, p + 1, p + 4))
        PROVE  /\ After(bytes)[p] = IF p + 4 > Len(bytes) \/ (p + 4) + l > Len(bytes) THEN Len(bytes) + 1
                                    ELSE (p + 4) + l
               /\ After(bytes)[p] \in 0 .. Len(bytes) + 1
    <2>1. After(bytes)[p] = IF p + 4 > Len(bytes) THEN Len(bytes) + 1
                            ELSE Min({p + 4 + l, Len(bytes) + 1})
      BY <1>1 DEF After
    <2>2. CASE p + 4 > Len(bytes)
      BY <1>0, <2>1, <2>2
    <2>3. CASE p + 4 <= Len(bytes)
      <3>1. l \in Nat
        BY <1>0, <1>1, <2>3, NumberTyped
      <3>2. After(bytes)[p] = IF p + 4 + l <= Len(bytes) + 1 THEN p + 4 + l ELSE Len(bytes) + 1
        BY <1>0, <2>1, <2>3, <3>1, MinOfTwo
      <3> QED BY <1>0, <2>3, <3>1, <3>2
    <2> QED BY <1>0, <2>2, <2>3
  <1>2. \A p \in 0 .. Len(bytes) + 1 : After(bytes)[p] \in 0 .. Len(bytes) + 1
    BY <1>1
  <1>3. After(bytes) \in [0 .. Len(bytes) + 1 -> 0 .. Len(bytes) + 1]
    BY <1>2 DEF After
  <1> QED BY <1>1, <1>3 DEF IsNext

\* The function end of Frames.
IsEnd(end, bytes) ==
    end = [n \in 0 .. Len(bytes) \div 4 |-> IF n = 0 THEN 0 ELSE After(bytes)[end[n - 1]]]

LEMMA EndExists ==
  ASSUME NEW bytes \in Seq(Byte)
  PROVE  \E end : IsEnd(end, bytes)
  <1>0. Len(bytes) \in Nat /\ Len(bytes) \div 4 \in Nat /\ 0 <= Len(bytes) \div 4 /\ 0 + 1 = 1
    OBVIOUS
  <1>1. PICK b, S, a : b = Len(bytes) \div 4 /\ S = 0 .. Len(bytes) + 1 /\ a = After(bytes)
    OBVIOUS
  <1>2. a \in [S -> S] /\ 0 \in S /\ b \in Nat
    <2>1. IsNext(After(bytes), bytes)
      BY AfterIsNext
    <2> QED BY <1>0, <1>1, <2>1 DEF IsNext
  <1> DEFINE Turn == [n \in 1 .. b |-> a]
  <1>3. \E f : IsRecursion(f, S, 0, b, 0, Turn)
    <2>1. Turn \in [0 + 1 .. b -> [S -> S]]
      BY <1>2
    <2>2. 0 \in Nat /\ b \in Nat /\ 0 <= b /\ 0 \in S
      BY <1>2
    <2> HIDE DEF Turn
    <2> QED BY <2>1, <2>2, RecursionExists
  <1>4. PICK f : IsRecursion(f, S, 0, b, 0, Turn)
    BY <1>3
  <1>5. f \in [0 .. b -> S] /\ f[0] = 0 /\ \A n \in 1 .. b : f[n] = a[f[n - 1]]
    <2>1. f \in [0 .. b -> S] /\ f[0] = 0 /\ \A n \in 1 .. b : f[n] = Turn[n][f[n - 1]]
      <3> HIDE DEF Turn
      <3> QED BY <1>4 DEF IsRecursion
    <2> QED BY <2>1
  <1>6. \A n \in 0 .. b : n # 0 => n \in 1 .. b
    BY <1>2
  <1>7. \A n \in 0 .. b : f[n] = IF n = 0 THEN 0 ELSE a[f[n - 1]]
    BY <1>5, <1>6
  <1>8. f = [n \in 0 .. b |-> IF n = 0 THEN 0 ELSE a[f[n - 1]]]
    <2>1. f = [n \in 0 .. b |-> f[n]]
      BY <1>5
    <2> QED BY <1>7, <2>1
  <1> QED BY <1>1, <1>8 DEF IsEnd

LEMMA FramesAre ==
  ASSUME NEW bytes \in Seq(Byte)
  PROVE  \E end : AreEnds(end, bytes) /\ Frames(bytes) = FramesBy(end, bytes)
  <1>0. Len(bytes) \in Nat /\ Len(bytes) \div 4 \in Nat /\ 0 \in 0 .. Len(bytes) \div 4 /\ 0 \in 0 .. Len(bytes) + 1
    OBVIOUS
  <1>1. PICK end : end = CHOOSE e : IsEnd(e, bytes)
    OBVIOUS
  <1>2. IsEnd(end, bytes)
    BY <1>1, EndExists
  <1>3. Frames(bytes) = FramesBy(end, bytes)
    BY <1>1 DEF Frames, FramesBy, IsEnd, After
  <1>4. IsNext(After(bytes), bytes)
    BY AfterIsNext
  <1>5. /\ end[0] = 0
        /\ \A n \in 1 .. Len(bytes) \div 4 : end[n] = After(bytes)[end[n - 1]]
    <2>1. \A n \in 0 .. Len(bytes) \div 4 : end[n] = IF n = 0 THEN 0 ELSE After(bytes)[end[n - 1]]
      BY <1>2 DEF IsEnd
    <2>2. \A n \in 1 .. Len(bytes) \div 4 : n \in 0 .. Len(bytes) \div 4 /\ n # 0
      BY <1>0
    <2> QED BY <1>0, <2>1, <2>2
  <1> DEFINE T == {n \in Nat : end[n] \in 0 .. Len(bytes) + 1}
  <1>6. \A n \in 0 .. Len(bytes) \div 4 : n \in T
    <2>1. 0 \in T
      BY <1>0, <1>5
    <2>2. ASSUME NEW n \in 0 .. (Len(bytes) \div 4) - 1, n \in T
          PROVE  n + 1 \in T
      <3>1. n + 1 \in 1 .. Len(bytes) \div 4 /\ n + 1 \in Nat /\ (n + 1) - 1 = n
        BY <1>0
      <3>2. end[n + 1] = After(bytes)[end[n]]
        BY <1>5, <3>1
      <3>3. end[n] \in 0 .. Len(bytes) + 1
        BY <2>2
      <3>4. After(bytes)[end[n]] \in 0 .. Len(bytes) + 1
        BY <1>4, <3>3 DEF IsNext
      <3> QED BY <3>1, <3>2, <3>4
    <2> HIDE DEF T
    <2> QED BY <1>0, <2>1, <2>2, Ascending
  <1>7. \A n \in 0 .. Len(bytes) \div 4 : end[n] \in 0 .. Len(bytes) + 1
    BY <1>6
  <1>8. end \in [0 .. Len(bytes) \div 4 -> 0 .. Len(bytes) + 1]
    <2>1. end = [n \in 0 .. Len(bytes) \div 4 |-> end[n]]
      BY <1>2 DEF IsEnd
    <2> QED BY <1>7, <2>1
  <1>9. ASSUME NEW n \in 1 .. Len(bytes) \div 4
        PROVE  LET l == Number(SubSeq(bytes, end[n - 1] + 1, end[n - 1] + 4))
               IN  end[n] = IF end[n - 1] + 4 > Len(bytes) \/ (end[n - 1] + 4) + l > Len(bytes)
                            THEN Len(bytes) + 1 ELSE (end[n - 1] + 4) + l
    <2>1. n - 1 \in 0 .. Len(bytes) \div 4
      BY <1>0
    <2>2. end[n - 1] \in 0 .. Len(bytes) + 1
      BY <1>7, <2>1
    <2> QED BY <1>4, <1>5, <2>2 DEF IsNext
  <1>10. AreEnds(end, bytes)
    BY <1>5, <1>8, <1>9 DEF AreEnds
  <1> QED BY <1>3, <1>10

PacketsOf(q) == [i \in DOMAIN q |-> Packet(q[i])]

\* Data that packets can carry.
Carried(q) == q \in Seq(Seq(Byte)) /\ \A i \in DOMAIN q : IsU32(Len(q[i]))

\* The beginning of a stream of bytes.
Begins(b, c) ==
    /\ b \in Seq(Byte) /\ c \in Seq(Byte) /\ Len(b) <= Len(c)
    /\ \A p \in 1 .. Len(b) : b[p] = c[p]

IsPacket(x, data) ==
    /\ x \in Seq(Byte) /\ Len(x) = 4 + Len(data)
    /\ \A i \in 1 .. 4 : x[i] = BigEndian(Len(data), 4)[i]
    /\ \A i \in 1 .. Len(data) : x[4 + i] = data[i]

LEMMA PacketTyped ==
  ASSUME NEW data \in Seq(Byte)
  PROVE  IsPacket(Packet(data), data)
  <1>1. PICK d : d = BigEndian(Len(data), 4)
    OBVIOUS
  <1>2. AreBytesOf(d, Len(data), 4)
    BY <1>1, BigEndianTyped
  <1>3. d \in Seq(Byte) /\ Len(d) = 4
    BY <1>2 DEF AreBytesOf
  <1>4. PICK x : x = Packet(data)
    OBVIOUS
  <1>5. IsJoin(Byte, x, d, data)
    BY <1>1, <1>3, <1>4, Joined DEF Packet
  <1>6. /\ x \in Seq(Byte) /\ Len(x) = 4 + Len(data)
        /\ \A i \in 1 .. 4 : x[i] = d[i]
        /\ \A i \in 1 .. Len(data) : x[4 + i] = data[i]
    BY <1>3, <1>5 DEF IsJoin
  <1> QED BY <1>1, <1>4, <1>6 DEF IsPacket

LEMMA PacketsTyped ==
  ASSUME NEW q \in Seq(Seq(Byte))
  PROVE  /\ PacketsOf(q) \in Seq(Seq(Byte)) /\ Len(PacketsOf(q)) = Len(q)
         /\ \A i \in 1 .. Len(q) : PacketsOf(q)[i] = Packet(q[i]) /\ IsPacket(PacketsOf(q)[i], q[i])
  <1>1. DOMAIN q = 1 .. Len(q) /\ Len(q) \in Nat
    OBVIOUS
  <1>2. PICK t : t = PacketsOf(q)
    OBVIOUS
  <1>3. t = [i \in 1 .. Len(q) |-> Packet(q[i])]
    BY <1>1, <1>2 DEF PacketsOf
  <1>4. \A i \in 1 .. Len(q) : t[i] = Packet(q[i])
    BY <1>3
  <1>5. ASSUME NEW i \in 1 .. Len(q)
        PROVE  IsPacket(t[i], q[i]) /\ t[i] \in Seq(Byte)
    <2>1. q[i] \in Seq(Byte)
      BY ElementOfSeq
    <2>2. IsPacket(Packet(q[i]), q[i])
      BY <2>1, PacketTyped
    <2>3. IsPacket(t[i], q[i])
      BY <1>4, <2>2
    <2> QED BY <2>3 DEF IsPacket
  <1>6. t \in [1 .. Len(q) -> Seq(Byte)]
    BY <1>3, <1>5
  <1>7. t \in Seq(Seq(Byte)) /\ Len(t) = Len(q)
    BY <1>1, <1>6
  <1> QED BY <1>2, <1>4, <1>5, <1>7

\* What bytes of a stream tell of one of its packets.
AtPacket(b, q, f, i) ==
    LET p == Len(f[i - 1])
    IN  /\ p \in Nat /\ Len(f[i]) \in Nat /\ Len(q[i]) \in Nat
        /\ Len(f[i]) = (p + 4) + Len(q[i])
        /\ p + 4 <= Len(b) => Number(SubSeq(b, p + 1, p + 4)) = Len(q[i])
        /\ Len(f[i]) <= Len(b) => SubSeq(b, p + 5, Len(f[i])) = q[i]

LEMMA PacketRead ==
  ASSUME NEW q, Carried(q), NEW f, Parts(f, PacketsOf(q)),
         NEW b, Begins(b, f[Len(q)]), NEW i \in 1 .. Len(q)
  PROVE  AtPacket(b, q, f, i)
  <1>1. q \in Seq(Seq(Byte)) /\ DOMAIN q = 1 .. Len(q) /\ Len(q) \in Nat /\ q[i] \in Seq(Byte)
        /\ Len(q[i]) \in Nat /\ IsU32(Len(q[i]))
    BY ElementOfSeq DEF Carried
  <1>2. PICK t, c, x, p : t = PacketsOf(q) /\ c = f[Len(q)] /\ x = q[i] /\ p = Len(f[i - 1])
    OBVIOUS
  <1>3. t \in Seq(Seq(Byte)) /\ Len(t) = Len(q) /\ IsPacket(t[i], x)
    BY <1>1, <1>2, PacketsTyped
  <1>4. /\ Len(f[i]) = Len(f[i - 1]) + Len(t[i])
        /\ Len(f[i - 1]) \in Nat /\ Len(f[i]) \in Nat
        /\ \A k \in 1 .. Len(t[i]) : f[Len(t)][Len(f[i - 1]) + k] = t[i][k]
    <2>1. Parts(f, t) /\ i \in 1 .. Len(t)
      BY <1>2, <1>3
    <2>2. IsPartAt(f, t, i)
      BY <1>3, <2>1, PartAt
    <2> QED BY <2>2 DEF IsPartAt
  <1>5. /\ Len(f[i]) = (p + 4) + Len(x) /\ p \in Nat /\ Len(x) \in Nat
        /\ \A k \in 1 .. 4 + Len(x) : c[p + k] = t[i][k]
        /\ \A k \in 1 .. 4 : t[i][k] = BigEndian(Len(x), 4)[k]
        /\ \A k \in 1 .. Len(x) : t[i][4 + k] = x[k]
    <2>1. /\ Len(t[i]) = 4 + Len(x)
          /\ \A k \in 1 .. 4 : t[i][k] = BigEndian(Len(x), 4)[k]
          /\ \A k \in 1 .. Len(x) : t[i][4 + k] = x[k]
      BY <1>3 DEF IsPacket
    <2>2. Len(f[i]) = p + Len(t[i]) /\ p \in Nat /\ Len(x) \in Nat
      BY <1>1, <1>2, <1>4
    <2>3. Len(f[i]) = (p + 4) + Len(x)
      BY <2>1, <2>2
    <2>4. \A k \in 1 .. Len(t[i]) : c[p + k] = t[i][k]
      BY <1>2, <1>3, <1>4
    <2> QED BY <2>1, <2>2, <2>3, <2>4
  <1>6. b \in Seq(Byte) /\ Len(b) \in Nat /\ Len(b) <= Len(c) /\ \A k \in 1 .. Len(b) : b[k] = c[k]
    BY <1>2 DEF Begins
  <1>7. ASSUME p + 4 <= Len(b)
        PROVE  Number(SubSeq(b, p + 1, p + 4)) = Len(x)
    <2>1. PICK d, e : d = SubSeq(b, p + 1, p + 4) /\ e = BigEndian(Len(x), 4)
      OBVIOUS
    <2>2. IsPiece(Byte, d, b, p, 4)
      BY <1>5, <1>6, <1>7, <2>1, Piece
    <2>3. d \in Seq(Byte) /\ Len(d) = 4 /\ \A k \in 1 .. 4 : d[k] = b[p + k]
      BY <2>2 DEF IsPiece
    <2>4. AreBytesOf(e, Len(x), 4)
      BY <1>5, <2>1, BigEndianTyped
    <2>5. e \in Seq(Byte) /\ Len(e) = 4
      BY <2>4 DEF AreBytesOf
    <2>6. \A k \in 1 .. 4 : k \in 1 .. 4 + Len(x) /\ p + k \in 1 .. Len(b)
      BY <1>5, <1>6, <1>7
    <2>7. \A k \in 1 .. 4 : d[k] = e[k]
      BY <1>5, <1>6, <2>1, <2>3, <2>6
    <2>8. d = e
      BY <2>3, <2>5, <2>7, SeqEqual
    <2>9. Number(e) = Len(x)
      <3>1. Len(x) \in Nat /\ Len(x) \div Weights[4] < 256
        BY <1>1, <1>2 DEF IsU32
      <3> QED BY <2>1, <3>1, NumberBack
    <2> QED BY <2>1, <2>8, <2>9
  <1>8. ASSUME Len(f[i]) <= Len(b)
        PROVE  SubSeq(b, p + 5, Len(f[i])) = x
    <2>1. PICK d, k : d = SubSeq(b, p + 5, Len(f[i])) /\ k = p + 4
      OBVIOUS
    <2>2. k \in Nat /\ k + 1 = p + 5 /\ k + Len(x) = Len(f[i]) /\ k + Len(x) <= Len(b)
      BY <1>5, <1>6, <1>8, <2>1
    <2>3. IsPiece(Byte, SubSeq(b, k + 1, k + Len(x)), b, k, Len(x))
      BY <1>5, <1>6, <2>2, Piece
    <2>4. d = SubSeq(b, k + 1, k + Len(x))
      BY <2>1, <2>2
    <2>5. d \in Seq(Byte) /\ Len(d) = Len(x) /\ \A j \in 1 .. Len(x) : d[j] = b[k + j]
      BY <2>3, <2>4 DEF IsPiece
    <2>6. ASSUME NEW j \in 1 .. Len(x)
          PROVE  d[j] = x[j]
      <3>1. 4 + j \in 1 .. 4 + Len(x) /\ k + j \in 1 .. Len(b) /\ p + (4 + j) = k + j
        BY <1>5, <1>6, <2>1, <2>2
      <3>2. c[p + (4 + j)] = t[i][4 + j] /\ t[i][4 + j] = x[j]
        BY <1>5, <3>1
      <3> QED BY <1>6, <2>5, <3>1, <3>2
    <2>7. x \in Seq(Byte) /\ \A j \in 1 .. Len(d) : d[j] = x[j]
      BY <1>1, <1>2, <2>5, <2>6
    <2>8. d = x
      BY <2>5, <2>7, SeqEqual
    <2> QED BY <2>1, <2>8
  <1> QED BY <1>1, <1>2, <1>4, <1>5, <1>7, <1>8 DEF AtPacket

\* A packet takes four bytes at least.
LEMMA PacketsTakeFour ==
  ASSUME NEW q, Carried(q), NEW f, Parts(f, PacketsOf(q)),
         NEW b, Begins(b, f[Len(q)])
  PROVE  \A n \in 0 .. Len(q) : Len(f[n]) \in Nat /\ 4 * n <= Len(f[n])
  <1> DEFINE T == {n \in Nat : Len(f[n]) \in Nat /\ 4 * n <= Len(f[n])}
  <1>0. Len(q) \in Nat
    BY DEF Carried
  <1>1. 0 \in T
    <2>1. f[0] = <<>> /\ Len(<<>>) = 0
      BY DEF Parts
    <2> QED BY <2>1
  <1>2. ASSUME NEW n \in 0 .. Len(q) - 1, n \in T
        PROVE  n + 1 \in T
    <2>1. n + 1 \in 1 .. Len(q) /\ (n + 1) - 1 = n /\ n + 1 \in Nat /\ n \in Nat
      BY <1>0
    <2>2. AtPacket(b, q, f, n + 1)
      BY <2>1, PacketRead
    <2>3. /\ Len(f[n + 1]) = (Len(f[n]) + 4) + Len(q[n + 1]) /\ Len(f[n]) \in Nat
          /\ Len(f[n + 1]) \in Nat /\ Len(q[n + 1]) \in Nat
      BY <2>1, <2>2 DEF AtPacket
    <2>4. 4 * n <= Len(f[n])
      BY <1>2
    <2>5. 4 * (n + 1) <= Len(f[n + 1])
      <3>1. \A x, y, z \in Nat : x = (y + 4) + z /\ 4 * n <= y => 4 * (n + 1) <= x
        BY <2>1
      <3> QED BY <2>3, <2>4, <3>1
    <2> QED BY <2>1, <2>3, <2>5
  <1>3. \A n \in 0 .. Len(q) : n \in T
    <2> HIDE DEF T
    <2> QED BY <1>0, <1>1, <1>2, Ascending
  <1> QED BY <1>3

\* The packets that are complete in the beginning of a stream.
Completes(b, q, f, n) ==
    /\ n \in 0 .. Len(q)
    /\ Len(f[n]) <= Len(b)
    /\ n < Len(q) => Len(b) < Len(f[n + 1])

LEMMA FramesOf ==
  ASSUME NEW q, Carried(q), NEW f, Parts(f, PacketsOf(q)),
         NEW b, Begins(b, f[Len(q)]), NEW n, Completes(b, q, f, n)
  PROVE  Frames(b) = SubSeq(q, 1, n)
  <1>0. /\ b \in Seq(Byte) /\ Len(b) \in Nat /\ Len(b) <= Len(f[Len(q)])
        /\ Len(q) \in Nat /\ n \in Nat /\ n <= Len(q) /\ n \in 0 .. Len(q) /\ q \in Seq(Seq(Byte))
    BY DEF Begins, Carried, Completes
  <1>1. PICK D : D = Len(b) \div 4
    OBVIOUS
  <1>2. D \in Nat /\ \A m \in Nat : 4 * m <= Len(b) => m <= D
    BY <1>0, <1>1
  <1>3. PICK end : AreEnds(end, b) /\ Frames(b) = FramesBy(end, b)
    BY <1>0, FramesAre
  <1>4. end \in [0 .. D -> 0 .. Len(b) + 1] /\ end[0] = 0
    BY <1>1, <1>3 DEF AreEnds
  <1>5. ASSUME NEW m \in 1 .. D, NEW p, p = end[m - 1], NEW l, l = Number(SubSeq(b, p + 1, p + 4))
        PROVE  end[m] = IF p + 4 > Len(b) \/ (p + 4) + l > Len(b) THEN Len(b) + 1 ELSE (p + 4) + l
    BY <1>1, <1>3, <1>5 DEF AreEnds
  <1>6. \A m \in 0 .. Len(q) : Len(f[m]) \in Nat /\ 4 * m <= Len(f[m])
    BY PacketsTakeFour
  <1>7. \A m \in 0 .. n : Len(f[m]) <= Len(b) /\ Len(f[m]) <= Len(f[n])
    <2>1. ASSUME NEW m \in 0 .. n
          PROVE  Len(f[m]) <= Len(b) /\ Len(f[m]) <= Len(f[n])
      <3>1. PICK t : t = PacketsOf(q)
        OBVIOUS
      <3>2. t \in Seq(Seq(Byte)) /\ Len(t) = Len(q) /\ Parts(f, t)
        BY <1>0, <3>1, PacketsTyped
      <3>3. m \in 0 .. Len(t) /\ n \in m .. Len(t)
        BY <1>0, <3>2
      <3>4. Len(f[m]) <= Len(f[n])
        BY <3>2, <3>3, PartsGrow
      <3>5. m \in 0 .. Len(q) /\ Len(f[n]) <= Len(b)
        BY <1>0 DEF Completes
      <3> QED BY <1>0, <1>6, <3>4, <3>5
    <2> QED BY <2>1
  <1>8. n <= D
    <2>1. 4 * n <= Len(f[n]) /\ Len(f[n]) <= Len(b) /\ Len(f[n]) \in Nat
      <3>1. n \in 0 .. n
        BY <1>0
      <3> QED BY <1>0, <1>6, <1>7, <3>1
    <2>2. 4 * n <= Len(b)
      BY <1>0, <2>1
    <2> QED BY <1>0, <1>2, <2>2
  <1> DEFINE T == {m \in Nat : end[m] = Len(f[m])}
  <1>9. \A m \in 0 .. n : end[m] = Len(f[m])
    <2>1. 0 \in T
      <3>1. f[0] = <<>> /\ Len(<<>>) = 0
        BY DEF Parts
      <3> QED BY <1>4, <3>1
    <2>2. ASSUME NEW m \in 0 .. n - 1, m \in T
          PROVE  m + 1 \in T
      <3>1. m + 1 \in 1 .. Len(q) /\ m + 1 \in 0 .. n /\ (m + 1) - 1 = m /\ m + 1 \in Nat /\ m + 1 \in 1 .. D
        BY <1>0, <1>2, <1>8
      <3>2. PICK p, l : p = Len(f[m]) /\ l = Number(SubSeq(b, p + 1, p + 4))
        OBVIOUS
      <3>3. AtPacket(b, q, f, m + 1)
        BY <3>1, PacketRead
      <3>4. /\ p \in Nat /\ Len(q[m + 1]) \in Nat /\ Len(f[m + 1]) = (p + 4) + Len(q[m + 1])
            /\ p + 4 <= Len(b) => l = Len(q[m + 1])
        BY <3>1, <3>2, <3>3 DEF AtPacket
      <3>5. Len(f[m + 1]) <= Len(b)
        BY <1>7, <3>1
      <3>10. PICK x, y, z : x = Len(f[m + 1]) /\ y = Len(q[m + 1]) /\ z = Len(b)
        OBVIOUS
      <3>11. p \in Nat /\ y \in Nat /\ z \in Nat /\ x = (p + 4) + y /\ x <= z
        BY <1>0, <3>4, <3>5, <3>10
      <3>6. p + 4 <= z /\ l = y
        <4>1. p + 4 <= z
          BY <3>11
        <4> QED BY <3>4, <3>10, <4>1
      <3>7. end[m] = p
        BY <2>2, <3>2
      <3>8. end[m + 1] = IF p + 4 > Len(b) \/ (p + 4) + l > Len(b) THEN Len(b) + 1 ELSE (p + 4) + l
        BY <1>5, <3>1, <3>2, <3>7
      <3>9. end[m + 1] = Len(f[m + 1])
        <4>1. end[m + 1] = IF p + 4 > z \/ (p + 4) + y > z THEN z + 1 ELSE (p + 4) + y
          BY <3>6, <3>8, <3>10
        <4>2. end[m + 1] = x
          BY <3>6, <3>11, <4>1
        <4> QED BY <3>10, <4>2
      <3> QED BY <3>1, <3>9
    <2>3. \A m \in 0 .. n : m \in T
      <3> HIDE DEF T
      <3> QED BY <1>0, <2>1, <2>2, Ascending
    <2> QED BY <2>3
  <1>10. n < D => end[n + 1] = Len(b) + 1
    <2> SUFFICES ASSUME n < D
                 PROVE  end[n + 1] = Len(b) + 1
      OBVIOUS
    <2>1. n + 1 \in 1 .. D /\ (n + 1) - 1 = n
      BY <1>0, <1>2
    <2>2. PICK p, l : p = Len(f[n]) /\ l = Number(SubSeq(b, p + 1, p + 4))
      OBVIOUS
    <2>3. end[n] = p /\ p \in Nat
      <3>1. n \in 0 .. n /\ n \in 0 .. Len(q)
        BY <1>0
      <3> QED BY <1>6, <1>9, <2>2, <3>1
    <2>4. end[n + 1] = IF p + 4 > Len(b) \/ (p + 4) + l > Len(b) THEN Len(b) + 1 ELSE (p + 4) + l
      BY <1>5, <2>1, <2>2, <2>3
    <2>5. CASE n = Len(q)
      <3>1. Len(b) <= p
        BY <1>0, <2>2, <2>5
      <3> QED BY <1>0, <2>3, <2>4, <3>1
    <2>6. CASE n # Len(q)
      <3>1. n + 1 \in 1 .. Len(q) /\ n < Len(q)
        BY <1>0, <2>6
      <3>2. AtPacket(b, q, f, n + 1) /\ Len(b) < Len(f[n + 1])
        BY <3>1, PacketRead DEF Completes
      <3>3. /\ Len(q[n + 1]) \in Nat /\ Len(f[n + 1]) = (p + 4) + Len(q[n + 1])
            /\ p + 4 <= Len(b) => l = Len(q[n + 1])
        BY <2>1, <2>2, <3>2 DEF AtPacket
      <3>4. PICK x, y, z : x = Len(f[n + 1]) /\ y = Len(q[n + 1]) /\ z = Len(b)
        OBVIOUS
      <3>5. /\ y \in Nat /\ z \in Nat /\ x = (p + 4) + y /\ z < x
            /\ p + 4 <= z => l = y
        BY <1>0, <3>2, <3>3, <3>4
      <3>6. p + 4 > z \/ (p + 4) + l > z
        BY <2>3, <3>5
      <3> QED BY <2>4, <3>4, <3>6
    <2> QED BY <2>5, <2>6
  <1> DEFINE U == {m \in Nat : end[m] = Len(b) + 1}
  <1>11. \A m \in n + 1 .. D : end[m] = Len(b) + 1
    <2> SUFFICES ASSUME n < D
                 PROVE  \A m \in n + 1 .. D : m \in U
      BY <1>0, <1>2
    <2>1. n + 1 \in U /\ n + 1 \in Nat /\ n + 1 <= D
      BY <1>0, <1>2, <1>10
    <2>2. ASSUME NEW m \in n + 1 .. D - 1, m \in U
          PROVE  m + 1 \in U
      <3>1. m + 1 \in 1 .. D /\ (m + 1) - 1 = m /\ m + 1 \in Nat
        BY <1>0, <1>2
      <3>2. PICK p, l : p = Len(b) + 1 /\ l = Number(SubSeq(b, p + 1, p + 4))
        OBVIOUS
      <3>3. end[m] = p
        BY <2>2, <3>2
      <3>4. end[m + 1] = IF p + 4 > Len(b) \/ (p + 4) + l > Len(b) THEN Len(b) + 1 ELSE (p + 4) + l
        BY <1>5, <3>1, <3>2, <3>3
      <3>5. end[m + 1] = Len(b) + 1
        BY <1>0, <3>2, <3>4
      <3> QED BY <3>1, <3>5
    <2> HIDE DEF U
    <2> QED BY <1>0, <1>2, <2>1, <2>2, Ascending
  <1>12. {m \in 1 .. D : end[m] < Len(b) + 1} = 1 .. n
    <2>1. ASSUME NEW m \in 1 .. n
          PROVE  m \in 1 .. D /\ end[m] < Len(b) + 1
      <3>1. m \in 0 .. n /\ m \in 0 .. Len(q) /\ m \in 1 .. D
        BY <1>0, <1>2, <1>8
      <3>2. end[m] = Len(f[m]) /\ Len(f[m]) \in Nat /\ Len(f[m]) <= Len(b)
        BY <1>6, <1>7, <1>9, <3>1
      <3> QED BY <1>0, <3>1, <3>2
    <2>2. ASSUME NEW m \in 1 .. D, end[m] < Len(b) + 1
          PROVE  m \in 1 .. n
      <3>1. m \in n + 1 .. D => FALSE
        BY <1>0, <1>11, <2>2
      <3> QED BY <1>0, <1>2, <3>1
    <2> QED BY <2>1, <2>2
  <1>13. Frames(b) = [m \in 1 .. n |-> SubSeq(b, end[m - 1] + 5, end[m])]
    BY <1>1, <1>3, <1>12 DEF FramesBy
  <1>14. ASSUME NEW m \in 1 .. n
         PROVE  SubSeq(b, end[m - 1] + 5, end[m]) = q[m]
    <2>1. m \in 1 .. Len(q) /\ m \in 0 .. n /\ m - 1 \in 0 .. n
      BY <1>0
    <2>2. AtPacket(b, q, f, m)
      BY <2>1, PacketRead
    <2>3. Len(f[m]) <= Len(b) /\ end[m] = Len(f[m]) /\ end[m - 1] = Len(f[m - 1])
      BY <1>7, <1>9, <2>1
    <2> QED BY <2>2, <2>3 DEF AtPacket
  <1>15. Frames(b) = [m \in 1 .. n |-> q[m]]
    BY <1>13, <1>14
  <1>16. SubSeq(q, 1, n) = [m \in 1 .. n |-> q[m]]
    <2>1. \A m \in 1 .. n : q[m] \in Seq(Byte)
      BY <1>0, ElementOfSeq
    <2>2. PICK s : s = SubSeq(q, 1, n)
      OBVIOUS
    <2>3. IsPiece(Seq(Byte), SubSeq(q, 0 + 1, 0 + n), q, 0, n)
      <3>1. 0 + n <= Len(q)
        BY <1>0
      <3> QED BY <1>0, <3>1, Piece
    <2>4. 0 + 1 = 1 /\ 0 + n = n /\ \A m \in 1 .. n : 0 + m = m
      BY <1>0
    <2>5. s \in Seq(Seq(Byte)) /\ Len(s) = n /\ \A m \in 1 .. n : s[m] = q[m]
      BY <2>2, <2>3, <2>4 DEF IsPiece
    <2>6. s = [m \in 1 .. Len(s) |-> s[m]]
      BY <2>5
    <2> QED BY <2>2, <2>5, <2>6
  <1> QED BY <1>15, <1>16

-----------------------------------------------------------------------------
(* Zeros, and where fields start *)

IsLeast(m, T) == m \in T /\ \A x \in T : m <= x
IsGreatest(m, T) == m \in T /\ \A x \in T : x <= m

LEMMA MinIs ==
  ASSUME NEW T \in SUBSET Nat, T # {}
  PROVE  IsLeast(Min(T), T)
  <1>1. \E m \in T : \A x \in T : m <= x
    BY LeastNatural
  <1> QED BY <1>1 DEF Min, IsLeast

LEMMA LeastIsMin ==
  ASSUME NEW T \in SUBSET Nat, NEW m, IsLeast(m, T)
  PROVE  Min(T) = m
  <1>1. T # {}
    BY DEF IsLeast
  <1>2. IsLeast(Min(T), T)
    BY <1>1, MinIs
  <1>3. PICK x : x = Min(T)
    OBVIOUS
  <1>4. x \in T /\ m \in T /\ m <= x /\ x <= m
    BY <1>2, <1>3 DEF IsLeast
  <1>5. x \in Int /\ m \in Int
    BY <1>4
  <1>6. x = m
    BY <1>4, <1>5
  <1> QED BY <1>3, <1>6

LEMMA MaxIs ==
  ASSUME NEW b \in Nat, NEW T \in SUBSET (0 .. b), T # {}
  PROVE  IsGreatest(Max(T), T)
  <1> DEFINE U == {y \in Nat : y \in 0 .. b /\ b - y \in T}
  <1>1. U \in SUBSET Nat /\ U # {}
    <2>1. PICK x \in T : TRUE
      OBVIOUS
    <2>2. b - x \in Nat /\ b - x \in 0 .. b /\ b - (b - x) = x
      OBVIOUS
    <2>3. b - x \in U
      BY <2>2
    <2> QED BY <2>3
  <1>2. PICK n \in U : \A m \in U : n <= m
    <2> HIDE DEF U
    <2> QED BY <1>1, LeastNatural
  <1>3. b - n \in T /\ n \in 0 .. b
    BY <1>2
  <1>4. ASSUME NEW x \in T
        PROVE  x <= b - n
    <2>1. b - x \in Nat /\ b - x \in 0 .. b /\ b - (b - x) = x
      OBVIOUS
    <2>2. n <= b - x
      BY <1>2, <2>1
    <2> QED BY <1>3, <2>2
  <1>5. \E m \in T : \A x \in T : m >= x
    <2>1. \A x \in T : b - n >= x
      BY <1>3, <1>4
    <2> QED BY <1>3, <2>1
  <1>6. Max(T) \in T /\ \A x \in T : Max(T) >= x
    BY <1>5 DEF Max
  <1>7. \A x \in T : x <= Max(T)
    BY <1>6
  <1> QED BY <1>6, <1>7 DEF IsGreatest

LEMMA GreatestIsMax ==
  ASSUME NEW b \in Nat, NEW T \in SUBSET (0 .. b), NEW m, IsGreatest(m, T)
  PROVE  Max(T) = m
  <1>1. T # {}
    BY DEF IsGreatest
  <1>2. IsGreatest(Max(T), T)
    BY <1>1, MaxIs
  <1>3. PICK x : x = Max(T)
    OBVIOUS
  <1>4. x \in T /\ m \in T /\ m <= x /\ x <= m
    BY <1>2, <1>3 DEF IsGreatest
  <1>5. x \in Int /\ m \in Int
    BY <1>4
  <1>6. x = m
    BY <1>4, <1>5
  <1> QED BY <1>3, <1>6

Plain == {"u8", "u16", "u32", "string"}
FieldTypes == Plain \cup {"strings", "pairs", "body"}

LEMMA FieldEndTyped ==
  ASSUME NEW type \in FieldTypes, NEW data \in Seq(Byte), NEW p \in Nat
  PROVE  FieldEnd(type, data, p) \in Nat
  <1>0. Len(data) \in Nat
    OBVIOUS
  <1>1. PICK zeros, b : zeros = ZerosFrom(data, p) /\ b = Len(data) + p
    OBVIOUS
  <1>2. zeros \in SUBSET (0 .. b) /\ b \in Nat /\ zeros \in SUBSET Nat
    BY <1>0, <1>1 DEF ZerosFrom
  <1>3. CASE p = 0
    <2>1. FieldEnd(type, data, p) = 0
      BY <1>3 DEF FieldEnd
    <2> QED BY <2>1
  <1>4. CASE p # 0 /\ type \in {"u8", "u16", "u32"}
    <2>1. FieldEnd(type, data, p) = IF p + Size(type) > Len(data) + 1 THEN 0 ELSE p + Size(type)
      BY <1>4 DEF FieldEnd
    <2>2. Size(type) \in Nat
      BY <1>4 DEF Size
    <2>3. p + Size(type) \in Nat
      BY <2>2
    <2> QED BY <2>1, <2>3
  <1>5. CASE p # 0 /\ type = "string"
    <2>1. FieldEnd(type, data, p) = IF zeros = {} THEN 0 ELSE Min(zeros) + 1
      BY <1>1, <1>5 DEF FieldEnd
    <2>2. zeros # {} => Min(zeros) \in Nat
      <3>1. zeros # {} => IsLeast(Min(zeros), zeros)
        BY <1>2, MinIs
      <3> QED BY <1>2, <3>1 DEF IsLeast
    <2> QED BY <2>1, <2>2
  <1>6. CASE p # 0 /\ type = "strings"
    <2>1. FieldEnd(type, data, p) = IF zeros = {} THEN 0 ELSE Max(zeros) + 1
      BY <1>1, <1>6 DEF FieldEnd
    <2>2. zeros # {} => Max(zeros) \in Nat
      <3>1. zeros # {} => IsGreatest(Max(zeros), zeros)
        BY <1>2, MaxIs
      <3> QED BY <1>2, <3>1 DEF IsGreatest
    <2> QED BY <2>1, <2>2
  <1>7. CASE p # 0 /\ type = "pairs"
    <2>1. FieldEnd(type, data, p) =
             Max((IF Cardinality(zeros) % 2 = 0 THEN zeros ELSE zeros \ {Max(zeros)}) \cup {p - 1}) + 1
      BY <1>1, <1>7 DEF FieldEnd
    <2>2. p - 1 \in 0 .. b
      BY <1>0, <1>1, <1>7
    <2>3. \A T \in SUBSET (0 .. b) : T # {} => Max(T) \in Nat
      <3> SUFFICES ASSUME NEW T \in SUBSET (0 .. b), T # {}
                   PROVE  Max(T) \in Nat
        OBVIOUS
      <3>1. IsGreatest(Max(T), T)
        BY <1>2, MaxIs
      <3>2. Max(T) \in 0 .. b
        BY <3>1 DEF IsGreatest
      <3> QED BY <3>2
    <2>4. PICK V : V = (IF Cardinality(zeros) % 2 = 0 THEN zeros ELSE zeros \ {Max(zeros)}) \cup {p - 1}
      OBVIOUS
    <2>5. V \in SUBSET (0 .. b) /\ V # {}
      BY <1>2, <2>2, <2>4
    <2>6. Max(V) \in Nat
      BY <2>3, <2>5
    <2>7. FieldEnd(type, data, p) = Max(V) + 1
      BY <2>1, <2>4
    <2> QED BY <2>6, <2>7
  <1>8. CASE p # 0 /\ type = "body"
    <2>1. FieldEnd(type, data, p) = Len(data) + 1
      BY <1>8 DEF FieldEnd
    <2> QED BY <1>0, <2>1
  <1> QED BY <1>3, <1>4, <1>5, <1>6, <1>7, <1>8 DEF FieldTypes, Plain

AreStarts(start, types, data) ==
    /\ start \in [0 .. Len(types) -> Nat] /\ start[0] = 2
    /\ \A k \in 1 .. Len(types) : start[k] = FieldEnd(types[k], data, start[k - 1])

\* The function start of FieldStarts.
IsStart(start, types, data) ==
    start = [k \in 0 .. Len(types) |-> IF k = 0 THEN 2 ELSE FieldEnd(types[k], data, start[k - 1])]

LEMMA StartExists ==
  ASSUME NEW types \in Seq(FieldTypes), NEW data \in Seq(Byte)
  PROVE  \E start : IsStart(start, types, data)
  <1>0. Len(types) \in Nat /\ 0 <= Len(types) /\ 0 + 1 = 1 /\ 2 \in Nat
    OBVIOUS
  <1> DEFINE Turn == [k \in 1 .. Len(types) |-> [p \in Nat |-> FieldEnd(types[k], data, p)]]
  <1>1. Turn \in [1 .. Len(types) -> [Nat -> Nat]]
    <2>1. ASSUME NEW k \in 1 .. Len(types), NEW p \in Nat
          PROVE  FieldEnd(types[k], data, p) \in Nat
      <3>1. types[k] \in FieldTypes
        BY ElementOfSeq
      <3> QED BY <3>1, FieldEndTyped
    <2> QED BY <2>1
  <1>2. \E f : IsRecursion(f, Nat, 0, Len(types), 2, Turn)
    <2> HIDE DEF Turn
    <2> QED BY <1>0, <1>1, RecursionExists
  <1>3. PICK f : IsRecursion(f, Nat, 0, Len(types), 2, Turn)
    BY <1>2
  <1>4. f \in [0 .. Len(types) -> Nat] /\ f[0] = 2 /\ \A k \in 1 .. Len(types) : f[k] = Turn[k][f[k - 1]]
    <2> HIDE DEF Turn
    <2> QED BY <1>0, <1>3 DEF IsRecursion
  <1>5. ASSUME NEW k \in 1 .. Len(types)
        PROVE  f[k] = FieldEnd(types[k], data, f[k - 1])
    <2>1. f[k - 1] \in Nat
      <3>1. k - 1 \in 0 .. Len(types)
        BY <1>0
      <3>2. f \in [0 .. Len(types) -> Nat]
        BY <1>4
      <3> QED BY <3>1, <3>2
    <2> QED BY <1>4, <2>1
  <1>6. \A k \in 0 .. Len(types) : k # 0 => k \in 1 .. Len(types)
    BY <1>0
  <1>7. \A k \in 0 .. Len(types) : f[k] = IF k = 0 THEN 2 ELSE FieldEnd(types[k], data, f[k - 1])
    BY <1>4, <1>5, <1>6
  <1>8. f = [k \in 0 .. Len(types) |-> IF k = 0 THEN 2 ELSE FieldEnd(types[k], data, f[k - 1])]
    <2>1. f = [k \in 0 .. Len(types) |-> f[k]]
      BY <1>4
    <2> QED BY <1>7, <2>1
  <1> QED BY <1>8 DEF IsStart

LEMMA StartsAre ==
  ASSUME NEW types \in Seq(FieldTypes), NEW data \in Seq(Byte)
  PROVE  AreStarts(FieldStarts(types, data), types, data)
  <1>0. Len(types) \in Nat /\ 0 \in 0 .. Len(types)
    OBVIOUS
  <1>1. PICK start : start = CHOOSE s : IsStart(s, types, data)
    OBVIOUS
  <1>2. IsStart(start, types, data)
    BY <1>1, StartExists
  <1>3. FieldStarts(types, data) = start
    BY <1>1 DEF FieldStarts, IsStart
  <1>4. \A k \in 0 .. Len(types) : start[k] = IF k = 0 THEN 2 ELSE FieldEnd(types[k], data, start[k - 1])
    BY <1>2 DEF IsStart
  <1>5. start[0] = 2 /\ \A k \in 1 .. Len(types) : start[k] = FieldEnd(types[k], data, start[k - 1])
    <2>1. \A k \in 1 .. Len(types) : k \in 0 .. Len(types) /\ k # 0
      BY <1>0
    <2> QED BY <1>0, <1>4, <2>1
  <1> DEFINE T == {k \in Nat : start[k] \in Nat}
  <1>6. \A k \in 0 .. Len(types) : k \in T
    <2>1. 0 \in T
      BY <1>5
    <2>2. ASSUME NEW k \in 0 .. Len(types) - 1, k \in T
          PROVE  k + 1 \in T
      <3>1. k + 1 \in 1 .. Len(types) /\ (k + 1) - 1 = k /\ k + 1 \in Nat
        BY <1>0
      <3>2. types[k + 1] \in FieldTypes
        BY <3>1, ElementOfSeq
      <3>3. start[k] \in Nat
        BY <2>2
      <3>4. start[k + 1] = FieldEnd(types[k + 1], data, start[k])
        BY <1>5, <3>1
      <3>5. start[k + 1] \in Nat
        BY <3>2, <3>3, <3>4, FieldEndTyped
      <3> QED BY <3>1, <3>5
    <2> HIDE DEF T
    <2> QED BY <1>0, <2>1, <2>2, Ascending
  <1>7. start \in [0 .. Len(types) -> Nat]
    <2>1. start = [k \in 0 .. Len(types) |-> start[k]]
      BY <1>2 DEF IsStart
    <2>2. \A k \in 0 .. Len(types) : start[k] \in Nat
      BY <1>6
    <2> QED BY <2>1, <2>2
  <1> QED BY <1>3, <1>5, <1>7 DEF AreStarts

-----------------------------------------------------------------------------
(* What the MTA sends *)

LEMMA LayoutTyped ==
  ASSUME NEW kind \in Kinds
  PROVE  /\ Layout(kind) \in Seq(FieldTypes)
         /\ \A k \in 1 .. Len(Layout(kind)) - 1 : Layout(kind)[k] \in Plain
  <1>1. PICK types : types = Layout(kind)
    OBVIOUS
  <1>2. CASE kind = "Optneg"
    <2>1. types = <<"u32", "u32", "u32">>
      BY <1>1, <1>2 DEF Layout
    <2> QED BY <1>1, <2>1 DEF FieldTypes, Plain
  <1>3. CASE kind = "Macro"
    <2>1. types = <<"u8", "pairs">>
      BY <1>1, <1>3 DEF Layout
    <2> QED BY <1>1, <2>1 DEF FieldTypes, Plain
  <1>4. CASE kind = "Connect"
    <2>1. types = <<"string", "u8", "u16", "string">>
      BY <1>1, <1>4 DEF Layout
    <2> QED BY <1>1, <2>1 DEF FieldTypes, Plain
  <1>5. CASE kind = "Helo"
    <2>1. types = <<"string">>
      BY <1>1, <1>5 DEF Layout
    <2> QED BY <1>1, <2>1 DEF FieldTypes, Plain
  <1>6. CASE kind \in {"Mail", "Rcpt"}
    <2>1. types = <<"strings">>
      BY <1>1, <1>6 DEF Layout
    <2> QED BY <1>1, <2>1 DEF FieldTypes, Plain
  <1>7. CASE kind = "Header"
    <2>1. types = <<"string", "string">>
      BY <1>1, <1>7 DEF Layout
    <2> QED BY <1>1, <2>1 DEF FieldTypes, Plain
  <1>8. CASE kind = "Body"
    <2>1. types = <<"body">>
      BY <1>1, <1>8 DEF Layout
    <2> QED BY <1>1, <2>1 DEF FieldTypes, Plain
  <1>9. CASE kind \notin {"Optneg", "Macro", "Connect", "Helo", "Mail", "Rcpt", "Header", "Body"}
    <2>1. types = <<>>
      BY <1>1, <1>9 DEF Layout
    <2> QED BY <1>1, <2>1
  <1> QED BY <1>2, <1>3, <1>4, <1>5, <1>6, <1>7, <1>8, <1>9

LEMMA LettersApart ==
  /\ \A kind \in Kinds : Letters[kind] \in Byte
  /\ \A k, l \in Kinds : Letters[k] = Letters[l] => k = l
  BY DEF Kinds, Letters, Byte

IsZeroed(z, s) ==
    /\ z \in Seq(Byte) /\ Len(z) = Len(s) + 1 /\ Len(s) \in Nat
    /\ z[Len(z)] = 0 /\ \A i \in 1 .. Len(s) : z[i] = s[i] /\ z[i] # 0

LEMMA ZeroTyped ==
  ASSUME NEW s \in Text
  PROVE  IsZeroed(Zero(s), s)
  <1>1. PICK z : z = Append(s, 0)
    OBVIOUS
  <1>2. s \in Seq(Byte) /\ 0 \in Byte /\ \A i \in 1 .. Len(s) : s[i] # 0
    <2>1. 0 \in Byte /\ (Byte \ {0}) \subseteq Byte
      BY DEF Byte
    <2>2. s \in Seq(Byte \ {0})
      BY DEF Text
    <2>3. s \in Seq(Byte)
      BY <2>1, <2>2, SeqMonotonic
    <2>4. \A i \in 1 .. Len(s) : s[i] \in Byte \ {0}
      BY <2>2, ElementOfSeq
    <2> QED BY <2>1, <2>3, <2>4
  <1>3. z \in Seq(Byte) /\ Len(z) = Len(s) + 1 /\ Len(s) \in Nat
    BY <1>1, <1>2
  <1>4. z[Len(s) + 1] = 0 /\ \A i \in 1 .. Len(s) : z[i] = s[i]
    BY <1>1, <1>2
  <1> QED BY <1>1, <1>2, <1>3, <1>4 DEF IsZeroed, Zero

Zeroed(v) == [i \in DOMAIN v |-> Zero(v[i])]

LEMMA ZeroedTyped ==
  ASSUME NEW v \in Seq(Text)
  PROVE  /\ Zeroed(v) \in Seq(Seq(Byte)) /\ Len(Zeroed(v)) = Len(v)
         /\ \A i \in 1 .. Len(v) : IsZeroed(Zeroed(v)[i], v[i])
  <1>1. DOMAIN v = 1 .. Len(v) /\ Len(v) \in Nat
    OBVIOUS
  <1>2. PICK t : t = Zeroed(v)
    OBVIOUS
  <1>3. t = [i \in 1 .. Len(v) |-> Zero(v[i])]
    BY <1>1, <1>2 DEF Zeroed
  <1>4. \A i \in 1 .. Len(v) : t[i] = Zero(v[i])
    BY <1>3
  <1>5. ASSUME NEW i \in 1 .. Len(v)
        PROVE  IsZeroed(t[i], v[i]) /\ t[i] \in Seq(Byte)
    <2>1. v[i] \in Text
      BY ElementOfSeq
    <2>2. IsZeroed(Zero(v[i]), v[i])
      BY <2>1, ZeroTyped
    <2>3. IsZeroed(t[i], v[i])
      BY <1>4, <2>2
    <2> QED BY <2>3 DEF IsZeroed
  <1>6. t \in [1 .. Len(v) -> Seq(Byte)]
    BY <1>3, <1>5
  <1>7. t \in Seq(Seq(Byte)) /\ Len(t) = Len(v)
    BY <1>1, <1>6
  <1> QED BY <1>2, <1>5, <1>7

LEMMA Flattened ==
  ASSUME NEW S, NEW s \in Seq(Seq(S))
  PROVE  FlattenSeq(s) \in Seq(S)
  <1>1. PICK f : Parts(f, s)
    BY PartsOf
  <1> QED BY <1>1, FlattenedParts

LEMMA FieldNumber ==
  ASSUME NEW type \in {"u8", "u16", "u32"}, NEW v, IsField(type, v)
  PROVE  v \in Nat /\ v \div Weights[Size(type)] < 256 /\ Size(type) \in {1, 2, 4}
  <1>0. Weights[1] = 1 /\ Weights[2] = 256
    BY DEF Weights
  <1>1. CASE type = "u8"
    <2>1. v \in Byte /\ Size(type) = 1
      BY <1>1 DEF IsField, Size
    <2>2. \A n \in Byte : n \in Nat /\ n \div 1 < 256
      BY DEF Byte
    <2> QED BY <1>0, <2>1, <2>2
  <1>2. CASE type = "u16"
    <2>1. v \in Nat /\ v \div 256 < 256 /\ Size(type) = 2
      BY <1>2 DEF IsField, Size
    <2> QED BY <1>0, <2>1
  <1>3. CASE type = "u32"
    <2>1. v \in Nat /\ v \div Weights[4] < 256 /\ Size(type) = 4
      BY <1>3 DEF IsField, IsU32, Size
    <2> QED BY <2>1
  <1> QED BY <1>1, <1>2, <1>3

LEMMA PutFieldTyped ==
  ASSUME NEW type \in FieldTypes, NEW v, IsField(type, v)
  PROVE  PutField(type, v) \in Seq(Byte)
  <1>0. \A n \in Nat, size \in {1, 2, 4} : BigEndian(n, size) \in Seq(Byte)
    <2>1. ASSUME NEW n \in Nat, NEW size \in {1, 2, 4}
          PROVE  BigEndian(n, size) \in Seq(Byte)
      <3>1. AreBytesOf(BigEndian(n, size), n, size)
        BY BigEndianTyped
      <3> QED BY <3>1 DEF AreBytesOf
    <2> QED BY <2>1
  <1>1. CASE type \in {"u8", "u16", "u32"}
    <2>1. PutField(type, v) = BigEndian(v, Size(type)) /\ Size(type) \in {1, 2, 4}
      BY <1>1 DEF PutField, Size
    <2>2. v \in Nat
      BY <1>1, FieldNumber
    <2> QED BY <1>0, <2>1, <2>2
  <1>2. CASE type = "string"
    <2>1. v \in Text /\ PutField(type, v) = Zero(v)
      BY <1>2 DEF IsField, PutField
    <2>2. IsZeroed(Zero(v), v)
      BY <2>1, ZeroTyped
    <2> QED BY <2>1, <2>2 DEF IsZeroed
  <1>3. CASE type \in {"strings", "pairs"}
    <2>1. v \in Seq(Text) /\ PutField(type, v) = FlattenSeq(Zeroed(v))
      BY <1>3 DEF IsField, PutField, Zeroed
    <2>2. Zeroed(v) \in Seq(Seq(Byte))
      BY <2>1, ZeroedTyped
    <2> QED BY <2>1, <2>2, Flattened
  <1>4. CASE type = "body"
    BY <1>4 DEF IsField, PutField
  <1> QED BY <1>1, <1>2, <1>3, <1>4 DEF FieldTypes, Plain

Known(c) == IF c.kind = "Connect" /\ c.fields[2] = UnknownFamily THEN 2 ELSE Len(c.fields)
PutsOf(c) == [i \in 1 .. Known(c) |-> PutField(Layout(c.kind)[i], c.fields[i])]

CommandShape(c, types) ==
    /\ types = Layout(c.kind) /\ c.kind \in Kinds /\ types \in Seq(FieldTypes)
    /\ Len(types) \in Nat /\ Len(c.fields) = Len(types)
    /\ Known(c) \in 0 .. Len(types)
    /\ c = Command(c.kind, [k \in 1 .. Len(types) |-> c.fields[k]])
    /\ \A k \in 1 .. Len(types) : types[k] \in FieldTypes /\ IsField(types[k], c.fields[k])

LEMMA CommandShaped ==
  ASSUME NEW c, IsCommand(c)
  PROVE  CommandShape(c, Layout(c.kind))
  <1>1. PICK types : types = Layout(c.kind)
    OBVIOUS
  <1>2. c.kind \in Kinds
    BY DEF IsCommand
  <1>3. types \in Seq(FieldTypes)
    BY <1>1, <1>2, LayoutTyped
  <1>4. DOMAIN types = 1 .. Len(types) /\ Len(types) \in Nat
    BY <1>3
  <1>5. c = Command(c.kind, [k \in 1 .. Len(types) |-> c.fields[k]])
        /\ \A k \in 1 .. Len(types) : IsField(types[k], c.fields[k])
    BY <1>1, <1>4 DEF IsCommand
  <1>6. c.fields = [k \in 1 .. Len(types) |-> c.fields[k]]
    BY <1>5 DEF Command
  <1>7. Len(c.fields) = Len(types)
    <2>1. PICK f, n : f = c.fields /\ n = Len(types)
      OBVIOUS
    <2>2. f = [k \in 1 .. n |-> f[k]] /\ n \in Nat
      BY <1>4, <1>6, <2>1
    <2>3. f \in [1 .. n -> {f[k] : k \in 1 .. n}]
      BY <2>2
    <2>4. Len(f) = n
      BY <2>2, <2>3
    <2> QED BY <2>1, <2>4
  <1>8. \A k \in 1 .. Len(types) : types[k] \in FieldTypes
    BY <1>3, ElementOfSeq
  <1>9. Known(c) \in 0 .. Len(types)
    <2>1. CASE c.kind = "Connect"
      <3>1. types = <<"string", "u8", "u16", "string">>
        BY <1>1, <2>1 DEF Layout
      <3>2. Len(types) = 4
        BY <3>1
      <3> QED BY <1>7, <3>2 DEF Known
    <2>2. CASE c.kind # "Connect"
      <3>1. Known(c) = Len(types)
        BY <1>7, <2>2 DEF Known
      <3> QED BY <1>4, <3>1
    <2> QED BY <2>1, <2>2
  <1> QED BY <1>1, <1>2, <1>3, <1>4, <1>5, <1>7, <1>8, <1>9 DEF CommandShape

LEMMA PutsTyped ==
  ASSUME NEW c, IsCommand(c)
  PROVE  PutsOf(c) \in Seq(Seq(Byte)) /\ Len(PutsOf(c)) = Known(c)
  <1>1. PICK types, n : types = Layout(c.kind) /\ n = Known(c)
    OBVIOUS
  <1>2. CommandShape(c, types)
    BY <1>1, CommandShaped
  <1>3. n \in 0 .. Len(types) /\ Len(types) \in Nat
    BY <1>1, <1>2 DEF CommandShape
  <1>4. \A k \in 1 .. n : PutField(types[k], c.fields[k]) \in Seq(Byte)
    <2>1. ASSUME NEW k \in 1 .. n
          PROVE  PutField(types[k], c.fields[k]) \in Seq(Byte)
      <3>1. k \in 1 .. Len(types)
        BY <1>3
      <3>2. types[k] \in FieldTypes /\ IsField(types[k], c.fields[k])
        BY <1>2, <3>1 DEF CommandShape
      <3> QED BY <3>2, PutFieldTyped
    <2> QED BY <2>1
  <1>5. PutsOf(c) = [k \in 1 .. n |-> PutField(types[k], c.fields[k])]
    BY <1>1 DEF PutsOf
  <1>6. PutsOf(c) \in [1 .. n -> Seq(Byte)]
    BY <1>4, <1>5
  <1>7. n \in Nat
    BY <1>3
  <1> QED BY <1>1, <1>6, <1>7

IsPayload(d, c) ==
    /\ IsJoin(Byte, d, <<Letters[c.kind]>>, FlattenSeq(PutsOf(c)))
    /\ d \in Seq(Byte) /\ IsU32(Len(d))

LEMMA PayloadTyped ==
  ASSUME NEW c, IsCommand(c)
  PROVE  IsPayload(Payload(c), c)
  <1>1. PICK d, l, r : d = Payload(c) /\ l = <<Letters[c.kind]>> /\ r = FlattenSeq(PutsOf(c))
    OBVIOUS
  <1>2. d = l \o r
    BY <1>1 DEF Payload, PutsOf, Known
  <1>3. l \in Seq(Byte)
    <2>1. Letters[c.kind] \in Byte
      BY LettersApart DEF IsCommand
    <2> QED BY <1>1, <2>1
  <1>4. r \in Seq(Byte)
    BY <1>1, PutsTyped, Flattened
  <1>5. IsJoin(Byte, d, l, r)
    BY <1>2, <1>3, <1>4, Joined
  <1>6. IsU32(Len(d))
    BY <1>1 DEF IsCommand
  <1> QED BY <1>1, <1>5, <1>6 DEF IsPayload, IsJoin

-----------------------------------------------------------------------------
(* Responses *)

OfLength(S, d, n) == d \in Seq(S) /\ Len(d) = n

LEMMA FunctionIsSeq ==
  ASSUME NEW S, NEW n \in Nat, NEW d \in [1 .. n -> S]
  PROVE  OfLength(S, d, n)
  BY DEF OfLength

LEMMA StringEndIs ==
  ASSUME NEW bytes \in Seq(Byte), NEW p \in Nat, NEW e \in p .. Len(bytes),
         bytes[e] = 0, \A i \in p .. e - 1 : bytes[i] # 0
  PROVE  StringEnd(bytes, p) = e
  <1>1. PICK T : T = ZerosFrom(bytes, p) \cup {Len(bytes) + 1}
    OBVIOUS
  <1>2. T \in SUBSET Nat
    BY <1>1 DEF ZerosFrom
  <1>3. e \in T
    BY <1>1 DEF ZerosFrom
  <1>4. \A x \in T : e <= x
    <2>1. ASSUME NEW x \in T, x < e
          PROVE  FALSE
      <3>1. x \in p .. Len(bytes) /\ bytes[x] = 0
        BY <1>1, <2>1 DEF ZerosFrom
      <3>2. x \in p .. e - 1
        BY <2>1, <3>1
      <3> QED BY <3>1, <3>2
    <2>2. \A x \in T : x \in Int
      BY <1>2
    <2> QED BY <2>1, <2>2
  <1>5. Min(T) = e
    BY <1>2, <1>3, <1>4, LeastIsMin DEF IsLeast
  <1> QED BY <1>1, <1>5 DEF StringEnd

LEMMA UpToZeroBack ==
  ASSUME NEW s \in Text
  PROVE  UpToZero(Zero(s)) = s
  <1>1. PICK z : z = Zero(s)
    OBVIOUS
  <1>2. IsZeroed(z, s)
    BY <1>1, ZeroTyped
  <1>3. /\ z \in Seq(Byte) /\ Len(z) = Len(s) + 1 /\ Len(s) \in Nat
        /\ z[Len(z)] = 0 /\ \A i \in 1 .. Len(s) : z[i] = s[i] /\ z[i] # 0
    BY <1>2 DEF IsZeroed
  <1>4. StringEnd(z, 1) = Len(z)
    <2>1. Len(z) \in 1 .. Len(z) /\ \A i \in 1 .. Len(z) - 1 : i \in 1 .. Len(s)
      BY <1>3
    <2> QED BY <1>3, <2>1, StringEndIs
  <1>5. PICK d : d = SubSeq(z, 0 + 1, 0 + Len(s))
    OBVIOUS
  <1>6. UpToZero(z) = d
    <2>1. Len(z) - 1 = 0 + Len(s) /\ 0 + 1 = 1
      BY <1>3
    <2> QED BY <1>4, <1>5, <2>1 DEF UpToZero
  <1>7. IsPiece(Byte, d, z, 0, Len(s))
    <2>1. 0 + Len(s) <= Len(z)
      BY <1>3
    <2> QED BY <1>3, <1>5, <2>1, Piece
  <1>8. d \in Seq(Byte) /\ Len(d) = Len(s) /\ \A i \in 1 .. Len(s) : d[i] = z[0 + i] /\ 0 + i = i
    BY <1>7 DEF IsPiece
  <1>9. s \in Seq(Byte)
    <2>1. s \in Seq(Byte \ {0}) /\ (Byte \ {0}) \subseteq Byte
      BY DEF Text
    <2> QED BY <2>1, SeqMonotonic
  <1>10. d = s
    <2>1. \A i \in 1 .. Len(d) : d[i] = s[i]
      BY <1>3, <1>8
    <2> QED BY <1>8, <1>9, <2>1, SeqEqual
  <1> QED BY <1>1, <1>6, <1>10

\* The data of the packet of a response.
Content(r) ==
    <<ResponseLetters[r.kind]>> \o
    CASE r.kind = "Optneg" -> FlattenSeq([i \in 1 .. 3 |-> BigEndian(r.fields[i], 4)])
      [] r.kind \in {"Quarantine", "Replycode"} -> Zero(r.fields[1])
      [] OTHER -> <<>>

LEMMA DataIsPacket ==
  ASSUME NEW r
  PROVE  Data(r) = Packet(Content(r))
  BY DEF Data, Packet, Content

Responses ==
    Verdicts \cup {Command("Optneg", <<a, b, 0>>) : a \in Byte, b \in Byte}

Readable(r) == Content(r) \in Seq(Byte) /\ IsU32(Len(Content(r))) /\ Reply(Content(r)) = r

ReplyKinds(data) == {k \in DOMAIN ResponseLetters : data # <<>> /\ data[1] = ResponseLetters[k]}

LEMMA ReplyKind ==
  ASSUME NEW kind \in DOMAIN ResponseLetters, NEW data \in Seq(Byte), data # <<>>,
         data[1] = ResponseLetters[kind]
  PROVE  /\ ReplyKinds(data) = {kind} /\ ReplyKinds(data) # {}
         /\ (CHOOSE k \in ReplyKinds(data) : TRUE) = kind
  <1>1. DOMAIN ResponseLetters = {"Optneg", "Accept", "Continue", "Quarantine", "Replycode"}
    BY DEF ResponseLetters
  <1>2. \A k, l \in DOMAIN ResponseLetters : ResponseLetters[k] = ResponseLetters[l] => k = l
    BY <1>1 DEF ResponseLetters
  <1>3. ReplyKinds(data) = {kind}
    BY <1>2 DEF ReplyKinds
  <1>4. (CHOOSE k \in {kind} : TRUE) = kind
    OBVIOUS
  <1> QED BY <1>3, <1>4

LEMMA ReplyLetters ==
  \A kind \in DOMAIN ResponseLetters : ResponseLetters[kind] \in Byte
  BY DEF ResponseLetters, Byte

LEMMA PlainReadable ==
  ASSUME NEW kind \in {"Continue", "Accept"}
  PROVE  Readable(Command(kind, <<>>))
  <1>1. PICK r, d, l : r = Command(kind, <<>>) /\ d = Content(r) /\ l = <<ResponseLetters[kind]>>
    OBVIOUS
  <1>2. r.kind = kind /\ kind \in DOMAIN ResponseLetters
    BY <1>1 DEF Command, ResponseLetters
  <1>3. l \in Seq(Byte) /\ l \o <<>> = l /\ Len(l) = 1 /\ l[1] = ResponseLetters[kind] /\ l # <<>>
    <2>1. ResponseLetters[kind] \in Byte
      BY <1>2, ReplyLetters
    <2>2. l \in Seq(Byte)
      BY <1>1, <2>1
    <2>3. l \o <<>> = l
      BY <2>2, ConcatEmptySeq
    <2> QED BY <1>1, <2>2, <2>3
  <1>4. d = l
    <2>1. d = l \o <<>>
      BY <1>1, <1>2 DEF Content
    <2> QED BY <1>3, <2>1
  <1>5. Reply(d) = r
    <2>1. ReplyKinds(d) # {} /\ (CHOOSE k \in ReplyKinds(d) : TRUE) = kind
      BY <1>2, <1>3, <1>4, ReplyKind
    <2>2. Reply(d) = Command(kind, <<>>)
      BY <2>1 DEF Reply, ReplyKinds
    <2> QED BY <1>1, <2>2
  <1>6. IsU32(Len(d))
    <2>1. Weights[4] = 256 * 256 * 256 /\ 1 \div (256 * 256 * 256) < 256
      BY DEF Weights
    <2>2. Len(d) = 1 /\ 1 \in Nat
      BY <1>3, <1>4
    <2>3. IsU32(1)
      BY <2>1 DEF IsU32
    <2> QED BY <2>2, <2>3
  <1> QED BY <1>1, <1>3, <1>4, <1>5, <1>6 DEF Readable

LEMMA TextReadable ==
  ASSUME NEW kind \in {"Quarantine", "Replycode"}, NEW text \in Text, IsU32(Len(text) + 2)
  PROVE  Readable(Command(kind, <<text>>))
  <1>1. PICK r, d, l, z : /\ r = Command(kind, <<text>>) /\ d = Content(r)
                          /\ l = <<ResponseLetters[kind]>> /\ z = Zero(text)
    OBVIOUS
  <1>2. r.kind = kind /\ r.fields[1] = text /\ kind \in DOMAIN ResponseLetters
    BY <1>1 DEF Command, ResponseLetters
  <1>3. l \in Seq(Byte) /\ Len(l) = 1 /\ l[1] = ResponseLetters[kind]
    <2>1. ResponseLetters[kind] \in Byte
      BY <1>2, ReplyLetters
    <2> QED BY <1>1, <2>1
  <1>4. IsZeroed(z, text)
    BY <1>1, ZeroTyped
  <1>5. z \in Seq(Byte) /\ Len(z) = Len(text) + 1 /\ Len(text) \in Nat
    BY <1>4 DEF IsZeroed
  <1>6. d = l \o z
    BY <1>1, <1>2 DEF Content
  <1>7. IsJoin(Byte, d, l, z)
    BY <1>3, <1>5, <1>6, Joined
  <1>8. /\ d \in Seq(Byte) /\ Len(d) = 1 + Len(z) /\ Len(d) \in Nat
        /\ d[1] = ResponseLetters[kind]
        /\ \A p \in 1 .. Len(z) : d[1 + p] = z[p]
    <2>1. 1 \in 1 .. Len(l)
      BY <1>3
    <2> QED BY <1>3, <1>7, <2>1 DEF IsJoin
  <1>9. d # <<>>
    BY <1>5, <1>8
  <1>10. Tail(d) = z
    <2>1. PICK t : t = Tail(d)
      OBVIOUS
    <2>2. t \in Seq(Byte) /\ Len(t) = Len(d) - 1 /\ \A i \in 1 .. Len(t) : t[i] = d[i + 1]
      BY <1>8, <1>9, <2>1, HeadTailProperties
    <2>3. Len(t) = Len(z) /\ \A i \in 1 .. Len(z) : i + 1 = 1 + i
      BY <1>5, <1>8, <2>2
    <2>4. \A i \in 1 .. Len(t) : t[i] = z[i]
      BY <1>8, <2>2, <2>3
    <2> QED BY <1>5, <2>1, <2>2, <2>3, <2>4, SeqEqual
  <1>11. UpToZero(z) = text
    BY <1>1, UpToZeroBack
  <1>12. Reply(d) = r
    <2>1. ReplyKinds(d) # {} /\ (CHOOSE k \in ReplyKinds(d) : TRUE) = kind
      BY <1>2, <1>8, <1>9, ReplyKind
    <2>2. Reply(d) = Command(kind, <<UpToZero(Tail(d))>>)
      BY <2>1 DEF Reply, ReplyKinds
    <2> QED BY <1>1, <1>10, <1>11, <2>2
  <1>13. IsU32(Len(d))
    <2>1. Len(d) = Len(text) + 2
      BY <1>5, <1>8
    <2> QED BY <2>1
  <1> QED BY <1>1, <1>8, <1>12, <1>13 DEF Readable

\* A smaller number takes no more bytes.
LEMMA SmallerU32 ==
  ASSUME NEW n, IsU32(n), NEW m \in Nat, m <= n
  PROVE  IsU32(m)
  <1>1. Weights[4] = 256 * 256 * 256
    BY DEF Weights
  <1>2. n \in Nat /\ n \div (256 * 256 * 256) < 256
    BY <1>1 DEF IsU32
  <1>3. m \div (256 * 256 * 256) < 256
    BY <1>2
  <1> QED BY <1>1, <1>3 DEF IsU32

HasReplycode(code, reason) ==
    \E text \in Text : Len(text) = Len(reason) + 4 /\ Replycode(code, reason) = Command("Replycode", <<text>>)

LEMMA ReplycodeText ==
  ASSUME NEW code \in {457, 554}, NEW reason \in Text
  PROVE  HasReplycode(code, reason)
  <1>1. PICK B, d, e : /\ B = Byte \ {0} /\ d = [i \in 1 .. 3 |-> 48 + ((code \div <<100, 10, 1>>[i]) % 10)]
                       /\ e = <<32>>
    OBVIOUS
  <1>2. \A i \in 1 .. 3 : d[i] \in B
    <2>1. ASSUME NEW i \in 1 .. 3
          PROVE  d[i] \in B
      <3>1. <<100, 10, 1>>[i] \in {100, 10, 1}
        <4>1. i = 1 \/ i = 2 \/ i = 3
          OBVIOUS
        <4> QED BY <4>1
      <3>2. PICK w \in {100, 10, 1} : w = <<100, 10, 1>>[i]
        BY <3>1
      <3>3. d[i] = 48 + ((code \div w) % 10)
        BY <1>1, <3>2
      <3>4. \A x \in 0 .. 9 : 48 + x \in Byte \ {0}
        BY DEF Byte
      <3>5. (code \div w) % 10 \in 0 .. 9
        OBVIOUS
      <3> QED BY <1>1, <3>3, <3>4, <3>5
    <2> QED BY <2>1
  <1>3. d \in Seq(B) /\ Len(d) = 3
    <2>1. d \in [1 .. 3 -> B]
      BY <1>1, <1>2
    <2>3. PICK n : n = 3
      OBVIOUS
    <2>4. n \in Nat /\ d \in [1 .. n -> B]
      BY <2>1, <2>3
    <2>5. OfLength(B, d, n)
      BY <2>4, FunctionIsSeq
    <2>2. OfLength(B, d, 3)
      BY <2>3, <2>5
    <2> QED BY <2>2 DEF OfLength
  <1>4. e \in Seq(B) /\ Len(e) = 1
    <2>1. 32 \in B
      BY <1>1 DEF Byte
    <2> QED BY <1>1, <2>1
  <1>5. PICK f, text : f = d \o e /\ text = f \o reason
    OBVIOUS
  <1>6. IsJoin(B, f, d, e)
    BY <1>3, <1>4, <1>5, Joined
  <1>7. f \in Seq(B) /\ Len(f) = 4
    BY <1>3, <1>4, <1>6 DEF IsJoin
  <1>8. reason \in Seq(B) /\ Len(reason) \in Nat
    BY <1>1 DEF Text
  <1>9. IsJoin(B, text, f, reason)
    BY <1>5, <1>7, <1>8, Joined
  <1>10. text \in Seq(B) /\ Len(text) = Len(reason) + 4
    BY <1>7, <1>8, <1>9 DEF IsJoin
  <1>11. Replycode(code, reason) = Command("Replycode", <<text>>)
    BY <1>1, <1>5 DEF Replycode
  <1> QED BY <1>1, <1>10, <1>11 DEF Text, HasReplycode

LEMMA Numbers ==
  ASSUME NEW g, NEW n \in 1 .. 3, NEW s, Parts(g, s), s \in Seq(Seq(Byte)), Len(s) = 3,
         \A i \in 1 .. 3 : Len(s[i]) = 4
  PROVE  Len(g[n - 1]) = 4 * (n - 1) /\ Len(g[3]) = 12
  <1>1. g[0] = <<>> /\ Len(<<>>) = 0
    BY DEF Parts
  <1>2. \A i \in 1 .. 3 : Len(g[i]) = Len(g[i - 1]) + 4
    <2>1. ASSUME NEW i \in 1 .. 3
          PROVE  Len(g[i]) = Len(g[i - 1]) + 4
      <3>1. IsPartAt(g, s, i)
        BY PartAt
      <3> QED BY <3>1 DEF IsPartAt
    <2> QED BY <2>1
  <1>3. Len(g[1]) = Len(g[0]) + 4 /\ Len(g[2]) = Len(g[1]) + 4 /\ Len(g[3]) = Len(g[2]) + 4
    <2>1. 1 \in 1 .. 3 /\ 2 \in 1 .. 3 /\ 3 \in 1 .. 3 /\ 1 - 1 = 0 /\ 2 - 1 = 1 /\ 3 - 1 = 2
      OBVIOUS
    <2> QED BY <1>2, <2>1
  <1>4. Len(g[0]) = 0 /\ Len(g[1]) = 4 /\ Len(g[2]) = 8 /\ Len(g[3]) = 12
    BY <1>1, <1>3
  <1>5. CASE n = 1
    <2>1. n - 1 = 0
      BY <1>5
    <2> QED BY <1>4, <2>1
  <1>6. CASE n = 2
    <2>1. n - 1 = 1
      BY <1>6
    <2> QED BY <1>4, <2>1
  <1>7. CASE n = 3
    <2>1. n - 1 = 2
      BY <1>7
    <2> QED BY <1>4, <2>1
  <1> QED BY <1>5, <1>6, <1>7

LEMMA NegotiationReadable ==
  ASSUME NEW a \in Byte, NEW b \in Byte
  PROVE  Readable(Command("Optneg", <<a, b, 0>>))
  <1>1. PICK r, d, l, s : /\ r = Command("Optneg", <<a, b, 0>>) /\ d = Content(r)
                          /\ l = <<ResponseLetters["Optneg"]>>
                          /\ s = [i \in 1 .. 3 |-> BigEndian(r.fields[i], 4)]
    OBVIOUS
  <1>2. r.kind = "Optneg" /\ r.fields = <<a, b, 0>> /\ "Optneg" \in DOMAIN ResponseLetters
    BY <1>1 DEF Command, ResponseLetters
  <1>3. l \in Seq(Byte) /\ Len(l) = 1 /\ l[1] = ResponseLetters["Optneg"]
    <2>1. ResponseLetters["Optneg"] \in Byte
      BY <1>2, ReplyLetters
    <2> QED BY <1>1, <2>1
  <1>4. \A i \in 1 .. 3 : r.fields[i] \in Nat /\ r.fields[i] \div Weights[4] < 256
    <2>1. \A i \in 1 .. 3 : r.fields[i] \in Byte
      <3>1. 0 \in Byte /\ \A i \in 1 .. 3 : i = 1 \/ i = 2 \/ i = 3
        BY DEF Byte
      <3> QED BY <1>2, <3>1
    <2>2. Weights[4] = 256 * 256 * 256
      BY DEF Weights
    <2>3. \A n \in Byte : n \in Nat /\ n \div (256 * 256 * 256) < 256
      BY DEF Byte
    <2> QED BY <2>1, <2>2, <2>3
  <1>5. \A i \in 1 .. 3 : s[i] \in Seq(Byte) /\ Len(s[i]) = 4 /\ s[i] = BigEndian(r.fields[i], 4)
    <2>1. ASSUME NEW i \in 1 .. 3
          PROVE  s[i] \in Seq(Byte) /\ Len(s[i]) = 4 /\ s[i] = BigEndian(r.fields[i], 4)
      <3>1. PICK n : n = r.fields[i]
        OBVIOUS
      <3>2. n \in Nat /\ s[i] = BigEndian(n, 4)
        BY <1>1, <1>4, <3>1
      <3>3. AreBytesOf(s[i], n, 4)
        BY <3>2, BigEndianTyped
      <3> QED BY <3>1, <3>2, <3>3 DEF AreBytesOf
    <2> QED BY <2>1
  <1>6. s \in Seq(Seq(Byte)) /\ Len(s) = 3
    <2>1. s \in [1 .. 3 -> Seq(Byte)]
      BY <1>1, <1>5
    <2>2. OfLength(Seq(Byte), s, 3)
      BY <2>1, FunctionIsSeq
    <2> QED BY <2>2 DEF OfLength
  <1>7. PICK g : Parts(g, s) /\ FlattenSeq(s) = g[Len(s)]
    BY <1>6, PartsOf
  <1>8. PICK c : c = FlattenSeq(s)
    OBVIOUS
  <1>9. c = g[3] /\ c \in Seq(Byte)
    BY <1>6, <1>7, <1>8, Flattened
  <1>10. Len(c) = 12
    <2>1. 1 \in 1 .. 3
      OBVIOUS
    <2> QED BY <1>5, <1>6, <1>7, <1>9, <2>1, Numbers
  <1>11. d = l \o c
    BY <1>1, <1>2, <1>8 DEF Content
  <1>12. IsJoin(Byte, d, l, c)
    BY <1>3, <1>9, <1>11, Joined
  <1>13. /\ d \in Seq(Byte) /\ Len(d) = 13 /\ d[1] = ResponseLetters["Optneg"] /\ d # <<>>
         /\ \A p \in 1 .. 12 : d[1 + p] = c[p]
    <2>1. 1 \in 1 .. Len(l)
      BY <1>3
    <2> QED BY <1>3, <1>10, <1>12, <2>1 DEF IsJoin
  <1>14. ASSUME NEW i \in 1 .. 3
         PROVE  Number(SubSeq(d, 4 * i - 2, 4 * i + 1)) = r.fields[i]
    <2>1. PICK k, e : k = 4 * i - 3 /\ e = SubSeq(d, 4 * i - 2, 4 * i + 1)
      OBVIOUS
    <2>2. k \in Nat /\ 4 * i - 2 = k + 1 /\ 4 * i + 1 = k + 4 /\ k + 4 <= 13 /\ k = 1 + 4 * (i - 1)
      BY <2>1
    <2>3. e = SubSeq(d, k + 1, k + 4)
      BY <2>1, <2>2
    <2>4. IsPiece(Byte, e, d, k, 4)
      <3>1. IsPiece(Byte, SubSeq(d, k + 1, k + 4), d, k, 4)
        BY <1>13, <2>2, Piece
      <3> QED BY <2>3, <3>1
    <2>5. e \in Seq(Byte) /\ Len(e) = 4 /\ \A p \in 1 .. 4 : e[p] = d[k + p]
      BY <2>4 DEF IsPiece
    <2>6. Len(g[i - 1]) = 4 * (i - 1)
      BY <1>5, <1>6, <1>7, Numbers
    <2>7. IsPartAt(g, s, i)
      BY <1>6, <1>7, PartAt
    <2>8. \A p \in 1 .. 4 : c[4 * (i - 1) + p] = s[i][p]
      BY <1>5, <1>6, <1>9, <2>6, <2>7 DEF IsPartAt
    <2>9. ASSUME NEW p \in 1 .. 4
          PROVE  e[p] = s[i][p]
      <3>1. PICK m : m = 4 * (i - 1) + p
        OBVIOUS
      <3>2. m \in 1 .. 12 /\ 1 + m = k + p
        BY <2>2, <3>1
      <3>3. d[1 + m] = c[m] /\ c[m] = s[i][p] /\ e[p] = d[k + p]
        BY <1>13, <2>5, <2>8, <3>1, <3>2
      <3> QED BY <3>2, <3>3
    <2>10. e = s[i]
      BY <1>5, <2>5, <2>9, SeqEqual
    <2>11. PICK n : n = r.fields[i]
      OBVIOUS
    <2>12. Number(BigEndian(n, 4)) = n
      BY <1>4, <2>11, NumberBack
    <2> QED BY <1>5, <2>1, <2>10, <2>11, <2>12
  <1>15. Reply(d) = r
    <2>1. ReplyKinds(d) # {} /\ (CHOOSE k \in ReplyKinds(d) : TRUE) = "Optneg"
      BY <1>2, <1>13, ReplyKind
    <2>2. Reply(d) = Command("Optneg", [i \in 1 .. 3 |-> Number(SubSeq(d, 4 * i - 2, 4 * i + 1))])
      BY <2>1 DEF Reply, ReplyKinds
    <2>3. [i \in 1 .. 3 |-> Number(SubSeq(d, 4 * i - 2, 4 * i + 1))] = [i \in 1 .. 3 |-> r.fields[i]]
      BY <1>14
    <2>4. [i \in 1 .. 3 |-> <<a, b, 0>>[i]] = <<a, b, 0>>
      OBVIOUS
    <2> QED BY <1>1, <1>2, <2>2, <2>3, <2>4
  <1>16. IsU32(Len(d))
    <2>1. Weights[4] = 256 * 256 * 256 /\ 13 \div (256 * 256 * 256) < 256
      BY DEF Weights
    <2>2. IsU32(13)
      BY <2>1 DEF IsU32
    <2> QED BY <1>13, <2>2
  <1> QED BY <1>1, <1>13, <1>15, <1>16 DEF Readable

LEMMA ResponsesReadable ==
  ASSUME NEW r \in Responses
  PROVE  Readable(r)
  <1>1. CASE r \in {Command("Continue", <<>>), Command("Accept", <<>>)}
    <2>1. Readable(Command("Continue", <<>>)) /\ Readable(Command("Accept", <<>>))
      BY PlainReadable
    <2> QED BY <1>1, <2>1
  <1>2. ASSUME NEW reason \in Reasons, r = Command("Quarantine", <<reason>>)
        PROVE  Readable(r)
    <2>1. reason \in Text /\ IsU32(Len(reason) + 6) /\ Len(reason) \in Nat
      BY PacketsAssumption DEF Text
    <2>2. IsU32(Len(reason) + 2)
      <3>1. Len(reason) + 2 \in Nat /\ Len(reason) + 2 <= Len(reason) + 6
        BY <2>1
      <3> QED BY <2>1, <3>1, SmallerU32
    <2>3. Readable(Command("Quarantine", <<reason>>))
      BY <2>1, <2>2, TextReadable
    <2> QED BY <1>2, <2>3
  <1>3. ASSUME NEW code \in {457, 554}, NEW reason \in Reasons, r = Replycode(code, reason)
        PROVE  Readable(r)
    <2>1. reason \in Text /\ IsU32(Len(reason) + 6) /\ Len(reason) \in Nat
      BY PacketsAssumption DEF Text
    <2>2. PICK text \in Text : Len(text) = Len(reason) + 4 /\ r = Command("Replycode", <<text>>)
      <3>1. HasReplycode(code, reason)
        BY <2>1, ReplycodeText
      <3> QED BY <1>3, <3>1 DEF HasReplycode
    <2>3. Len(text) + 2 = Len(reason) + 6
      BY <2>1, <2>2
    <2>4. Readable(Command("Replycode", <<text>>))
      BY <2>1, <2>3, TextReadable
    <2> QED BY <2>2, <2>4
  <1>4. ASSUME NEW a \in Byte, NEW b \in Byte, r = Command("Optneg", <<a, b, 0>>)
        PROVE  Readable(r)
    BY <1>4, NegotiationReadable
  <1>5. CASE r \in Verdicts
    <2>1. \/ r \in {Command("Continue", <<>>), Command("Accept", <<>>)}
          \/ r \in {Command("Quarantine", <<reason>>) : reason \in Reasons}
          \/ r \in {Replycode(code, reason) : code \in {457, 554}, reason \in Reasons}
      BY <1>5 DEF Verdicts
    <2>2. ASSUME r \in {Command("Quarantine", <<reason>>) : reason \in Reasons}
          PROVE  Readable(r)
      <3>1. PICK reason \in Reasons : r = Command("Quarantine", <<reason>>)
        BY <2>2
      <3> QED BY <1>2, <3>1
    <2>3. ASSUME r \in {Replycode(code, reason) : code \in {457, 554}, reason \in Reasons}
          PROVE  Readable(r)
      <3>1. PICK code \in {457, 554}, reason \in Reasons : r = Replycode(code, reason)
        BY <2>3
      <3> QED BY <1>3, <3>1
    <2> QED BY <1>1, <2>1, <2>2, <2>3
  <1>6. CASE r \notin Verdicts
    <2>1. PICK a \in Byte, b \in Byte : r = Command("Optneg", <<a, b, 0>>)
      BY <1>6 DEF Responses
    <2> QED BY <1>4, <2>1
  <1> QED BY <1>5, <1>6

-----------------------------------------------------------------------------
(* Parsing *)

\* Parse, of a packet with the letter of a kind.
ParsedAs(kind, data) ==
    LET types == Layout(kind)
        start == FieldStarts(types, data)
    IN  IF start[Len(types)] = 0 THEN Refused
        ELSE Command(kind, [k \in 1 .. Len(types) |->
                               FieldValue(types[k], SubSeq(data, start[k - 1], start[k] - 1))])

LEMMA ParseKnown ==
  ASSUME NEW data, data # <<>>, NEW kind \in Kinds, data[1] = Letters[kind]
  PROVE  Parse(data) = ParsedAs(kind, data)
  <1>1. {k \in Kinds : data # <<>> /\ data[1] = Letters[k]} = {kind}
    BY LettersApart
  <1>2. (CHOOSE k \in {kind} : TRUE) = kind /\ {kind} # {}
    OBVIOUS
  <1> QED BY <1>1, <1>2 DEF Parse, ParsedAs

LEMMA ParseUnknown ==
  ASSUME NEW data, Parse(data) # Refused
  PROVE  \E kind \in Kinds : data # <<>> /\ data[1] = Letters[kind] /\ Parse(data) = ParsedAs(kind, data)
  <1>1. PICK kind \in Kinds : data # <<>> /\ data[1] = Letters[kind]
    BY DEF Parse
  <1> QED BY <1>1, ParseKnown

NegotiatesNumbers(c) == c.kind = "Optneg" => c.fields[1] \in Nat /\ c.fields[2] \in Nat

LEMMA NegotiationParsed ==
  ASSUME NEW data \in Seq(Byte), Parse(data) # Refused
  PROVE  NegotiatesNumbers(Parse(data))
  <1> SUFFICES ASSUME Parse(data).kind = "Optneg"
               PROVE  Parse(data).fields[1] \in Nat /\ Parse(data).fields[2] \in Nat
    BY DEF NegotiatesNumbers
  <1>1. PICK kind \in Kinds : data # <<>> /\ data[1] = Letters[kind] /\ Parse(data) = ParsedAs(kind, data)
    BY ParseUnknown
  <1>2. PICK types, start : types = Layout(kind) /\ start = FieldStarts(types, data)
    OBVIOUS
  <1>3. PICK fields : fields = [k \in 1 .. Len(types) |-> FieldValue(types[k], SubSeq(data, start[k - 1], start[k] - 1))]
    OBVIOUS
  <1>4. start[Len(types)] # 0 /\ Parse(data) = Command(kind, fields)
    BY <1>1, <1>2, <1>3 DEF ParsedAs
  <1>5. kind = "Optneg" /\ Parse(data).fields = fields
    BY <1>4 DEF Command
  <1>6. types = <<"u32", "u32", "u32">> /\ Len(types) = 3
    BY <1>2, <1>5 DEF Layout
  <1>7. AreStarts(start, types, data)
    BY <1>2, <1>6, LayoutTyped, StartsAre
  <1>8. start \in [0 .. 3 -> Nat] /\ \A k \in 1 .. 3 : start[k] = FieldEnd(types[k], data, start[k - 1])
    BY <1>6, <1>7 DEF AreStarts
  <1>9. \A k \in 1 .. 3 : types[k] = "u32"
    <2>1. \A k \in 1 .. 3 : k = 1 \/ k = 2 \/ k = 3
      OBVIOUS
    <2> QED BY <1>6, <2>1
  <1>10. ASSUME NEW k \in 1 .. 3, start[k] # 0
         PROVE  start[k - 1] # 0 /\ start[k] = start[k - 1] + 4 /\ start[k] <= Len(data) + 1
    <2>1. PICK p : p = start[k - 1]
      OBVIOUS
    <2>2. Size("u32") = 4
      BY DEF Size
    <2>3. FieldEnd("u32", data, p) = IF p = 0 THEN 0 ELSE IF p + 4 > Len(data) + 1 THEN 0 ELSE p + 4
      BY <2>2 DEF FieldEnd
    <2>4. p \in Nat /\ start[k] = FieldEnd("u32", data, p)
      BY <1>8, <1>9, <2>1
    <2>5. p # 0 /\ start[k] = p + 4
      BY <1>10, <2>3, <2>4
    <2>6. ~(p + 4 > Len(data) + 1)
      BY <1>10, <2>3, <2>4, <2>5
    <2> QED BY <2>1, <2>4, <2>5, <2>6
  <1>11. start[3] # 0 /\ start[2] # 0 /\ start[1] # 0
    <2>1. start[3] # 0 /\ 3 \in 1 .. 3 /\ 2 \in 1 .. 3 /\ 3 - 1 = 2 /\ 2 - 1 = 1
      BY <1>4, <1>6
    <2>2. start[2] # 0
      BY <1>10, <2>1
    <2>3. start[1] # 0
      BY <1>10, <2>1, <2>2
    <2> QED BY <2>1, <2>2, <2>3
  <1>12. ASSUME NEW k \in 1 .. 2
         PROVE  fields[k] \in Nat
    <2>1. k \in 1 .. 3 /\ start[k] # 0 /\ k - 1 \in 0 .. 3
      <3>1. k = 1 \/ k = 2
        OBVIOUS
      <3> QED BY <1>11, <3>1
    <2>2. PICK q : q = start[k - 1] - 1
      OBVIOUS
    <2>3. start[k - 1] # 0 /\ start[k] = start[k - 1] + 4 /\ start[k] <= Len(data) + 1 /\ start[k - 1] \in Nat
      BY <1>8, <1>10, <2>1
    <2>4. q \in Nat /\ start[k - 1] = q + 1 /\ start[k] - 1 = q + 4 /\ q + 4 <= Len(data)
      BY <2>2, <2>3
    <2>5. fields[k] = FieldValue("u32", SubSeq(data, q + 1, q + 4))
      BY <1>3, <1>6, <1>9, <2>1, <2>4
    <2>6. fields[k] = Number(SubSeq(data, q + 1, q + 4))
      BY <2>5 DEF FieldValue
    <2> QED BY <2>4, <2>6, NumberTyped
  <1>13. fields[1] \in Nat /\ fields[2] \in Nat
    <2>1. 1 \in 1 .. 2 /\ 2 \in 1 .. 2
      OBVIOUS
    <2> QED BY <1>12, <2>1
  <1> QED BY <1>5, <1>13

LEMMA ResponsesGiven ==
  ASSUME NEW c, NegotiatesNumbers(c)
  PROVE  ResponsesTo(c) \subseteq Responses
  <1>1. CASE c.kind = "Optneg"
    <2>1. PICK a, b : a = Min({c.fields[1], 6}) /\ b = 32 * ((c.fields[2] \div 32) % 2)
      OBVIOUS
    <2>2. c.fields[1] \in Nat /\ c.fields[2] \in Nat
      BY <1>1 DEF NegotiatesNumbers
    <2>3. a \in Byte
      <3>1. \A n \in Nat : Min({n, 6}) = IF n <= 6 THEN n ELSE 6
        BY MinOfTwo
      <3>2. \A n \in Nat : (IF n <= 6 THEN n ELSE 6) \in Byte
        BY DEF Byte
      <3> QED BY <2>1, <2>2, <3>1, <3>2
    <2>4. b \in Byte
      <3>1. \A n \in Nat : (n \div 32) % 2 \in {0, 1}
        OBVIOUS
      <3>2. \A d \in {0, 1} : 32 * d \in Byte
        BY DEF Byte
      <3> QED BY <2>1, <2>2, <3>1, <3>2
    <2>5. ResponsesTo(c) = {Command("Optneg", <<a, b, 0>>)}
      BY <1>1, <2>1 DEF ResponsesTo, Negotiated, MILTER_VERSION, SMFIF_QUARANTINE
    <2> QED BY <2>3, <2>4, <2>5 DEF Responses
  <1>2. CASE c.kind # "Optneg"
    <2>1. Command("Continue", <<>>) \in Verdicts
      BY DEF Verdicts
    <2>2. ResponsesTo(c) \in {{}, Verdicts, {Command("Continue", <<>>)}}
      BY <1>2 DEF ResponsesTo
    <2> QED BY <2>1, <2>2 DEF Responses
  <1> QED BY <1>1, <1>2

-----------------------------------------------------------------------------
(* The invariant: what the session reads, and what it has written *)

Contents(rs) == [i \in DOMAIN rs |-> Content(rs[i])]

StateInv ==
    /\ sent \in Seq(Offered)
    /\ wire \in Seq(Byte)
    /\ got \in Seq(Byte)
    /\ closed \in BOOLEAN
    /\ ended \in BOOLEAN
    /\ part \in {"length", "data"}
    /\ IF part = "length" THEN want = 4 ELSE IsU32(want)
    /\ Len(got) <= want

OutputInv ==
    /\ responses \in Seq(Responses)
    /\ output = FlattenSeq(PacketsOf(Contents(responses)))

LEMMA OfferedCommands ==
  \A c \in Offered : IsCommand(c)
  BY PacketsAssumption DEF Offered

IsAppended(t, s, x) ==
    Len(t) = Len(s) + 1 /\ t[Len(s) + 1] = x /\ \A i \in 1 .. Len(s) : t[i] = s[i]

LEMMA PacketsAppended ==
  ASSUME NEW q \in Seq(Seq(Byte)), NEW x \in Seq(Byte)
  PROVE  FlattenSeq(PacketsOf(Append(q, x))) = FlattenSeq(PacketsOf(q)) \o Packet(x)
  <1>1. PICK t, s, r : t = PacketsOf(Append(q, x)) /\ s = PacketsOf(q) /\ r = Append(q, x)
    OBVIOUS
  <1>2. r \in Seq(Seq(Byte)) /\ Len(r) = Len(q) + 1 /\ r[Len(q) + 1] = x
        /\ \A i \in 1 .. Len(q) : r[i] = q[i]
    BY <1>1
  <1>3. /\ t \in Seq(Seq(Byte)) /\ Len(t) = Len(r) /\ \A i \in 1 .. Len(r) : t[i] = Packet(r[i])
        /\ s \in Seq(Seq(Byte)) /\ Len(s) = Len(q) /\ \A i \in 1 .. Len(q) : s[i] = Packet(q[i])
    BY <1>1, <1>2, PacketsTyped
  <1>4. Packet(x) \in Seq(Byte)
    <2>1. IsPacket(Packet(x), x)
      BY PacketTyped
    <2> QED BY <2>1 DEF IsPacket
  <1>5. t = Append(s, Packet(x))
    <2>1. PICK u : u = Append(s, Packet(x))
      OBVIOUS
    <2>2. u \in Seq(Seq(Byte)) /\ Len(u) = Len(q) + 1 /\ u[Len(q) + 1] = Packet(x) /\ \A i \in 1 .. Len(q) : u[i] = s[i]
      BY <1>3, <1>4, <2>1
    <2>3. ASSUME NEW i \in 1 .. Len(t)
          PROVE  t[i] = u[i]
      <3>1. CASE i = Len(q) + 1
        BY <1>2, <1>3, <2>2, <3>1
      <3>2. CASE i # Len(q) + 1
        <4>1. i \in 1 .. Len(q)
          BY <1>2, <1>3, <3>2
        <4> QED BY <1>2, <1>3, <2>2, <4>1
      <3> QED BY <3>1, <3>2
    <2>4. Len(t) = Len(u)
      BY <1>2, <1>3, <2>2
    <2>5. t = u
      BY <1>3, <2>2, <2>3, <2>4, SeqEqual
    <2> QED BY <2>1, <2>5
  <1> QED BY <1>1, <1>3, <1>4, <1>5, FlattenAppend

LEMMA ContentsTyped ==
  ASSUME NEW rs \in Seq(Responses)
  PROVE  /\ Contents(rs) \in Seq(Seq(Byte)) /\ Len(Contents(rs)) = Len(rs)
         /\ \A i \in 1 .. Len(rs) : Contents(rs)[i] = Content(rs[i]) /\ Readable(rs[i])
  <1>1. DOMAIN rs = 1 .. Len(rs) /\ Len(rs) \in Nat
    OBVIOUS
  <1>2. PICK t : t = Contents(rs)
    OBVIOUS
  <1>3. t = [i \in 1 .. Len(rs) |-> Content(rs[i])]
    BY <1>1, <1>2 DEF Contents
  <1>4. \A i \in 1 .. Len(rs) : t[i] = Content(rs[i])
    BY <1>3
  <1>5. \A i \in 1 .. Len(rs) : Readable(rs[i])
    <2>1. \A i \in 1 .. Len(rs) : rs[i] \in Responses
      BY ElementOfSeq
    <2> QED BY <2>1, ResponsesReadable
  <1>6. \A i \in 1 .. Len(rs) : t[i] \in Seq(Byte)
    BY <1>4, <1>5 DEF Readable
  <1>7. t \in [1 .. Len(rs) -> Seq(Byte)]
    BY <1>3, <1>6
  <1>8. OfLength(Seq(Byte), t, Len(rs))
    BY <1>1, <1>7, FunctionIsSeq
  <1> QED BY <1>2, <1>4, <1>5, <1>8 DEF OfLength

LEMMA ContentsAppended ==
  ASSUME NEW rs \in Seq(Responses), NEW r \in Responses
  PROVE  Contents(Append(rs, r)) = Append(Contents(rs), Content(r)) /\ Content(r) \in Seq(Byte)
  <1>1. PICK t, s, u : t = Contents(Append(rs, r)) /\ s = Contents(rs) /\ u = Append(rs, r)
    OBVIOUS
  <1>2. u \in Seq(Responses) /\ Len(u) = Len(rs) + 1 /\ u[Len(rs) + 1] = r
        /\ \A i \in 1 .. Len(rs) : u[i] = rs[i]
    BY <1>1
  <1>3. /\ t \in Seq(Seq(Byte)) /\ Len(t) = Len(u) /\ \A i \in 1 .. Len(u) : t[i] = Content(u[i])
        /\ s \in Seq(Seq(Byte)) /\ Len(s) = Len(rs) /\ \A i \in 1 .. Len(rs) : s[i] = Content(rs[i])
    BY <1>1, <1>2, ContentsTyped
  <1>4. Content(r) \in Seq(Byte)
    BY ResponsesReadable DEF Readable
  <1>5. PICK w : w = Append(s, Content(r))
    OBVIOUS
  <1>6. w \in Seq(Seq(Byte)) /\ Len(w) = Len(rs) + 1 /\ w[Len(rs) + 1] = Content(r) /\ \A i \in 1 .. Len(rs) : w[i] = s[i]
    BY <1>3, <1>4, <1>5
  <1>7. ASSUME NEW i \in 1 .. Len(t)
        PROVE  t[i] = w[i]
    <2>1. CASE i = Len(rs) + 1
      BY <1>2, <1>3, <1>6, <2>1
    <2>2. CASE i # Len(rs) + 1
      <3>1. i \in 1 .. Len(rs)
        BY <1>2, <1>3, <2>2
      <3> QED BY <1>2, <1>3, <1>6, <3>1
    <2> QED BY <2>1, <2>2
  <1>8. Len(t) = Len(w)
    BY <1>2, <1>3, <1>6
  <1>9. t = w
    BY <1>3, <1>6, <1>7, <1>8, SeqEqual
  <1> QED BY <1>1, <1>4, <1>5, <1>9

LEMMA InitInv == Init => StateInv /\ OutputInv
  <1> SUFFICES ASSUME Init PROVE StateInv /\ OutputInv
    OBVIOUS
  <1>1. /\ sent = <<>> /\ wire = <<>> /\ closed = FALSE /\ part = "length" /\ want = 4
        /\ got = <<>> /\ ended = FALSE /\ handled = <<>> /\ output = <<>> /\ responses = <<>>
    BY DEF Init
  <1>2. <<>> \in Seq(Offered) /\ <<>> \in Seq(Byte) /\ Len(<<>>) = 0 /\ <<>> \in Seq(Responses)
    OBVIOUS
  <1>3. StateInv
    <2>1. Len(got) = 0 /\ want = 4 /\ 0 <= 4
      BY <1>1, <1>2
    <2>2. Len(got) <= want
      BY <2>1
    <2> QED BY <1>1, <1>2, <2>2 DEF StateInv
  <1>4. PacketsOf(Contents(<<>>)) = <<>>
    BY DEF PacketsOf, Contents
  <1>5. OutputInv
    BY <1>1, <1>2, <1>4, FlattenNone DEF OutputInv
  <1> QED BY <1>3, <1>5

LEMMA WantTyped ==
  ASSUME StateInv
  PROVE  want \in Nat /\ Len(got) \in Nat /\ Len(wire) \in Nat
  BY DEF StateInv, IsU32

IsWirePart(a, b, n) ==
    /\ IsPiece(Byte, a, wire, 0, n)
    /\ IsPiece(Byte, b, wire, n, Len(wire) - n)

LEMMA WireParts ==
  ASSUME wire \in Seq(Byte), NEW n \in 0 .. Len(wire)
  PROVE  IsWirePart(SubSeq(wire, 1, n), SubSeq(wire, n + 1, Len(wire)), n)
  <1>1. PICK m : m = Len(wire) - n
    OBVIOUS
  <1>2. n \in Nat /\ m \in Nat /\ 0 + n = n /\ 0 + 1 = 1 /\ n + m = Len(wire) /\ n <= Len(wire)
    BY <1>1
  <1>3. IsPiece(Byte, SubSeq(wire, 0 + 1, 0 + n), wire, 0, n)
    BY <1>2, Piece
  <1>4. IsPiece(Byte, SubSeq(wire, n + 1, n + m), wire, n, m)
    BY <1>2, Piece
  <1> QED BY <1>1, <1>2, <1>3, <1>4 DEF IsWirePart

LEMMA ReadTyped ==
  ASSUME StateInv, Read
  PROVE  \E n \in 1 .. Len(wire) :
            /\ got' = got \o SubSeq(wire, 1, n) /\ wire' = SubSeq(wire, n + 1, Len(wire))
            /\ IsJoin(Byte, got', got, SubSeq(wire, 1, n))
            /\ got' \in Seq(Byte) /\ wire' \in Seq(Byte) /\ Len(got') = Len(got) + n
            /\ Len(got') <= want
  <1>1. PICK n \in 1 .. Min({want - Len(got), Len(wire)}) :
           got' = got \o SubSeq(wire, 1, n) /\ wire' = SubSeq(wire, n + 1, Len(wire))
    BY DEF Read
  <1>2. PICK a, l, m : a = want - Len(got) /\ l = Len(wire) /\ m = Min({a, l})
    OBVIOUS
  <1>3. a \in Nat /\ l \in Nat /\ want \in Nat /\ Len(got) \in Nat
    BY <1>2, WantTyped DEF StateInv
  <1>4. m = IF a <= l THEN a ELSE l
    BY <1>2, <1>3, MinOfTwo
  <1>5. n \in 1 .. m
    BY <1>1, <1>2
  <1>6. n \in Nat /\ n <= a /\ n <= l /\ n \in 1 .. l
    BY <1>3, <1>4, <1>5
  <1>7. PICK d, e : d = SubSeq(wire, 1, n) /\ e = SubSeq(wire, n + 1, Len(wire))
    OBVIOUS
  <1>8. IsWirePart(d, e, n)
    <2>1. n \in 0 .. Len(wire) /\ wire \in Seq(Byte)
      BY <1>2, <1>6 DEF StateInv
    <2> QED BY <1>7, <2>1, WireParts
  <1>9. d \in Seq(Byte) /\ Len(d) = n /\ e \in Seq(Byte)
    BY <1>8 DEF IsWirePart, IsPiece
  <1>10. IsJoin(Byte, got', got, d)
    BY <1>1, <1>7, <1>9, Joined DEF StateInv
  <1>11. got' \in Seq(Byte) /\ Len(got') = Len(got) + n
    BY <1>9, <1>10 DEF IsJoin
  <1>12. Len(got) + n <= want
    BY <1>2, <1>3, <1>6
  <1> QED BY <1>1, <1>2, <1>6, <1>7, <1>9, <1>10, <1>11, <1>12

LEMMA StateStep ==
  ASSUME StateInv, [Next]_vars
  PROVE  StateInv'
  <1>0. /\ sent \in Seq(Offered) /\ wire \in Seq(Byte) /\ got \in Seq(Byte)
        /\ closed \in BOOLEAN /\ ended \in BOOLEAN /\ part \in {"length", "data"}
        /\ (IF part = "length" THEN want = 4 ELSE IsU32(want)) /\ Len(got) <= want
    BY DEF StateInv
  <1>a. <<>> \in Seq(Byte) /\ Len(<<>>) = 0 /\ 0 <= 4
    OBVIOUS
  <1>1. ASSUME NEW c \in Offered, Send(c)
        PROVE  StateInv'
    <2>1. /\ sent' = Append(sent, c) /\ wire' = wire \o Packet(Payload(c))
          /\ closed' = closed /\ part' = part /\ want' = want /\ got' = got /\ ended' = ended
      BY <1>1 DEF Send, session
    <2>2. sent' \in Seq(Offered)
      BY <1>0, <2>1
    <2>3. Packet(Payload(c)) \in Seq(Byte)
      <3>1. IsPayload(Payload(c), c)
        BY OfferedCommands, PayloadTyped
      <3>2. Payload(c) \in Seq(Byte)
        BY <3>1 DEF IsPayload
      <3>3. IsPacket(Packet(Payload(c)), Payload(c))
        BY <3>2, PacketTyped
      <3> QED BY <3>3 DEF IsPacket
    <2>4. wire' \in Seq(Byte)
      BY <1>0, <2>1, <2>3
    <2> QED BY <1>0, <2>1, <2>2, <2>4 DEF StateInv
  <1>2. CASE Close
    <2>1. /\ sent' = sent /\ closed' = TRUE /\ part' = part /\ want' = want /\ got' = got /\ ended' = ended
      BY <1>2 DEF Close, session
    <2>2. PICK n \in 0 .. Len(wire) : wire' = SubSeq(wire, 1, n)
      BY <1>2 DEF Close
    <2>3. wire' \in Seq(Byte)
      <3>1. IsWirePart(SubSeq(wire, 1, n), SubSeq(wire, n + 1, Len(wire)), n)
        BY <1>0, WireParts
      <3> QED BY <2>2, <3>1 DEF IsWirePart, IsPiece
    <2> QED BY <1>0, <2>1, <2>3 DEF StateInv
  <1>3. CASE Read
    <2>1. /\ sent' = sent /\ closed' = closed /\ part' = part /\ want' = want /\ ended' = ended
      BY <1>3 DEF Read
    <2>2. got' \in Seq(Byte) /\ wire' \in Seq(Byte) /\ Len(got') <= want
      BY <1>3, ReadTyped
    <2> QED BY <1>0, <2>1, <2>2 DEF StateInv
  <1>4. CASE ReadLength
    <2>1. /\ sent' = sent /\ closed' = closed /\ wire' = wire /\ ended' = ended
          /\ part = "length" /\ part' = "data" /\ Len(got) = want /\ want' = Number(got) /\ got' = <<>>
      BY <1>4 DEF ReadLength
    <2>2. IsU32(want')
      <3>1. Len(got) = 4
        BY <1>0, <2>1
      <3> QED BY <1>0, <2>1, <3>1, BytesBack
    <2>3. 0 <= want'
      BY <2>2 DEF IsU32
    <2> QED BY <1>0, <1>a, <2>1, <2>2, <2>3 DEF StateInv
  <1>5. CASE HandleCommand
    <2>1. /\ sent' = sent /\ closed' = closed /\ wire' = wire /\ part' = "length" /\ want' = 4 /\ got' = <<>>
      BY <1>5 DEF HandleCommand, NextLength
    <2>2. ended' \in BOOLEAN
      <3>1. PICK c : Respond(c)
        BY <1>5 DEF HandleCommand
      <3> QED BY <1>0, <3>1 DEF Respond
    <2> QED BY <1>0, <1>a, <2>1, <2>2 DEF StateInv
  <1>6. CASE RefuseCommand
    BY <1>0, <1>6 DEF RefuseCommand, StateInv
  <1>7. CASE ReadEnd
    BY <1>0, <1>7 DEF ReadEnd, StateInv
  <1>8. CASE UNCHANGED vars
    BY <1>0, <1>8 DEF vars, StateInv
  <1> QED BY <1>1, <1>2, <1>3, <1>4, <1>5, <1>6, <1>7, <1>8 DEF Next, Step

LEMMA OutputStep ==
  ASSUME StateInv, OutputInv, [Next]_vars
  PROVE  OutputInv'
  <1>0. responses \in Seq(Responses) /\ output = FlattenSeq(PacketsOf(Contents(responses))) /\ got \in Seq(Byte)
    BY DEF OutputInv, StateInv
  <1>1. CASE UNCHANGED <<output, responses>>
    BY <1>1 DEF OutputInv
  <1>2. CASE HandleCommand
    <2>1. PICK c \in {Parse(got)} \ {Refused} : Respond(c)
      BY <1>2 DEF HandleCommand
    <2>2. ResponsesTo(c) \subseteq Responses
      <3>1. NegotiatesNumbers(c)
        BY <1>0, <2>1, NegotiationParsed
      <3> QED BY <3>1, ResponsesGiven
    <2>3. \/ UNCHANGED <<output, responses>>
          \/ \E r \in Responses : output' = output \o Data(r) /\ responses' = Append(responses, r)
      BY <2>1, <2>2 DEF Respond
    <2>4. ASSUME NEW r \in Responses, output' = output \o Data(r), responses' = Append(responses, r)
          PROVE  OutputInv'
      <3>1. PICK q : q = Contents(responses)
        OBVIOUS
      <3>2. q \in Seq(Seq(Byte)) /\ Contents(responses') = Append(q, Content(r)) /\ Content(r) \in Seq(Byte)
        BY <1>0, <2>4, <3>1, ContentsTyped, ContentsAppended
      <3>3. FlattenSeq(PacketsOf(Append(q, Content(r)))) = FlattenSeq(PacketsOf(q)) \o Packet(Content(r))
        BY <3>2, PacketsAppended
      <3>4. output' = FlattenSeq(PacketsOf(Contents(responses')))
        BY <1>0, <2>4, <3>1, <3>2, <3>3, DataIsPacket
      <3>5. responses' \in Seq(Responses)
        BY <1>0, <2>4
      <3> QED BY <3>4, <3>5 DEF OutputInv
    <2> QED BY <1>1, <2>3, <2>4
  <1>3. CASE Close \/ Read \/ ReadLength \/ RefuseCommand \/ ReadEnd \/ UNCHANGED vars
    BY <1>1, <1>3 DEF Close, Read, ReadLength, RefuseCommand, ReadEnd, vars, session
  <1>4. ASSUME NEW c \in Offered, Send(c)
        PROVE  OutputInv'
    BY <1>1, <1>4 DEF Send, session
  <1> QED BY <1>2, <1>3, <1>4 DEF Next, Step

LEMMA SpecInv == Spec => [](StateInv /\ OutputInv)
  <1>1. StateInv /\ OutputInv /\ [Next]_vars => (StateInv /\ OutputInv)'
    BY StateStep, OutputStep
  <1> QED BY <1>1, InitInv, PTL DEF Spec

LEMMA OutputRead ==
  ASSUME OutputInv
  PROVE  ResponsesRead
  <1>1. PICK q, s, b : q = Contents(responses) /\ s = PacketsOf(q) /\ b = output
    OBVIOUS
  <1>2. /\ q \in Seq(Seq(Byte)) /\ Len(q) = Len(responses) /\ Len(q) \in Nat /\ responses \in Seq(Responses)
        /\ \A i \in 1 .. Len(q) : q[i] = Content(responses[i]) /\ Readable(responses[i])
    BY <1>1, ContentsTyped DEF OutputInv
  <1>3. DOMAIN q = 1 .. Len(q)
    BY <1>2
  <1>4. Carried(q)
    <2>1. \A i \in 1 .. Len(q) : IsU32(Len(q[i]))
      BY <1>2 DEF Readable
    <2> QED BY <1>2, <1>3, <2>1 DEF Carried
  <1>5. s \in Seq(Seq(Byte)) /\ Len(s) = Len(q) /\ b = FlattenSeq(s)
    BY <1>1, <1>2, PacketsTyped DEF OutputInv
  <1>6. PICK f : Parts(f, s) /\ FlattenSeq(s) = f[Len(s)]
    BY <1>5, PartsOf
  <1>7. b \in Seq(Byte) /\ b = f[Len(q)] /\ Len(b) \in Nat
    <2>1. b \in Seq(Byte)
      BY <1>5, Flattened
    <2> QED BY <1>5, <1>6, <2>1
  <1>8. Begins(b, f[Len(q)])
    BY <1>7 DEF Begins
  <1>9. PICK n : n = Len(q)
    OBVIOUS
  <1>10. Completes(b, q, f, n)
    BY <1>2, <1>7, <1>9 DEF Completes
  <1>11. Frames(b) = SubSeq(q, 1, n)
    BY <1>1, <1>4, <1>6, <1>8, <1>10, FramesOf
  <1>12. Frames(output) = q
    BY <1>1, <1>2, <1>9, <1>11, SubSeqFull
  <1>13. [i \in DOMAIN q |-> Packet(q[i])] = s
    BY <1>1 DEF PacketsOf
  <1>14. [i \in DOMAIN q |-> Reply(q[i])] = responses
    <2>1. \A i \in 1 .. Len(q) : Reply(q[i]) = responses[i]
      BY <1>2 DEF Readable
    <2>2. responses = [i \in 1 .. Len(q) |-> responses[i]]
      BY <1>2
    <2> QED BY <1>3, <2>1, <2>2
  <1>15. FlattenSeq([i \in DOMAIN q |-> Packet(q[i])]) = output
    BY <1>1, <1>5, <1>13
  <1> QED BY <1>12, <1>14, <1>15 DEF ResponsesRead

\* The mail server reads exactly the responses that were given, from however many
\* commands in whatever pieces (Response::data, write_response).
THEOREM ResponsesAlwaysRead == Spec => []ResponsesRead
  <1>1. OutputInv => ResponsesRead
    BY OutputRead
  <1> QED BY <1>1, SpecInv, PTL

-----------------------------------------------------------------------------
(* How many packets of a stream are complete *)

Stream(q) == FlattenSeq(PacketsOf(q))

\* So many are, in bytes that the stream begins with.
Whole(b, q, n) == \E f : Parts(f, PacketsOf(q)) /\ Begins(b, f[Len(q)]) /\ Completes(b, q, f, n)

LEMMA StreamParts ==
  ASSUME NEW q, Carried(q), NEW f, Parts(f, PacketsOf(q))
  PROVE  /\ Stream(q) = f[Len(q)] /\ Stream(q) \in Seq(Byte) /\ Len(q) \in Nat
         /\ \A i \in 0 .. Len(q) : f[i] \in Seq(Byte) /\ Len(f[i]) \in Nat
         /\ \A i, j \in 0 .. Len(q) : i <= j => Len(f[i]) <= Len(f[j])
  <1>1. PICK s : s = PacketsOf(q)
    OBVIOUS
  <1>2. s \in Seq(Seq(Byte)) /\ Len(s) = Len(q) /\ Parts(f, s) /\ Len(q) \in Nat
    BY <1>1, PacketsTyped DEF Carried
  <1>3. Stream(q) = f[Len(q)] /\ Stream(q) \in Seq(Byte)
    BY <1>1, <1>2, FlattenedParts DEF Stream
  <1>4. \A i \in 0 .. Len(q) : f[i] \in Seq(Byte)
    BY <1>2, PartsTyped
  <1>5. \A i, j \in 0 .. Len(q) : i <= j => Len(f[i]) <= Len(f[j])
    <2> SUFFICES ASSUME NEW i \in 0 .. Len(q), NEW j \in 0 .. Len(q), i <= j
                 PROVE  Len(f[i]) <= Len(f[j])
      OBVIOUS
    <2>1. i \in 0 .. Len(s) /\ j \in i .. Len(s)
      BY <1>2
    <2> QED BY <1>2, <2>1, PartsGrow
  <1>6. \A i \in 0 .. Len(q) : Len(f[i]) \in Nat
    BY <1>4
  <1> QED BY <1>2, <1>3, <1>4, <1>5, <1>6

LEMMA WholeBy ==
  ASSUME NEW q, Carried(q), NEW f, Parts(f, PacketsOf(q)), NEW b, Begins(b, Stream(q))
  PROVE  \E n : Completes(b, q, f, n) /\ Whole(b, q, n)
  <1>0. /\ Stream(q) = f[Len(q)] /\ Len(q) \in Nat
        /\ \A i \in 0 .. Len(q) : Len(f[i]) \in Nat
    BY StreamParts
  <1>1. Len(b) \in Nat
    BY DEF Begins
  <1> DEFINE T == {m \in Nat : m > Len(q) \/ (m \in 0 .. Len(q) /\ Len(b) < Len(f[m]))}
  <1>2. T \in SUBSET Nat /\ T # {}
    <2>1. Len(q) + 1 \in T
      BY <1>0
    <2> QED BY <2>1
  <1>3. PICK m \in T : \A k \in T : m <= k
    <2> HIDE DEF T
    <2> QED BY <1>2, LeastNatural
  <1>4. m # 0
    <2>1. f[0] = <<>> /\ Len(<<>>) = 0
      BY DEF Parts
    <2>2. 0 \notin T
      BY <1>0, <1>1, <2>1
    <2> QED BY <1>3, <2>2
  <1>5. PICK n : n = m - 1
    OBVIOUS
  <1>6. m \in Nat /\ n \in Nat /\ m = n + 1 /\ ~(m <= n)
    BY <1>3, <1>4, <1>5
  <1>7. n \notin T
    BY <1>3, <1>6
  <1>8. n \in 0 .. Len(q) /\ ~(Len(b) < Len(f[n]))
    BY <1>0, <1>6, <1>7
  <1>9. Len(f[n]) <= Len(b)
    BY <1>0, <1>1, <1>8
  <1>10. n < Len(q) => Len(b) < Len(f[n + 1])
    BY <1>0, <1>3, <1>6
  <1>11. Completes(b, q, f, n)
    BY <1>8, <1>9, <1>10 DEF Completes
  <1> QED BY <1>0, <1>11 DEF Whole

LEMMA FramesWhole ==
  ASSUME NEW q, Carried(q), NEW b, NEW n, Whole(b, q, n)
  PROVE  Frames(b) = SubSeq(q, 1, n) /\ Len(Frames(b)) = n /\ n \in 0 .. Len(q) /\ n \in Nat
  <1>1. PICK f : Parts(f, PacketsOf(q)) /\ Begins(b, f[Len(q)]) /\ Completes(b, q, f, n)
    BY DEF Whole
  <1>2. Frames(b) = SubSeq(q, 1, n)
    BY <1>1, FramesOf
  <1>3. n \in 0 .. Len(q) /\ Len(q) \in Nat /\ q \in Seq(Seq(Byte))
    BY <1>1 DEF Completes, Carried
  <1>4. IsPiece(Seq(Byte), SubSeq(q, 0 + 1, 0 + n), q, 0, n)
    <2>1. n \in Nat /\ 0 + n <= Len(q)
      BY <1>3
    <2> QED BY <1>3, <2>1, Piece
  <1>5. 0 + 1 = 1 /\ 0 + n = n /\ n \in Nat
    BY <1>3
  <1>6. Len(SubSeq(q, 1, n)) = n
    BY <1>4, <1>5 DEF IsPiece
  <1> QED BY <1>2, <1>3, <1>5, <1>6

\* As many as there are, if all of it is there.
LEMMA FramesAll ==
  ASSUME NEW q, Carried(q)
  PROVE  Len(Frames(Stream(q))) = Len(q)
  <1>1. PICK f : Parts(f, PacketsOf(q))
    <2>1. PacketsOf(q) \in Seq(Seq(Byte))
      BY PacketsTyped DEF Carried
    <2> QED BY <2>1, PartsOf
  <1>2. Stream(q) = f[Len(q)] /\ Stream(q) \in Seq(Byte) /\ Len(q) \in Nat
    BY <1>1, StreamParts
  <1>3. PICK b, n : b = Stream(q) /\ n = Len(q)
    OBVIOUS
  <1>4. Begins(b, f[Len(q)]) /\ Len(b) \in Nat
    BY <1>2, <1>3 DEF Begins
  <1>5. Completes(b, q, f, n)
    BY <1>2, <1>3, <1>4 DEF Completes
  <1>6. Whole(b, q, n)
    BY <1>1, <1>4, <1>5 DEF Whole
  <1> QED BY <1>3, <1>6, FramesWhole

\* No more, if less of it is there.
LEMMA FramesFewer ==
  ASSUME NEW q, Carried(q), NEW b, Begins(b, Stream(q)), NEW a, Begins(a, b)
  PROVE  Begins(a, Stream(q)) /\ Len(Frames(a)) <= Len(Frames(b))
  <1>1. PICK f : Parts(f, PacketsOf(q))
    <2>1. PacketsOf(q) \in Seq(Seq(Byte))
      BY PacketsTyped DEF Carried
    <2> QED BY <2>1, PartsOf
  <1>2. Begins(a, Stream(q))
    <2>1. PICK c, k, l, m : c = Stream(q) /\ k = Len(a) /\ l = Len(b) /\ m = Len(c)
      OBVIOUS
    <2>2. /\ a \in Seq(Byte) /\ b \in Seq(Byte) /\ c \in Seq(Byte) /\ k <= l /\ l <= m
          /\ \A p \in 1 .. k : a[p] = b[p]
          /\ \A p \in 1 .. l : b[p] = c[p]
      BY <2>1 DEF Begins
    <2>3. k \in Nat /\ l \in Nat /\ m \in Nat
      BY <2>1, <2>2
    <2>4. k <= m /\ \A p \in 1 .. k : p \in 1 .. l
      BY <2>2, <2>3
    <2>5. \A p \in 1 .. k : a[p] = c[p]
      BY <2>1, <2>4 DEF Begins
    <2> QED BY <2>1, <2>2, <2>4, <2>5 DEF Begins
  <1>3. PICK m : Completes(a, q, f, m) /\ Whole(a, q, m)
    BY <1>1, <1>2, WholeBy
  <1>4. PICK n : Completes(b, q, f, n) /\ Whole(b, q, n)
    BY <1>1, WholeBy
  <1>5. Len(Frames(a)) = m /\ Len(Frames(b)) = n /\ m \in 0 .. Len(q) /\ n \in 0 .. Len(q)
    BY <1>3, <1>4, FramesWhole
  <1>6. /\ Len(q) \in Nat
        /\ \A i \in 0 .. Len(q) : Len(f[i]) \in Nat
        /\ \A i, j \in 0 .. Len(q) : i <= j => Len(f[i]) <= Len(f[j])
    BY <1>1, StreamParts
  <1>7. ASSUME n < m
        PROVE  FALSE
    <2>1. n + 1 \in 0 .. Len(q) /\ n + 1 <= m /\ n < Len(q)
      BY <1>5, <1>6, <1>7
    <2>2. PICK u, v, x, y : u = Len(a) /\ v = Len(b) /\ x = Len(f[n + 1]) /\ y = Len(f[m])
      OBVIOUS
    <2>3. x \in Nat /\ y \in Nat /\ x <= y
      BY <1>5, <1>6, <2>1, <2>2
    <2>4. v < x /\ y <= u
      BY <1>3, <1>4, <2>1, <2>2 DEF Completes
    <2>5. u \in Nat /\ v \in Nat /\ u <= v
      BY <2>2 DEF Begins
    <2> QED BY <2>3, <2>4, <2>5
  <1>8. m <= n
    BY <1>5, <1>6, <1>7
  <1> QED BY <1>2, <1>5, <1>8

\* A stream and what comes after its first packet.
Follows(q, x, t) ==
    /\ Carried(q) /\ Carried(t) /\ Len(q) = Len(t) + 1 /\ q[1] = x
    /\ \A i \in 1 .. Len(t) : q[i + 1] = t[i]

BeginsWith(q, x, t) ==
    /\ Stream(q) = Packet(x) \o Stream(t) /\ Stream(t) \in Seq(Byte) /\ Stream(q) \in Seq(Byte)
    /\ IsPacket(Packet(x), x) /\ x \in Seq(Byte) /\ IsU32(Len(x))

LEMMA StreamFirst ==
  ASSUME NEW q, NEW x, NEW t, Follows(q, x, t)
  PROVE  BeginsWith(q, x, t)
  <1>1. /\ q \in Seq(Seq(Byte)) /\ t \in Seq(Seq(Byte)) /\ Len(t) \in Nat /\ Len(q) = Len(t) + 1
        /\ DOMAIN q = 1 .. Len(q)
    BY DEF Follows, Carried
  <1>2. x \in Seq(Byte) /\ IsU32(Len(x))
    <2>1. 1 \in 1 .. Len(q)
      BY <1>1
    <2>2. q[1] \in Seq(Byte)
      BY <1>1, <2>1, ElementOfSeq
    <2>3. IsU32(Len(q[1])) /\ q[1] = x
      BY <1>1, <2>1 DEF Follows, Carried
    <2> QED BY <2>2, <2>3
  <1>3. IsPacket(Packet(x), x)
    BY <1>2, PacketTyped
  <1>4. PICK r, s : r = PacketsOf(q) /\ s = PacketsOf(t)
    OBVIOUS
  <1>5. /\ r \in Seq(Seq(Byte)) /\ Len(r) = Len(q) /\ \A i \in 1 .. Len(q) : r[i] = Packet(q[i])
        /\ s \in Seq(Seq(Byte)) /\ Len(s) = Len(t) /\ \A i \in 1 .. Len(t) : s[i] = Packet(t[i])
    BY <1>1, <1>4, PacketsTyped
  <1>6. Len(r) = Len(s) + 1 /\ r[1] = Packet(x) /\ Packet(x) \in Seq(Byte)
    <2>1. 1 \in 1 .. Len(q)
      BY <1>1
    <2> QED BY <1>1, <1>3, <1>5, <2>1 DEF Follows, IsPacket
  <1>7. \A i \in 1 .. Len(s) : r[i + 1] = s[i]
    <2>1. \A i \in 1 .. Len(t) : i + 1 \in 1 .. Len(q)
      BY <1>1
    <2> QED BY <1>5, <2>1 DEF Follows
  <1>8. FlattenSeq(r) = Packet(x) \o FlattenSeq(s)
    BY <1>5, <1>6, <1>7, FlattenFirst
  <1>9. FlattenSeq(s) \in Seq(Byte) /\ FlattenSeq(r) \in Seq(Byte)
    BY <1>5, Flattened
  <1> QED BY <1>2, <1>3, <1>4, <1>8, <1>9 DEF Stream, BeginsWith

LEMMA FramesNone ==
  ASSUME NEW q, NEW x, NEW t, Follows(q, x, t), NEW b, Begins(b, Stream(q)), Len(b) < 4 + Len(x)
  PROVE  Len(Frames(b)) = 0
  <1>0. Carried(q) /\ Carried(t) /\ Len(q) = Len(t) + 1
    BY DEF Follows
  <1>1. PICK f : Parts(f, PacketsOf(q))
    <2>1. PacketsOf(q) \in Seq(Seq(Byte))
      BY <1>0, PacketsTyped DEF Carried
    <2> QED BY <2>1, PartsOf
  <1>2. PICK n : Completes(b, q, f, n) /\ Whole(b, q, n)
    BY <1>0, <1>1, WholeBy
  <1>3. Len(Frames(b)) = n /\ n \in 0 .. Len(q)
    BY <1>0, <1>2, FramesWhole
  <1>4. /\ Len(q) \in Nat /\ Stream(q) = f[Len(q)]
        /\ \A i \in 0 .. Len(q) : Len(f[i]) \in Nat
        /\ \A i, j \in 0 .. Len(q) : i <= j => Len(f[i]) <= Len(f[j])
    BY <1>0, <1>1, StreamParts
  <1>5. Len(t) \in Nat
    BY <1>0 DEF Carried
  <1>6. ASSUME n # 0
        PROVE  FALSE
    <2>1. 1 \in 0 .. Len(q) /\ 1 <= n /\ 1 \in 1 .. Len(q)
      BY <1>0, <1>3, <1>4, <1>5, <1>6
    <2>2. AtPacket(b, q, f, 1)
      BY <1>0, <1>1, <1>4, <2>1, PacketRead
    <2>3. Len(f[1]) = (Len(f[0]) + 4) + Len(x) /\ Len(f[0]) \in Nat /\ Len(x) \in Nat
      <3>1. 1 - 1 = 0 /\ q[1] = x
        BY DEF Follows
      <3> QED BY <2>2, <3>1 DEF AtPacket
    <2>4. Len(f[0]) = 0
      <3>1. f[0] = <<>> /\ Len(<<>>) = 0
        BY <1>1 DEF Parts
      <3> QED BY <3>1
    <2>5. Len(f[1]) <= Len(f[n]) /\ Len(f[n]) <= Len(b) /\ Len(f[n]) \in Nat
      BY <1>2, <1>3, <1>4, <2>1 DEF Completes
    <2>6. Len(b) \in Nat
      BY DEF Begins
    <2> QED BY <2>3, <2>4, <2>5, <2>6
  <1> QED BY <1>3, <1>6

IsOneMore(b, w) == Len(Frames(b)) = Len(Frames(w)) + 1

LEMMA FramesOneMore ==
  ASSUME NEW q, NEW x, NEW t, Follows(q, x, t), NEW w, Begins(w, Stream(t)),
         NEW b, b = Packet(x) \o w
  PROVE  IsOneMore(b, w)
  <1>0. Carried(q) /\ Carried(t) /\ Len(q) = Len(t) + 1 /\ Len(t) \in Nat
    BY DEF Follows, Carried
  <1>1. PICK p, c : p = Packet(x) /\ c = Stream(t)
    OBVIOUS
  <1>2. p \in Seq(Byte) /\ c \in Seq(Byte) /\ Stream(q) = p \o c /\ Len(p) = 4 + Len(x) /\ Len(x) \in Nat
    <2>1. BeginsWith(q, x, t)
      BY StreamFirst
    <2>2. x \in Seq(Byte) /\ IsPacket(p, x) /\ c \in Seq(Byte) /\ Stream(q) = p \o c
      BY <1>1, <2>1 DEF BeginsWith
    <2>3. p \in Seq(Byte) /\ Len(p) = 4 + Len(x)
      BY <2>2 DEF IsPacket
    <2> QED BY <2>2, <2>3
  <1>3. w \in Seq(Byte) /\ Len(w) \in Nat /\ Len(w) <= Len(c) /\ \A i \in 1 .. Len(w) : w[i] = c[i]
    BY <1>1 DEF Begins
  <1>4. PICK d : d = Stream(q)
    OBVIOUS
  <1>5. IsJoin(Byte, b, p, w) /\ IsJoin(Byte, d, p, c)
    BY <1>1, <1>2, <1>3, <1>4, Joined
  <1>6. Begins(b, d)
    <2>1. PICK k, l, m : k = Len(p) /\ l = Len(w) /\ m = Len(c)
      OBVIOUS
    <2>2. /\ k \in Nat /\ l \in Nat /\ m \in Nat /\ l <= m /\ Len(b) = k + l /\ Len(d) = k + m
          /\ \A i \in 1 .. k : b[i] = p[i] /\ d[i] = p[i]
          /\ \A i \in 1 .. l : b[k + i] = w[i]
          /\ \A i \in 1 .. m : d[k + i] = c[i]
      BY <1>3, <1>5, <2>1 DEF IsJoin
    <2>3. ASSUME NEW i \in 1 .. Len(b)
          PROVE  b[i] = d[i]
      <3>1. CASE i <= k
        <4>1. i \in 1 .. k
          BY <2>2, <3>1
        <4> QED BY <2>2, <4>1
      <3>2. CASE ~(i <= k)
        <4>1. PICK j : j = i - k
          OBVIOUS
        <4>2. j \in 1 .. l /\ j \in 1 .. m /\ k + j = i
          BY <2>2, <3>2, <4>1
        <4>3. b[k + j] = w[j] /\ d[k + j] = c[j] /\ w[j] = c[j]
          BY <1>3, <2>1, <2>2, <4>2
        <4> QED BY <4>2, <4>3
      <3> QED BY <3>1, <3>2
    <2>4. Len(b) <= Len(d) /\ b \in Seq(Byte) /\ d \in Seq(Byte)
      BY <1>5, <2>2 DEF IsJoin
    <2> QED BY <2>3, <2>4 DEF Begins
  <1>7. PICK f : Parts(f, PacketsOf(q))
    <2>1. PacketsOf(q) \in Seq(Seq(Byte))
      BY <1>0, PacketsTyped DEF Carried
    <2> QED BY <2>1, PartsOf
  <1>8. PICK g : Parts(g, PacketsOf(t))
    <2>1. PacketsOf(t) \in Seq(Seq(Byte))
      BY <1>0, PacketsTyped DEF Carried
    <2> QED BY <2>1, PartsOf
  <1>9. PICK n : Completes(w, t, g, n) /\ Whole(w, t, n)
    BY <1>0, <1>8, WholeBy
  <1>10. Len(Frames(w)) = n /\ n \in 0 .. Len(t) /\ n \in Nat
    BY <1>0, <1>9, FramesWhole
  <1>11. /\ \A i \in 0 .. Len(q) : Len(f[i]) \in Nat
         /\ d = f[Len(q)]
    BY <1>0, <1>4, <1>7, StreamParts
  <1>12. \A i \in 0 .. Len(t) : Len(g[i]) \in Nat
    BY <1>0, <1>8, StreamParts
  <1> DEFINE T == {i \in Nat : Len(f[i + 1]) = Len(p) + Len(g[i])}
  <1>13. \A i \in 0 .. Len(t) : i \in T
    <2>1. 0 \in T
      <3>1. AtPacket(b, q, f, 1)
        <4>1. 1 \in 1 .. Len(q)
          BY <1>0
        <4> QED BY <1>0, <1>4, <1>6, <1>7, <1>11, <4>1, PacketRead
      <3>2. Len(f[1]) = (Len(f[0]) + 4) + Len(x) /\ Len(f[0]) \in Nat
        <4>1. 1 - 1 = 0 /\ q[1] = x
          BY DEF Follows
        <4> QED BY <3>1, <4>1 DEF AtPacket
      <3>3. Len(f[0]) = 0 /\ Len(g[0]) = 0 /\ 0 + 1 = 1
        <4>1. f[0] = <<>> /\ g[0] = <<>> /\ Len(<<>>) = 0
          BY <1>7, <1>8 DEF Parts
        <4> QED BY <4>1
      <3>4. Len(f[0 + 1]) = Len(p) + Len(g[0])
        BY <1>2, <3>2, <3>3
      <3> QED BY <3>4
    <2>2. ASSUME NEW i \in 0 .. Len(t) - 1, i \in T
          PROVE  i + 1 \in T
      <3>1. /\ i + 1 \in 1 .. Len(t) /\ (i + 1) - 1 = i /\ i + 1 \in Nat
            /\ (i + 1) + 1 \in 1 .. Len(q) /\ ((i + 1) + 1) - 1 = i + 1
        BY <1>0
      <3>2. AtPacket(b, q, f, (i + 1) + 1)
        BY <1>0, <1>4, <1>6, <1>7, <1>11, <3>1, PacketRead
      <3>3. AtPacket(w, t, g, i + 1)
        <4>1. Begins(w, g[Len(t)])
          BY <1>0, <1>8, StreamParts
        <4> QED BY <1>0, <1>8, <3>1, <4>1, PacketRead
      <3>4. q[(i + 1) + 1] = t[i + 1]
        BY <3>1 DEF Follows
      <3>5. PICK y, u, v, a, e, l : /\ y = Len(t[i + 1]) /\ u = Len(f[(i + 1) + 1]) /\ v = Len(f[i + 1])
                                    /\ a = Len(g[i + 1]) /\ e = Len(g[i]) /\ l = Len(p)
        OBVIOUS
      <3>6. u = (v + 4) + y /\ v \in Nat /\ y \in Nat
        BY <3>1, <3>2, <3>4, <3>5 DEF AtPacket
      <3>7. a = (e + 4) + y /\ e \in Nat
        BY <3>1, <3>3, <3>5 DEF AtPacket
      <3>8. v = l + e
        BY <2>2, <3>5
      <3>9. l \in Nat
        BY <1>2, <3>5
      <3>10. u = l + a
        BY <3>6, <3>7, <3>8, <3>9
      <3> QED BY <3>1, <3>5, <3>10
    <2> HIDE DEF T
    <2> QED BY <1>0, <2>1, <2>2, Ascending
  <1>14. \A i \in 0 .. Len(t) : Len(f[i + 1]) = Len(p) + Len(g[i])
    BY <1>13
  <1>15. Completes(b, q, f, n + 1)
    <2>1. n + 1 \in 0 .. Len(q)
      BY <1>0, <1>10
    <2>2. Len(b) = Len(p) + Len(w) /\ Len(p) \in Nat
      BY <1>5 DEF IsJoin
    <2>3. Len(f[n + 1]) <= Len(b)
      <3>1. Len(g[n]) <= Len(w) /\ Len(g[n]) \in Nat /\ Len(f[n + 1]) = Len(p) + Len(g[n])
        BY <1>9, <1>10, <1>12, <1>14 DEF Completes
      <3> QED BY <1>3, <2>2, <3>1
    <2>4. ASSUME n + 1 < Len(q)
          PROVE  Len(b) < Len(f[(n + 1) + 1])
      <3>1. n + 1 \in 0 .. Len(t) /\ n < Len(t)
        BY <1>0, <1>10, <2>4
      <3>2. Len(w) < Len(g[n + 1]) /\ Len(g[n + 1]) \in Nat /\ Len(f[(n + 1) + 1]) = Len(p) + Len(g[n + 1])
        BY <1>9, <1>12, <1>14, <3>1 DEF Completes
      <3> QED BY <1>3, <2>2, <3>2
    <2> QED BY <2>1, <2>3, <2>4 DEF Completes
  <1>16. Whole(b, q, n + 1)
    BY <1>4, <1>6, <1>7, <1>11, <1>15 DEF Whole
  <1>17. Len(Frames(b)) = n + 1
    BY <1>0, <1>16, FramesWhole
  <1> QED BY <1>10, <1>17 DEF IsOneMore

-----------------------------------------------------------------------------
(* The commands that are under way, and the bytes that tell them *)

Payloads(cs) == [i \in DOMAIN cs |-> Payload(cs[i])]

PendingOf(s, h) == SubSeq(s, h + 1, Len(s))
StreamOf(s, h) == Stream(Payloads(PendingOf(s, h)))

\* After h of the commands s, so many bytes r are still there; all, or a part.
InChannel(s, h, r, all) ==
    /\ s \in Seq(Offered) /\ h \in 0 .. Len(s)
    /\ Begins(r, StreamOf(s, h))
    /\ all => r = StreamOf(s, h)

QueueOf(s, h, r) == SubSeq(s, h + 1, h + Len(Frames(r)))

LEMMA PayloadsTyped ==
  ASSUME NEW cs \in Seq(Offered)
  PROVE  /\ Carried(Payloads(cs)) /\ Len(Payloads(cs)) = Len(cs)
         /\ \A i \in 1 .. Len(cs) : Payloads(cs)[i] = Payload(cs[i])
  <1>1. DOMAIN cs = 1 .. Len(cs) /\ Len(cs) \in Nat
    OBVIOUS
  <1>2. PICK t : t = Payloads(cs)
    OBVIOUS
  <1>3. t = [i \in 1 .. Len(cs) |-> Payload(cs[i])]
    BY <1>1, <1>2 DEF Payloads
  <1>4. \A i \in 1 .. Len(cs) : t[i] = Payload(cs[i])
    BY <1>3
  <1>5. ASSUME NEW i \in 1 .. Len(cs)
        PROVE  t[i] \in Seq(Byte) /\ IsU32(Len(t[i]))
    <2>1. cs[i] \in Offered
      BY ElementOfSeq
    <2>2. IsPayload(Payload(cs[i]), cs[i])
      BY <2>1, OfferedCommands, PayloadTyped
    <2>3. IsPayload(t[i], cs[i])
      BY <1>4, <2>2
    <2> QED BY <2>3 DEF IsPayload
  <1>6. t \in [1 .. Len(cs) -> Seq(Byte)]
    BY <1>3, <1>5
  <1>7. OfLength(Seq(Byte), t, Len(cs))
    BY <1>1, <1>6, FunctionIsSeq
  <1>8. t \in Seq(Seq(Byte)) /\ Len(t) = Len(cs) /\ DOMAIN t = 1 .. Len(cs)
    BY <1>3, <1>7 DEF OfLength
  <1> QED BY <1>2, <1>4, <1>5, <1>8 DEF Carried

ArePending(p, s, h) ==
    /\ p \in Seq(Offered) /\ Len(p) = Len(s) - h /\ Len(s) \in Nat /\ h \in Nat /\ Len(p) \in Nat
    /\ \A i \in 1 .. Len(p) : p[i] = s[h + i]

LEMMA PendingTyped ==
  ASSUME NEW s \in Seq(Offered), NEW h \in 0 .. Len(s)
  PROVE  ArePending(PendingOf(s, h), s, h)
  <1>1. PICK l, p : l = Len(s) - h /\ p = PendingOf(s, h)
    OBVIOUS
  <1>2. l \in Nat /\ h \in Nat /\ h + l = Len(s) /\ h + l <= Len(s) /\ Len(s) \in Nat
    BY <1>1
  <1>3. IsPiece(Offered, SubSeq(s, h + 1, h + l), s, h, l)
    BY <1>2, Piece
  <1>4. IsPiece(Offered, p, s, h, l)
    BY <1>1, <1>2, <1>3 DEF PendingOf
  <1> QED BY <1>1, <1>2, <1>4 DEF ArePending, IsPiece

\* What InChannel says, in the terms of the lemmas about streams.
Carries(s, h, r, q) ==
    /\ q = Payloads(PendingOf(s, h)) /\ Carried(q) /\ Len(q) = Len(s) - h
    /\ Len(s) \in Nat /\ h \in Nat /\ h <= Len(s) /\ Len(q) \in Nat
    /\ \A i \in 1 .. Len(q) : q[i] = Payload(s[h + i])
    /\ Begins(r, Stream(q))

LEMMA ChannelCarries ==
  ASSUME NEW s, NEW h, NEW r, NEW all, InChannel(s, h, r, all)
  PROVE  Carries(s, h, r, Payloads(PendingOf(s, h)))
  <1>1. s \in Seq(Offered) /\ h \in 0 .. Len(s) /\ Begins(r, StreamOf(s, h))
    BY DEF InChannel
  <1>2. PICK p, q : p = PendingOf(s, h) /\ q = Payloads(PendingOf(s, h))
    OBVIOUS
  <1>3. ArePending(p, s, h)
    BY <1>1, <1>2, PendingTyped
  <1>4. /\ p \in Seq(Offered) /\ Len(p) = Len(s) - h /\ Len(s) \in Nat /\ h \in Nat /\ Len(p) \in Nat
        /\ \A i \in 1 .. Len(p) : p[i] = s[h + i]
    BY <1>3 DEF ArePending
  <1>5. Carried(q) /\ Len(q) = Len(p) /\ \A i \in 1 .. Len(p) : q[i] = Payload(p[i])
    BY <1>2, <1>4, PayloadsTyped
  <1>6. Begins(r, Stream(q))
    BY <1>1, <1>2 DEF StreamOf
  <1>7. h <= Len(s)
    BY <1>1
  <1> QED BY <1>2, <1>4, <1>5, <1>6, <1>7 DEF Carries

\* The commands of which all bytes are there.
IsQueue(z, s, h, n) ==
    /\ z \in Seq(Offered) /\ Len(z) = n /\ n \in Nat /\ h + n <= Len(s)
    /\ \A i \in 1 .. n : z[i] = s[h + i]

LEMMA QueueTyped ==
  ASSUME NEW s, NEW h, NEW r, NEW all, InChannel(s, h, r, all)
  PROVE  IsQueue(QueueOf(s, h, r), s, h, Len(Frames(r)))
  <1>1. PICK q : q = Payloads(PendingOf(s, h))
    OBVIOUS
  <1>2. Carries(s, h, r, q)
    BY <1>1, ChannelCarries
  <1>3. /\ Carried(q) /\ Len(q) = Len(s) - h /\ Begins(r, Stream(q))
        /\ Len(s) \in Nat /\ h \in Nat
    BY <1>2 DEF Carries
  <1>4. PICK f : Parts(f, PacketsOf(q))
    <2>1. PacketsOf(q) \in Seq(Seq(Byte))
      BY <1>3, PacketsTyped DEF Carried
    <2> QED BY <2>1, PartsOf
  <1>5. PICK n : Whole(r, q, n)
    BY <1>3, <1>4, WholeBy
  <1>6. Len(Frames(r)) = n /\ n \in 0 .. Len(q) /\ n \in Nat
    BY <1>3, <1>5, FramesWhole
  <1>7. h + n <= Len(s)
    BY <1>3, <1>6
  <1>8. IsPiece(Offered, SubSeq(s, h + 1, h + n), s, h, n)
    <2>1. s \in Seq(Offered)
      BY DEF InChannel
    <2> QED BY <1>3, <1>6, <1>7, <2>1, Piece
  <1> QED BY <1>6, <1>7, <1>8 DEF IsQueue, QueueOf, IsPiece

LEMMA ChannelNext ==
  ASSUME NEW s, NEW h, NEW r, NEW all, InChannel(s, h, r, all), h # Len(s)
  PROVE  Follows(Payloads(PendingOf(s, h)), Payload(s[h + 1]), Payloads(PendingOf(s, h + 1)))
  <1>1. s \in Seq(Offered) /\ h \in 0 .. Len(s) /\ Len(s) \in Nat
    BY DEF InChannel
  <1>2. h + 1 \in 0 .. Len(s) /\ h \in Nat
    BY <1>1
  <1>3. PICK p, q, o, t : /\ p = PendingOf(s, h) /\ q = Payloads(p)
                          /\ o = PendingOf(s, h + 1) /\ t = Payloads(o)
    OBVIOUS
  <1>4. ArePending(p, s, h) /\ ArePending(o, s, h + 1)
    BY <1>1, <1>2, <1>3, PendingTyped
  <1>5. /\ p \in Seq(Offered) /\ Len(p) = Len(s) - h /\ Len(p) \in Nat
        /\ \A i \in 1 .. Len(p) : p[i] = s[h + i]
    BY <1>4 DEF ArePending
  <1>6. /\ o \in Seq(Offered) /\ Len(o) = Len(s) - (h + 1) /\ Len(o) \in Nat
        /\ \A i \in 1 .. Len(o) : o[i] = s[(h + 1) + i]
    BY <1>4 DEF ArePending
  <1>7. Carried(q) /\ Len(q) = Len(p) /\ \A i \in 1 .. Len(p) : q[i] = Payload(p[i])
    BY <1>3, <1>5, PayloadsTyped
  <1>8. Carried(t) /\ Len(t) = Len(o) /\ \A i \in 1 .. Len(o) : t[i] = Payload(o[i])
    BY <1>3, <1>6, PayloadsTyped
  <1>9. Len(q) = Len(t) + 1
    BY <1>1, <1>2, <1>5, <1>6, <1>7, <1>8
  <1>10. 1 \in 1 .. Len(p) /\ \A i \in 1 .. Len(t) : i + 1 \in 1 .. Len(p) /\ (h + 1) + i = h + (i + 1)
    BY <1>2, <1>5, <1>6, <1>7, <1>8, <1>9
  <1>11. q[1] = Payload(s[h + 1])
    BY <1>5, <1>7, <1>10
  <1>12. \A i \in 1 .. Len(t) : q[i + 1] = t[i]
    BY <1>5, <1>6, <1>7, <1>8, <1>10
  <1> QED BY <1>3, <1>7, <1>8, <1>9, <1>11, <1>12 DEF Follows

IsBefore(l, m, h, i) == i \in 1 .. l /\ h + i \in 1 .. m

LEMMA Before ==
  ASSUME NEW l \in Nat, NEW m \in Nat, NEW h \in Nat, l = m - h, NEW i \in 1 .. l + 1, i # l + 1
  PROVE  IsBefore(l, m, h, i)
  <1>1. m = l + h
    OBVIOUS
  <1>2. i \in 1 .. l
    OBVIOUS
  <1>3. h + i \in 1 .. m
    BY <1>1, <1>2
  <1> QED BY <1>2, <1>3 DEF IsBefore

IsSentOn(s, h, r, c) ==
    /\ InChannel(Append(s, c), h, r \o Packet(Payload(c)), TRUE)
    /\ QueueOf(Append(s, c), h, r \o Packet(Payload(c))) = Append(QueueOf(s, h, r), c)

LEMMA ChannelSend ==
  ASSUME NEW s, NEW h, NEW r, InChannel(s, h, r, TRUE), NEW c \in Offered
  PROVE  IsSentOn(s, h, r, c)
  <1>1. s \in Seq(Offered) /\ h \in 0 .. Len(s) /\ r = StreamOf(s, h) /\ Len(s) \in Nat
    BY DEF InChannel
  <1>2. PICK t, x, p, q : t = Append(s, c) /\ x = Payload(c) /\ p = PendingOf(s, h) /\ q = Payloads(p)
    OBVIOUS
  <1>3. t \in Seq(Offered) /\ Len(t) = Len(s) + 1 /\ t[Len(s) + 1] = c /\ \A i \in 1 .. Len(s) : t[i] = s[i]
    BY <1>1, <1>2
  <1>4. PICK o, u : o = PendingOf(t, h) /\ u = Payloads(o)
    OBVIOUS
  <1>5. ArePending(p, s, h) /\ ArePending(o, t, h)
    <2>1. h \in 0 .. Len(t)
      BY <1>1, <1>3
    <2> QED BY <1>1, <1>2, <1>3, <1>4, <2>1, PendingTyped
  <1>6. /\ p \in Seq(Offered) /\ Len(p) = Len(s) - h /\ Len(p) \in Nat /\ h \in Nat
        /\ \A i \in 1 .. Len(p) : p[i] = s[h + i]
    BY <1>5 DEF ArePending
  <1>7. /\ o \in Seq(Offered) /\ Len(o) = Len(t) - h /\ Len(o) \in Nat
        /\ \A i \in 1 .. Len(o) : o[i] = t[h + i]
    BY <1>5 DEF ArePending
  <1>8. Carried(q) /\ Len(q) = Len(p) /\ \A i \in 1 .. Len(p) : q[i] = Payload(p[i])
    BY <1>2, <1>6, PayloadsTyped
  <1>9. Carried(u) /\ Len(u) = Len(o) /\ \A i \in 1 .. Len(o) : u[i] = Payload(o[i])
    BY <1>4, <1>7, PayloadsTyped
  <1>10. q \in Seq(Seq(Byte)) /\ u \in Seq(Seq(Byte)) /\ x \in Seq(Byte)
    <2>1. IsPayload(x, c)
      BY <1>2, OfferedCommands, PayloadTyped
    <2> QED BY <1>8, <1>9, <2>1 DEF Carried, IsPayload
  <1>11. u = Append(q, x)
    <2>1. PICK v : v = Append(q, x)
      OBVIOUS
    <2>2. v \in Seq(Seq(Byte)) /\ Len(v) = Len(p) + 1 /\ v[Len(p) + 1] = x /\ \A i \in 1 .. Len(p) : v[i] = q[i]
      BY <1>8, <1>10, <2>1
    <2>3. Len(o) = Len(p) + 1
      BY <1>1, <1>3, <1>6, <1>7
    <2>4. ASSUME NEW i \in 1 .. Len(u)
          PROVE  u[i] = v[i]
      <3>1. i \in 1 .. Len(o) /\ u[i] = Payload(t[h + i])
        BY <1>7, <1>9
      <3>2. CASE i = Len(p) + 1
        <4>1. h + i = Len(s) + 1
          BY <1>1, <1>6, <3>2
        <4> QED BY <1>2, <1>3, <2>2, <3>1, <3>2, <4>1
      <3>3. CASE i # Len(p) + 1
        <4>1. i \in 1 .. Len(p) /\ h + i \in 1 .. Len(s)
          <5>1. i \in 1 .. Len(p) + 1
            BY <2>3, <3>1
          <5>2. IsBefore(Len(p), Len(s), h, i)
            BY <1>1, <1>6, <3>3, <5>1, Before
          <5> QED BY <5>2 DEF IsBefore
        <4> QED BY <1>3, <1>6, <1>8, <2>2, <3>1, <4>1
      <3> QED BY <3>2, <3>3
    <2>5. Len(u) = Len(v)
      BY <1>9, <2>2, <2>3
    <2>6. u = v
      BY <1>10, <2>2, <2>4, <2>5, SeqEqual
    <2> QED BY <2>1, <2>6
  <1>12. PICK a : a = r \o Packet(x)
    OBVIOUS
  <1>13. r = Stream(q) /\ a = Stream(u) /\ StreamOf(t, h) = Stream(u)
    <2>1. r = Stream(q) /\ StreamOf(t, h) = Stream(u)
      BY <1>1, <1>2, <1>4 DEF StreamOf
    <2>2. FlattenSeq(PacketsOf(Append(q, x))) = FlattenSeq(PacketsOf(q)) \o Packet(x)
      BY <1>10, PacketsAppended
    <2> QED BY <1>11, <1>12, <2>1, <2>2 DEF Stream
  <1>14. a \in Seq(Byte)
    <2>1. PacketsOf(u) \in Seq(Seq(Byte))
      BY <1>10, PacketsTyped
    <2> QED BY <1>13, <2>1, Flattened DEF Stream
  <1>15. InChannel(t, h, a, TRUE)
    <2>1. Begins(a, a)
      <3>1. Len(a) \in Nat
        BY <1>14
      <3> QED BY <1>14, <3>1 DEF Begins
    <2>2. h \in 0 .. Len(t)
      BY <1>1, <1>3
    <2> QED BY <1>3, <1>13, <2>1, <2>2 DEF InChannel
  <1>16. Len(Frames(r)) = Len(p) /\ Len(Frames(a)) = Len(p) + 1
    <2>1. Len(Frames(r)) = Len(q) /\ Len(Frames(a)) = Len(u)
      BY <1>8, <1>9, <1>13, FramesAll
    <2> QED BY <1>1, <1>3, <1>6, <1>7, <1>8, <1>9, <2>1
  <1>17. PICK y, z, w : y = QueueOf(s, h, r) /\ z = QueueOf(t, h, a) /\ w = Append(y, c)
    OBVIOUS
  <1>18. IsQueue(y, s, h, Len(p)) /\ IsQueue(z, t, h, Len(p) + 1)
    BY <1>15, <1>16, <1>17, QueueTyped
  <1>19. /\ y \in Seq(Offered) /\ Len(y) = Len(p) /\ \A i \in 1 .. Len(p) : y[i] = s[h + i]
         /\ z \in Seq(Offered) /\ Len(z) = Len(p) + 1 /\ \A i \in 1 .. Len(p) + 1 : z[i] = t[h + i]
    BY <1>18 DEF IsQueue
  <1>20. w \in Seq(Offered) /\ Len(w) = Len(p) + 1 /\ w[Len(p) + 1] = c /\ \A i \in 1 .. Len(p) : w[i] = y[i]
    BY <1>17, <1>19
  <1>21. ASSUME NEW i \in 1 .. Len(z)
         PROVE  z[i] = w[i]
    <2>1. i \in 1 .. Len(p) + 1
      BY <1>19
    <2>2. CASE i = Len(p) + 1
      <3>1. h + i = Len(s) + 1
        BY <1>1, <1>6, <2>2
      <3> QED BY <1>3, <1>19, <1>20, <2>1, <2>2, <3>1
    <2>3. CASE i # Len(p) + 1
      <3>1. i \in 1 .. Len(p) /\ h + i \in 1 .. Len(s)
        <4>1. IsBefore(Len(p), Len(s), h, i)
          BY <1>1, <1>6, <2>1, <2>3, Before
        <4> QED BY <4>1 DEF IsBefore
      <3> QED BY <1>3, <1>19, <1>20, <2>1, <3>1
    <2> QED BY <2>2, <2>3
  <1>22. z = w
    BY <1>19, <1>20, <1>21, SeqEqual
  <1> QED BY <1>2, <1>12, <1>15, <1>17, <1>22 DEF IsSentOn

IsCutOff(s, h, r, a) ==
    /\ InChannel(s, h, a, FALSE)
    /\ \E n \in 0 .. Len(QueueOf(s, h, r)) : QueueOf(s, h, a) = SubSeq(QueueOf(s, h, r), 1, n)

LEMMA ChannelLose ==
  ASSUME NEW s, NEW h, NEW r, NEW all, InChannel(s, h, r, all), NEW a, Begins(a, r)
  PROVE  IsCutOff(s, h, r, a)
  <1>1. PICK q : q = Payloads(PendingOf(s, h))
    OBVIOUS
  <1>2. Carries(s, h, r, q)
    BY <1>1, ChannelCarries
  <1>3. Carried(q) /\ Begins(r, Stream(q)) /\ h \in Nat
    BY <1>2 DEF Carries
  <1>4. Begins(a, Stream(q)) /\ Len(Frames(a)) <= Len(Frames(r))
    BY <1>3, FramesFewer
  <1>5. InChannel(s, h, a, FALSE)
    BY <1>1, <1>4 DEF InChannel, StreamOf
  <1>6. PICK y, z, m, n : y = QueueOf(s, h, r) /\ z = QueueOf(s, h, a) /\ m = Len(Frames(r)) /\ n = Len(Frames(a))
    OBVIOUS
  <1>7. IsQueue(y, s, h, m) /\ IsQueue(z, s, h, n)
    BY <1>5, <1>6, QueueTyped
  <1>8. /\ y \in Seq(Offered) /\ Len(y) = m /\ m \in Nat /\ \A i \in 1 .. m : y[i] = s[h + i]
        /\ z \in Seq(Offered) /\ Len(z) = n /\ n \in Nat /\ \A i \in 1 .. n : z[i] = s[h + i]
        /\ n <= m
    BY <1>4, <1>6, <1>7 DEF IsQueue
  <1>9. PICK w : w = SubSeq(y, 0 + 1, 0 + n)
    OBVIOUS
  <1>10. IsPiece(Offered, w, y, 0, n)
    <2>1. 0 + n <= Len(y)
      BY <1>8
    <2> QED BY <1>8, <1>9, <2>1, Piece
  <1>11. w \in Seq(Offered) /\ Len(w) = n /\ \A i \in 1 .. n : w[i] = y[0 + i] /\ 0 + i = i
    BY <1>10 DEF IsPiece
  <1>12. \A i \in 1 .. n : i \in 1 .. m
    BY <1>8
  <1>13. \A i \in 1 .. Len(z) : z[i] = w[i]
    BY <1>8, <1>11, <1>12
  <1>14. z = w
    BY <1>8, <1>11, <1>13, SeqEqual
  <1>15. 0 + 1 = 1 /\ 0 + n = n /\ n \in 0 .. Len(y)
    BY <1>8
  <1>16. z = SubSeq(y, 1, n)
    BY <1>9, <1>14, <1>15
  <1> QED BY <1>5, <1>6, <1>15, <1>16 DEF IsCutOff

\* The length that comes first is that of the first packet.
TellsLength(n, x) == n = Len(x)

LEMMA HeaderRead ==
  ASSUME NEW n, IsU32(n), NEW g \in Seq(Byte), NEW x \in Seq(Byte), IsU32(Len(x)), NEW d \in Seq(Byte),
         NEW r, r = BigEndian(n, 4) \o g, NEW c, c = Packet(x) \o d, Begins(r, c)
  PROVE  TellsLength(n, x)
  <1>1. PICK a, b, p, m : a = BigEndian(n, 4) /\ b = BigEndian(m, 4) /\ p = Packet(x) /\ m = Len(x)
    OBVIOUS
  <1>2. n \in Nat /\ n \div Weights[4] < 256 /\ m \in Nat /\ m \div Weights[4] < 256
    BY <1>1 DEF IsU32
  <1>3. AreBytesOf(a, n, 4) /\ AreBytesOf(b, m, 4)
    BY <1>1, <1>2, BigEndianTyped
  <1>4. a \in Seq(Byte) /\ Len(a) = 4 /\ b \in Seq(Byte) /\ Len(b) = 4
    BY <1>3 DEF AreBytesOf
  <1>5. IsPacket(p, x)
    BY <1>1, PacketTyped
  <1>6. p \in Seq(Byte) /\ Len(p) = 4 + m /\ \A i \in 1 .. 4 : p[i] = b[i]
    BY <1>1, <1>5 DEF IsPacket
  <1>7. IsJoin(Byte, r, a, g) /\ IsJoin(Byte, c, p, d)
    BY <1>1, <1>4, <1>6, Joined
  <1>8. ASSUME NEW i \in 1 .. 4
        PROVE  a[i] = b[i]
    <2>1. r[i] = a[i]
      BY <1>4, <1>7 DEF IsJoin
    <2>2. i \in 1 .. Len(p)
      BY <1>2, <1>6
    <2>3. c[i] = p[i]
      BY <1>7, <2>2 DEF IsJoin
    <2>4. Len(r) = 4 + Len(g) /\ Len(g) \in Nat
      BY <1>4, <1>7 DEF IsJoin
    <2>5. i \in 1 .. Len(r)
      BY <2>4
    <2>6. r[i] = c[i]
      BY <2>5 DEF Begins
    <2> QED BY <1>6, <2>1, <2>3, <2>6
  <1>9. a = b
    BY <1>4, <1>8, SeqEqual
  <1>10. Number(a) = n /\ Number(b) = m
    BY <1>1, <1>2, NumberBack
  <1> QED BY <1>1, <1>9, <1>10 DEF TellsLength

BeginsAfter(w, d, r, c) == Begins(w, d) /\ (r = c => w = d)

\* What follows the same packet.
LEMMA RestBegins ==
  ASSUME NEW p \in Seq(Byte), NEW w \in Seq(Byte), NEW d \in Seq(Byte),
         NEW r, r = p \o w, NEW c, c = p \o d, Begins(r, c)
  PROVE  BeginsAfter(w, d, r, c)
  <1>1. IsJoin(Byte, r, p, w) /\ IsJoin(Byte, c, p, d)
    BY Joined
  <1>2. PICK k, l, m : k = Len(p) /\ l = Len(w) /\ m = Len(d)
    OBVIOUS
  <1>3. /\ k \in Nat /\ l \in Nat /\ m \in Nat /\ Len(r) = k + l /\ Len(c) = k + m
        /\ \A i \in 1 .. l : r[k + i] = w[i]
        /\ \A i \in 1 .. m : c[k + i] = d[i]
    BY <1>1, <1>2 DEF IsJoin
  <1>4. Len(r) <= Len(c) /\ \A i \in 1 .. Len(r) : r[i] = c[i]
    BY DEF Begins
  <1>5. l <= m
    BY <1>3, <1>4
  <1>6. ASSUME NEW i \in 1 .. l
        PROVE  w[i] = d[i]
    <2>1. i \in 1 .. m /\ k + i \in 1 .. k + l
      BY <1>3, <1>5
    <2> QED BY <1>3, <1>4, <2>1
  <1>7. Begins(w, d)
    BY <1>2, <1>5, <1>6 DEF Begins
  <1>8. ASSUME r = c
        PROVE  w = d
    <2>1. l = m
      BY <1>3, <1>8
    <2> QED BY <1>2, <1>6, <2>1, SeqEqual
  <1> QED BY <1>7, <1>8 DEF BeginsAfter

LEMMA StreamNone ==
  ASSUME NEW q, Carried(q), Len(q) = 0
  PROVE  Stream(q) = <<>>
  <1>1. PICK f : Parts(f, PacketsOf(q))
    <2>1. PacketsOf(q) \in Seq(Seq(Byte))
      BY PacketsTyped DEF Carried
    <2> QED BY <2>1, PartsOf
  <1>2. Stream(q) = f[Len(q)] /\ f[0] = <<>>
    BY <1>1, StreamParts DEF Parts
  <1> QED BY <1>2

\* A packet is read: it is that of the next command, which leaves the channel.
Taken(s, h, r, all, g, w) ==
    /\ h + 1 \in 1 .. Len(s) /\ s[h + 1] \in Offered /\ g = Payload(s[h + 1])
    /\ InChannel(s, h + 1, w, all)
    /\ QueueOf(s, h, r) # <<>> /\ Head(QueueOf(s, h, r)) = s[h + 1]
    /\ Tail(QueueOf(s, h, r)) = QueueOf(s, h + 1, w)

LEMMA ChannelTake ==
  ASSUME NEW s, NEW h, NEW r, NEW all, InChannel(s, h, r, all),
         NEW g \in Seq(Byte), NEW w \in Seq(Byte), IsU32(Len(g)), r = Packet(g) \o w
  PROVE  Taken(s, h, r, all, g, w)
  <1>1. PICK q, o, l : q = Payloads(PendingOf(s, h)) /\ o = Packet(g) /\ l = Len(s)
    OBVIOUS
  <1>2. Carries(s, h, r, q)
    BY <1>1, ChannelCarries
  <1>3. /\ Carried(q) /\ Len(q) = l - h /\ h \in Nat /\ l \in Nat /\ h <= l
        /\ Begins(r, Stream(q))
    BY <1>1, <1>2 DEF Carries
  <1>4. IsPacket(o, g)
    BY <1>1, PacketTyped
  <1>5. o \in Seq(Byte) /\ Len(o) = 4 + Len(g) /\ Len(g) \in Nat
    BY <1>4 DEF IsPacket
  <1>6. h # l
    <2> SUFFICES ASSUME h = l PROVE FALSE
      OBVIOUS
    <2>1. Len(q) = 0
      BY <1>3
    <2>2. Stream(q) = <<>> /\ Len(<<>>) = 0
      BY <1>3, <2>1, StreamNone
    <2>3. IsJoin(Byte, r, o, w)
      BY <1>1, <1>5, Joined
    <2>4. Len(r) = Len(o) + Len(w) /\ Len(w) \in Nat
      BY <2>3 DEF IsJoin
    <2>5. Len(r) <= 0
      BY <1>3, <2>2 DEF Begins
    <2> QED BY <1>5, <2>4, <2>5
  <1>7. PICK x, t : x = Payload(s[h + 1]) /\ t = Payloads(PendingOf(s, h + 1))
    OBVIOUS
  <1>8. Follows(q, x, t)
    BY <1>1, <1>6, <1>7, ChannelNext
  <1>9. PICK c, d : c = Stream(q) /\ d = Stream(t)
    OBVIOUS
  <1>10. c = Packet(x) \o d /\ d \in Seq(Byte) /\ c \in Seq(Byte) /\ x \in Seq(Byte) /\ IsU32(Len(x))
    <2>1. BeginsWith(q, x, t)
      BY <1>8, StreamFirst
    <2> QED BY <1>9, <2>1 DEF BeginsWith
  <1>11. g = x
    <2>1. PICK b, e : b = BigEndian(Len(g), 4) /\ e = g \o w
      OBVIOUS
    <2>2. AreBytesOf(b, Len(g), 4)
      BY <1>5, <2>1, BigEndianTyped
    <2>3. b \in Seq(Byte) /\ Len(b) = 4
      BY <2>2 DEF AreBytesOf
    <2>4. r = (b \o g) \o w
      BY <2>1 DEF Packet
    <2>5. Regroups(b, g, w)
      BY <2>3, Regrouped
    <2>6. r = b \o e /\ e \in Seq(Byte)
      <3>1. e \in Seq(Byte)
        BY <2>1
      <3>2. b \o g \o w = b \o (g \o w)
        BY <2>5 DEF Regroups
      <3> QED BY <2>1, <2>4, <3>1, <3>2
    <2>7. Len(g) = Len(x)
      <3>1. TellsLength(Len(g), x)
        BY <1>3, <1>9, <1>10, <2>1, <2>6, HeaderRead
      <3> QED BY <3>1 DEF TellsLength
    <2>8. IsJoin(Byte, r, o, w) /\ IsJoin(Byte, c, Packet(x), d)
      <3>1. IsPacket(Packet(x), x)
        BY <1>10, PacketTyped
      <3>2. Packet(x) \in Seq(Byte)
        BY <3>1 DEF IsPacket
      <3> QED BY <1>1, <1>5, <1>10, <3>2, Joined
    <2>9. PICK u, m : u = Packet(x) /\ m = Len(g)
      OBVIOUS
    <2>10. IsPacket(u, x) /\ m \in Nat
      BY <1>5, <1>10, <2>9, PacketTyped
    <2>11. ASSUME NEW i \in 1 .. m
           PROVE  g[i] = x[i]
      <3>1. 4 + i \in 1 .. 4 + m
        BY <2>10
      <3>2. o[4 + i] = g[i] /\ Len(o) = 4 + m
        BY <1>4, <2>9 DEF IsPacket
      <3>3. u[4 + i] = x[i] /\ Len(u) = 4 + m
        BY <2>7, <2>9, <2>10 DEF IsPacket
      <3>4. r[4 + i] = o[4 + i] /\ c[4 + i] = u[4 + i]
        BY <2>8, <2>9, <3>1, <3>2, <3>3 DEF IsJoin
      <3>5. 4 + i \in 1 .. Len(r)
        <4>1. Len(r) = (4 + m) + Len(w) /\ Len(w) \in Nat
          BY <2>8, <3>2 DEF IsJoin
        <4> QED BY <2>10, <4>1
      <3>6. r[4 + i] = c[4 + i]
        BY <1>3, <1>9, <3>5 DEF Begins
      <3> QED BY <3>2, <3>3, <3>4, <3>6
    <2> QED BY <1>10, <2>7, <2>9, <2>11, SeqEqual
  <1>12. BeginsAfter(w, d, r, c)
    BY <1>1, <1>3, <1>5, <1>9, <1>10, <1>11, RestBegins
  <1>13. h + 1 \in 0 .. l /\ h + 1 \in 1 .. l
    BY <1>3, <1>6
  <1>14. s \in Seq(Offered) /\ (all => r = c)
    BY <1>1, <1>9 DEF InChannel, StreamOf
  <1>15. InChannel(s, h + 1, w, all)
    <2>1. StreamOf(s, h + 1) = d
      BY <1>7, <1>9 DEF StreamOf
    <2> QED BY <1>1, <1>12, <1>13, <1>14, <2>1 DEF InChannel, BeginsAfter
  <1>16. Len(Frames(r)) = Len(Frames(w)) + 1
    <2>1. Begins(w, Stream(t))
      BY <1>9, <1>12 DEF BeginsAfter
    <2>2. r = Packet(x) \o w
      BY <1>11
    <2>3. IsOneMore(r, w)
      BY <1>8, <2>1, <2>2, FramesOneMore
    <2> QED BY <2>3 DEF IsOneMore
  <1>17. PICK y, z, n : y = QueueOf(s, h, r) /\ z = QueueOf(s, h + 1, w) /\ n = Len(Frames(w))
    OBVIOUS
  <1>18. IsQueue(y, s, h, n + 1) /\ IsQueue(z, s, h + 1, n)
    BY <1>15, <1>16, <1>17, QueueTyped
  <1>19. /\ y \in Seq(Offered) /\ Len(y) = n + 1 /\ n \in Nat /\ \A i \in 1 .. n + 1 : y[i] = s[h + i]
         /\ z \in Seq(Offered) /\ Len(z) = n /\ \A i \in 1 .. n : z[i] = s[(h + 1) + i]
    BY <1>18 DEF IsQueue
  <1>20. y # <<>> /\ Head(y) = s[h + 1]
    <2>1. y # <<>> /\ 1 \in 1 .. n + 1
      BY <1>19
    <2>2. Head(y) = y[1]
      BY <1>19, <2>1
    <2> QED BY <1>19, <2>1, <2>2
  <1>21. Tail(y) = z
    <2>1. PICK v : v = Tail(y)
      OBVIOUS
    <2>2. v \in Seq(Offered) /\ Len(v) = Len(y) - 1 /\ \A i \in 1 .. Len(v) : v[i] = y[i + 1]
      BY <1>19, <1>20, <2>1, HeadTailProperties
    <2>3. Len(v) = n /\ \A i \in 1 .. n : i + 1 \in 1 .. n + 1 /\ h + (i + 1) = (h + 1) + i
      BY <1>3, <1>19, <2>2
    <2>4. ASSUME NEW i \in 1 .. Len(v)
          PROVE  v[i] = z[i]
      <3>1. i \in 1 .. n /\ i + 1 \in 1 .. n + 1 /\ h + (i + 1) = (h + 1) + i
        BY <2>3
      <3>2. v[i] = y[i + 1]
        BY <2>2
      <3>3. y[i + 1] = s[h + (i + 1)]
        BY <1>19, <3>1
      <3> QED BY <1>19, <3>1, <3>2, <3>3
    <2> QED BY <1>19, <2>1, <2>2, <2>3, <2>4, SeqEqual
  <1>22. s[h + 1] \in Offered
    BY <1>1, <1>13, <1>14, ElementOfSeq
  <1> QED BY <1>1, <1>7, <1>11, <1>13, <1>15, <1>17, <1>20, <1>21, <1>22 DEF Taken

\* No packet is complete: no command is in the channel.
LEMMA ChannelShort ==
  ASSUME NEW s, NEW h, NEW r, NEW all, InChannel(s, h, r, all),
         \/ Len(r) < 4
         \/ \E n, g : IsU32(n) /\ g \in Seq(Byte) /\ r = BigEndian(n, 4) \o g /\ Len(g) < n
  PROVE  QueueOf(s, h, r) = <<>>
  <1>1. PICK q, y, l, k : q = Payloads(PendingOf(s, h)) /\ y = QueueOf(s, h, r) /\ l = Len(s) /\ k = Len(Frames(r))
    OBVIOUS
  <1>2. Carries(s, h, r, q)
    BY <1>1, ChannelCarries
  <1>3. h \in Nat /\ l \in Nat /\ Begins(r, Stream(q)) /\ Len(r) \in Nat
    BY <1>1, <1>2 DEF Carries, Begins
  <1>4. IsQueue(y, s, h, k)
    BY <1>1, QueueTyped
  <1>5. y \in Seq(Offered) /\ Len(y) = k /\ k \in Nat /\ h + k <= l
    BY <1>1, <1>4 DEF IsQueue
  <1>6. k = 0
    <2>1. CASE h = l
      BY <1>3, <1>5, <2>1
    <2>2. CASE h # l
      <3>1. PICK x, t : x = Payload(s[h + 1]) /\ t = Payloads(PendingOf(s, h + 1))
        OBVIOUS
      <3>2. Follows(q, x, t)
        BY <1>1, <2>2, <3>1, ChannelNext
      <3>3. BeginsWith(q, x, t)
        BY <3>2, StreamFirst
      <3>4. PICK c, d : c = Stream(q) /\ d = Stream(t)
        OBVIOUS
      <3>5. c = Packet(x) \o d /\ d \in Seq(Byte) /\ x \in Seq(Byte) /\ IsU32(Len(x)) /\ Len(x) \in Nat
        BY <3>3, <3>4 DEF BeginsWith
      <3>6. Len(r) < 4 + Len(x)
        <4>1. CASE Len(r) < 4
          BY <1>3, <3>5, <4>1
        <4>2. CASE \E n, g : IsU32(n) /\ g \in Seq(Byte) /\ r = BigEndian(n, 4) \o g /\ Len(g) < n
          <5>1. PICK n, g : IsU32(n) /\ g \in Seq(Byte) /\ r = BigEndian(n, 4) \o g /\ Len(g) < n
            BY <4>2
          <5>2. Begins(r, c)
            BY <1>3, <3>4
          <5>0. /\ IsU32(n) /\ g \in Seq(Byte) /\ r = BigEndian(n, 4) \o g
                /\ c = Packet(x) \o d /\ d \in Seq(Byte) /\ x \in Seq(Byte) /\ IsU32(Len(x))
            BY <3>5, <5>1
          <5>3. TellsLength(n, x)
            BY <5>0, <5>2, HeaderRead
          <5>4. PICK b : b = BigEndian(n, 4)
            OBVIOUS
          <5>5. AreBytesOf(b, n, 4)
            <6>1. n \in Nat
              BY <5>1 DEF IsU32
            <6> QED BY <5>4, <6>1, BigEndianTyped
          <5>6. b \in Seq(Byte) /\ Len(b) = 4
            BY <5>5 DEF AreBytesOf
          <5>7. IsJoin(Byte, r, b, g)
            BY <5>1, <5>4, <5>6, Joined
          <5>8. Len(r) = 4 + Len(g) /\ Len(g) \in Nat
            BY <5>6, <5>7 DEF IsJoin
          <5> QED BY <3>5, <5>1, <5>3, <5>8 DEF TellsLength
        <4> QED BY <4>1, <4>2
      <3> QED BY <1>1, <1>3, <3>2, <3>6, FramesNone
    <2> QED BY <2>1, <2>2
  <1>7. y = <<>>
    BY <1>5, <1>6
  <1> QED BY <1>1, <1>7

-----------------------------------------------------------------------------
(* Fields are read back *)

\* So many bytes x lie in d from a position on; k bytes are before them.
Lies(x, d, k) ==
    /\ x \in Seq(Byte) /\ d \in Seq(Byte) /\ k \in Nat /\ k + Len(x) <= Len(d)
    /\ \A i \in 1 .. Len(x) : d[k + i] = x[i]

LEMMA Extracted ==
  ASSUME NEW x, NEW d, NEW k, Lies(x, d, k)
  PROVE  SubSeq(d, k + 1, k + Len(x)) = x
  <1>1. /\ x \in Seq(Byte) /\ d \in Seq(Byte) /\ k \in Nat /\ k + Len(x) <= Len(d)
        /\ \A i \in 1 .. Len(x) : d[k + i] = x[i]
    BY DEF Lies
  <1>2. PICK l : l = Len(x)
    OBVIOUS
  <1>3. l \in Nat /\ k + l <= Len(d)
    BY <1>1, <1>2
  <1>4. PICK y : y = SubSeq(d, k + 1, k + l)
    OBVIOUS
  <1>5. IsPiece(Byte, y, d, k, l)
    BY <1>1, <1>3, <1>4, Piece
  <1>6. y \in Seq(Byte) /\ Len(y) = l /\ \A i \in 1 .. l : y[i] = d[k + i]
    BY <1>5 DEF IsPiece
  <1>7. \A i \in 1 .. Len(y) : y[i] = x[i]
    BY <1>1, <1>2, <1>6
  <1>8. y = x
    BY <1>1, <1>2, <1>6, <1>7, SeqEqual
  <1> QED BY <1>2, <1>4, <1>8

\* Strings with zeros, and where each of them ends.
AreZeroed(s, v, g, b) ==
    /\ v \in Seq(Text) /\ s \in Seq(Seq(Byte)) /\ Len(s) = Len(v) /\ Len(v) \in Nat
    /\ b \in Seq(Byte) /\ Len(b) \in Nat /\ b = g[Len(v)] /\ Len(g[0]) = 0
    /\ \A i \in 1 .. Len(v) : IsZeroed(s[i], v[i]) /\ IsPartAt(g, s, i)
    /\ \A i \in 0 .. Len(v) : Len(g[i]) \in Nat

LEMMA ZeroedParts ==
  ASSUME NEW v \in Seq(Text)
  PROVE  \E g : AreZeroed(Zeroed(v), v, g, FlattenSeq(Zeroed(v)))
  <1>1. PICK s, b : s = Zeroed(v) /\ b = FlattenSeq(Zeroed(v))
    OBVIOUS
  <1>2. s \in Seq(Seq(Byte)) /\ Len(s) = Len(v) /\ \A i \in 1 .. Len(v) : IsZeroed(s[i], v[i])
    BY <1>1, ZeroedTyped
  <1>3. PICK g : Parts(g, s) /\ FlattenSeq(s) = g[Len(s)]
    BY <1>2, PartsOf
  <1>4. b \in Seq(Byte)
    BY <1>1, <1>2, Flattened
  <1>5. \A i \in 1 .. Len(s) : IsPartAt(g, s, i)
    BY <1>2, <1>3, PartAt
  <1>6. \A i \in 0 .. Len(s) : g[i] \in Seq(Byte)
    BY <1>2, <1>3, PartsTyped
  <1>7. \A i \in 0 .. Len(s) : Len(g[i]) \in Nat
    BY <1>6
  <1>8. Len(g[0]) = 0
    <2>1. g[0] = <<>> /\ Len(<<>>) = 0
      BY <1>3 DEF Parts
    <2> QED BY <2>1
  <1>9. Len(v) \in Nat /\ Len(b) \in Nat
    BY <1>4
  <1>10. AreZeroed(s, v, g, b)
    BY <1>1, <1>2, <1>3, <1>4, <1>5, <1>7, <1>8, <1>9 DEF AreZeroed
  <1> QED BY <1>1, <1>10

\* One of the strings, from the byte after the string before it.
StringAt(s, v, g, b, i) ==
    LET k == Len(g[i - 1])
        e == Len(g[i])
    IN  /\ k \in Nat /\ e \in Nat /\ k < e /\ e <= Len(b) /\ e = k + Len(v[i]) + 1 /\ Len(v[i]) \in Nat
        /\ b[e] = 0
        /\ \A p \in 1 .. Len(v[i]) : b[k + p] = v[i][p] /\ b[k + p] # 0

LEMMA StringsLie ==
  ASSUME NEW s, NEW v, NEW g, NEW b, AreZeroed(s, v, g, b), NEW i \in 1 .. Len(v)
  PROVE  StringAt(s, v, g, b, i)
  <1>1. IsZeroed(s[i], v[i]) /\ IsPartAt(g, s, i) /\ b = g[Len(s)]
    BY DEF AreZeroed
  <1>2. PICK k, e, m, z : k = Len(g[i - 1]) /\ e = Len(g[i]) /\ m = Len(v[i]) /\ z = s[i]
    OBVIOUS
  <1>3. Len(z) = m + 1 /\ m \in Nat /\ z[m + 1] = 0 /\ \A p \in 1 .. m : z[p] = v[i][p] /\ z[p] # 0
    <2>1. /\ Len(z) = m + 1 /\ m \in Nat /\ z[Len(z)] = 0
          /\ \A p \in 1 .. m : z[p] = v[i][p] /\ z[p] # 0
      BY <1>1, <1>2 DEF IsZeroed
    <2> QED BY <2>1
  <1>4. /\ e = k + Len(z) /\ k \in Nat /\ e \in Nat /\ e <= Len(b)
        /\ \A p \in 1 .. Len(z) : b[k + p] = z[p]
    BY <1>1, <1>2 DEF IsPartAt
  <1>5. e = k + m + 1 /\ k < e /\ e = k + (m + 1)
    BY <1>3, <1>4
  <1>6. b[e] = 0
    <2>1. m + 1 \in 1 .. Len(z)
      BY <1>3
    <2> QED BY <1>3, <1>4, <1>5, <2>1
  <1>7. ASSUME NEW p \in 1 .. m
        PROVE  b[k + p] = v[i][p] /\ b[k + p] # 0
    <2>1. p \in 1 .. Len(z)
      BY <1>3
    <2> QED BY <1>3, <1>4, <2>1
  <1> QED BY <1>2, <1>3, <1>4, <1>5, <1>6, <1>7 DEF StringAt

\* A zero is at the end of one of them.
LEMMA ZeroEnds ==
  ASSUME NEW s, NEW v, NEW g, NEW b, AreZeroed(s, v, g, b), NEW j \in 1 .. Len(b), b[j] = 0
  PROVE  \E i \in 1 .. Len(v) : j = Len(g[i])
  <1>1. /\ Len(v) \in Nat /\ b = g[Len(v)] /\ Len(g[0]) = 0 /\ Len(b) \in Nat
        /\ \A i \in 0 .. Len(v) : Len(g[i]) \in Nat
    BY DEF AreZeroed
  <1> DEFINE T == {i \in Nat : i \in 0 .. Len(v) /\ j <= Len(g[i])}
  <1>2. T \in SUBSET Nat /\ T # {}
    <2>1. Len(v) \in T
      BY <1>1
    <2> QED BY <2>1
  <1>3. PICK i \in T : \A m \in T : i <= m
    <2> HIDE DEF T
    <2> QED BY <1>2, LeastNatural
  <1>4. i \in 0 .. Len(v) /\ j <= Len(g[i])
    BY <1>3
  <1>5. i # 0
    <2>1. ~(j <= Len(g[0]))
      BY <1>1
    <2> QED BY <1>4, <2>1
  <1>6. i \in 1 .. Len(v) /\ i - 1 \in 0 .. Len(v) /\ i - 1 \in Nat /\ ~(i <= i - 1)
    BY <1>1, <1>4, <1>5
  <1>7. i - 1 \notin T
    BY <1>3, <1>6
  <1>8. ~(j <= Len(g[i - 1]))
    BY <1>6, <1>7
  <1>9. StringAt(s, v, g, b, i)
    BY <1>6, StringsLie
  <1>10. PICK k, e, m : k = Len(g[i - 1]) /\ e = Len(g[i]) /\ m = Len(v[i])
    OBVIOUS
  <1>11. k \in Nat /\ e \in Nat /\ e = k + m + 1 /\ m \in Nat /\ \A p \in 1 .. m : b[k + p] # 0
    BY <1>9, <1>10 DEF StringAt
  <1>12. j = e
    <2> SUFFICES ASSUME j # e PROVE FALSE
      OBVIOUS
    <2>1. PICK p : p = j - k
      OBVIOUS
    <2>2. k < j /\ j <= e
      <3>1. j <= e /\ ~(j <= k)
        BY <1>4, <1>8, <1>10
      <3>2. j \in Int
        BY <1>1
      <3> QED BY <1>11, <3>1, <3>2
    <2>3. p \in 1 .. m /\ k + p = j
      BY <1>11, <2>1, <2>2
    <2> QED BY <1>11, <2>3
  <1> QED BY <1>6, <1>10, <1>12

\* Later ones end later.
LEMMA EndsApart ==
  ASSUME NEW s, NEW v, NEW g, NEW b, AreZeroed(s, v, g, b),
         NEW i \in 1 .. Len(v), NEW j \in 1 .. Len(v), i < j
  PROVE  Len(g[i]) < Len(g[j])
  <1>1. Len(v) \in Nat /\ \A k \in 0 .. Len(v) : Len(g[k]) \in Nat
    BY DEF AreZeroed
  <1>a. PICK a, m : a = i + 1 /\ m = Len(v)
    OBVIOUS
  <1>0. a \in Nat /\ m \in Nat /\ i \in 1 .. m /\ j \in a .. m
    BY <1>1, <1>a
  <1> DEFINE T == {k \in Nat : Len(g[i]) < Len(g[k])}
  <1>2. \A k \in 1 .. Len(v) : Len(g[k - 1]) < Len(g[k])
    <2>1. ASSUME NEW k \in 1 .. Len(v)
          PROVE  Len(g[k - 1]) < Len(g[k])
      <3>1. StringAt(s, v, g, b, k)
        BY StringsLie
      <3> QED BY <3>1 DEF StringAt
    <2> QED BY <2>1
  <1>3. a \in T
    <2>1. a \in 1 .. Len(v) /\ a - 1 = i
      BY <1>0, <1>a
    <2> QED BY <1>0, <1>2, <2>1
  <1>4. ASSUME NEW k \in a .. m - 1, k \in T
        PROVE  k + 1 \in T
    <2>1. k + 1 \in 1 .. Len(v) /\ (k + 1) - 1 = k /\ k + 1 \in Nat /\ k \in 0 .. Len(v) /\ k + 1 \in 0 .. Len(v)
          /\ i \in 0 .. Len(v)
      BY <1>0, <1>a
    <2>2. Len(g[k]) < Len(g[k + 1])
      BY <1>2, <2>1
    <2>3. Len(g[i]) < Len(g[k]) /\ Len(g[k]) \in Nat /\ Len(g[k + 1]) \in Nat /\ Len(g[i]) \in Nat
      BY <1>1, <1>4, <2>1
    <2>4. Len(g[i]) < Len(g[k + 1])
      BY <2>2, <2>3
    <2> QED BY <2>1, <2>4
  <1>5. \A k \in a .. m : k \in T
    <2> HIDE DEF T
    <2> QED BY <1>0, <1>3, <1>4, Ascending
  <1> QED BY <1>0, <1>5

\* The zeros of such strings at the end of some bytes.
ZerosAre(zeros, v, d, k, b) ==
    /\ Cardinality(zeros) = Len(v) /\ zeros \in SUBSET (0 .. Len(d))
    /\ v = <<>> => zeros = {} /\ Len(b) = 0
    /\ v # <<>> => Len(d) \in zeros

LEMMA ZerosOfStrings ==
  ASSUME NEW s, NEW v, NEW g, NEW b, AreZeroed(s, v, g, b), NEW d, NEW k, Lies(b, d, k), k + Len(b) = Len(d)
  PROVE  ZerosAre(ZerosFrom(d, k + 1), v, d, k, b)
  <1>1. /\ v \in Seq(Text) /\ Len(v) \in Nat /\ Len(b) \in Nat /\ b = g[Len(v)] /\ Len(g[0]) = 0
        /\ \A i \in 0 .. Len(v) : Len(g[i]) \in Nat
    BY DEF AreZeroed
  <1>2. d \in Seq(Byte) /\ Len(d) \in Nat /\ k \in Nat /\ \A i \in 1 .. Len(b) : d[k + i] = b[i]
    BY DEF Lies
  <1>3. PICK zeros, m : zeros = ZerosFrom(d, k + 1) /\ m = Len(v)
    OBVIOUS
  <1> DEFINE at == [i \in 1 .. m |-> k + Len(g[i])]
  <1>4. ASSUME NEW i \in 1 .. m
        PROVE  k + Len(g[i]) \in zeros
    <2>1. StringAt(s, v, g, b, i)
      BY <1>3, StringsLie
    <2>2. PICK e : e = Len(g[i])
      OBVIOUS
    <2>3. e \in 1 .. Len(b) /\ b[e] = 0
      <3>1. PICK x : x = Len(g[i - 1])
        OBVIOUS
      <3>2. x \in Nat /\ e \in Nat /\ x < e /\ e <= Len(b) /\ b[e] = 0
        BY <2>1, <2>2, <3>1 DEF StringAt
      <3>3. 1 <= e
        BY <3>2
      <3> QED BY <1>1, <3>2, <3>3
    <2>4. d[k + e] = 0 /\ k + e \in k + 1 .. Len(d)
      BY <1>1, <1>2, <2>3
    <2> QED BY <1>3, <2>2, <2>4 DEF ZerosFrom
  <1>5. ASSUME NEW z \in zeros
        PROVE  \E i \in 1 .. m : z = k + Len(g[i])
    <2>1. z \in k + 1 .. Len(d) /\ d[z] = 0
      BY <1>3 DEF ZerosFrom
    <2>2. PICK j : j = z - k
      OBVIOUS
    <2>3. j \in 1 .. Len(b) /\ z = k + j
      BY <1>1, <1>2, <2>1, <2>2
    <2>4. b[j] = 0
      BY <1>2, <2>1, <2>3
    <2>5. PICK i \in 1 .. Len(v) : j = Len(g[i])
      BY <2>3, <2>4, ZeroEnds
    <2> QED BY <1>3, <2>3, <2>5
  <1>6. ASSUME NEW i \in 1 .. m, NEW j \in 1 .. m, at[i] = at[j]
        PROVE  i = j
    <2>1. PICK x, y : x = Len(g[i]) /\ y = Len(g[j])
      OBVIOUS
    <2>2. x \in Nat /\ y \in Nat /\ k + x = k + y
      BY <1>1, <1>3, <1>6, <2>1
    <2>3. x = y
      BY <1>2, <2>2
    <2>4. ~(i < j)
      <3> SUFFICES ASSUME i < j PROVE FALSE
        OBVIOUS
      <3>1. x < y
        BY <1>3, <2>1, EndsApart
      <3> QED BY <2>2, <2>3, <3>1
    <2>5. ~(j < i)
      <3> SUFFICES ASSUME j < i PROVE FALSE
        OBVIOUS
      <3>1. y < x
        BY <1>3, <2>1, EndsApart
      <3> QED BY <2>2, <2>3, <3>1
    <2> QED BY <2>4, <2>5
  <1>7. at \in Bijection(1 .. m, zeros)
    <2>1. at \in [1 .. m -> zeros]
      BY <1>4
    <2>2. at \in Injection(1 .. m, zeros)
      BY <1>6, <2>1 DEF Injection, IsInjective
    <2>3. at \in Surjection(1 .. m, zeros)
      BY <1>5, <2>1 DEF Surjection
    <2> QED BY <2>2, <2>3 DEF Bijection
  <1>8. Cardinality(zeros) = m
    <2> HIDE DEF at
    <2>1. ExistsBijection(1 .. m, zeros)
      BY <1>7 DEF ExistsBijection
    <2>2. m \in Nat
      BY <1>1, <1>3
    <2> QED BY <2>1, <2>2, FS_CountingElements
  <1>9. zeros \in SUBSET (0 .. Len(d))
    BY <1>2, <1>3 DEF ZerosFrom
  <1>10. ASSUME v = <<>>
         PROVE  zeros = {} /\ Len(b) = 0
    <2>1. m = 0
      BY <1>3, <1>10
    <2> QED BY <1>1, <1>3, <1>5, <2>1
  <1>11. ASSUME v # <<>>
         PROVE  Len(d) \in zeros
    <2>1. m \in 1 .. m
      BY <1>1, <1>3, <1>11
    <2>2. k + Len(g[m]) \in zeros
      BY <1>4, <2>1
    <2> QED BY <1>1, <1>3, <2>2
  <1> QED BY <1>3, <1>8, <1>9, <1>10, <1>11 DEF ZerosAre

\* The function end of Strings.
IsStringEnds(end, b, count) ==
    end = [n \in 0 .. count |-> IF n = 0 THEN 0 ELSE StringEnd(b, end[n - 1] + 1)]

EndsString(g, b, i) == StringEnd(b, Len(g[i - 1]) + 1) = Len(g[i])

LEMMA StringEndAt ==
  ASSUME NEW s, NEW v, NEW g, NEW b, AreZeroed(s, v, g, b), NEW i \in 1 .. Len(v)
  PROVE  EndsString(g, b, i)
  <1>1. StringAt(s, v, g, b, i) /\ b \in Seq(Byte) /\ Len(b) \in Nat
    BY StringsLie DEF AreZeroed
  <1>2. PICK k, e, m, p : k = Len(g[i - 1]) /\ e = Len(g[i]) /\ m = Len(v[i]) /\ p = k + 1
    OBVIOUS
  <1>3. /\ k \in Nat /\ e \in Nat /\ k < e /\ e <= Len(b) /\ e = k + m + 1 /\ m \in Nat
        /\ b[e] = 0 /\ \A j \in 1 .. m : b[k + j] # 0
    BY <1>1, <1>2 DEF StringAt
  <1>a. p = k + 1
    BY <1>2
  <1>4. p \in Nat /\ e \in p .. Len(b)
    BY <1>1, <1>3, <1>a
  <1>5. ASSUME NEW j \in p .. e - 1
        PROVE  b[j] # 0
    <2>1. PICK l : l = j - k
      OBVIOUS
    <2>2. l \in 1 .. m /\ k + l = j
      BY <1>3, <1>a, <2>1
    <2> QED BY <1>3, <2>2
  <1>6. StringEnd(b, p) = e
    BY <1>1, <1>3, <1>4, <1>5, StringEndIs
  <1> QED BY <1>2, <1>6 DEF EndsString

LEMMA StringEndsAre ==
  ASSUME NEW s, NEW v, NEW g, NEW b, AreZeroed(s, v, g, b), NEW count, count = Len(v),
         NEW end, end = CHOOSE e : IsStringEnds(e, b, count)
  PROVE  \A n \in 0 .. Len(v) : end[n] = Len(g[n])
  <1>1. Len(v) \in Nat /\ Len(g[0]) = 0
    BY DEF AreZeroed
  <1>2. PICK m, f : m = count /\ m = Len(v) /\ f = [n \in 0 .. Len(v) |-> Len(g[n])]
    OBVIOUS
  <1>3. IsStringEnds(f, b, m)
    <2>1. ASSUME NEW n \in 0 .. m
          PROVE  f[n] = IF n = 0 THEN 0 ELSE StringEnd(b, f[n - 1] + 1)
      <3>1. CASE n = 0
        BY <1>1, <1>2, <3>1
      <3>2. CASE n # 0
        <4>1. n \in 1 .. Len(v) /\ n - 1 \in 0 .. Len(v)
          BY <1>1, <1>2, <3>2
        <4>2. StringEnd(b, Len(g[n - 1]) + 1) = Len(g[n])
          <5>1. EndsString(g, b, n)
            BY <4>1, StringEndAt
          <5> QED BY <5>1 DEF EndsString
        <4> QED BY <1>2, <3>2, <4>1, <4>2
      <3> QED BY <3>1, <3>2
    <2>2. f = [n \in 0 .. m |-> f[n]]
      BY <1>2
    <2> QED BY <2>1, <2>2 DEF IsStringEnds
  <1>4. IsStringEnds(end, b, m)
    BY <1>2, <1>3
  <1>5. \A n \in 0 .. m : end[n] = IF n = 0 THEN 0 ELSE StringEnd(b, end[n - 1] + 1)
    BY <1>4 DEF IsStringEnds
  <1> DEFINE T == {n \in Nat : end[n] = Len(g[n])}
  <1>6. 0 \in T
    <2>1. 0 \in 0 .. m
      BY <1>1, <1>2
    <2> QED BY <1>1, <1>5, <2>1
  <1>7. ASSUME NEW n \in 0 .. m - 1, n \in T
        PROVE  n + 1 \in T
    <2>1. n + 1 \in 0 .. m /\ n + 1 # 0 /\ (n + 1) - 1 = n /\ n + 1 \in Nat /\ n + 1 \in 1 .. Len(v)
      BY <1>1, <1>2
    <2>2. end[n + 1] = StringEnd(b, Len(g[n]) + 1)
      BY <1>5, <1>7, <2>1
    <2>3. StringEnd(b, Len(g[n]) + 1) = Len(g[n + 1])
      <3>1. PICK i : i = n + 1
        OBVIOUS
      <3>2. EndsString(g, b, i)
        BY <2>1, <3>1, StringEndAt
      <3> QED BY <2>1, <3>1, <3>2 DEF EndsString
    <2> QED BY <2>1, <2>2, <2>3
  <1>8. \A n \in 0 .. m : n \in T
    <2> HIDE DEF T
    <2> QED BY <1>1, <1>2, <1>6, <1>7, Ascending
  <1> QED BY <1>2, <1>8

LEMMA StringsBack ==
  ASSUME NEW v \in Seq(Text)
  PROVE  Strings(FlattenSeq(Zeroed(v))) = v
  <1>1. PICK s, b : s = Zeroed(v) /\ b = FlattenSeq(Zeroed(v))
    OBVIOUS
  <1>2. PICK g : AreZeroed(s, v, g, b)
    BY <1>1, ZeroedParts
  <1>3. b \in Seq(Byte) /\ Len(b) \in Nat /\ Len(v) \in Nat
    BY <1>2 DEF AreZeroed
  <1>4. Cardinality(ZerosFrom(b, 1)) = Len(v)
    <2>1. Lies(b, b, 0) /\ 0 + Len(b) = Len(b) /\ 0 + 1 = 1
      <3>1. \A i \in 1 .. Len(b) : 0 + i = i
        OBVIOUS
      <3>2. 0 + Len(b) <= Len(b) /\ 0 + Len(b) = Len(b)
        BY <1>3
      <3> QED BY <1>3, <3>1, <3>2 DEF Lies
    <2>2. ZerosAre(ZerosFrom(b, 0 + 1), v, b, 0, b)
      BY <1>2, <2>1, ZerosOfStrings
    <2> QED BY <2>1, <2>2 DEF ZerosAre
  <1>5. PICK end : end = CHOOSE e : IsStringEnds(e, b, Cardinality(ZerosFrom(b, 1)))
    OBVIOUS
  <1>6. \A n \in 0 .. Len(v) : end[n] = Len(g[n])
    BY <1>2, <1>4, <1>5, StringEndsAre
  <1>7. Strings(b) = [n \in 1 .. Len(v) |-> SubSeq(b, end[n - 1] + 1, end[n] - 1)]
    <2>1. Strings(b) = [n \in 1 .. Cardinality(ZerosFrom(b, 1)) |-> SubSeq(b, end[n - 1] + 1, end[n] - 1)]
      BY <1>5 DEF Strings, IsStringEnds
    <2> QED BY <1>4, <2>1
  <1>8. ASSUME NEW n \in 1 .. Len(v)
        PROVE  SubSeq(b, end[n - 1] + 1, end[n] - 1) = v[n]
    <2>1. n - 1 \in 0 .. Len(v) /\ n \in 0 .. Len(v)
      BY <1>3
    <2>2. PICK k, e, m, t : k = Len(g[n - 1]) /\ e = Len(g[n]) /\ m = Len(v[n]) /\ t = v[n]
      OBVIOUS
    <2>3. end[n - 1] = k /\ end[n] = e
      BY <1>6, <2>1, <2>2
    <2>4. StringAt(s, v, g, b, n)
      BY <1>2, StringsLie
    <2>5. /\ k \in Nat /\ e \in Nat /\ e <= Len(b) /\ e = k + m + 1 /\ m \in Nat
          /\ \A p \in 1 .. m : b[k + p] = t[p]
      BY <2>2, <2>4 DEF StringAt
    <2>6. t \in Seq(Byte)
      <3>1. v[n] \in Text
        BY ElementOfSeq
      <3>2. (Byte \ {0}) \subseteq Byte
        OBVIOUS
      <3>3. t \in Seq(Byte \ {0})
        BY <2>2, <3>1 DEF Text
      <3> QED BY <3>2, <3>3, SeqMonotonic
    <2>7. Lies(t, b, k)
      <3>1. k + m <= Len(b)
        BY <1>3, <2>5
      <3> QED BY <1>3, <2>2, <2>5, <2>6, <3>1 DEF Lies
    <2>8. SubSeq(b, k + 1, k + Len(t)) = t
      BY <2>7, Extracted
    <2>9. e - 1 = k + Len(t)
      BY <2>2, <2>5
    <2> QED BY <2>2, <2>3, <2>8, <2>9
  <1>9. [n \in 1 .. Len(v) |-> SubSeq(b, end[n - 1] + 1, end[n] - 1)] = [n \in 1 .. Len(v) |-> v[n]]
    BY <1>8
  <1>10. v = [n \in 1 .. Len(v) |-> v[n]]
    OBVIOUS
  <1> QED BY <1>1, <1>7, <1>9, <1>10

\* What is read of a field: a body ends at a zero.
Meant(type, v) == IF type = "body" THEN UpToZero(v) ELSE v

LEMMA FieldValueBack ==
  ASSUME NEW type \in FieldTypes, NEW v, IsField(type, v)
  PROVE  FieldValue(type, PutField(type, v)) = Meant(type, v)
  <1>1. CASE type \in {"u8", "u16", "u32"}
    <2>1. FieldValue(type, PutField(type, v)) = Number(BigEndian(v, Size(type))) /\ Meant(type, v) = v
      BY <1>1 DEF FieldValue, PutField, Meant
    <2>2. v \in Nat /\ v \div Weights[Size(type)] < 256 /\ Size(type) \in {1, 2, 4}
      BY <1>1, FieldNumber
    <2>3. Number(BigEndian(v, Size(type))) = v
      BY <2>2, NumberBack
    <2> QED BY <2>1, <2>3
  <1>2. CASE type = "string"
    <2>1. v \in Text
      BY <1>2 DEF IsField
    <2>2. UpToZero(Zero(v)) = v
      BY <2>1, UpToZeroBack
    <2> QED BY <1>2, <2>2 DEF FieldValue, PutField, Meant
  <1>3. CASE type \in {"strings", "pairs"}
    <2>1. v \in Seq(Text)
      BY <1>3 DEF IsField
    <2>2. Strings(FlattenSeq(Zeroed(v))) = v
      BY <2>1, StringsBack
    <2>3. FieldValue(type, PutField(type, v)) = Strings(FlattenSeq(Zeroed(v)))
      BY <1>3 DEF FieldValue, PutField, Zeroed
    <2> QED BY <1>3, <2>2, <2>3 DEF Meant
  <1>4. CASE type = "body"
    BY <1>4 DEF FieldValue, PutField, Meant
  <1> QED BY <1>1, <1>2, <1>3, <1>4 DEF FieldTypes, Plain

LEMMA FieldEndBack ==
  ASSUME NEW type \in FieldTypes, NEW v, IsField(type, v), NEW x, x = PutField(type, v),
         NEW d, NEW k, Lies(x, d, k), type \in Plain \/ k + Len(x) = Len(d)
  PROVE  FieldEnd(type, d, k + 1) = (k + 1) + Len(x)
  <1>1. PICK p, l, m, zeros : p = k + 1 /\ l = Len(x) /\ m = Len(d) /\ zeros = ZerosFrom(d, p)
    OBVIOUS
  <1>2. /\ x \in Seq(Byte) /\ d \in Seq(Byte) /\ k \in Nat /\ l \in Nat /\ m \in Nat /\ k + l <= m
        /\ \A i \in 1 .. l : d[k + i] = x[i]
    BY <1>1 DEF Lies
  <1>3. p \in Nat /\ p # 0 /\ p + l <= m + 1 /\ p - 1 = k
    BY <1>1, <1>2
  <1>4. CASE type \in {"u8", "u16", "u32"}
    <2>1. PICK n : n = Size(type)
      OBVIOUS
    <2>2. v \in Nat /\ n \in {1, 2, 4}
      BY <1>4, <2>1, FieldNumber
    <2>3. x = BigEndian(v, n)
      BY <1>4, <2>1 DEF PutField
    <2>4. AreBytesOf(x, v, n)
      BY <2>2, <2>3, BigEndianTyped
    <2>5. l = n
      BY <1>1, <2>4 DEF AreBytesOf
    <2>6. FieldEnd(type, d, p) = IF p + n > m + 1 THEN 0 ELSE p + n
      BY <1>1, <1>3, <1>4, <2>1 DEF FieldEnd
    <2>7. ~(p + n > m + 1)
      BY <1>2, <1>3, <2>5
    <2> QED BY <1>1, <2>5, <2>6, <2>7
  <1>5. CASE type = "string"
    <2>1. v \in Text /\ x = Zero(v)
      BY <1>5 DEF IsField, PutField
    <2>2. IsZeroed(x, v)
      BY <2>1, ZeroTyped
    <2>3. l = Len(v) + 1 /\ Len(v) \in Nat /\ x[l] = 0 /\ \A i \in 1 .. Len(v) : x[i] # 0
      BY <1>1, <2>2 DEF IsZeroed
    <2>4. PICK e : e = k + l
      OBVIOUS
    <2>5. e \in p .. m /\ d[e] = 0
      <3>1. l \in 1 .. l
        BY <2>3
      <3> QED BY <1>1, <1>2, <2>3, <2>4, <3>1
    <2>6. \A z \in zeros : e <= z
      <3> SUFFICES ASSUME NEW z \in zeros, ~(e <= z) PROVE FALSE
        OBVIOUS
      <3>1. z \in p .. m /\ d[z] = 0
        BY <1>1 DEF ZerosFrom
      <3>2. PICK i : i = z - k
        OBVIOUS
      <3>3. i \in 1 .. Len(v) /\ k + i = z
        BY <1>1, <1>2, <2>3, <2>4, <3>1, <3>2
      <3>4. i \in 1 .. l
        BY <2>3, <3>3
      <3> QED BY <1>2, <2>3, <3>1, <3>3, <3>4
    <2>7. e \in zeros
      BY <1>1, <2>5 DEF ZerosFrom
    <2>8. zeros \in SUBSET Nat /\ zeros # {}
      BY <1>1, <1>3, <2>7 DEF ZerosFrom
    <2>9. Min(zeros) = e
      <3>1. IsLeast(e, zeros)
        BY <2>6, <2>7 DEF IsLeast
      <3> QED BY <2>8, <3>1, LeastIsMin
    <2>10. FieldEnd(type, d, p) = Min(zeros) + 1
      BY <1>1, <1>3, <1>5, <2>8 DEF FieldEnd
    <2>11. e + 1 = p + l
      BY <1>1, <1>2, <2>4
    <2> QED BY <1>1, <2>9, <2>10, <2>11
  <1>6. CASE type \in {"strings", "pairs"}
    <2>1. v \in Seq(Text) /\ x = FlattenSeq(Zeroed(v)) /\ k + l = m
      BY <1>1, <1>6 DEF IsField, PutField, Zeroed, Plain
    <2>2. PICK g : AreZeroed(Zeroed(v), v, g, x)
      BY <2>1, ZeroedParts
    <2>3. ZerosAre(zeros, v, d, k, x)
      BY <1>1, <2>1, <2>2, ZerosOfStrings
    <2>4. /\ Cardinality(zeros) = Len(v) /\ zeros \in SUBSET (0 .. m)
          /\ v = <<>> => zeros = {} /\ l = 0
          /\ v # <<>> => m \in zeros
      BY <1>1, <2>3 DEF ZerosAre
    <2>5. \A z \in zeros : z <= m
      BY <1>2, <2>4
    <2>6. m + 1 = p + l
      BY <1>1, <1>2, <2>1
    <2>7. CASE type = "strings"
      <3>1. v # <<>>
        BY <2>7 DEF IsField
      <3>2. m \in zeros /\ zeros # {}
        BY <2>4, <3>1
      <3>3. Max(zeros) = m
        <4>1. IsGreatest(m, zeros)
          BY <2>5, <3>2 DEF IsGreatest
        <4> QED BY <1>2, <2>4, <4>1, GreatestIsMax
      <3>4. FieldEnd(type, d, p) = Max(zeros) + 1
        BY <1>1, <1>3, <2>7, <3>2 DEF FieldEnd
      <3> QED BY <1>1, <2>6, <3>3, <3>4
    <2>8. CASE type = "pairs"
      <3>1. Len(v) % 2 = 0
        BY <2>8 DEF IsField
      <3>2. FieldEnd(type, d, p) = Max(zeros \cup {p - 1}) + 1
        BY <1>1, <1>3, <2>4, <2>8, <3>1 DEF FieldEnd
      <3>3. PICK T : T = zeros \cup {k}
        OBVIOUS
      <3>4. T \in SUBSET (0 .. m)
        BY <1>2, <2>1, <2>4, <3>3
      <3>5. m \in T
        <4>1. CASE v = <<>>
          BY <1>2, <2>1, <2>4, <3>3, <4>1
        <4>2. CASE v # <<>>
          BY <2>4, <3>3, <4>2
        <4> QED BY <4>1, <4>2
      <3>6. \A z \in T : z <= m
        BY <1>2, <3>4
      <3>7. Max(T) = m
        <4>1. IsGreatest(m, T)
          BY <3>5, <3>6 DEF IsGreatest
        <4> QED BY <1>2, <3>4, <4>1, GreatestIsMax
      <3> QED BY <1>1, <1>3, <2>6, <3>2, <3>3, <3>7
    <2> QED BY <1>6, <2>7, <2>8
  <1>7. CASE type = "body"
    <2>1. k + l = m
      BY <1>1, <1>7 DEF Plain
    <2>2. FieldEnd(type, d, p) = m + 1
      BY <1>1, <1>3, <1>7 DEF FieldEnd
    <2>3. m + 1 = p + l
      BY <1>1, <1>2, <2>1
    <2> QED BY <1>1, <2>2, <2>3
  <1> QED BY <1>4, <1>5, <1>6, <1>7 DEF FieldTypes, Plain

-----------------------------------------------------------------------------
(* Commands are read back *)

\* The data of a command's packet: its letter, and its fields where each has ended.
IsSent(c, d, types, n, s, g) ==
    /\ CommandShape(c, types) /\ n = Known(c) /\ d = Payload(c)
    /\ d \in Seq(Byte) /\ d # <<>> /\ d[1] = Letters[c.kind]
    /\ n \in Nat /\ Len(types) \in Nat /\ n <= Len(types)
    /\ Len(g[0]) = 0 /\ Len(d) = 1 + Len(g[n])
    /\ \A k \in 0 .. n : Len(g[k]) \in Nat
    /\ \A k \in 1 .. n : /\ s[k] = PutField(types[k], c.fields[k])
                         /\ Len(g[k]) = Len(g[k - 1]) + Len(s[k])
                         /\ Lies(s[k], d, 1 + Len(g[k - 1]))

LEMMA SentIs ==
  ASSUME NEW c, IsCommand(c)
  PROVE  \E g : IsSent(c, Payload(c), Layout(c.kind), Known(c), PutsOf(c), g)
  <1>1. PICK d, types, n, s, r : /\ d = Payload(c) /\ types = Layout(c.kind) /\ n = Known(c)
                                 /\ s = PutsOf(c) /\ r = FlattenSeq(PutsOf(c))
    OBVIOUS
  <1>2. CommandShape(c, types)
    BY <1>1, CommandShaped
  <1>3. n \in 0 .. Len(types) /\ Len(types) \in Nat
    BY <1>1, <1>2 DEF CommandShape
  <1>4. n \in Nat /\ n <= Len(types)
    BY <1>3
  <1>5. s \in Seq(Seq(Byte)) /\ Len(s) = n
    BY <1>1, PutsTyped
  <1>6. PICK g : Parts(g, s) /\ FlattenSeq(s) = g[Len(s)]
    BY <1>5, PartsOf
  <1>7. r = g[n] /\ r \in Seq(Byte)
    BY <1>1, <1>5, <1>6, Flattened
  <1>8. \A k \in 0 .. n : Len(g[k]) \in Nat
    <2>1. \A k \in 0 .. Len(s) : g[k] \in Seq(Byte)
      BY <1>5, <1>6, PartsTyped
    <2> QED BY <1>5, <2>1
  <1>9. Len(g[0]) = 0
    <2>1. g[0] = <<>> /\ Len(<<>>) = 0
      BY <1>6 DEF Parts
    <2> QED BY <2>1
  <1>10. PICK l : l = <<Letters[c.kind]>>
    OBVIOUS
  <1>11. IsJoin(Byte, d, l, r) /\ d \in Seq(Byte)
    <2>1. IsPayload(d, c)
      BY <1>1, PayloadTyped
    <2> QED BY <1>1, <1>10, <2>1 DEF IsPayload
  <1>12. /\ Len(d) = 1 + Len(r) /\ Len(r) \in Nat /\ d[1] = Letters[c.kind]
         /\ \A p \in 1 .. Len(r) : d[1 + p] = r[p]
    <2>1. Len(l) = 1 /\ l[1] = Letters[c.kind] /\ 1 \in 1 .. 1
      BY <1>10
    <2> QED BY <1>11, <2>1 DEF IsJoin
  <1>13. d # <<>>
    BY <1>11, <1>12
  <1>14. \A k \in 1 .. n : s[k] = PutField(types[k], c.fields[k])
    BY <1>1 DEF PutsOf
  <1>15. ASSUME NEW k \in 1 .. n
         PROVE  Len(g[k]) = Len(g[k - 1]) + Len(s[k]) /\ Lies(s[k], d, 1 + Len(g[k - 1]))
    <2>1. IsPartAt(g, s, k)
      BY <1>5, <1>6, PartAt
    <2>2. PICK a, e, x : a = Len(g[k - 1]) /\ e = Len(g[k]) /\ x = s[k]
      OBVIOUS
    <2>3. /\ e = a + Len(x) /\ a \in Nat /\ e \in Nat /\ e <= Len(r)
          /\ \A p \in 1 .. Len(x) : r[a + p] = x[p]
      BY <1>5, <1>7, <2>1, <2>2 DEF IsPartAt
    <2>4. x \in Seq(Byte) /\ Len(x) \in Nat
      <3>1. s[k] \in Seq(Byte)
        BY <1>5, ElementOfSeq
      <3> QED BY <2>2, <3>1
    <2>5. ASSUME NEW p \in 1 .. Len(x)
          PROVE  d[(1 + a) + p] = x[p]
      <3>1. a + p \in 1 .. Len(r) /\ (1 + a) + p = 1 + (a + p)
        BY <1>12, <2>3, <2>4
      <3> QED BY <1>12, <2>3, <3>1
    <2>6. (1 + a) + Len(x) <= Len(d) /\ 1 + a \in Nat
      BY <1>12, <2>3, <2>4
    <2>7. Lies(x, d, 1 + a)
      BY <1>11, <2>4, <2>5, <2>6 DEF Lies
    <2> QED BY <2>2, <2>3, <2>7
  <1>16. Len(d) = 1 + Len(g[n])
    BY <1>7, <1>12
  <1>17. IsSent(c, d, types, n, s, g)
    BY <1>1, <1>2, <1>3, <1>4, <1>8, <1>9, <1>11, <1>12, <1>13, <1>14, <1>15, <1>16 DEF IsSent
  <1> QED BY <1>1, <1>17

StartsAt(start, g, k) == start[k] = 2 + Len(g[k]) /\ start[k] = (1 + Len(g[k])) + 1 /\ start[k] - 1 = 1 + Len(g[k])

LEMMA StartsBack ==
  ASSUME NEW c, NEW d, NEW types, NEW n, NEW s, NEW g, IsSent(c, d, types, n, s, g),
         NEW start, AreStarts(start, types, d)
  PROVE  \A k \in 0 .. n : StartsAt(start, g, k)
  <1>1. /\ d \in Seq(Byte) /\ n \in Nat /\ Len(types) \in Nat /\ n <= Len(types)
        /\ Len(g[0]) = 0 /\ Len(d) = 1 + Len(g[n]) /\ \A k \in 0 .. n : Len(g[k]) \in Nat
        /\ \A k \in 1 .. n : /\ s[k] = PutField(types[k], c.fields[k])
                             /\ Len(g[k]) = Len(g[k - 1]) + Len(s[k])
                             /\ Lies(s[k], d, 1 + Len(g[k - 1]))
    BY DEF IsSent
  <1>2. /\ types = Layout(c.kind) /\ c.kind \in Kinds
        /\ \A k \in 1 .. Len(types) : types[k] \in FieldTypes /\ IsField(types[k], c.fields[k])
    BY DEF IsSent, CommandShape
  <1>3. start[0] = 2 /\ \A k \in 1 .. Len(types) : start[k] = FieldEnd(types[k], d, start[k - 1])
    BY DEF AreStarts
  <1> DEFINE T == {k \in Nat : start[k] = 2 + Len(g[k])}
  <1>4. 0 \in T
    BY <1>1, <1>3
  <1>5. ASSUME NEW k \in 0 .. n - 1, k \in T
        PROVE  k + 1 \in T
    <2>1. PICK i : i = k + 1
      OBVIOUS
    <2>2. i \in 1 .. n /\ i - 1 = k /\ i \in Nat /\ i \in 1 .. Len(types) /\ k \in 0 .. n
      BY <1>1, <2>1
    <2>3. PICK type, v, x, a, e : /\ type = types[i] /\ v = c.fields[i] /\ x = s[i]
                                  /\ a = Len(g[k]) /\ e = Len(g[i])
      OBVIOUS
    <2>4. /\ x = PutField(type, v) /\ e = a + Len(x) /\ Lies(x, d, 1 + a) /\ a \in Nat
          /\ type \in FieldTypes /\ IsField(type, v)
      BY <1>1, <1>2, <2>2, <2>3
    <2>5. Len(x) \in Nat
      BY <2>4 DEF Lies
    <2>6. type \in Plain \/ (1 + a) + Len(x) = Len(d)
      <3>1. CASE i = Len(types)
        <4>1. i = n
          BY <1>1, <2>2, <3>1
        <4>2. Len(d) = 1 + e
          BY <1>1, <2>3, <4>1
        <4> QED BY <2>4, <2>5, <4>2
      <3>2. CASE i # Len(types)
        <4>1. i \in 1 .. Len(types) - 1
          BY <1>1, <2>2, <3>2
        <4> QED BY <1>2, <2>3, <4>1, LayoutTyped
      <3> QED BY <3>1, <3>2
    <2>7. FieldEnd(type, d, (1 + a) + 1) = ((1 + a) + 1) + Len(x)
      BY <2>4, <2>6, FieldEndBack
    <2>8. start[k] = (1 + a) + 1
      <3>1. start[k] = 2 + a
        BY <1>5, <2>3
      <3> QED BY <2>4, <3>1
    <2>9. start[i] = FieldEnd(type, d, start[k])
      BY <1>3, <2>2, <2>3
    <2>10. start[i] = 2 + e
      BY <2>4, <2>5, <2>7, <2>8, <2>9
    <2> QED BY <2>1, <2>2, <2>3, <2>10
  <1>6. \A k \in 0 .. n : k \in T
    <2> HIDE DEF T
    <2> QED BY <1>1, <1>4, <1>5, Ascending
  <1>7. ASSUME NEW k \in 0 .. n
        PROVE  StartsAt(start, g, k)
    <2>1. PICK a : a = Len(g[k])
      OBVIOUS
    <2>2. a \in Nat /\ start[k] = 2 + a
      BY <1>1, <1>6, <2>1
    <2>3. start[k] = (1 + a) + 1 /\ start[k] - 1 = 1 + a
      BY <2>2
    <2> QED BY <2>1, <2>2, <2>3 DEF StartsAt
  <1> QED BY <1>7

LEMMA FieldsBack ==
  ASSUME NEW c, NEW d, NEW types, NEW n, NEW s, NEW g, IsSent(c, d, types, n, s, g),
         NEW start, AreStarts(start, types, d), NEW k \in 1 .. n
  PROVE  FieldValue(types[k], SubSeq(d, start[k - 1], start[k] - 1)) = Meant(types[k], c.fields[k])
  <1>1. /\ n \in Nat /\ Len(types) \in Nat /\ n <= Len(types)
        /\ \A j \in 0 .. n : Len(g[j]) \in Nat
        /\ s[k] = PutField(types[k], c.fields[k]) /\ Len(g[k]) = Len(g[k - 1]) + Len(s[k])
        /\ Lies(s[k], d, 1 + Len(g[k - 1]))
    BY DEF IsSent
  <1>2. k \in 1 .. Len(types) /\ k - 1 \in 0 .. n /\ k \in 0 .. n
    BY <1>1
  <1>3. types[k] \in FieldTypes /\ IsField(types[k], c.fields[k])
    BY <1>2 DEF IsSent, CommandShape
  <1>4. PICK a, e, x : a = Len(g[k - 1]) /\ e = Len(g[k]) /\ x = s[k]
    OBVIOUS
  <1>5. StartsAt(start, g, k - 1) /\ StartsAt(start, g, k)
    BY <1>2, StartsBack
  <1>6. start[k - 1] = (1 + a) + 1 /\ start[k] - 1 = 1 + e
    BY <1>4, <1>5 DEF StartsAt
  <1>7. e = a + Len(x) /\ a \in Nat /\ Len(x) \in Nat
    BY <1>1, <1>2, <1>4 DEF Lies
  <1>8. start[k] - 1 = (1 + a) + Len(x)
    BY <1>6, <1>7
  <1>9. SubSeq(d, (1 + a) + 1, (1 + a) + Len(x)) = x
    BY <1>1, <1>4, Extracted
  <1>10. FieldValue(types[k], x) = Meant(types[k], c.fields[k])
    BY <1>1, <1>3, <1>4, FieldValueBack
  <1> QED BY <1>6, <1>8, <1>9, <1>10

LEMMA BodyAlone ==
  ASSUME NEW kind \in Kinds, kind # "Body"
  PROVE  \A k \in 1 .. Len(Layout(kind)) : Layout(kind)[k] # "body"
  <1>0. PICK types : types = Layout(kind)
    OBVIOUS
  <1>1. CASE kind = "Optneg"
    <2>1. types = <<"u32", "u32", "u32">>
      BY <1>0, <1>1 DEF Layout
    <2> QED BY <1>0, <2>1
  <1>2. CASE kind = "Macro"
    <2>1. types = <<"u8", "pairs">>
      BY <1>0, <1>2 DEF Layout
    <2> QED BY <1>0, <2>1
  <1>3. CASE kind = "Connect"
    <2>1. types = <<"string", "u8", "u16", "string">>
      BY <1>0, <1>3 DEF Layout
    <2> QED BY <1>0, <2>1
  <1>4. CASE kind = "Helo"
    <2>1. types = <<"string">>
      BY <1>0, <1>4 DEF Layout
    <2> QED BY <1>0, <2>1
  <1>5. CASE kind \in {"Mail", "Rcpt"}
    <2>1. types = <<"strings">>
      BY <1>0, <1>5 DEF Layout
    <2> QED BY <1>0, <2>1
  <1>6. CASE kind = "Header"
    <2>1. types = <<"string", "string">>
      BY <1>0, <1>6 DEF Layout
    <2> QED BY <1>0, <2>1
  <1>7. CASE kind \notin {"Optneg", "Macro", "Connect", "Helo", "Mail", "Rcpt", "Header", "Body"}
    <2>1. types = <<>>
      BY <1>0, <1>7 DEF Layout
    <2> QED BY <1>0, <2>1
  <1> QED BY <1>1, <1>2, <1>3, <1>4, <1>5, <1>6, <1>7

\* Command::parse understands what has been sent.
LEMMA ParsedBack ==
  ASSUME NEW c, IsCommand(c)
  PROVE  Parse(Payload(c)) = Understood(c)
  <1>1. PICK d, types, n, s : d = Payload(c) /\ types = Layout(c.kind) /\ n = Known(c) /\ s = PutsOf(c)
    OBVIOUS
  <1>2. PICK g : IsSent(c, d, types, n, s, g)
    BY <1>1, SentIs
  <1>3. /\ CommandShape(c, types) /\ d \in Seq(Byte) /\ d # <<>> /\ d[1] = Letters[c.kind]
        /\ n \in Nat /\ Len(types) \in Nat /\ n <= Len(types) /\ Len(d) = 1 + Len(g[n])
        /\ \A k \in 0 .. n : Len(g[k]) \in Nat
    BY <1>2 DEF IsSent
  <1>4. /\ c.kind \in Kinds /\ types \in Seq(FieldTypes) /\ Len(c.fields) = Len(types)
        /\ c = Command(c.kind, [k \in 1 .. Len(types) |-> c.fields[k]])
    BY <1>3 DEF CommandShape
  <1>5. PICK start : start = FieldStarts(types, d)
    OBVIOUS
  <1>6. AreStarts(start, types, d)
    BY <1>3, <1>4, <1>5, StartsAre
  <1>7. Parse(d) = IF start[Len(types)] = 0 THEN Refused
                   ELSE Command(c.kind, [k \in 1 .. Len(types) |->
                            FieldValue(types[k], SubSeq(d, start[k - 1], start[k] - 1))])
    <2>1. Parse(d) = ParsedAs(c.kind, d)
      BY <1>3, <1>4, ParseKnown
    <2> QED BY <1>1, <1>5, <2>1 DEF ParsedAs
  <1>8. \A k \in 0 .. n : start[k] = 2 + Len(g[k])
    <2>1. \A k \in 0 .. n : StartsAt(start, g, k)
      BY <1>2, <1>6, StartsBack
    <2> QED BY <2>1 DEF StartsAt
  <1>9. CASE c.kind = "Connect" /\ c.fields[2] = UnknownFamily
    <2>1. types = <<"string", "u8", "u16", "string">>
      BY <1>1, <1>9 DEF Layout
    <2>2. Len(types) = 4 /\ types[3] = "u16" /\ types[4] = "string" /\ n = 2
      BY <1>1, <1>9, <2>1 DEF Known
    <2>3. start[2] = Len(d) + 1 /\ Len(d) \in Nat
      <3>1. 2 \in 0 .. n
        BY <2>2
      <3>2. start[2] = 2 + Len(g[2]) /\ Len(g[2]) \in Nat /\ Len(d) = 1 + Len(g[2])
        BY <1>3, <1>8, <2>2, <3>1
      <3> QED BY <3>2
    <2>4. \A k \in 1 .. 4 : start[k] = FieldEnd(types[k], d, start[k - 1])
      BY <1>6, <2>2 DEF AreStarts
    <2>5. start[3] = FieldEnd("u16", d, start[2]) /\ start[4] = FieldEnd("string", d, start[3])
      <3>1. 3 \in 1 .. 4 /\ 4 \in 1 .. 4 /\ 3 - 1 = 2 /\ 4 - 1 = 3
        OBVIOUS
      <3> QED BY <2>2, <2>4, <3>1
    <2>6. start[3] = 0
      <3>1. PICK p, m : p = start[2] /\ m = Len(d)
        OBVIOUS
      <3>2. Size("u16") = 2
        BY DEF Size
      <3>3. FieldEnd("u16", d, p) = IF p = 0 THEN 0 ELSE IF p + 2 > m + 1 THEN 0 ELSE p + 2
        BY <3>1, <3>2 DEF FieldEnd
      <3>4. m \in Nat /\ p = m + 1
        BY <2>3, <3>1
      <3>5. p + 2 > m + 1
        BY <3>4
      <3> QED BY <2>5, <3>1, <3>3, <3>5
    <2>7. start[4] = 0
      BY <2>5, <2>6 DEF FieldEnd
    <2>8. Parse(d) = Refused
      BY <1>7, <2>2, <2>7
    <2>9. Understood(c) = Refused
      BY <1>9 DEF Understood
    <2> QED BY <1>1, <2>8, <2>9
  <1>10. CASE ~(c.kind = "Connect" /\ c.fields[2] = UnknownFamily)
    <2>1. n = Len(types)
      BY <1>1, <1>4, <1>10 DEF Known
    <2>2. start[Len(types)] # 0
      <3>1. n \in 0 .. n
        BY <1>3
      <3>2. start[n] = 2 + Len(g[n]) /\ Len(g[n]) \in Nat
        BY <1>3, <1>8, <3>1
      <3> QED BY <2>1, <3>2
    <2>3. \A k \in 1 .. Len(types) :
             FieldValue(types[k], SubSeq(d, start[k - 1], start[k] - 1)) = Meant(types[k], c.fields[k])
      BY <1>2, <1>6, <2>1, FieldsBack
    <2>4. Parse(d) = Command(c.kind, [k \in 1 .. Len(types) |-> Meant(types[k], c.fields[k])])
      BY <1>7, <2>2, <2>3
    <2>5. CASE c.kind = "Body"
      <3>1. types = <<"body">>
        BY <1>1, <2>5 DEF Layout
      <3>2. Len(types) = 1 /\ types[1] = "body"
        BY <3>1
      <3>3. [k \in 1 .. Len(types) |-> Meant(types[k], c.fields[k])] = <<UpToZero(c.fields[1])>>
        BY <3>2 DEF Meant
      <3>4. Understood(c) = Command("Body", <<UpToZero(c.fields[1])>>)
        BY <2>5 DEF Understood
      <3> QED BY <1>1, <2>4, <2>5, <3>3, <3>4
    <2>6. CASE c.kind # "Body"
      <3>1. \A k \in 1 .. Len(types) : types[k] # "body"
        BY <1>1, <1>4, <2>6, BodyAlone
      <3>2. [k \in 1 .. Len(types) |-> Meant(types[k], c.fields[k])] = [k \in 1 .. Len(types) |-> c.fields[k]]
        BY <3>1 DEF Meant
      <3>3. Understood(c) = c
        BY <1>10, <2>6 DEF Understood
      <3> QED BY <1>1, <1>4, <2>4, <3>2, <3>3
    <2> QED BY <2>5, <2>6
  <1> QED BY <1>9, <1>10

-----------------------------------------------------------------------------
(* The connection is a channel of commands *)

Meanings == {Understood(c) : c \in Offered}

\* The bytes that remain are those of the commands sent and not handled.
ChannelInv ==
    /\ handled \in Seq(Meanings)
    /\ InChannel(sent, Len(handled), Remaining, ~closed)

Queue == QueueOf(sent, Len(handled), Remaining)

\* The length read of a packet, and what has been read since.
Begun == (IF part = "data" THEN BigEndian(want, 4) ELSE <<>>) \o got

LEMMA BegunTyped ==
  ASSUME StateInv
  PROVE  Begun \in Seq(Byte) /\ Remaining = Begun \o wire /\ Remaining \in Seq(Byte)
  <1>1. got \in Seq(Byte) /\ wire \in Seq(Byte) /\ part \in {"length", "data"}
    BY DEF StateInv
  <1>2. (IF part = "data" THEN BigEndian(want, 4) ELSE <<>>) \in Seq(Byte)
    <2>1. CASE part = "data"
      <3>1. want \in Nat
        BY <2>1, WantTyped
      <3>2. AreBytesOf(BigEndian(want, 4), want, 4)
        BY <3>1, BigEndianTyped
      <3> QED BY <2>1, <3>2 DEF AreBytesOf
    <2>2. CASE part # "data"
      BY <2>2
    <2> QED BY <2>1, <2>2
  <1>3. Begun \in Seq(Byte)
    BY <1>1, <1>2 DEF Begun
  <1>4. Remaining = Begun \o wire
    BY DEF Remaining, Begun
  <1> QED BY <1>1, <1>3, <1>4

LEMMA ChannelInit == Init => ChannelInv /\ Channel!Init
  <1> SUFFICES ASSUME Init PROVE ChannelInv /\ Channel!Init
    OBVIOUS
  <1>1. sent = <<>> /\ wire = <<>> /\ part = "length" /\ got = <<>> /\ ended = FALSE /\ handled = <<>>
    BY DEF Init
  <1>2. StateInv
    BY InitInv
  <1>3. Remaining = <<>>
    <2>1. Remaining = (<<>> \o <<>>) \o <<>>
      BY <1>1 DEF Remaining
    <2>2. <<>> \in Seq(Byte)
      OBVIOUS
    <2> QED BY <2>1, <2>2
  <1>4. PICK s, q : s = PendingOf(sent, Len(handled)) /\ q = Payloads(PendingOf(sent, Len(handled)))
    OBVIOUS
  <1>5. sent \in Seq(Offered) /\ Len(sent) = 0 /\ Len(handled) = 0 /\ 0 \in 0 .. 0
    BY <1>1
  <1>6. ArePending(s, sent, 0)
    BY <1>4, <1>5, PendingTyped
  <1>7. s \in Seq(Offered) /\ Len(s) = 0
    BY <1>5, <1>6 DEF ArePending
  <1>8. Carried(q) /\ Len(q) = 0
    BY <1>4, <1>7, PayloadsTyped
  <1>9. StreamOf(sent, Len(handled)) = <<>>
    BY <1>4, <1>8, StreamNone DEF StreamOf
  <1>10. Begins(<<>>, <<>>)
    <2>1. <<>> \in Seq(Byte) /\ Len(<<>>) = 0
      OBVIOUS
    <2> QED BY <2>1 DEF Begins
  <1>11. InChannel(sent, Len(handled), Remaining, ~closed)
    BY <1>3, <1>5, <1>9, <1>10 DEF InChannel
  <1>12. ChannelInv
    <2>1. handled \in Seq(Meanings)
      BY <1>1
    <2> QED BY <1>11, <2>1 DEF ChannelInv
  <1>13. Queue = <<>>
    <2>1. Len(Remaining) < 4
      BY <1>3
    <2> QED BY <1>11, <2>1, ChannelShort DEF Queue
  <1> QED BY <1>1, <1>12, <1>13 DEF Channel!Init, Queue, QueueOf

\* A step of the session that moves bytes, and no commands.
LEMMA BytesMove ==
  ASSUME ChannelInv, Remaining' = Remaining, UNCHANGED <<sent, closed, handled>>
  PROVE  ChannelInv' /\ Queue' = Queue
  BY DEF ChannelInv, Queue

LEMMA SendMoves ==
  ASSUME StateInv, ChannelInv, NEW c \in Offered, Send(c)
  PROVE  ChannelInv' /\ Queue' = Append(Queue, c) /\ UNCHANGED <<handled, ended>>
  <1>1. PICK p : p = Packet(Payload(c))
    OBVIOUS
  <1>2. /\ closed = FALSE /\ sent' = Append(sent, c) /\ wire' = wire \o p /\ closed' = closed
        /\ part' = part /\ want' = want /\ got' = got /\ ended' = ended /\ handled' = handled
    <2>1. closed \in BOOLEAN
      BY DEF StateInv
    <2> QED BY <1>1, <2>1 DEF Send, session
  <1>3. p \in Seq(Byte)
    <2>1. IsPayload(Payload(c), c)
      BY OfferedCommands, PayloadTyped
    <2>2. Payload(c) \in Seq(Byte)
      BY <2>1 DEF IsPayload
    <2>3. IsPacket(p, Payload(c))
      BY <1>1, <2>2, PacketTyped
    <2> QED BY <2>3 DEF IsPacket
  <1>4. PICK b, r : b = Begun /\ r = Remaining
    OBVIOUS
  <1>5. b \in Seq(Byte) /\ r = b \o wire /\ wire \in Seq(Byte)
    BY <1>4, BegunTyped DEF StateInv
  <1>6. Begun' = b
    BY <1>2, <1>4 DEF Begun
  <1>7. Remaining' = r \o p
    <2>1. Remaining' = Begun' \o wire'
      BY DEF Remaining, Begun
    <2>2. Regroups(b, wire, p)
      BY <1>3, <1>5, Regrouped
    <2> QED BY <1>2, <1>5, <1>6, <2>1, <2>2 DEF Regroups
  <1>8. PICK s, h, t, a : s = sent /\ h = Len(handled) /\ t = Append(sent, c) /\ a = r \o p
    OBVIOUS
  <1>9. InChannel(s, h, r, TRUE)
    BY <1>2, <1>4, <1>8 DEF ChannelInv
  <1>10. InChannel(t, h, a, TRUE) /\ QueueOf(t, h, a) = Append(QueueOf(s, h, r), c)
    <2>1. /\ InChannel(Append(s, c), h, r \o Packet(Payload(c)), TRUE)
          /\ QueueOf(Append(s, c), h, r \o Packet(Payload(c))) = Append(QueueOf(s, h, r), c)
      <3>1. IsSentOn(s, h, r, c)
        BY <1>1, <1>9, ChannelSend
      <3> QED BY <3>1 DEF IsSentOn
    <2> QED BY <1>1, <1>8, <2>1
  <1>11. ChannelInv'
    <2>1. sent' = t /\ handled' = handled /\ Remaining' = a /\ closed' = FALSE /\ handled \in Seq(Meanings)
      BY <1>2, <1>7, <1>8 DEF ChannelInv
    <2> QED BY <1>8, <1>10, <2>1 DEF ChannelInv, Meanings
  <1>12. Queue = QueueOf(s, h, r) /\ Queue' = QueueOf(t, h, a)
    BY <1>2, <1>4, <1>7, <1>8 DEF Queue
  <1> QED BY <1>2, <1>10, <1>11, <1>12

LEMMA CloseMoves ==
  ASSUME StateInv, ChannelInv, Close
  PROVE  /\ ChannelInv' /\ UNCHANGED <<handled, ended>>
         /\ \E n \in 0 .. Len(Queue) : Queue' = SubSeq(Queue, 1, n)
  <1>1. /\ sent' = sent /\ closed' = TRUE /\ part' = part /\ want' = want /\ got' = got
        /\ ended' = ended /\ handled' = handled
    BY DEF Close, session
  <1>2. PICK n \in 0 .. Len(wire) : wire' = SubSeq(wire, 1, n)
    BY DEF Close
  <1>3. PICK b, r, w, v : b = Begun /\ r = Remaining /\ w = wire /\ v = SubSeq(wire, 1, n)
    OBVIOUS
  <1>4. b \in Seq(Byte) /\ r = b \o w /\ w \in Seq(Byte) /\ r \in Seq(Byte)
    BY <1>3, BegunTyped DEF StateInv
  <1>5. v \in Seq(Byte) /\ Len(v) = n /\ \A i \in 1 .. n : v[i] = w[i]
    <2>1. IsWirePart(v, SubSeq(wire, n + 1, Len(wire)), n)
      BY <1>3, <1>4, WireParts
    <2>2. v \in Seq(Byte) /\ Len(v) = n /\ \A i \in 1 .. n : v[i] = w[0 + i] /\ 0 + i = i
      BY <1>3, <2>1 DEF IsWirePart, IsPiece
    <2> QED BY <2>2
  <1>6. PICK a : a = b \o v
    OBVIOUS
  <1>7. Remaining' = a
    <2>1. Remaining' = Begun' \o wire'
      BY DEF Remaining, Begun
    <2>2. Begun' = b
      BY <1>1, <1>3 DEF Begun
    <2> QED BY <1>2, <1>3, <1>6, <2>1, <2>2
  <1>8. IsJoin(Byte, r, b, w) /\ IsJoin(Byte, a, b, v)
    BY <1>4, <1>5, <1>6, Joined
  <1>9. Begins(a, r)
    <2>1. PICK k, m : k = Len(b) /\ m = Len(w)
      OBVIOUS
    <2>2. /\ k \in Nat /\ m \in Nat /\ Len(r) = k + m /\ Len(a) = k + n /\ n \in 0 .. m
          /\ \A i \in 1 .. k : r[i] = b[i] /\ a[i] = b[i]
          /\ \A i \in 1 .. n : a[k + i] = v[i]
          /\ \A i \in 1 .. m : r[k + i] = w[i]
      BY <1>3, <1>5, <1>8, <2>1 DEF IsJoin
    <2>3. ASSUME NEW i \in 1 .. Len(a)
          PROVE  a[i] = r[i]
      <3>1. CASE i <= k
        <4>1. i \in 1 .. k
          BY <2>2, <3>1
        <4> QED BY <2>2, <4>1
      <3>2. CASE ~(i <= k)
        <4>1. PICK j : j = i - k
          OBVIOUS
        <4>2. j \in 1 .. n /\ j \in 1 .. m /\ k + j = i
          BY <2>2, <3>2, <4>1
        <4>3. a[k + j] = v[j] /\ r[k + j] = w[j] /\ v[j] = w[j]
          BY <1>5, <2>2, <4>2
        <4> QED BY <4>2, <4>3
      <3> QED BY <3>1, <3>2
    <2>4. Len(a) <= Len(r) /\ a \in Seq(Byte)
      BY <1>8, <2>2 DEF IsJoin
    <2> QED BY <1>4, <2>3, <2>4 DEF Begins
  <1>10. PICK s, h, all : s = sent /\ h = Len(handled) /\ all = ~closed
    OBVIOUS
  <1>11. InChannel(s, h, r, all)
    BY <1>3, <1>10 DEF ChannelInv
  <1>12. InChannel(s, h, a, FALSE) /\ \E m \in 0 .. Len(QueueOf(s, h, r)) : QueueOf(s, h, a) = SubSeq(QueueOf(s, h, r), 1, m)
    <2>1. IsCutOff(s, h, r, a)
      BY <1>9, <1>11, ChannelLose
    <2> QED BY <2>1 DEF IsCutOff
  <1>13. Queue = QueueOf(s, h, r) /\ Queue' = QueueOf(s, h, a)
    BY <1>1, <1>3, <1>7, <1>10 DEF Queue
  <1>14. ChannelInv'
    <2>1. sent' = s /\ handled' = handled /\ Remaining' = a /\ closed' = TRUE /\ handled \in Seq(Meanings)
      BY <1>1, <1>7, <1>10 DEF ChannelInv
    <2> QED BY <1>10, <1>12, <2>1 DEF ChannelInv, Meanings
  <1> QED BY <1>1, <1>12, <1>13, <1>14

LEMMA ReadMoves ==
  ASSUME StateInv, Read
  PROVE  Remaining' = Remaining
  <1>1. PICK n \in 1 .. Len(wire) : /\ got' = got \o SubSeq(wire, 1, n)
                                    /\ wire' = SubSeq(wire, n + 1, Len(wire))
    BY ReadTyped
  <1>2. PICK f, g, w, a, b : /\ f = (IF part = "data" THEN BigEndian(want, 4) ELSE <<>>) /\ g = got /\ w = wire
                             /\ a = SubSeq(wire, 1, n) /\ b = SubSeq(wire, n + 1, Len(wire))
    OBVIOUS
  <1>3. g \in Seq(Byte) /\ w \in Seq(Byte) /\ Len(w) \in Nat
    BY <1>2 DEF StateInv
  <1>4. f \in Seq(Byte)
    <2>1. CASE part = "data"
      <3>1. want \in Nat
        BY WantTyped
      <3>2. AreBytesOf(BigEndian(want, 4), want, 4)
        BY <3>1, BigEndianTyped
      <3> QED BY <1>2, <2>1, <3>2 DEF AreBytesOf
    <2>2. CASE part # "data"
      BY <1>2, <2>2
    <2> QED BY <2>1, <2>2
  <1>5. IsWirePart(a, b, n)
    <2>1. n \in 0 .. Len(wire)
      BY <1>2, <1>3
    <2> QED BY <1>2, <1>3, <2>1, WireParts
  <1>6. IsPiece(Byte, a, w, 0, n) /\ IsPiece(Byte, b, w, n, Len(w) - n)
    BY <1>2, <1>5 DEF IsWirePart
  <1>7. a \o b = w
    <2>1. PICK x, m, l : x = a \o b /\ m = Len(w) - n /\ l = Len(w)
      OBVIOUS
    <2>2. a \in Seq(Byte) /\ b \in Seq(Byte) /\ Len(a) = n /\ Len(b) = m
          /\ (\A i \in 1 .. n : a[i] = w[0 + i] /\ 0 + i = i)
          /\ (\A i \in 1 .. m : b[i] = w[n + i])
      BY <1>6, <2>1 DEF IsPiece
    <2>3. n \in Nat /\ m \in Nat /\ l \in Nat /\ n + m = l
      BY <1>2, <1>3, <2>1
    <2>4. IsJoin(Byte, x, a, b)
      BY <2>1, <2>2, Joined
    <2>5. x \in Seq(Byte) /\ Len(x) = l /\ (\A i \in 1 .. n : x[i] = a[i]) /\ (\A i \in 1 .. m : x[n + i] = b[i])
      BY <2>2, <2>3, <2>4 DEF IsJoin
    <2>6. ASSUME NEW i \in 1 .. l
          PROVE  x[i] = w[i]
      <3>1. CASE i <= n
        <4>1. i \in 1 .. n
          BY <2>3, <3>1
        <4> QED BY <2>2, <2>5, <4>1
      <3>2. CASE ~(i <= n)
        <4>1. PICK j : j = i - n
          OBVIOUS
        <4>2. j \in 1 .. m /\ n + j = i
          BY <2>3, <3>2, <4>1
        <4>3. x[n + j] = b[j] /\ b[j] = w[n + j]
          BY <2>2, <2>5, <4>2
        <4> QED BY <4>2, <4>3
      <3> QED BY <3>1, <3>2
    <2>7. x = w
      BY <1>3, <2>1, <2>5, <2>6, SeqEqual
    <2> QED BY <2>1, <2>7
  <1>8. a \in Seq(Byte) /\ b \in Seq(Byte)
    BY <1>6 DEF IsPiece
  <1>9. Remaining' = (f \o (g \o a)) \o b
    <2>1. part' = part /\ want' = want
      BY DEF Read
    <2> QED BY <1>1, <1>2, <2>1 DEF Remaining
  <1>10. PICK y : y = f \o g
    OBVIOUS
  <1>11. y \in Seq(Byte)
    BY <1>3, <1>4, <1>10
  <1>12. Regroups(f, g, a) /\ Regroups(y, a, b)
    BY <1>3, <1>4, <1>8, <1>11, Regrouped
  <1>13. (f \o (g \o a)) \o b = y \o w
    BY <1>7, <1>10, <1>12 DEF Regroups
  <1>14. Remaining = y \o w
    BY <1>2, <1>10 DEF Remaining
  <1> QED BY <1>9, <1>13, <1>14

LEMMA ReadLengthMoves ==
  ASSUME StateInv, ReadLength
  PROVE  Remaining' = Remaining
  <1>1. /\ part = "length" /\ part' = "data" /\ Len(got) = want /\ want' = Number(got) /\ got' = <<>> /\ wire' = wire
    BY DEF ReadLength
  <1>2. got \in Seq(Byte) /\ Len(got) = 4
    BY <1>1 DEF StateInv
  <1>3. PICK g : g = got
    OBVIOUS
  <1>4. BigEndian(Number(g), 4) = g /\ g \in Seq(Byte)
    BY <1>2, <1>3, BytesBack
  <1>5. Remaining = (<<>> \o g) \o wire
    BY <1>1, <1>3 DEF Remaining
  <1>6. Remaining' = (g \o <<>>) \o wire
    <2>1. Remaining' = (BigEndian(Number(g), 4) \o <<>>) \o wire
      BY <1>1, <1>3 DEF Remaining
    <2> QED BY <1>4, <2>1
  <1>7. <<>> \o g = g /\ g \o <<>> = g
    BY <1>4, ConcatEmptySeq
  <1> QED BY <1>5, <1>6, <1>7

\* A packet has been read.
LEMMA DataRead ==
  ASSUME StateInv, ChannelInv, HasData
  PROVE  Taken(sent, Len(handled), Remaining, ~closed, got, wire)
  <1>1. part = "data" /\ Len(got) = want /\ got \in Seq(Byte) /\ wire \in Seq(Byte) /\ IsU32(want)
    BY DEF HasData, StateInv
  <1>2. PICK g, w, r, s, h, all : /\ g = got /\ w = wire /\ r = Remaining /\ s = sent
                                  /\ h = Len(handled) /\ all = ~closed
    OBVIOUS
  <1>3. r = Packet(g) \o w
    BY <1>1, <1>2 DEF Remaining, Packet
  <1>4. InChannel(s, h, r, all)
    BY <1>2 DEF ChannelInv
  <1>5. Taken(s, h, r, all, g, w)
    BY <1>1, <1>2, <1>3, <1>4, ChannelTake
  <1> QED BY <1>2, <1>5

LEMMA NextUnderstood ==
  ASSUME StateInv, ChannelInv, HasData
  PROVE  Queue # <<>> /\ Parse(got) = Understood(Head(Queue)) /\ Parse(got) \in Meanings
  <1>1. PICK s, h : s = sent /\ h = Len(handled)
    OBVIOUS
  <1>2. /\ s[h + 1] \in Offered /\ got = Payload(s[h + 1])
        /\ Queue # <<>> /\ Head(Queue) = s[h + 1]
    BY <1>1, DataRead DEF Taken, Queue
  <1>3. PICK c \in Offered : c = s[h + 1]
    BY <1>2
  <1>4. Parse(Payload(c)) = Understood(c)
    BY OfferedCommands, ParsedBack
  <1> QED BY <1>2, <1>3, <1>4 DEF Meanings

LEMMA HandleMoves ==
  ASSUME StateInv, ChannelInv, HandleCommand
  PROVE  /\ ChannelInv' /\ ended = FALSE /\ ended' \in BOOLEAN
         /\ Queue # <<>> /\ Queue' = Tail(Queue) /\ Understood(Head(Queue)) # Refused
         /\ handled' = Append(handled, Understood(Head(Queue)))
  <1>1. HasData
    BY DEF HandleCommand
  <1>2. PICK c : c = Parse(got)
    OBVIOUS
  <1>3. /\ c # Refused /\ handled' = Append(handled, c) /\ sent' = sent /\ wire' = wire /\ closed' = closed
        /\ part' = "length" /\ got' = <<>> /\ Respond(c)
    BY <1>2 DEF HandleCommand, NextLength
  <1>4. ended = FALSE /\ ended' \in BOOLEAN
    <2>1. ended \in BOOLEAN
      BY DEF StateInv
    <2> QED BY <1>1, <1>3, <2>1 DEF Respond, HasData
  <1>5. Queue # <<>> /\ c = Understood(Head(Queue)) /\ c \in Meanings
    BY <1>1, <1>2, NextUnderstood
  <1>6. PICK s, h, w, r, all : s = sent /\ h = Len(handled) /\ w = wire /\ r = Remaining /\ all = ~closed
    OBVIOUS
  <1>7. InChannel(s, h + 1, w, all) /\ Tail(QueueOf(s, h, r)) = QueueOf(s, h + 1, w)
    BY <1>1, <1>6, DataRead DEF Taken
  <1>8. Remaining' = w
    <2>1. Remaining' = (<<>> \o <<>>) \o w
      BY <1>3, <1>6 DEF Remaining
    <2>2. w \in Seq(Byte)
      BY <1>6 DEF StateInv
    <2>3. <<>> \o <<>> = <<>> /\ <<>> \o w = w
      BY <2>2, ConcatEmptySeq
    <2> QED BY <2>1, <2>3
  <1>9. handled' \in Seq(Meanings) /\ Len(handled') = h + 1
    <2>1. handled \in Seq(Meanings)
      BY DEF ChannelInv
    <2> QED BY <1>3, <1>5, <1>6, <2>1
  <1>10. ChannelInv'
    <2>1. sent' = s /\ (~closed') = all
      BY <1>3, <1>6
    <2> QED BY <1>7, <1>8, <1>9, <2>1 DEF ChannelInv, Meanings
  <1>11. Queue = QueueOf(s, h, r) /\ Queue' = QueueOf(s, h + 1, w)
    BY <1>3, <1>6, <1>8, <1>9 DEF Queue
  <1> QED BY <1>3, <1>4, <1>5, <1>7, <1>10, <1>11

LEMMA EndMoves ==
  ASSUME StateInv, ChannelInv, RefuseCommand \/ ReadEnd
  PROVE  /\ ChannelInv' /\ Queue' = Queue /\ UNCHANGED handled /\ ended = FALSE /\ ended' = TRUE
         /\ Queue = <<>> \/ Understood(Head(Queue)) = Refused
  <1>1. /\ UNCHANGED <<sent, wire, closed, part, want, got, handled>> /\ ended' = TRUE /\ ~ended
    BY DEF RefuseCommand, ReadEnd, HasData
  <1>2. ended = FALSE
    BY <1>1 DEF StateInv
  <1>3. Remaining' = Remaining
    BY <1>1 DEF Remaining
  <1>4. ChannelInv' /\ Queue' = Queue
    BY <1>1, <1>3, BytesMove
  <1>5. CASE RefuseCommand
    <2>1. HasData /\ Parse(got) = Refused
      BY <1>5 DEF RefuseCommand
    <2>2. Understood(Head(Queue)) = Refused
      BY <2>1, NextUnderstood
    <2> QED BY <1>1, <1>2, <1>4, <2>2
  <1>6. CASE ReadEnd
    <2>1. wire = <<>> /\ Len(got) < want /\ got \in Seq(Byte) /\ part \in {"length", "data"}
      BY <1>6 DEF ReadEnd, StateInv
    <2>2. PICK s, h, r, all, g, n : /\ s = sent /\ h = Len(handled) /\ r = Remaining /\ all = ~closed
                                    /\ g = got /\ n = want
      OBVIOUS
    <2>3. InChannel(s, h, r, all)
      BY <2>2 DEF ChannelInv
    <2>4. Len(r) < 4 \/ (IsU32(n) /\ g \in Seq(Byte) /\ r = BigEndian(n, 4) \o g /\ Len(g) < n)
      <3>1. CASE part = "length"
        <4>1. r = (<<>> \o g) \o <<>> /\ want = 4
          BY <2>1, <2>2, <3>1 DEF Remaining, StateInv
        <4>2. <<>> \o g = g /\ g \o <<>> = g
          BY <2>1, <2>2, ConcatEmptySeq
        <4> QED BY <2>1, <2>2, <4>1, <4>2
      <3>2. CASE part = "data"
        <4>1. r = (BigEndian(n, 4) \o g) \o <<>> /\ IsU32(n)
          BY <2>1, <2>2, <3>2 DEF Remaining, StateInv
        <4>2. PICK b : b = BigEndian(n, 4) \o g
          OBVIOUS
        <4>3. b \in Seq(Byte)
          <5>1. n \in Nat
            BY <4>1 DEF IsU32
          <5>2. AreBytesOf(BigEndian(n, 4), n, 4)
            BY <5>1, BigEndianTyped
          <5> QED BY <2>1, <2>2, <4>2, <5>2 DEF AreBytesOf
        <4>4. b \o <<>> = b
          BY <4>3, ConcatEmptySeq
        <4> QED BY <2>1, <2>2, <4>1, <4>2, <4>4
      <3> QED BY <2>1, <3>1, <3>2
    <2>5. QueueOf(s, h, r) = <<>>
      BY <2>3, <2>4, ChannelShort
    <2> QED BY <1>1, <1>2, <1>4, <2>2, <2>5 DEF Queue
  <1> QED BY <1>5, <1>6

\* What a step does to the channel.
LEMMA ChannelStep ==
  ASSUME StateInv, ChannelInv, [Next]_vars
  PROVE  ChannelInv' /\ [Channel!Next]_<<Queue, handled, ~ended>>
  <1>1. ASSUME NEW c \in Offered, Send(c)
        PROVE  ChannelInv' /\ [Channel!Next]_<<Queue, handled, ~ended>>
    <2>1. ChannelInv' /\ Queue' = Append(Queue, c) /\ UNCHANGED <<handled, ended>>
      BY <1>1, SendMoves
    <2>2. Channel!Send(c)
      BY <2>1 DEF Channel!Send, Queue, QueueOf
    <2> QED BY <2>1, <2>2 DEF Channel!Next
  <1>2. CASE Close
    <2>1. ChannelInv' /\ UNCHANGED <<handled, ended>> /\ \E n \in 0 .. Len(Queue) : Queue' = SubSeq(Queue, 1, n)
      BY <1>2, CloseMoves
    <2>2. Channel!Lose
      BY <2>1 DEF Channel!Lose, Queue, QueueOf
    <2> QED BY <2>1, <2>2 DEF Channel!Next
  <1>3. CASE Read \/ ReadLength \/ UNCHANGED vars
    <2>1. Remaining' = Remaining
      <3>1. UNCHANGED vars => Remaining' = Remaining
        BY DEF vars, Remaining
      <3> QED BY <1>3, <3>1, ReadMoves, ReadLengthMoves
    <2>2. UNCHANGED <<sent, closed, handled, ended>>
      BY <1>3 DEF Read, ReadLength, vars
    <2> QED BY <2>1, <2>2, BytesMove
  <1>4. CASE HandleCommand
    <2>1. /\ ChannelInv' /\ ended = FALSE /\ ended' \in BOOLEAN
          /\ Queue # <<>> /\ Queue' = Tail(Queue) /\ Understood(Head(Queue)) # Refused
          /\ handled' = Append(handled, Understood(Head(Queue)))
      BY <1>4, HandleMoves
    <2>2. Channel!Handle
      BY <2>1 DEF Channel!Handle, Queue, QueueOf
    <2> QED BY <2>1, <2>2 DEF Channel!Next
  <1>5. CASE RefuseCommand \/ ReadEnd
    <2>1. /\ ChannelInv' /\ Queue' = Queue /\ UNCHANGED handled /\ ended = FALSE /\ ended' = TRUE
          /\ Queue = <<>> \/ Understood(Head(Queue)) = Refused
      BY <1>5, EndMoves
    <2>2. Channel!End
      BY <2>1 DEF Channel!End, Queue, QueueOf
    <2> QED BY <2>1, <2>2 DEF Channel!Next
  <1> QED BY <1>1, <1>2, <1>3, <1>4, <1>5 DEF Next, Step

\* Whatever pieces the bytes come in, and wherever they end, the connection handles
\* the commands as they were sent, in their order, each once and as a whole
\* (read_command, Command::parse).
THEOREM PacketsImplementChannel == Spec => ImplementsChannel
  <1>1. Init => ChannelInv /\ Channel!Init
    BY ChannelInit
  <1>2. StateInv /\ ChannelInv /\ [Next]_vars => ChannelInv' /\ [Channel!Next]_<<Queue, handled, ~ended>>
    BY ChannelStep
  <1> QED BY <1>1, <1>2, SpecInv, PTL DEF Spec, ImplementsChannel, Channel!Spec, Queue, QueueOf

=============================================================================
