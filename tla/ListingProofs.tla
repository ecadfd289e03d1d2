--------------------------- MODULE ListingProofs ---------------------------
(***************************************************************************)
(* What Listing claims, for all opinions, replicas and numbers of rows.    *)
(***************************************************************************)
EXTENDS Listing, FiniteSetTheorems, SequenceTheorems, WellFoundedInduction, TLAPS

-----------------------------------------------------------------------------
(* Induction, as a fact about a set of numbers *)

LEMMA LeastNatural ==
  ASSUME NEW T \in SUBSET Nat, T # {}
  PROVE  \E n \in T : \A m \in T : n <= m
  <1> DEFINE R == {ss \in Nat \X Nat : ss[1] < ss[2]}
  <1>1. IsWellFoundedOn(R, Nat)
    BY NatLessThanWellFounded DEF OpToRel
  <1> HIDE DEF R
  <1>2. PICK n \in T : \A m \in T : <<m, n>> \notin R
    BY <1>1, WFMin
  <1>3. \A m \in T : ~(m < n)
    BY <1>2 DEF R
  <1> QED BY <1>3

LEMMA AllNaturals ==
  ASSUME NEW S, 0 \in S, \A n \in Nat : n \in S => n + 1 \in S
  PROVE  \A n \in Nat : n \in S
  <1> SUFFICES ASSUME Nat \ S # {}
               PROVE FALSE
    OBVIOUS
  <1>1. PICK n \in Nat \ S : \A m \in Nat \ S : n <= m
    BY LeastNatural
  <1>2. n # 0 /\ n - 1 \in Nat /\ ~(n <= n - 1)
    BY <1>1
  <1>3. n - 1 \in S
    BY <1>1, <1>2
  <1> QED BY <1>1, <1>2, <1>3

LEMMA GreatestOfInterval ==
  ASSUME NEW n \in Nat, NEW T \in SUBSET (0 .. n), T # {}
  PROVE  Max(T) \in T /\ \A m \in T : Max(T) >= m
  <1> DEFINE U == {b \in Nat : \A m \in T : m <= b}
  <1>1. n \in U
    OBVIOUS
  <1>2. PICK b \in U : \A c \in U : b <= c
    BY <1>1, LeastNatural
  <1>3. b \in T
    <2> SUFFICES ASSUME b \notin T
                 PROVE  FALSE
      OBVIOUS
    <2>1. \A m \in T : m <= b - 1
      BY <1>2
    <2>2. b - 1 \in Nat
      <3>1. PICK m \in T : TRUE
        OBVIOUS
      <3>2. m \in Nat /\ m <= b - 1 /\ b \in Nat
        BY <1>2, <2>1
      <3> QED BY <3>2
    <2>3. b - 1 \in U
      BY <2>1, <2>2
    <2>4. b <= b - 1
      BY <1>2, <2>3
    <2>5. b \in Nat
      BY <1>2
    <2> QED BY <2>4, <2>5
  <1>4. \A m \in T : b >= m
    <2>1. \A m \in T : m <= b /\ m \in Nat /\ b \in Nat
      BY <1>2
    <2> QED BY <2>1
  <1>5. \E x \in T : \A y \in T : x >= y
    BY <1>3, <1>4
  <1> QED BY <1>5 DEF Max

-----------------------------------------------------------------------------
(* The tables: no statement has two rows, and rows of opinions lead to theirs *)

Signers == {o.signer : o \in Opinions}
OpinionRows == [statement_id : Ids, signer : Signers, date : Dates]

TablesInv ==
    /\ statement \in [Replicas -> [Ids -> Statements \cup {Null}]]
    /\ opinion \in [Replicas -> SUBSET OpinionRows]
    /\ \A r \in Replicas :
        /\ IsFiniteSet(opinion[r])
        /\ \A i, j \in Ids : statement[r][i] = statement[r][j] /\ statement[r][i] # Null => i = j
        /\ \A row \in opinion[r] :
              [statement |-> statement[r][row.statement_id], signer |-> row.signer, date |-> row.date]
                \in Opinions

LEMMA RowsLead ==
  ASSUME TablesInv, NEW r \in Replicas, NEW row \in opinion[r]
  PROVE  /\ row.statement_id \in Ids
         /\ statement[r][row.statement_id] \in Statements
         /\ statement[r][row.statement_id] # Null
  <1>1. row \in OpinionRows
    BY DEF TablesInv
  <1>2. PICK o \in Opinions : o = [statement |-> statement[r][row.statement_id],
                                  signer |-> row.signer, date |-> row.date]
    BY DEF TablesInv
  <1>3. o.statement = statement[r][row.statement_id]
    BY <1>2
  <1>4. statement[r][row.statement_id] \in Statements
    BY <1>3 DEF Statements
  <1> QED BY <1>1, <1>4, ListingAssumption DEF OpinionRows

\* A new row goes where there is none.
LEMMA RowForStatement ==
  ASSUME TablesInv, NEW r \in Replicas, NEW s \in Statements, NEW id \in Ids, RowFor(r, s, id)
  PROVE  /\ statement[r][id] \in {s, Null}
         /\ statement[r][id] = Null => \A i \in Ids : statement[r][i] # s
  <1>1. s # Null
    BY ListingAssumption
  <1>2. CASE statement[r][id] = s
    BY <1>1, <1>2
  <1>3. CASE /\ s \notin Range(statement[r])
             /\ id = Max({0} \cup {i \in Ids : statement[r][i] # Null}) + 1
    <2> DEFINE T == {0} \cup {i \in Ids : statement[r][i] # Null}
    <2>1. T \in SUBSET (0 .. MaxId) /\ T # {}
      BY ListingAssumption DEF Ids
    <2>2. Max(T) \in T /\ \A m \in T : Max(T) >= m
      BY <2>1, GreatestOfInterval, ListingAssumption
    <2>3. Max(T) \in Nat /\ id = Max(T) + 1
      BY <1>3, <2>1, <2>2, ListingAssumption
    <2> HIDE DEF T
    <2>4. id \notin T
      BY <2>1, <2>2, <2>3, ListingAssumption
    <2>5. statement[r][id] = Null
      BY <2>4 DEF T
    <2>6. \A i \in Ids : statement[r][i] \in Range(statement[r])
      BY DEF TablesInv, Range
    <2> QED BY <1>3, <2>5, <2>6
  <1> QED BY <1>2, <1>3 DEF RowFor

LEMMA PersistKeepsTables ==
  ASSUME TablesInv, NEW r \in Replicas, NEW o \in Opinions, Persist(r, o)
  PROVE  TablesInv'
  <1> DEFINE s == o.statement
  <1>1. PICK id \in Ids :
          LET previous == {p \in opinion[r] : p.statement_id = id /\ p.signer = o.signer}
          IN  /\ RowFor(r, s, id)
              /\ statement' = [statement EXCEPT ![r][id] = s]
              /\ opinion' = [opinion EXCEPT ![r] =
                    IF \A p \in previous : p.date < o.date
                    THEN (@ \ previous) \cup {Row(o, id)} ELSE @]
    BY DEF Persist
  <1>2. s \in Statements /\ s # Null
    BY ListingAssumption DEF Statements
  <1>3. /\ statement[r][id] \in {s, Null}
        /\ statement[r][id] = Null => \A i \in Ids : statement[r][i] # s
    BY <1>1, <1>2, RowForStatement
  <1>4. /\ statement \in [Replicas -> [Ids -> Statements \cup {Null}]]
        /\ opinion \in [Replicas -> SUBSET OpinionRows]
    BY DEF TablesInv
  <1>5. /\ statement' \in [Replicas -> [Ids -> Statements \cup {Null}]]
        /\ \A i \in Ids : statement'[r][i] = IF i = id THEN s ELSE statement[r][i]
        /\ \A q \in Replicas \ {r} : statement'[q] = statement[q]
    BY <1>1, <1>2, <1>4
  <1>6. Row(o, id) \in OpinionRows
    BY DEF Row, OpinionRows, Signers, Dates
  <1>7. /\ opinion' \in [Replicas -> SUBSET OpinionRows]
        /\ \A q \in Replicas \ {r} : opinion'[q] = opinion[q]
        /\ \A row \in opinion'[r] : row \in opinion[r] \/ row = Row(o, id)
        /\ IsFiniteSet(opinion'[r])
    <2> DEFINE previous == {p \in opinion[r] : p.statement_id = id /\ p.signer = o.signer}
               left == opinion[r] \ previous
    <2>1. left \in SUBSET opinion[r] /\ IsFiniteSet(opinion[r])
      BY DEF TablesInv
    <2>2. IsFiniteSet(left)
      BY <2>1, FS_Subset
    <2>3. IsFiniteSet(left \cup {Row(o, id)})
      BY <2>2, FS_AddElement
    <2>4. left \cup {Row(o, id)} \in SUBSET OpinionRows
      BY <1>4, <1>6
    <2>5. /\ opinion'[r] = left \cup {Row(o, id)} \/ opinion'[r] = opinion[r]
          /\ opinion' = [opinion EXCEPT ![r] = opinion'[r]]
      BY <1>1, <1>4
    <2> HIDE DEF left
    <2>6. opinion'[r] \in SUBSET OpinionRows
      BY <1>4, <2>4, <2>5
    <2>7. opinion' \in [Replicas -> SUBSET OpinionRows]
      BY <1>4, <2>5, <2>6
    <2> QED BY <1>4, <2>1, <2>3, <2>5, <2>7
  <1>8. ASSUME NEW i \in Ids, NEW j \in Ids,
               statement'[r][i] = statement'[r][j], statement'[r][i] # Null
        PROVE  i = j
    <2>1. \A k, l \in Ids : statement[r][k] = statement[r][l] /\ statement[r][k] # Null => k = l
      BY DEF TablesInv
    <2> HIDE DEF s
    <2> QED BY <1>2, <1>3, <1>5, <1>8, <2>1
  <1>9. ASSUME NEW row \in opinion'[r]
        PROVE  [statement |-> statement'[r][row.statement_id], signer |-> row.signer,
                date |-> row.date] \in Opinions
    <2>1. CASE row = Row(o, id)
      <3>1. row.statement_id = id /\ row.signer = o.signer /\ row.date = o.date
        BY <2>1 DEF Row
      <3>2. statement'[r][id] = s
        BY <1>5
      <3> QED BY <3>1, <3>2, ListingAssumption
    <2>2. CASE row \in opinion[r]
      <3>1. /\ row.statement_id \in Ids /\ statement[r][row.statement_id] # Null
            /\ [statement |-> statement[r][row.statement_id], signer |-> row.signer,
                date |-> row.date] \in Opinions
        BY <2>2, RowsLead DEF TablesInv
      <3>2. statement'[r][row.statement_id] = statement[r][row.statement_id]
        BY <1>3, <1>5, <3>1
      <3> QED BY <3>1, <3>2
    <2> QED BY <1>7, <2>1, <2>2
  <1>10. ASSUME NEW q \in Replicas
         PROVE  /\ IsFiniteSet(opinion'[q])
                /\ \A i, j \in Ids : statement'[q][i] = statement'[q][j] /\ statement'[q][i] # Null => i = j
                /\ \A row \in opinion'[q] :
                     [statement |-> statement'[q][row.statement_id], signer |-> row.signer,
                      date |-> row.date] \in Opinions
    <2>1. CASE q = r
      BY <1>7, <1>8, <1>9, <2>1
    <2>2. CASE q # r
      <3>1. statement'[q] = statement[q] /\ opinion'[q] = opinion[q]
        BY <1>5, <1>7, <2>2
      <3> QED BY <3>1 DEF TablesInv
    <2> QED BY <2>1, <2>2
  <1> QED BY <1>5, <1>7, <1>10 DEF TablesInv

LEMMA CleanupKeepsTables ==
  ASSUME TablesInv, NEW r \in Replicas, NEW date, Cleanup(r, date)
  PROVE  TablesInv'
  <1> DEFINE left == {o \in opinion[r] : o.date >= date}
             used == {o.statement_id : o \in left}
  <1>1. /\ opinion' = [opinion EXCEPT ![r] = left]
        /\ statement' = [statement EXCEPT ![r] =
              [id \in Ids |-> IF id \in used THEN statement[r][id] ELSE Null]]
    BY DEF Cleanup, TablesInv
  <1>2. /\ statement \in [Replicas -> [Ids -> Statements \cup {Null}]]
        /\ opinion \in [Replicas -> SUBSET OpinionRows]
    BY DEF TablesInv
  <1>3. /\ opinion' \in [Replicas -> SUBSET OpinionRows]
        /\ opinion'[r] = left
        /\ \A q \in Replicas \ {r} : opinion'[q] = opinion[q]
    BY <1>1, <1>2
  <1>4. /\ statement' \in [Replicas -> [Ids -> Statements \cup {Null}]]
        /\ \A i \in Ids : statement'[r][i] = IF i \in used THEN statement[r][i] ELSE Null
        /\ \A q \in Replicas \ {r} : statement'[q] = statement[q]
    BY <1>1, <1>2
  <1>5. IsFiniteSet(left)
    BY FS_Subset DEF TablesInv
  <1>6. ASSUME NEW row \in left
        PROVE  [statement |-> statement'[r][row.statement_id], signer |-> row.signer,
                date |-> row.date] \in Opinions
    <2>1. row \in opinion[r] /\ row.statement_id \in used
      OBVIOUS
    <2>2. statement'[r][row.statement_id] = statement[r][row.statement_id]
      BY <1>4, <2>1, RowsLead
    <2> QED BY <2>1, <2>2 DEF TablesInv
  <1>7. ASSUME NEW i \in Ids, NEW j \in Ids,
               statement'[r][i] = statement'[r][j], statement'[r][i] # Null
        PROVE  i = j
    <2>1. \A k, l \in Ids : statement[r][k] = statement[r][l] /\ statement[r][k] # Null => k = l
      BY DEF TablesInv
    <2> HIDE DEF used
    <2> QED BY <1>4, <1>7, <2>1
  <1>8. ASSUME NEW q \in Replicas
        PROVE  /\ IsFiniteSet(opinion'[q])
               /\ \A i, j \in Ids : statement'[q][i] = statement'[q][j] /\ statement'[q][i] # Null => i = j
               /\ \A row \in opinion'[q] :
                    [statement |-> statement'[q][row.statement_id], signer |-> row.signer,
                     date |-> row.date] \in Opinions
    <2>1. CASE q = r
      BY <1>3, <1>5, <1>6, <1>7, <2>1
    <2>2. CASE q # r
      <3>1. statement'[q] = statement[q] /\ opinion'[q] = opinion[q]
        BY <1>3, <1>4, <2>2
      <3> QED BY <3>1 DEF TablesInv
    <2> QED BY <2>1, <2>2
  <1> QED BY <1>3, <1>4, <1>8 DEF TablesInv

LEMMA TablesInvariant == Spec => []TablesInv
  <1>1. Init => TablesInv
    BY FS_EmptySet DEF Init, TablesInv
  <1>2. TablesInv /\ [Next]_vars => TablesInv'
    <2> SUFFICES ASSUME TablesInv, [Next]_vars
                 PROVE  TablesInv'
      OBVIOUS
    <2>1. CASE UNCHANGED vars
      BY <2>1 DEF vars, TablesInv
    <2>2. CASE Next
      BY <2>2, PersistKeepsTables, CleanupKeepsTables DEF Next
    <2> QED BY <2>1, <2>2
  <1> QED BY <1>1, <1>2, PTL DEF Spec

-----------------------------------------------------------------------------
(* Groups *)

\* The lists in g are the first n members of q, cut where the field changes;
\* s[i] is how many members lie before the list g[i].
IsGrouping(q, field, n, g, s) ==
    /\ s \in [1 .. Len(g) -> Nat]
    /\ \A i \in 1 .. Len(g) :
        /\ Len(g[i]) >= 1 /\ s[i] + Len(g[i]) <= n
        /\ \A j \in 1 .. Len(g[i]) : g[i][j] = q[s[i] + j] /\ g[i][j][field] = g[i][1][field]
    /\ \A i, k \in 1 .. Len(g) : i < k => s[i] < s[k]
    /\ \A i \in 1 .. Len(g) - 1 : g[i][1][field] # g[i + 1][1][field]
    /\ \A p \in 1 .. n : \E i \in 1 .. Len(g) : \E j \in 1 .. Len(g[i]) : p = s[i] + j
    /\ Len(g) > 0 => s[Len(g)] + Len(g[Len(g)]) = n

LEMMA Appended ==
  ASSUME NEW S, NEW t \in Seq(S), NEW x \in S
  PROVE  /\ Append(t, x) \in Seq(S) /\ Len(Append(t, x)) = Len(t) + 1
         /\ \A i \in 1 .. Len(t) : Append(t, x)[i] = t[i]
         /\ Append(t, x)[Len(t) + 1] = x
  OBVIOUS

LEMMA FrontOf ==
  ASSUME NEW S, NEW t \in Seq(S), t # <<>>
  PROVE  /\ Front(t) \in Seq(S) /\ Len(Front(t)) = Len(t) - 1
         /\ \A i \in 1 .. Len(t) - 1 : Front(t)[i] = t[i]
         /\ Last(t) = t[Len(t)] /\ Last(t) \in S
         /\ Len(t) \in Nat \ {0} /\ Head(t) = t[1]
  <1>1. Len(t) \in Nat \ {0} /\ Head(t) = t[1] /\ t[Len(t)] \in S
    OBVIOUS
  <1>2. /\ SubSeq(t, 1, Len(t) - 1) \in Seq(S)
        /\ Len(SubSeq(t, 1, Len(t) - 1)) = Len(t) - 1
        /\ \A i \in 1 .. Len(t) - 1 : SubSeq(t, 1, Len(t) - 1)[i] = t[i]
    <2>1. PICK k \in Nat : k = Len(t) - 1
      BY <1>1
    <2>2. \A i \in 1 .. k : t[i] \in S /\ 1 + i - 1 = i
      BY <2>1
    <2>3. /\ SubSeq(t, 1, k) \in Seq(S)
          /\ Len(SubSeq(t, 1, k)) = IF 1 <= k THEN k - 1 + 1 ELSE 0
          /\ \A i \in 1 .. k - 1 + 1 : SubSeq(t, 1, k)[i] = t[1 + i - 1]
      BY <2>2, SubSeqProperties
    <2>4. k - 1 + 1 = k /\ (IF 1 <= k THEN k - 1 + 1 ELSE 0) = k
      OBVIOUS
    <2> QED BY <2>1, <2>2, <2>3, <2>4
  <1> QED BY <1>1, <1>2 DEF Front, Last

\* The next member opens a list of its own.
LEMMA PutApart ==
  ASSUME NEW S, NEW q \in Seq(S), NEW field, NEW n \in 1 .. Len(q),
         NEW g \in Seq(Seq(S)), NEW s, IsGrouping(q, field, n - 1, g, s),
         Len(g) > 0 => g[Len(g)][1][field] # q[n][field]
  PROVE  \E t : IsGrouping(q, field, n, Append(g, <<q[n]>>), t)
  <1> DEFINE m == Len(g)
             h == Append(g, <<q[n]>>)
             t == [i \in 1 .. m + 1 |-> IF i = m + 1 THEN n - 1 ELSE s[i]]
  <1>1. /\ m \in Nat /\ n \in Nat \ {0} /\ q[n] \in S
        /\ <<q[n]>> \in Seq(S) /\ Len(<<q[n]>>) = 1 /\ <<q[n]>>[1] = q[n]
    OBVIOUS
  <1>2. /\ Len(h) = m + 1 /\ h[m + 1] = <<q[n]>>
        /\ \A i \in 1 .. m : h[i] = g[i]
    BY <1>1, Appended
  <1>3. /\ s \in [1 .. m -> Nat]
        /\ \A i \in 1 .. m :
            /\ Len(g[i]) >= 1 /\ s[i] + Len(g[i]) <= n - 1
            /\ \A j \in 1 .. Len(g[i]) : g[i][j] = q[s[i] + j] /\ g[i][j][field] = g[i][1][field]
        /\ \A i, k \in 1 .. m : i < k => s[i] < s[k]
        /\ \A i \in 1 .. m - 1 : g[i][1][field] # g[i + 1][1][field]
        /\ \A p \in 1 .. n - 1 : \E i \in 1 .. m : \E j \in 1 .. Len(g[i]) : p = s[i] + j
    BY DEF IsGrouping
  <1>4. \A i \in 1 .. m : g[i] \in Seq(S) /\ Len(g[i]) \in Nat
    OBVIOUS
  <1>5. /\ t \in [1 .. m + 1 -> Nat] /\ t[m + 1] = n - 1
        /\ \A i \in 1 .. m : t[i] = s[i]
    BY <1>1, <1>3
  <1>6. \A i \in 1 .. m + 1 : i = m + 1 \/ i \in 1 .. m
    BY <1>1
  <1> HIDE DEF m, h, t
  <1>7. ASSUME NEW i \in 1 .. m + 1
        PROVE  /\ Len(h[i]) >= 1 /\ t[i] + Len(h[i]) <= n
               /\ \A j \in 1 .. Len(h[i]) : h[i][j] = q[t[i] + j] /\ h[i][j][field] = h[i][1][field]
    <2>1. CASE i = m + 1
      <3>1. Len(h[i]) = 1 /\ h[i][1] = q[n] /\ t[i] = n - 1
        BY <1>1, <1>2, <1>5, <2>1
      <3>2. t[i] + 1 = n /\ t[i] + Len(h[i]) <= n
        BY <1>1, <3>1
      <3>3. \A j \in 1 .. Len(h[i]) : j = 1
        BY <3>1
      <3> QED BY <3>1, <3>2, <3>3
    <2>2. CASE i \in 1 .. m
      <3>1. h[i] = g[i] /\ t[i] = s[i] /\ s[i] \in Nat /\ Len(g[i]) \in Nat
        BY <1>2, <1>3, <1>4, <1>5, <2>2
      <3>2. s[i] + Len(g[i]) <= n
        BY <1>1, <1>3, <2>2, <3>1
      <3> QED BY <1>3, <2>2, <3>1, <3>2
    <2> QED BY <1>6, <2>1, <2>2
  <1>8. ASSUME NEW i \in 1 .. m + 1, NEW k \in 1 .. m + 1, i < k
        PROVE  t[i] < t[k]
    <2>1. i \in 1 .. m
      BY <1>1, <1>8
    <2>2. s[i] \in Nat /\ s[i] < n - 1
      <3>1. s[i] + Len(g[i]) <= n - 1 /\ Len(g[i]) >= 1 /\ Len(g[i]) \in Nat /\ s[i] \in Nat
        BY <1>3, <1>4, <2>1
      <3> QED BY <1>1, <3>1
    <2> QED BY <1>3, <1>5, <1>6, <1>8, <2>1, <2>2
  <1>9. ASSUME NEW i \in 1 .. (m + 1) - 1
        PROVE  h[i][1][field] # h[i + 1][1][field]
    <2>1. i \in 1 .. m /\ (i = m \/ (i \in 1 .. m - 1 /\ i + 1 \in 1 .. m))
      BY <1>1
    <2>2. CASE i = m
      <3>1. h[i] = g[m] /\ h[i + 1] = <<q[n]>> /\ m > 0
        BY <1>1, <1>2, <2>1, <2>2
      <3>2. g[m][1][field] # q[n][field]
        BY <3>1 DEF m
      <3> QED BY <1>1, <3>1, <3>2
    <2>3. CASE i \in 1 .. m - 1 /\ i + 1 \in 1 .. m
      BY <1>2, <1>3, <2>1, <2>3
    <2> QED BY <2>1, <2>2, <2>3
  <1>10. ASSUME NEW p \in 1 .. n
         PROVE  \E i \in 1 .. m + 1 : \E j \in 1 .. Len(h[i]) : p = t[i] + j
    <2>1. CASE p = n
      <3>1. m + 1 \in 1 .. m + 1 /\ 1 \in 1 .. Len(h[m + 1]) /\ p = t[m + 1] + 1
        BY <1>1, <1>2, <1>5, <2>1
      <3> QED BY <3>1
    <2>2. CASE p # n
      <3>1. p \in 1 .. n - 1
        BY <1>1, <2>2
      <3>2. PICK i \in 1 .. m : \E j \in 1 .. Len(g[i]) : p = s[i] + j
        BY <1>3, <3>1
      <3>3. i \in 1 .. m + 1 /\ h[i] = g[i] /\ t[i] = s[i]
        BY <1>1, <1>2, <1>5
      <3> QED BY <3>2, <3>3
    <2> QED BY <2>1, <2>2
  <1>11. t[m + 1] + Len(h[m + 1]) = n
    BY <1>1, <1>2, <1>5
  <1>12. IsGrouping(q, field, n, h, t)
    BY <1>2, <1>5, <1>7, <1>8, <1>9, <1>10, <1>11 DEF IsGrouping
  <1> QED BY <1>12 DEF h

\* The next member joins the last list.
LEMMA PutTogether ==
  ASSUME NEW S, NEW q \in Seq(S), NEW field, NEW n \in 1 .. Len(q),
         NEW g \in Seq(Seq(S)), NEW s, IsGrouping(q, field, n - 1, g, s),
         Len(g) > 0, g[Len(g)][1][field] = q[n][field],
         NEW h \in Seq(Seq(S)), Len(h) = Len(g),
         \A i \in 1 .. Len(g) - 1 : h[i] = g[i],
         h[Len(g)] = Append(g[Len(g)], q[n])
  PROVE  IsGrouping(q, field, n, h, s)
  <1> DEFINE m == Len(g)
             l == Len(g[m])
  <1>1. /\ m \in Nat \ {0} /\ n \in Nat \ {0} /\ q[n] \in S
        /\ \A i \in 1 .. m : g[i] \in Seq(S) /\ Len(g[i]) \in Nat
    OBVIOUS
  <1>2. /\ s \in [1 .. m -> Nat]
        /\ \A i \in 1 .. m :
            /\ Len(g[i]) >= 1 /\ s[i] + Len(g[i]) <= n - 1
            /\ \A j \in 1 .. Len(g[i]) : g[i][j] = q[s[i] + j] /\ g[i][j][field] = g[i][1][field]
        /\ \A i, k \in 1 .. m : i < k => s[i] < s[k]
        /\ \A i \in 1 .. m - 1 : g[i][1][field] # g[i + 1][1][field]
        /\ \A p \in 1 .. n - 1 : \E i \in 1 .. m : \E j \in 1 .. Len(g[i]) : p = s[i] + j
        /\ s[m] + l = n - 1
    BY DEF IsGrouping
  <1>3. m \in 1 .. m /\ g[m] \in Seq(S) /\ l \in Nat /\ l >= 1 /\ s[m] \in Nat
    BY <1>1, <1>2
  <1>4. /\ Len(h[m]) = l + 1 /\ h[m][l + 1] = q[n]
        /\ \A j \in 1 .. l : h[m][j] = g[m][j]
    BY <1>1, <1>3, Appended
  <1>4a. s[m] + (l + 1) = n
    <2>1. \A a, b, c \in Nat : a + b = c - 1 => a + (b + 1) = c
      OBVIOUS
    <2>2. s[m] + l = n - 1
      BY <1>2
    <2>3. s[m] \in Nat /\ l \in Nat /\ n \in Nat
      BY <1>1, <1>3
    <2> HIDE DEF m, l
    <2> QED BY <2>1, <2>2, <2>3
  <1>5. /\ \A i \in 1 .. m : i = m \/ i \in 1 .. m - 1
        /\ \A i \in 1 .. m - 1 : i \in 1 .. m /\ i + 1 \in 1 .. m /\ h[i] = g[i]
        /\ g[m][1][field] = q[n][field]
        /\ Len(h) = m
    BY <1>1
  <1> HIDE DEF m, l
  <1>6. \A i \in 1 .. m : h[i][1] = g[i][1] /\ Len(g[i]) <= Len(h[i])
    <2>1. 1 \in 1 .. l /\ l <= l + 1
      BY <1>3
    <2>2. ASSUME NEW i \in 1 .. m - 1
          PROVE  h[i][1] = g[i][1] /\ Len(g[i]) <= Len(h[i])
      <3>1. h[i] = g[i] /\ Len(g[i]) \in Nat
        BY <1>1, <1>5
      <3> QED BY <3>1
    <2>3. h[m][1] = g[m][1] /\ Len(g[m]) <= Len(h[m])
      BY <1>4, <2>1 DEF l
    <2> QED BY <1>5, <2>2, <2>3
  <1>7. ASSUME NEW i \in 1 .. m
        PROVE  /\ Len(h[i]) >= 1 /\ s[i] + Len(h[i]) <= n
               /\ \A j \in 1 .. Len(h[i]) : h[i][j] = q[s[i] + j] /\ h[i][j][field] = h[i][1][field]
    <2>1. CASE i = m
      <3>1. Len(h[m]) >= 1 /\ s[m] + Len(h[m]) <= n
        BY <1>1, <1>2, <1>3, <1>4
      <3>2. ASSUME NEW j \in 1 .. Len(h[m])
            PROVE  h[m][j] = q[s[m] + j] /\ h[m][j][field] = h[m][1][field]
        <4>1. j \in 1 .. l \/ j = l + 1
          BY <1>3, <1>4
        <4>2. CASE j \in 1 .. l
          <5>1. g[m][j] = q[s[m] + j] /\ g[m][j][field] = g[m][1][field]
            BY <1>2, <1>3, <4>2 DEF l
          <5> QED BY <1>3, <1>4, <1>6, <4>2, <5>1
        <4>3. CASE j = l + 1
          <5>1. s[m] + j = n
            BY <1>4a, <4>3
          <5> QED BY <1>3, <1>4, <1>5, <1>6, <4>3, <5>1
        <4> QED BY <4>1, <4>2, <4>3
      <3> QED BY <2>1, <3>1, <3>2
    <2>2. CASE i \in 1 .. m - 1
      <3>1. h[i] = g[i] /\ s[i] \in Nat /\ Len(g[i]) \in Nat
        BY <1>1, <1>2, <1>5, <2>2
      <3>2. s[i] + Len(g[i]) <= n - 1 /\ Len(g[i]) >= 1
        BY <1>2
      <3>3. s[i] + Len(g[i]) <= n
        BY <1>1, <3>1, <3>2
      <3> QED BY <1>2, <3>1, <3>2, <3>3
    <2> QED BY <1>5, <2>1, <2>2
  <1>8. \A i \in 1 .. m - 1 : h[i][1][field] # h[i + 1][1][field]
    BY <1>2, <1>5, <1>6
  <1>9. ASSUME NEW p \in 1 .. n
        PROVE  \E i \in 1 .. m : \E j \in 1 .. Len(h[i]) : p = s[i] + j
    <2>1. CASE p = n
      <3>1. l + 1 \in 1 .. Len(h[m]) /\ p = s[m] + (l + 1)
        BY <1>3, <1>4, <1>4a, <2>1
      <3> QED BY <1>3, <3>1
    <2>2. CASE p # n
      <3>1. p \in 1 .. n - 1
        BY <1>1, <2>2
      <3>2. PICK i \in 1 .. m : \E j \in 1 .. Len(g[i]) : p = s[i] + j
        BY <1>2, <3>1
      <3>3. \A j \in 1 .. Len(g[i]) : j \in 1 .. Len(h[i])
        <4>1. Len(g[i]) <= Len(h[i]) /\ Len(g[i]) \in Nat
          BY <1>1, <1>6
        <4>2. Len(h[i]) \in Nat
          BY <1>5
        <4> QED BY <4>1, <4>2
      <3> QED BY <3>2, <3>3
    <2> QED BY <2>1, <2>2
  <1>10. s[m] + Len(h[m]) = n
    BY <1>4, <1>4a
  <1> QED BY <1>2, <1>5, <1>7, <1>8, <1>9, <1>10 DEF IsGrouping

LEMMA PutKeepsGrouping ==
  ASSUME NEW S, NEW q \in Seq(S), NEW field, NEW n \in 1 .. Len(q),
         NEW g \in Seq(Seq(S)), NEW s, IsGrouping(q, field, n - 1, g, s)
  PROVE  /\ Put(g, q[n], field) \in Seq(Seq(S))
         /\ \E t : IsGrouping(q, field, n, Put(g, q[n], field), t)
  <1> DEFINE m == Len(g)
  <1>1. q[n] \in S /\ <<q[n]>> \in Seq(S) /\ m \in Nat /\ (g # <<>> <=> m > 0)
    OBVIOUS
  <1>2. ASSUME m > 0
        PROVE  /\ Last(g) = g[m] /\ g[m] \in Seq(S) /\ Head(Last(g)) = g[m][1]
               /\ Front(g) \in Seq(Seq(S)) /\ Len(Front(g)) = m - 1
               /\ \A i \in 1 .. m - 1 : Front(g)[i] = g[i]
    <2>1. /\ Front(g) \in Seq(Seq(S)) /\ Len(Front(g)) = m - 1
          /\ \A i \in 1 .. m - 1 : Front(g)[i] = g[i]
          /\ Last(g) = g[m] /\ g[m] \in Seq(S)
      BY <1>1, <1>2, FrontOf
    <2>2. Len(g[m]) >= 1
      BY <1>1, <1>2 DEF IsGrouping
    <2>3. g[m] # <<>>
      BY <2>2
    <2> QED BY <2>1, <2>3, FrontOf
  <1>3. CASE m > 0 /\ g[m][1][field] = q[n][field]
    <2> DEFINE h == Append(Front(g), Append(g[m], q[n]))
    <2>1. Put(g, q[n], field) = h
      BY <1>1, <1>2, <1>3 DEF Put
    <2>2. Append(g[m], q[n]) \in Seq(S)
      BY <1>1, <1>2, <1>3
    <2>3. /\ h \in Seq(Seq(S)) /\ Len(h) = m
          /\ \A i \in 1 .. m - 1 : h[i] = g[i]
          /\ h[m] = Append(g[m], q[n])
      <3>1. /\ h \in Seq(Seq(S)) /\ Len(h) = Len(Front(g)) + 1
            /\ \A i \in 1 .. Len(Front(g)) : h[i] = Front(g)[i]
            /\ h[Len(Front(g)) + 1] = Append(g[m], q[n])
        BY <1>2, <1>3, <2>2, Appended
      <3>2. Len(Front(g)) = m - 1 /\ (m - 1) + 1 = m
        BY <1>1, <1>2, <1>3
      <3> QED BY <1>2, <1>3, <3>1, <3>2
    <2> HIDE DEF h
    <2>4. IsGrouping(q, field, n, h, s)
      BY <1>3, <2>3, PutTogether
    <2> QED BY <2>1, <2>3, <2>4
  <1>4. CASE ~(m > 0 /\ g[m][1][field] = q[n][field])
    <2>1. Put(g, q[n], field) = Append(g, <<q[n]>>)
      BY <1>1, <1>2, <1>4 DEF Put
    <2>2. Append(g, <<q[n]>>) \in Seq(Seq(S))
      BY <1>1
    <2> QED BY <1>4, <2>1, <2>2, PutApart
  <1> QED BY <1>3, <1>4

AreGroups(f, q, field, l) ==
    f = [n \in 0 .. l |-> IF n = 0 THEN <<>> ELSE Put(f[n - 1], q[n], field)]

LEMMA GroupsExist ==
  ASSUME NEW q, NEW field, NEW l \in Nat
  PROVE  \E f : AreGroups(f, q, field, l)
  <1> DEFINE S == {m \in Nat : \E f : AreGroups(f, q, field, m)}
  <1>1. 0 \in S
    <2> DEFINE f == [n \in 0 .. 0 |-> <<>>]
    <2>1. f = [n \in 0 .. 0 |-> IF n = 0 THEN <<>> ELSE Put(f[n - 1], q[n], field)]
      OBVIOUS
    <2> QED BY <2>1 DEF AreGroups
  <1>2. ASSUME NEW m \in Nat, m \in S
        PROVE  m + 1 \in S
    <2>0. PICK f : AreGroups(f, q, field, m)
      BY <1>2
    <2>1. f = [n \in 0 .. m |-> IF n = 0 THEN <<>> ELSE Put(f[n - 1], q[n], field)]
      BY <2>0 DEF AreGroups
    <2> DEFINE last == Put(f[m], q[m + 1], field)
               h == [n \in 0 .. m + 1 |-> IF n = m + 1 THEN last ELSE f[n]]
               rhs == [n \in 0 .. m + 1 |-> IF n = 0 THEN <<>> ELSE Put(h[n - 1], q[n], field)]
    <2>2. ASSUME NEW n \in 0 .. m + 1
          PROVE  h[n] = rhs[n]
      <3>1. CASE n = m + 1
        <4>1. h[n] = last /\ n # 0 /\ n - 1 = m /\ h[n - 1] = f[m]
          BY <3>1
        <4>2. rhs[n] = Put(f[m], q[m + 1], field)
          BY <3>1, <4>1
        <4> QED BY <4>1, <4>2
      <3>2. CASE n = 0
        <4>1. h[n] = f[0] /\ f[0] = <<>>
          BY <2>1, <3>2
        <4>2. rhs[n] = <<>>
          BY <3>2
        <4> QED BY <4>1, <4>2
      <3>3. CASE n # 0 /\ n # m + 1
        <4>1. n \in 0 .. m /\ n - 1 \in 0 .. m + 1 /\ n - 1 # m + 1
          BY <3>3
        <4>2. h[n] = f[n] /\ h[n - 1] = f[n - 1]
          BY <3>3, <4>1
        <4>3. f[n] = Put(f[n - 1], q[n], field)
          BY <2>1, <3>3, <4>1
        <4>4. rhs[n] = Put(f[n - 1], q[n], field)
          BY <3>3, <4>2
        <4> QED BY <4>2, <4>3, <4>4
      <3> QED BY <3>1, <3>2, <3>3
    <2>3. h = rhs
      <3>1. h = [n \in 0 .. m + 1 |-> h[n]] /\ rhs = [n \in 0 .. m + 1 |-> rhs[n]]
        OBVIOUS
      <3> HIDE DEF h, rhs
      <3> QED BY <2>2, <3>1
    <2>4. AreGroups(h, q, field, m + 1)
      BY <2>3 DEF AreGroups
    <2> QED BY <2>4
  <1>3. \A m \in Nat : m \in S
    <2> HIDE DEF S
    <2> QED BY <1>1, <1>2, AllNaturals
  <1> QED BY <1>3

LEMMA GroupsOf ==
  ASSUME NEW S, NEW q \in Seq(S), NEW field
  PROVE  /\ Groups(q, field) \in Seq(Seq(S))
         /\ \E s : IsGrouping(q, field, Len(q), Groups(q, field), s)
  <1> DEFINE l == Len(q)
  <1>0. l \in Nat
    OBVIOUS
  <1>1. \E f : AreGroups(f, q, field, l)
    <2> HIDE DEF l
    <2> QED BY <1>0, GroupsExist
  <1>2. PICK f : f = CHOOSE h : AreGroups(h, q, field, l)
    OBVIOUS
  <1>3. f = [n \in 0 .. l |-> IF n = 0 THEN <<>> ELSE Put(f[n - 1], q[n], field)]
    <2>1. AreGroups(f, q, field, l)
      <3> HIDE DEF l
      <3> QED BY <1>1, <1>2
    <2> QED BY <2>1 DEF AreGroups
  <1>4. Groups(q, field) = f[l]
    BY <1>2 DEF Groups, AreGroups
  <1> DEFINE T == {n \in Nat : n <= l => /\ f[n] \in Seq(Seq(S))
                                        /\ \E s : IsGrouping(q, field, n, f[n], s)}
  <1>5. 0 \in T
    <2>1. f[0] = <<>>
      BY <1>3
    <2>2. IsGrouping(q, field, 0, <<>>, [i \in 1 .. 0 |-> 0])
      BY DEF IsGrouping
    <2>3. <<>> \in Seq(Seq(S))
      OBVIOUS
    <2>4. \E s : IsGrouping(q, field, 0, f[0], s)
      BY <2>1, <2>2
    <2> QED BY <2>1, <2>3, <2>4
  <1>6. ASSUME NEW n \in Nat, n \in T
        PROVE  n + 1 \in T
    <2> SUFFICES ASSUME n + 1 <= l
                 PROVE  /\ f[n + 1] \in Seq(Seq(S))
                        /\ \E s : IsGrouping(q, field, n + 1, f[n + 1], s)
      OBVIOUS
    <2>1. n + 1 \in 1 .. l /\ n + 1 # 0 /\ (n + 1) - 1 = n /\ n <= l
      OBVIOUS
    <2>2. f[n + 1] = Put(f[n], q[n + 1], field)
      BY <1>3, <2>1
    <2>3. f[n] \in Seq(Seq(S)) /\ \E s : IsGrouping(q, field, n, f[n], s)
      BY <1>6, <2>1
    <2>4. PICK s : IsGrouping(q, field, (n + 1) - 1, f[n], s)
      BY <2>1, <2>3
    <2> QED BY <2>1, <2>2, <2>3, <2>4, PutKeepsGrouping
  <1>7. \A n \in Nat : n \in T
    <2> HIDE DEF T
    <2> QED BY <1>5, <1>6, AllNaturals
  <1>8. f[l] \in Seq(Seq(S)) /\ \E s : IsGrouping(q, field, l, f[l], s)
    BY <1>0, <1>7
  <1> QED BY <1>4, <1>8

\* Lists g of the members of q: none is empty, each agrees in the field and no
\* two do, nothing is left out, and members keep their order.
AreSorted(g, q, S, field) ==
    /\ DOMAIN g = 1 .. Len(g)
    /\ \A i \in DOMAIN g :
        /\ DOMAIN g[i] = 1 .. Len(g[i]) /\ 1 \in DOMAIN g[i] /\ Len(g[i]) \in Nat
        /\ Head(g[i]) = g[i][1]
        /\ \A j \in DOMAIN g[i] : g[i][j] \in S /\ g[i][j][field] = g[i][1][field]
        /\ \A j, k \in DOMAIN g[i] : j < k =>
              \E a, b \in 1 .. Len(q) : a < b /\ g[i][j] = q[a] /\ g[i][k] = q[b]
    /\ \A i, k \in DOMAIN g : g[i][1][field] = g[k][1][field] => i = k
    /\ \A p \in 1 .. Len(q) : \E i \in DOMAIN g : \E j \in DOMAIN g[i] : g[i][j] = q[p]

LEMMA SortedGroups ==
  ASSUME NEW S, NEW q \in Seq(S), NEW field,
         \A x \in S : x[field] \in Nat,
         \A i, j \in 1 .. Len(q) : i < j => q[i][field] <= q[j][field],
         NEW g, g = Groups(q, field)
  PROVE  AreSorted(g, q, S, field)
  <1> DEFINE l == Len(q)
             m == Len(g)
  <1>1. g \in Seq(Seq(S))
    BY GroupsOf
  <1>2. PICK s : IsGrouping(q, field, l, g, s)
    BY GroupsOf
  <1>3. /\ l \in Nat /\ m \in Nat /\ DOMAIN g = 1 .. m
        /\ \A i \in 1 .. m : g[i] \in Seq(S)
        /\ \A p \in 1 .. l : q[p] \in S
    BY <1>1
  <1>4. /\ s \in [1 .. m -> Nat]
        /\ \A i \in 1 .. m :
            /\ Len(g[i]) >= 1 /\ s[i] + Len(g[i]) <= l
            /\ \A j \in 1 .. Len(g[i]) : g[i][j] = q[s[i] + j] /\ g[i][j][field] = g[i][1][field]
        /\ \A i, k \in 1 .. m : i < k => s[i] < s[k]
        /\ \A i \in 1 .. m - 1 : g[i][1][field] # g[i + 1][1][field]
        /\ \A p \in 1 .. l : \E i \in 1 .. m : \E j \in 1 .. Len(g[i]) : p = s[i] + j
    BY <1>2 DEF IsGrouping
  <1> HIDE DEF m, l
  <1>5. ASSUME NEW i \in 1 .. m
        PROVE  /\ g[i] # <<>> /\ DOMAIN g[i] = 1 .. Len(g[i]) /\ Len(g[i]) \in Nat
               /\ 1 \in DOMAIN g[i] /\ Head(g[i]) = g[i][1]
    <2>1. g[i] \in Seq(S) /\ Len(g[i]) >= 1
      BY <1>3, <1>4
    <2> QED BY <2>1
  <1>6. ASSUME NEW i \in 1 .. m, NEW j \in 1 .. Len(g[i])
        PROVE  /\ s[i] + j \in 1 .. l /\ g[i][j] = q[s[i] + j] /\ g[i][j] \in S
               /\ g[i][j][field] = g[i][1][field]
    <2>1. s[i] \in Nat /\ s[i] + Len(g[i]) <= l /\ Len(g[i]) \in Nat
      BY <1>4, <1>5
    <2>2. s[i] + j \in 1 .. l
      BY <1>3, <2>1
    <2> QED BY <1>3, <1>4, <2>2
  <1>7. ASSUME NEW i \in 1 .. m, NEW j \in 1 .. Len(g[i]), NEW k \in 1 .. Len(g[i]), j < k
        PROVE  \E a, b \in 1 .. l : a < b /\ g[i][j] = q[a] /\ g[i][k] = q[b]
    <2>1. s[i] + j \in 1 .. l /\ s[i] + k \in 1 .. l
      BY <1>6
    <2>2. s[i] + j < s[i] + k
      <3>1. s[i] \in Nat
        BY <1>4
      <3> QED BY <1>7, <3>1
    <2> QED BY <1>6, <2>1, <2>2
  <1>8. ASSUME NEW i \in 1 .. m, NEW k \in 1 .. m, i < k
        PROVE  g[i][1][field] # g[k][1][field]
    <2>1. i \in 1 .. m - 1 /\ i + 1 \in 1 .. m /\ (i + 1 = k \/ i + 1 < k)
      BY <1>3, <1>8
    <2>2. \A n \in 1 .. m : /\ s[n] \in Nat /\ s[n] + 1 \in 1 .. l /\ g[n][1] = q[s[n] + 1]
                            /\ g[n][1][field] \in Nat
      <3> SUFFICES ASSUME NEW n \in 1 .. m
                   PROVE  /\ s[n] \in Nat /\ s[n] + 1 \in 1 .. l /\ g[n][1] = q[s[n] + 1]
                          /\ g[n][1][field] \in Nat
        OBVIOUS
      <3>1. 1 \in 1 .. Len(g[n])
        BY <1>5
      <3> QED BY <1>4, <1>6, <3>1
    <2>3. ASSUME NEW a \in 1 .. m, NEW b \in 1 .. m, a < b
          PROVE  g[a][1][field] <= g[b][1][field]
      <3>1. s[a] < s[b]
        BY <1>4, <2>3
      <3>2. s[a] + 1 < s[b] + 1
        <4>1. s[a] \in Nat /\ s[b] \in Nat
          BY <2>2
        <4> QED BY <3>1, <4>1
      <3>3. q[s[a] + 1][field] <= q[s[b] + 1][field]
        BY <2>2, <3>2 DEF l
      <3> QED BY <2>2, <3>3
    <2>4. g[i][1][field] <= g[i + 1][1][field] /\ g[i + 1][1][field] <= g[k][1][field]
      <3>1. i < i + 1
        BY <1>3
      <3>2. g[i][1][field] <= g[i + 1][1][field]
        BY <2>1, <2>3, <3>1
      <3>3. CASE i + 1 = k
        <4>1. g[k][1][field] \in Nat /\ g[i + 1][1][field] = g[k][1][field]
          BY <2>2, <3>3
        <4>2. \A n \in Nat : n <= n
          OBVIOUS
        <4> QED BY <3>2, <4>1, <4>2
      <3>4. CASE i + 1 < k
        BY <2>1, <2>3, <3>2, <3>4
      <3> QED BY <2>1, <3>3, <3>4
    <2>5. g[i][1][field] # g[i + 1][1][field]
      BY <1>4, <2>1
    <2>6. \A a, b, c \in Nat : a <= b /\ b <= c /\ a # b => a # c
      OBVIOUS
    <2> QED BY <2>1, <2>2, <2>4, <2>5, <2>6
  <1>9. ASSUME NEW i \in 1 .. m, NEW k \in 1 .. m, g[i][1][field] = g[k][1][field]
        PROVE  i = k
    <2>1. i < k \/ k < i \/ i = k
      BY <1>3
    <2> QED BY <1>8, <1>9, <2>1
  <1>10. ASSUME NEW p \in 1 .. l
         PROVE  \E i \in 1 .. m : \E j \in 1 .. Len(g[i]) : g[i][j] = q[p]
    BY <1>4, <1>6
  <1>11. /\ \A i \in 1 .. m : DOMAIN g[i] = 1 .. Len(g[i])
         /\ DOMAIN g = 1 .. m
    BY <1>3, <1>5
  <1>12. \A i \in DOMAIN g :
           /\ DOMAIN g[i] = 1 .. Len(g[i]) /\ 1 \in DOMAIN g[i] /\ Len(g[i]) \in Nat
           /\ Head(g[i]) = g[i][1]
           /\ \A j \in DOMAIN g[i] : g[i][j] \in S /\ g[i][j][field] = g[i][1][field]
    BY <1>5, <1>6, <1>11
  <1>13. ASSUME NEW i \in DOMAIN g, NEW j \in DOMAIN g[i], NEW k \in DOMAIN g[i], j < k
         PROVE  \E a, b \in 1 .. Len(q) : a < b /\ g[i][j] = q[a] /\ g[i][k] = q[b]
    <2>1. i \in 1 .. m /\ j \in 1 .. Len(g[i]) /\ k \in 1 .. Len(g[i])
      BY <1>11
    <2> QED BY <1>7, <1>13, <2>1 DEF l
  <1>14. \A p \in 1 .. Len(q) : \E i \in DOMAIN g : \E j \in DOMAIN g[i] : g[i][j] = q[p]
    BY <1>10, <1>11 DEF l
  <1>15. DOMAIN g = 1 .. Len(g)
    BY <1>11 DEF m
  <1>16. \A i, k \in DOMAIN g : g[i][1][field] = g[k][1][field] => i = k
    BY <1>9, <1>11
  <1> QED BY <1>12, <1>13, <1>14, <1>15, <1>16 DEF AreSorted

-----------------------------------------------------------------------------
(* Rows as they are fetched *)

LEMMA JoinedRow ==
  ASSUME TablesInv, NEW r \in Replicas, NEW x \in Joined(r)
  PROVE  /\ x["id"] = x.id /\ x["name"] = x.name
         /\ x.id \in Ids /\ x.id \in Nat
         /\ x.statement = statement[r][x.id] /\ x.statement # Null
         /\ x.name = x.statement.name /\ x.name \in Nat
         /\ Said(x) \in Opinions /\ signature[Said(x)] \in Nat
         /\ x = [id |-> x.id, statement |-> x.statement, name |-> x.name,
                 signer |-> x.signer, date |-> x.date]
  <1>1. PICK row \in opinion[r] :
          x = [id |-> row.statement_id, statement |-> statement[r][row.statement_id],
               name |-> statement[r][row.statement_id].name,
               signer |-> row.signer, date |-> row.date]
    BY DEF Joined
  <1>2. /\ x.id = row.statement_id /\ x.statement = statement[r][row.statement_id]
        /\ x.name = x.statement.name /\ x.signer = row.signer /\ x.date = row.date
        /\ x = [id |-> x.id, statement |-> x.statement, name |-> x.name,
                signer |-> x.signer, date |-> x.date]
    BY <1>1
  <1>3. x.id \in Ids /\ x.statement \in Statements /\ x.statement # Null
    BY <1>2, RowsLead
  <1>4. x.name \in Nat
    BY <1>2, <1>3, ListingAssumption DEF Names
  <1>5. Said(x) \in Opinions
    BY <1>2 DEF Said, TablesInv
  <1>6. signature[Said(x)] \in Nat
    BY <1>5, ListingAssumption
  <1>7. x.id \in Nat
    BY <1>3 DEF Ids
  <1> QED BY <1>2, <1>3, <1>4, <1>5, <1>6, <1>7

LEMMA RowsApart ==
  ASSUME TablesInv, NEW r \in Replicas, NEW x \in Joined(r), NEW y \in Joined(r)
  PROVE  /\ x.statement = y.statement <=> x.id = y.id
         /\ Said(x) = Said(y) => x = y
  <1>1. x.statement = y.statement => x.id = y.id
    BY JoinedRow DEF TablesInv
  <1>2. x.id = y.id => x.statement = y.statement
    BY JoinedRow
  <1>3. ASSUME Said(x) = Said(y)
        PROVE  x = y
    <2>1. x.statement = y.statement /\ x.signer = y.signer /\ x.date = y.date
      BY <1>3 DEF Said
    <2>2. x.id = y.id /\ x.name = y.name
      BY <1>1, <2>1, JoinedRow
    <2> QED BY <2>1, <2>2, JoinedRow
  <1> QED BY <1>1, <1>2, <1>3

LEMMA JoinedFinite ==
  ASSUME TablesInv, NEW r \in Replicas
  PROVE  IsFiniteSet(Joined(r))
  <1> DEFINE join == [o \in opinion[r] |->
               [id |-> o.statement_id, statement |-> statement[r][o.statement_id],
                name |-> statement[r][o.statement_id].name, signer |-> o.signer, date |-> o.date]]
  <1>1. join \in Surjection(opinion[r], Joined(r))
    BY DEF Surjection, Joined
  <1> QED BY <1>1, FS_Surjection DEF TablesInv

\* Every row is fetched, and once.
LEMMA FetchedRows ==
  ASSUME NEW rows, IsFiniteSet(rows), NEW q \in SetToSeqs(rows)
  PROVE  /\ q \in Seq(rows) /\ DOMAIN q = 1 .. Len(q)
         /\ \A i, j \in 1 .. Len(q) : i # j => q[i] # q[j]
         /\ \A x \in rows : \E i \in 1 .. Len(q) : x = q[i]
  <1>1. PICK n \in Nat : n = Cardinality(rows)
    BY FS_CardinalityType
  <1>2. q \in [1 .. n -> rows] /\ \A i, j \in 1 .. n : i # j => q[i] # q[j]
    BY <1>1 DEF SetToSeqs
  <1>3. q \in Seq(rows) /\ Len(q) = n
    BY <1>2
  <1>4. q \in Injection(1 .. n, rows)
    BY <1>2 DEF Injection, IsInjective
  <1>5. IsFiniteSet(1 .. n) /\ Cardinality(1 .. n) = n
    BY FS_Interval
  <1>6. q \in Surjection(1 .. n, rows)
    BY <1>1, <1>4, <1>5, FS_Injection
  <1>7. \A x \in rows : \E i \in 1 .. n : x = q[i]
    BY <1>6 DEF Surjection
  <1> QED BY <1>2, <1>3, <1>7

-----------------------------------------------------------------------------
(* Answers *)

\* An answer names each statement once, with all opinions of the date on it and
\* no others (list_statements_named_signed, whose query is in the order of ids).
THEOREM AnswersAlwaysWhole == Spec => []AnswersWhole
  <1>1. TablesInv => AnswersWhole
    <2> SUFFICES ASSUME TablesInv, NEW r \in Replicas, NEW name \in Names, NEW date \in Dates,
                        NEW list \in list_statements_named_signed(r, name, date)
                 PROVE  /\ \A i, j \in DOMAIN list : list[i].statement = list[j].statement => i = j
                        /\ \A i \in DOMAIN list : \A j \in DOMAIN list[i].opinions :
                              list[i].opinions[j].statement = list[i].statement
                        /\ UNION {Range(list[i].opinions) : i \in DOMAIN list} = Holds(r, name, date)
      BY DEF AnswersWhole
    <2> DEFINE rows == {row \in Joined(r) : row.statement.name = name /\ row.date = date}
    <2>1. PICK sorted : sorted = {q \in SetToSeqs(rows) :
                                    \A i, j \in DOMAIN q : i < j => q[i].id <= q[j].id}
      OBVIOUS
    <2>2. PICK g \in {Groups(q, "id") : q \in sorted} :
            list = [i \in DOMAIN g |->
                      [statement |-> Head(g[i]).statement,
                       opinions |-> [j \in DOMAIN g[i] |-> Said(g[i][j])]]]
      BY <2>1 DEF list_statements_named_signed, Fetched, ByStatement
    <2>3. PICK q \in sorted : g = Groups(q, "id")
      BY <2>2
    <2>4. IsFiniteSet(rows)
      BY JoinedFinite, FS_Subset
    <2>5. q \in SetToSeqs(rows) /\ \A i, j \in DOMAIN q : i < j => q[i].id <= q[j].id
      BY <2>1, <2>3
    <2>6. /\ q \in Seq(rows) /\ DOMAIN q = 1 .. Len(q)
          /\ \A x \in rows : \E i \in 1 .. Len(q) : x = q[i]
      <3> HIDE DEF rows
      <3> QED BY <2>4, <2>5, FetchedRows
    <2>7. \A x \in rows : x \in Joined(r) /\ x["id"] = x.id /\ x.id \in Nat
      BY JoinedRow
    <2>8. AreSorted(g, q, rows, "id")
      <3> HIDE DEF rows
      <3>1. \A i, j \in 1 .. Len(q) : i < j => q[i]["id"] <= q[j]["id"]
        BY <2>5, <2>6
      <3>2. \A x \in rows : x["id"] \in Nat
        BY <2>7
      <3> QED BY <2>3, <2>6, <3>1, <3>2, SortedGroups
    <2>9. /\ DOMAIN list = DOMAIN g
          /\ \A i \in DOMAIN g : /\ list[i].statement = g[i][1].statement
                                 /\ DOMAIN list[i].opinions = DOMAIN g[i]
                                 /\ \A j \in DOMAIN g[i] : list[i].opinions[j] = Said(g[i][j])
      BY <2>2, <2>8 DEF AreSorted
    <2>10. ASSUME NEW i \in DOMAIN g, NEW k \in DOMAIN g, g[i][1].statement = g[k][1].statement
           PROVE  i = k
      <3>1. g[i][1] \in rows /\ g[k][1] \in rows
        BY <2>8 DEF AreSorted
      <3>2. g[i][1]["id"] = g[k][1]["id"]
        BY <2>7, <2>10, <3>1, RowsApart
      <3> QED BY <2>8, <3>2 DEF AreSorted
    <2>11. ASSUME NEW i \in DOMAIN g, NEW j \in DOMAIN g[i]
           PROVE  Said(g[i][j]).statement = g[i][1].statement
      <3>1. g[i][1] \in rows /\ g[i][j] \in rows /\ g[i][j]["id"] = g[i][1]["id"]
        BY <2>8 DEF AreSorted
      <3>2. g[i][j].statement = g[i][1].statement
        BY <2>7, <3>1, RowsApart
      <3> QED BY <3>2 DEF Said
    <2>12. UNION {Range(list[i].opinions) : i \in DOMAIN list} = {Said(x) : x \in rows}
      <3>1. ASSUME NEW i \in DOMAIN list, NEW o \in Range(list[i].opinions)
            PROVE  o \in {Said(x) : x \in rows}
        BY <2>8, <2>9, <3>1 DEF Range, AreSorted
      <3>2. ASSUME NEW x \in rows
            PROVE  \E i \in DOMAIN list : Said(x) \in Range(list[i].opinions)
        <4>1. PICK i \in DOMAIN g : \E j \in DOMAIN g[i] : g[i][j] = x
          BY <2>6, <2>8 DEF AreSorted
        <4> QED BY <2>9, <4>1 DEF Range
      <3> QED BY <3>1, <3>2
    <2>13. {Said(x) : x \in rows} = Holds(r, name, date)
      <3>1. \A x : Said(x).statement = x.statement /\ Said(x).date = x.date
        BY DEF Said
      <3>2. {Said(x) : x \in rows} \subseteq Holds(r, name, date)
        BY <3>1 DEF Holds
      <3>3. ASSUME NEW o \in Holds(r, name, date)
            PROVE  o \in {Said(x) : x \in rows}
        <4>1. PICK x \in Joined(r) : o = Said(x) /\ o.statement.name = name /\ o.date = date
          BY DEF Holds
        <4> QED BY <3>1, <4>1
      <3> QED BY <3>2, <3>3
    <2>14. ASSUME NEW i \in DOMAIN list, NEW j \in DOMAIN list, list[i].statement = list[j].statement
           PROVE  i = j
      BY <2>9, <2>10, <2>14
    <2>15. ASSUME NEW i \in DOMAIN list, NEW j \in DOMAIN list[i].opinions
           PROVE  list[i].opinions[j].statement = list[i].statement
      BY <2>9, <2>11
    <2>16. UNION {Range(list[i].opinions) : i \in DOMAIN list} = Holds(r, name, date)
      BY <2>12, <2>13
    <2> QED BY <2>14, <2>15, <2>16
  <1> QED BY <1>1, TablesInvariant, PTL

-----------------------------------------------------------------------------
(* Lists in ascending order *)

Ascending(s) == \A i, j \in 1 .. Len(s) : i < j => s[i] < s[j]

LEMMA NotBehind ==
  ASSUME NEW s \in Seq(Nat), NEW t \in Seq(Nat), Ascending(s), Ascending(t),
         \A i \in 1 .. Len(s) : \E k \in 1 .. Len(t) : s[i] = t[k],
         NEW n \in 1 .. Len(s), \A j \in 1 .. n - 1 : j <= Len(t) /\ s[j] = t[j]
  PROVE  n \in 1 .. Len(t) /\ t[n] <= s[n]
  <1>1. PICK k \in 1 .. Len(t) : s[n] = t[k]
    OBVIOUS
  <1>2. Len(s) \in Nat /\ Len(t) \in Nat /\ s[n] \in Nat /\ t[k] \in Nat
    OBVIOUS
  <1>3. CASE k < n
    <2>1. k \in 1 .. n - 1 /\ k \in 1 .. Len(s)
      BY <1>2, <1>3
    <2>2. s[k] = t[k] /\ s[k] < s[n]
      BY <1>3, <2>1 DEF Ascending
    <2> QED BY <1>1, <1>2, <2>2
  <1>4. CASE k = n
    BY <1>1, <1>2, <1>4
  <1>5. CASE n < k
    <2>1. n \in 1 .. Len(t) /\ t[n] \in Nat
      BY <1>2, <1>5
    <2>2. t[n] < t[k]
      BY <1>5, <2>1 DEF Ascending
    <2> QED BY <1>1, <1>2, <2>1, <2>2
  <1> QED BY <1>2, <1>3, <1>4, <1>5

\* Lists in ascending order of the same numbers are the same.
LEMMA SameAscending ==
  ASSUME NEW s \in Seq(Nat), NEW t \in Seq(Nat), Ascending(s), Ascending(t),
         \A i \in 1 .. Len(s) : \E k \in 1 .. Len(t) : s[i] = t[k],
         \A i \in 1 .. Len(t) : \E k \in 1 .. Len(s) : t[i] = s[k]
  PROVE  s = t
  <1> DEFINE Same(n) == n <= Len(s) \/ n <= Len(t) =>
                          n <= Len(s) /\ n <= Len(t) /\ s[n] = t[n]
             S == {m \in Nat : \A n \in 1 .. m : Same(n)}
  <1>1. /\ Len(s) \in Nat /\ \A i \in 1 .. Len(s) : s[i] \in Nat
        /\ Len(t) \in Nat /\ \A i \in 1 .. Len(t) : t[i] \in Nat
    <2>1. \A u \in Seq(Nat) : Len(u) \in Nat /\ \A i \in 1 .. Len(u) : u[i] \in Nat
      OBVIOUS
    <2> QED BY <2>1
  <1>2. \A m \in Nat : m \in S
    <2>1. 0 \in S
      OBVIOUS
    <2>2. ASSUME NEW m \in Nat, m \in S
          PROVE  m + 1 \in S
      <3> DEFINE n == m + 1
      <3>1. \A j \in 1 .. m : Same(j)
        BY <2>2
      <3>2. n \in Nat \ {0} /\ n - 1 = m /\ \A j \in 1 .. n : j \in 1 .. m \/ j = n
        OBVIOUS
      <3> HIDE DEF n
      <3>3. ASSUME n <= Len(s)
            PROVE  n <= Len(t) /\ t[n] <= s[n]
        <4>1. n \in 1 .. Len(s)
          BY <1>1, <3>2, <3>3
        <4>2. ASSUME NEW j \in 1 .. n - 1
              PROVE  j <= Len(t) /\ s[j] = t[j]
          <5>1. j \in 1 .. m /\ j \in Nat /\ j <= n
            BY <3>2
          <5>2. j <= Len(s)
            BY <1>1, <3>2, <3>3, <5>1
          <5> QED BY <3>1, <5>1, <5>2
        <4>3. n \in 1 .. Len(t) /\ t[n] <= s[n]
          BY <4>1, <4>2, NotBehind
        <4> QED BY <1>1, <4>3
      <3>4. ASSUME n <= Len(t)
            PROVE  n <= Len(s) /\ s[n] <= t[n]
        <4>1. n \in 1 .. Len(t)
          BY <1>1, <3>2, <3>4
        <4>2. ASSUME NEW j \in 1 .. n - 1
              PROVE  j <= Len(s) /\ t[j] = s[j]
          <5>1. j \in 1 .. m /\ j \in Nat /\ j <= n
            BY <3>2
          <5>2. j <= Len(t)
            BY <1>1, <3>2, <3>4, <5>1
          <5> QED BY <3>1, <5>1, <5>2
        <4>3. n \in 1 .. Len(s) /\ s[n] <= t[n]
          BY <4>1, <4>2, NotBehind
        <4> QED BY <1>1, <4>3
      <3>5. Same(n)
        <4>1. ASSUME n <= Len(s), n <= Len(t)
              PROVE  s[n] = t[n]
          <5>1. s[n] \in Nat /\ t[n] \in Nat
            <6>1. n \in 1 .. Len(s) /\ n \in 1 .. Len(t)
              BY <1>1, <3>2, <4>1
            <6> QED BY <1>1, <6>1
          <5>2. t[n] <= s[n] /\ s[n] <= t[n]
            BY <3>3, <3>4, <4>1
          <5> QED BY <5>1, <5>2
        <4> QED BY <3>3, <3>4, <4>1
      <3> HIDE DEF Same
      <3>6. \A j \in 1 .. n : Same(j)
        BY <3>1, <3>2, <3>5
      <3> QED BY <3>6 DEF n
    <2> HIDE DEF S
    <2> QED BY <2>1, <2>2, AllNaturals
  <1>3. \A n \in Nat \ {0} : Same(n)
    <2> HIDE DEF Same
    <2> SUFFICES ASSUME NEW n \in Nat \ {0}
                 PROVE  Same(n)
      OBVIOUS
    <2>1. n \in 1 .. n
      OBVIOUS
    <2> QED BY <1>2, <2>1
  <1>4. Len(s) <= Len(t)
    <2>1. CASE Len(s) = 0
      BY <1>1, <2>1
    <2>2. CASE Len(s) # 0
      <3>1. Same(Len(s))
        BY <1>1, <1>3, <2>2
      <3> QED BY <1>1, <3>1
    <2> QED BY <2>1, <2>2
  <1>5. Len(t) <= Len(s)
    <2>1. CASE Len(t) = 0
      BY <1>1, <2>1
    <2>2. CASE Len(t) # 0
      <3>1. Same(Len(t))
        BY <1>1, <1>3, <2>2
      <3> QED BY <1>1, <3>1
    <2> QED BY <2>1, <2>2
  <1>6. Len(s) = Len(t)
    BY <1>1, <1>4, <1>5
  <1>7. \A n \in 1 .. Len(s) : s[n] = t[n]
    BY <1>1, <1>3
  <1> QED BY <1>6, <1>7, SeqEqual

-----------------------------------------------------------------------------
(* Sync infos *)

\* What an info is, whatever the ids of rows: for every name of which opinions
\* of the date are held, the signatures of all of them in ascending order.
LEMMA InfoOf ==
  ASSUME TablesInv, NEW r \in Replicas, NEW date, NEW info \in get_sync_infos(r, date),
         NEW name
  PROVE  /\ name \in DOMAIN info <=> Holds(r, name, date) # {}
         /\ name \in DOMAIN info =>
              /\ info[name].hash \in Seq(Nat) /\ Ascending(info[name].hash)
              /\ info[name].count = Len(info[name].hash)
              /\ \A o \in Holds(r, name, date) :
                   \E i \in 1 .. Len(info[name].hash) : info[name].hash[i] = signature[o]
              /\ \A i \in 1 .. Len(info[name].hash) :
                   \E o \in Holds(r, name, date) : info[name].hash[i] = signature[o]
  <1> DEFINE rows == {row \in Joined(r) : row.date = date}
  <1>1. PICK sorted : sorted =
          {q \in SetToSeqs(rows) : \A i, j \in DOMAIN q : i < j =>
             \/ q[i].statement.name < q[j].statement.name
             \/ /\ q[i].statement.name = q[j].statement.name
                /\ signature[Said(q[i])] <= signature[Said(q[j])]}
    OBVIOUS
  <1>2. PICK g \in {Groups(q, "name") : q \in sorted} :
          info = [n \in {Head(g[i]).statement.name : i \in DOMAIN g} |->
                    SyncInfo(g[Max({i \in DOMAIN g : Head(g[i]).statement.name = n})])]
    BY <1>1 DEF get_sync_infos, Fetched, ByNameAndSignature
  <1>3. PICK q \in sorted : g = Groups(q, "name")
    BY <1>2
  <1>4. IsFiniteSet(rows)
    BY JoinedFinite, FS_Subset
  <1>5. /\ q \in SetToSeqs(rows)
        /\ \A i, j \in DOMAIN q : i < j =>
             \/ q[i].statement.name < q[j].statement.name
             \/ /\ q[i].statement.name = q[j].statement.name
                /\ signature[Said(q[i])] <= signature[Said(q[j])]
    BY <1>1, <1>3
  <1>6. /\ q \in Seq(rows) /\ DOMAIN q = 1 .. Len(q)
        /\ \A i, j \in 1 .. Len(q) : i # j => q[i] # q[j]
        /\ \A x \in rows : \E i \in 1 .. Len(q) : x = q[i]
    <2> HIDE DEF rows
    <2> QED BY <1>4, <1>5, FetchedRows
  <1>7. \A x \in rows : /\ x \in Joined(r) /\ x.date = date
                        /\ x["name"] = x.statement.name /\ x.statement.name \in Nat
                        /\ Said(x) \in Opinions /\ signature[Said(x)] \in Nat
    BY JoinedRow
  <1>8. \A i \in 1 .. Len(q) : q[i] \in rows
    <2> HIDE DEF rows
    <2> QED BY <1>6
  <1>9. AreSorted(g, q, rows, "name")
    <2> HIDE DEF rows
    <2>1. ASSUME NEW i \in 1 .. Len(q), NEW j \in 1 .. Len(q), i < j
          PROVE  q[i]["name"] <= q[j]["name"]
      <3>1. q[i]["name"] = q[i].statement.name /\ q[j]["name"] = q[j].statement.name
            /\ q[i].statement.name \in Nat /\ q[j].statement.name \in Nat
        BY <1>7, <1>8
      <3>2. q[i].statement.name < q[j].statement.name \/ q[i].statement.name = q[j].statement.name
        BY <1>5, <1>6, <2>1
      <3> QED BY <3>1, <3>2
    <2>2. \A x \in rows : x["name"] \in Nat
      BY <1>7
    <2> QED BY <1>3, <1>6, <2>1, <2>2, SortedGroups
  <1>10. \A i \in DOMAIN g : /\ 1 \in DOMAIN g[i] /\ Head(g[i]) = g[i][1]
                             /\ DOMAIN g[i] = 1 .. Len(g[i]) /\ Len(g[i]) \in Nat
                             /\ \A j \in DOMAIN g[i] : g[i][j] \in rows
                             /\ \A j \in DOMAIN g[i] : g[i][j].statement.name = g[i][1].statement.name
    <2> HIDE DEF rows
    <2> SUFFICES ASSUME NEW i \in DOMAIN g
                 PROVE  /\ 1 \in DOMAIN g[i] /\ Head(g[i]) = g[i][1]
                        /\ DOMAIN g[i] = 1 .. Len(g[i]) /\ Len(g[i]) \in Nat
                        /\ \A j \in DOMAIN g[i] : g[i][j] \in rows
                        /\ \A j \in DOMAIN g[i] : g[i][j].statement.name = g[i][1].statement.name
      OBVIOUS
    <2>1. /\ 1 \in DOMAIN g[i] /\ Head(g[i]) = g[i][1]
          /\ DOMAIN g[i] = 1 .. Len(g[i]) /\ Len(g[i]) \in Nat
          /\ \A j \in DOMAIN g[i] : g[i][j] \in rows /\ g[i][j]["name"] = g[i][1]["name"]
      BY <1>9 DEF AreSorted
    <2> QED BY <1>7, <2>1
  <1>11. ASSUME NEW i \in DOMAIN g, NEW k \in DOMAIN g, g[i][1].statement.name = g[k][1].statement.name
         PROVE  i = k
    <2> HIDE DEF rows
    <2>1. g[i][1] \in rows /\ g[k][1] \in rows
      BY <1>10
    <2>2. g[i][1]["name"] = g[k][1]["name"]
      BY <1>7, <1>11, <2>1
    <2> QED BY <1>9, <2>2 DEF AreSorted
  <1>12. \A x \in rows : \E i \in DOMAIN g : \E j \in DOMAIN g[i] : g[i][j] = x
    <2> HIDE DEF rows
    <2> QED BY <1>6, <1>9 DEF AreSorted
  <1>13. DOMAIN info = {g[i][1].statement.name : i \in DOMAIN g}
    BY <1>2, <1>10
  <1>14. Holds(r, name, date) = {Said(x) : x \in {y \in rows : y.statement.name = name}}
    <2>1. \A x : Said(x).statement = x.statement /\ Said(x).date = x.date
      BY DEF Said
    <2>2. {Said(x) : x \in {y \in rows : y.statement.name = name}} \subseteq Holds(r, name, date)
      BY <2>1 DEF Holds
    <2>3. ASSUME NEW o \in Holds(r, name, date)
          PROVE  o \in {Said(x) : x \in {y \in rows : y.statement.name = name}}
      <3>1. PICK x \in Joined(r) : o = Said(x) /\ o.statement.name = name /\ o.date = date
        BY DEF Holds
      <3> QED BY <2>1, <3>1
    <2> QED BY <2>2, <2>3
  <1>15. ASSUME NEW x \in rows, x.statement.name = name
         PROVE  \E i \in DOMAIN g : g[i][1].statement.name = name /\ \E j \in DOMAIN g[i] : g[i][j] = x
    <2> HIDE DEF rows
    <2>1. PICK i \in DOMAIN g : \E j \in DOMAIN g[i] : g[i][j] = x
      BY <1>12
    <2>2. PICK j \in DOMAIN g[i] : g[i][j] = x
      BY <2>1
    <2>3. g[i][1].statement.name = name
      BY <1>10, <1>15, <2>2
    <2> QED BY <2>2, <2>3
  <1> HIDE DEF rows
  <1>16. name \in DOMAIN info <=> Holds(r, name, date) # {}
    <2>1. ASSUME name \in DOMAIN info
          PROVE  Holds(r, name, date) # {}
      <3>1. PICK i \in DOMAIN g : name = g[i][1].statement.name
        BY <1>13, <2>1
      <3>2. g[i][1] \in rows
        BY <1>10
      <3> QED BY <1>14, <3>1, <3>2
    <2>2. ASSUME Holds(r, name, date) # {}
          PROVE  name \in DOMAIN info
      <3>1. PICK x \in rows : x.statement.name = name
        BY <1>14, <2>2
      <3> QED BY <1>13, <1>15, <3>1
    <2> QED BY <2>1, <2>2
  <1>17. ASSUME name \in DOMAIN info
         PROVE  /\ info[name].hash \in Seq(Nat) /\ Ascending(info[name].hash)
                /\ info[name].count = Len(info[name].hash)
                /\ \A o \in Holds(r, name, date) :
                     \E i \in 1 .. Len(info[name].hash) : info[name].hash[i] = signature[o]
                /\ \A i \in 1 .. Len(info[name].hash) :
                     \E o \in Holds(r, name, date) : info[name].hash[i] = signature[o]
    <2>1. PICK i \in DOMAIN g : name = g[i][1].statement.name
      BY <1>13, <1>17
    <2>2. {k \in DOMAIN g : Head(g[k]).statement.name = name} = {i}
      BY <1>10, <1>11, <2>1
    <2>3. i \in Nat /\ DOMAIN g = 1 .. Len(g)
      BY <1>9 DEF AreSorted
    <2>4. Max({i}) = i
      BY <2>3 DEF Max
    <2>5. info[name] = SyncInfo(g[i])
      <3>1. info[name] = SyncInfo(g[Max({k \in DOMAIN g : Head(g[k]).statement.name = name})])
        BY <1>2, <1>17
      <3> QED BY <2>2, <2>4, <3>1
    <2>6. PICK l \in Nat : l = Len(g[i]) /\ DOMAIN g[i] = 1 .. l
      BY <1>10
    <2>7. PICK h : h = info[name].hash
      OBVIOUS
    <2>8. h = [k \in 1 .. l |-> signature[Said(g[i][k])]] /\ info[name].count = l
      BY <2>5, <2>6, <2>7 DEF SyncInfo
    <2>9. \A k \in 1 .. l : g[i][k] \in rows /\ signature[Said(g[i][k])] \in Nat
      BY <1>7, <1>10, <2>6
    <2>10. h \in Seq(Nat) /\ Len(h) = l
      BY <2>8, <2>9
    <2>11. ASSUME NEW j \in 1 .. l, NEW k \in 1 .. l, j < k
           PROVE  h[j] < h[k]
      <3>0. /\ i \in DOMAIN g /\ j \in DOMAIN g[i] /\ k \in DOMAIN g[i]
            /\ \A m \in DOMAIN g : \A c, d \in DOMAIN g[m] : c < d =>
                 \E a, b \in 1 .. Len(q) : a < b /\ g[m][c] = q[a] /\ g[m][d] = q[b]
        BY <1>9, <2>6 DEF AreSorted
      <3>1. PICK a \in 1 .. Len(q), b \in 1 .. Len(q) : a < b /\ g[i][j] = q[a] /\ g[i][k] = q[b]
        BY <2>11, <3>0
      <3>2. q[a] \in rows /\ q[b] \in rows /\ q[a] # q[b]
            /\ q[a].statement.name = q[b].statement.name
        <4>1. a # b
          BY <3>1
        <4> QED BY <1>6, <1>8, <1>10, <2>6, <3>1, <4>1
      <3>3. q[a].statement.name \in Nat /\ signature[Said(q[a])] \in Nat /\ signature[Said(q[b])] \in Nat
        BY <1>7, <3>2
      <3>4. signature[Said(q[a])] <= signature[Said(q[b])]
        <4>1. ~(q[a].statement.name < q[b].statement.name)
          BY <3>2, <3>3
        <4> QED BY <1>5, <1>6, <3>1, <4>1
      <3>5. signature[Said(q[a])] # signature[Said(q[b])]
        <4>1. Said(q[a]) # Said(q[b])
          BY <1>7, <3>2, RowsApart
        <4> QED BY <1>7, <3>2, <4>1, ListingAssumption
      <3>6. signature[Said(q[a])] < signature[Said(q[b])]
        BY <3>3, <3>4, <3>5
      <3>7. h[j] = signature[Said(q[a])] /\ h[k] = signature[Said(q[b])]
        BY <2>8, <3>1
      <3> QED BY <3>6, <3>7
    <2>12. ASSUME NEW o \in Holds(r, name, date)
           PROVE  \E k \in 1 .. l : h[k] = signature[o]
      <3>1. PICK x \in rows : x.statement.name = name /\ o = Said(x)
        BY <1>14
      <3>2. PICK m \in DOMAIN g : g[m][1].statement.name = name /\ \E j \in DOMAIN g[m] : g[m][j] = x
        BY <1>15, <3>1
      <3>3. m = i
        BY <1>11, <2>1, <3>2
      <3>4. PICK k \in 1 .. l : g[i][k] = x
        BY <2>6, <3>2, <3>3
      <3> QED BY <2>8, <3>1, <3>4
    <2>13. ASSUME NEW k \in 1 .. l
           PROVE  \E o \in Holds(r, name, date) : h[k] = signature[o]
      <3>1. g[i][k] \in rows /\ g[i][k].statement.name = name
        BY <1>10, <2>1, <2>6
      <3>2. Said(g[i][k]) \in Holds(r, name, date)
        BY <1>14, <3>1
      <3> QED BY <2>8, <3>2
    <2>14. Ascending(h)
      BY <2>10, <2>11 DEF Ascending
    <2> QED BY <2>7, <2>8, <2>10, <2>12, <2>13, <2>14
  <1> QED BY <1>16, <1>17

\* Where replicas differ one of them asks the other when told, and where they
\* hold the same neither does (get_sync_infos, suggests_update, add_infos).
THEOREM DifferencesAreAskedFor == Spec => []DifferenceAskedFor
  <1>1. TablesInv => DifferenceAskedFor
    <2> SUFFICES ASSUME TablesInv, NEW r \in Replicas, NEW q \in Replicas, NEW date \in Dates,
                        NEW own \in get_sync_infos(r, date), NEW other \in get_sync_infos(q, date),
                        NEW name \in Names
                 PROVE  Holds(r, name, date) # Holds(q, name, date)
                        <=> Wanted(own, other, name) \/ Wanted(other, own, name)
      BY DEF DifferenceAskedFor
    <2>1. PICK here : here = Holds(r, name, date)
      OBVIOUS
    <2>2. PICK there : there = Holds(q, name, date)
      OBVIOUS
    <2>3. here \subseteq Opinions /\ there \subseteq Opinions
      BY <2>1, <2>2, JoinedRow DEF Holds
    <2>4. name \in DOMAIN own <=> here # {}
      BY <2>1, InfoOf
    <2>5. name \in DOMAIN other <=> there # {}
      BY <2>2, InfoOf
    <2>6. CASE here = {}
      BY <2>1, <2>2, <2>4, <2>5, <2>6 DEF Wanted
    <2>7. CASE there = {}
      BY <2>1, <2>2, <2>4, <2>5, <2>7 DEF Wanted
    <2>8. CASE here # {} /\ there # {}
      <3>1. PICK s : s = own[name].hash
        OBVIOUS
      <3>2. PICK t : t = other[name].hash
        OBVIOUS
      <3>3. /\ s \in Seq(Nat) /\ Ascending(s) /\ own[name].count = Len(s)
            /\ \A o \in here : \E i \in 1 .. Len(s) : s[i] = signature[o]
            /\ \A i \in 1 .. Len(s) : \E o \in here : s[i] = signature[o]
        BY <2>1, <2>4, <2>8, <3>1, InfoOf
      <3>4. /\ t \in Seq(Nat) /\ Ascending(t) /\ other[name].count = Len(t)
            /\ \A o \in there : \E i \in 1 .. Len(t) : t[i] = signature[o]
            /\ \A i \in 1 .. Len(t) : \E o \in there : t[i] = signature[o]
        BY <2>2, <2>5, <2>8, <3>2, InfoOf
      <3>5. ASSUME here = there
            PROVE  s = t
        <4>1. \A i \in 1 .. Len(s) : \E k \in 1 .. Len(t) : s[i] = t[k]
          BY <3>3, <3>4, <3>5
        <4>2. \A i \in 1 .. Len(t) : \E k \in 1 .. Len(s) : t[i] = s[k]
          BY <3>3, <3>4, <3>5
        <4> QED BY <3>3, <3>4, <4>1, <4>2, SameAscending
      <3>6. ASSUME s = t
            PROVE  here = there
        <4>1. ASSUME NEW o \in here
              PROVE  o \in there
          BY <2>3, <3>3, <3>4, <3>6, <4>1, ListingAssumption
        <4>2. ASSUME NEW o \in there
              PROVE  o \in here
          BY <2>3, <3>3, <3>4, <3>6, <4>2, ListingAssumption
        <4> QED BY <4>1, <4>2
      <3>7. Len(s) \in Nat /\ Len(t) \in Nat
        BY <3>3, <3>4
      <3>8. Wanted(own, other, name) <=> Len(s) < Len(t) \/ (Len(s) = Len(t) /\ s # t)
        BY <2>4, <2>5, <2>8, <3>1, <3>2, <3>3, <3>4 DEF Wanted, suggests_update
      <3>9. Wanted(other, own, name) <=> Len(t) < Len(s) \/ (Len(s) = Len(t) /\ s # t)
        BY <2>4, <2>5, <2>8, <3>1, <3>2, <3>3, <3>4 DEF Wanted, suggests_update
      <3>10. s # t <=> Len(s) < Len(t) \/ Len(t) < Len(s) \/ (Len(s) = Len(t) /\ s # t)
        BY <3>7
      <3> QED BY <2>1, <2>2, <3>5, <3>6, <3>8, <3>9, <3>10
    <2> QED BY <2>6, <2>7, <2>8
  <1> QED BY <1>1, TablesInvariant, PTL
=============================================================================
