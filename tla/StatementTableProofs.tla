------------------------ MODULE StatementTableProofs ------------------------
(***************************************************************************)
(* What StatementTable claims, for all templates, statements, entities and *)
(* start databases.                                                        *)
(***************************************************************************)
EXTENDS StatementTable, SequenceTheorems, WellFoundedInduction, TLAPS

-----------------------------------------------------------------------------
(* What a row says *)

LEMMA JoinedOnes ==
  ASSUME NEW a, NEW b, NEW c, NEW d
  PROVE  /\ <<a>> \o <<>> \o <<>> \o <<>> = <<a>>
         /\ <<a>> \o <<b>> \o <<>> \o <<>> = <<a, b>>
         /\ <<a>> \o <<b>> \o <<c>> \o <<>> = <<a, b, c>>
         /\ <<a>> \o <<b>> \o <<c>> \o <<d>> = <<a, b, c, d>>
  <1> DEFINE S == {a, b, c, d}
  <1>1. \A s \in Seq(S) : s \o <<>> = s
    BY ConcatEmptySeq
  <1>2. <<a>> \o <<b>> = <<a, b>>
    <2> DEFINE s == <<a>> \o <<b>>
    <2>1. s \in Seq(S) /\ Len(s) = 2
      OBVIOUS
    <2>2. s[1] = a /\ s[2] = b
      OBVIOUS
    <2>3. <<a, b>> \in Seq(S) /\ Len(<<a, b>>) = 2 /\ <<a, b>>[1] = a /\ <<a, b>>[2] = b
      OBVIOUS
    <2> HIDE DEF s
    <2>4. s = <<a, b>>
      <3>1. \A i \in 1 .. Len(s) : s[i] = <<a, b>>[i]
        BY <2>1, <2>2, <2>3
      <3> QED BY <2>1, <2>3, <3>1, SeqEqual, ZenonT(30)
    <2> QED BY <2>4 DEF s
  <1>3. <<a, b>> \o <<c>> = <<a, b, c>>
    <2> DEFINE s == <<a, b>> \o <<c>>
               t == <<a, b, c>>
    <2>1. s \in Seq(S) /\ Len(s) = 3
      OBVIOUS
    <2>2. s[1] = a /\ s[2] = b /\ s[3] = c
      OBVIOUS
    <2>3. t \in Seq(S) /\ Len(t) = 3 /\ t[1] = a /\ t[2] = b /\ t[3] = c
      OBVIOUS
    <2> HIDE DEF s, t
    <2>4. \A i \in 1 .. Len(s) : s[i] = t[i]
      BY <2>1, <2>2, <2>3
    <2>5. s = t
      BY <2>1, <2>3, <2>4, SeqEqual, ZenonT(30)
    <2> QED BY <2>5 DEF s, t
  <1>4. <<a, b, c>> \o <<d>> = <<a, b, c, d>>
    <2> DEFINE s == <<a, b, c>> \o <<d>>
               t == <<a, b, c, d>>
    <2>1. s \in Seq(S) /\ Len(s) = 4
      OBVIOUS
    <2>2. s[1] = a /\ s[2] = b /\ s[3] = c /\ s[4] = d
      OBVIOUS
    <2>3. t \in Seq(S) /\ Len(t) = 4 /\ t[1] = a /\ t[2] = b /\ t[3] = c /\ t[4] = d
      OBVIOUS
    <2> HIDE DEF s, t
    <2>4. \A i \in 1 .. Len(s) : s[i] = t[i]
      BY <2>1, <2>2, <2>3
    <2>5. s = t
      BY <2>1, <2>3, <2>4, SeqEqual, ZenonT(30)
    <2> QED BY <2>5 DEF s, t
  <1>5. <<a>> \in Seq(S) /\ <<a, b>> \in Seq(S) /\ <<a, b, c>> \in Seq(S)
    OBVIOUS
  <1> QED BY <1>1, <1>2, <1>3, <1>4, <1>5

\* Columns whose nulls come last, after one entity at least.
InOrder(c) ==
    /\ c \in [Columns -> EntitySet \cup {Null}]
    /\ c[1] # Null
    /\ \A k \in 1 .. 3 : c[k] = Null => c[k + 1] = Null

LEMMA StoredInOrder ==
  ASSUME NEW r, IsStored(r)
  PROVE  InOrder(r.entity)
  <1>1. PICK t \in Templates :
          /\ r.name = t.name
          /\ \A k \in Columns : IF k \in DOMAIN t.types
                                THEN r.entity[k] # Null /\ r.entity[k].kind \in t.types[k]
                                ELSE r.entity[k] = Null
    BY DEF IsStored
  <1>2. t.types \in Seq(SUBSET STRING) \ {<<>>}
    BY TableAssumption
  <1>3. DOMAIN t.types = 1 .. Len(t.types) /\ Len(t.types) \in Nat \ {0}
    BY <1>2
  <1>4. \A k \in Columns : r.entity[k] # Null <=> k <= Len(t.types)
    BY <1>1, <1>3 DEF Columns
  <1>5. 1 \in Columns /\ \A k \in 1 .. 3 : k \in Columns /\ k + 1 \in Columns
    BY DEF Columns
  <1>6. r.entity[1] # Null
    BY <1>3, <1>4, <1>5
  <1>7. ASSUME NEW k \in 1 .. 3, r.entity[k] = Null
        PROVE  r.entity[k + 1] = Null
    BY <1>3, <1>4, <1>5, <1>7
  <1> QED BY <1>6, <1>7 DEF IsStored, InOrder

\* What a row says is in its columns as it was, and the first entity stays first.
LEMMA SaidColumns ==
  ASSUME NEW r, InOrder(r.entity)
  PROVE  /\ Said(r).name = r.name
         /\ Said(r).entities \in Seq(EntitySet) \ {<<>>}
         /\ Said(r).entities[1] = r.entity[1]
         /\ EntityColumns(Said(r)) = r.entity
  <1> DEFINE c == r.entity
             es == Said(r).entities
  <1>1. c \in [Columns -> EntitySet \cup {Null}] /\ Columns = {1, 2, 3, 4}
    BY DEF InOrder, Columns
  <1>2. c[1] \in EntitySet /\ c[1] # Null /\ Null \notin EntitySet
    BY <1>1, TableAssumption DEF InOrder
  <1>3. /\ Said(r).name = r.name
        /\ es = (IF c[1] = Null THEN <<>> ELSE <<c[1]>>) \o (IF c[2] = Null THEN <<>> ELSE <<c[2]>>)
                \o (IF c[3] = Null THEN <<>> ELSE <<c[3]>>) \o (IF c[4] = Null THEN <<>> ELSE <<c[4]>>)
    BY DEF Said
  <1>4. /\ c[2] = Null => c[3] = Null
        /\ c[3] = Null => c[4] = Null
    BY DEF InOrder
  <1>5. EntityColumns(Said(r)) = [i \in Columns |-> IF i \in DOMAIN es THEN es[i] ELSE Null]
    BY DEF EntityColumns
  <1> HIDE DEF c, es
  <1>6. CASE c[2] = Null
    <2>1. es = <<c[1]>>
      BY <1>2, <1>3, <1>4, <1>6, JoinedOnes
    <2>2. es \in Seq(EntitySet) \ {<<>>} /\ es[1] = c[1] /\ DOMAIN es = {1}
      BY <1>2, <2>1
    <2>3. [i \in Columns |-> IF i \in DOMAIN es THEN es[i] ELSE Null] = c
      BY <1>1, <1>4, <1>6, <2>2
    <2> QED BY <1>3, <1>5, <2>2, <2>3 DEF c, es
  <1>7. CASE c[2] # Null /\ c[3] = Null
    <2>0. c[2] \in EntitySet
      BY <1>1, <1>7
    <2>1. es = <<c[1], c[2]>>
      BY <1>2, <1>3, <1>4, <1>7, <2>0, JoinedOnes
    <2>2. es \in Seq(EntitySet) \ {<<>>} /\ es[1] = c[1] /\ es[2] = c[2] /\ DOMAIN es = {1, 2}
      BY <1>2, <2>0, <2>1
    <2>3. [i \in Columns |-> IF i \in DOMAIN es THEN es[i] ELSE Null] = c
      BY <1>1, <1>4, <1>7, <2>2
    <2> QED BY <1>3, <1>5, <2>2, <2>3 DEF c, es
  <1>8. CASE c[2] # Null /\ c[3] # Null /\ c[4] = Null
    <2>0. c[2] \in EntitySet /\ c[3] \in EntitySet
      BY <1>1, <1>8
    <2>1. es = <<c[1], c[2], c[3]>>
      BY <1>2, <1>3, <1>8, <2>0, JoinedOnes
    <2>2. /\ es \in Seq(EntitySet) \ {<<>>} /\ DOMAIN es = {1, 2, 3}
          /\ es[1] = c[1] /\ es[2] = c[2] /\ es[3] = c[3]
      BY <1>2, <2>0, <2>1
    <2>3. [i \in Columns |-> IF i \in DOMAIN es THEN es[i] ELSE Null] = c
      BY <1>1, <1>8, <2>2
    <2> QED BY <1>3, <1>5, <2>2, <2>3 DEF c, es
  <1>9. CASE c[2] # Null /\ c[3] # Null /\ c[4] # Null
    <2>0. c[2] \in EntitySet /\ c[3] \in EntitySet /\ c[4] \in EntitySet
      BY <1>1, <1>9
    <2>1. es = <<c[1], c[2], c[3], c[4]>>
      <3>1. <<c[1]>> \o <<c[2]>> \o <<c[3]>> \o <<c[4]>> = <<c[1], c[2], c[3], c[4]>>
        BY JoinedOnes
      <3> QED BY <1>2, <1>3, <1>9, <3>1
    <2>2. /\ es \in Seq(EntitySet) \ {<<>>} /\ DOMAIN es = {1, 2, 3, 4}
          /\ es[1] = c[1] /\ es[2] = c[2] /\ es[3] = c[3] /\ es[4] = c[4]
      BY <1>2, <2>0, <2>1
    <2>3. [i \in Columns |-> IF i \in DOMAIN es THEN es[i] ELSE Null] = c
      BY <1>1, <2>2
    <2> QED BY <1>3, <1>5, <2>2, <2>3 DEF c, es
  <1> QED BY <1>4, <1>6, <1>7, <1>8, <1>9

-----------------------------------------------------------------------------
(* The table: every row was accepted, and none has the columns of another *)

TableInv ==
    /\ DOMAIN statement = Ids
    /\ DOMAIN templates = Ids
    /\ \A i \in RowIds : IsStored(statement[i])
    /\ \A i, j \in RowIds : SameColumns(statement[i], statement[j]) => i = j
    /\ \A i \in Ids : templates[i] # Null => templates[i] \in Templates

SomeStatement == [name : STRING, entities : Seq(EntitySet) \ {<<>>}]

LEMMA StatementShape ==
  ASSUME NEW s \in SomeStatement
  PROVE  /\ s = [name |-> s.name, entities |-> s.entities]
         /\ Len(s.entities) \in Nat \ {0} /\ DOMAIN s.entities = 1 .. Len(s.entities)
         /\ \A k \in DOMAIN s.entities : s.entities[k] \in EntitySet /\ s.entities[k] # Null
         /\ s.entities[1] \in EntitySet
  <1>1. s.entities \in Seq(EntitySet) \ {<<>>} /\ s = [name |-> s.name, entities |-> s.entities]
    BY DEF SomeStatement
  <1>2. Len(s.entities) \in Nat \ {0} /\ DOMAIN s.entities = 1 .. Len(s.entities)
    BY <1>1
  <1>3. \A k \in DOMAIN s.entities : s.entities[k] \in EntitySet
    BY <1>1
  <1> QED BY <1>1, <1>2, <1>3, TableAssumption

LEMMA HashedShape ==
  ASSUME NEW s \in SomeStatement
  PROVE  hash_emails_in(s) \in SomeStatement /\ HashingEmails(s) \in SomeStatement
  <1> DEFINE es == [i \in DOMAIN s.entities |-> hash_emails(s.entities[i])]
  <1>1. s \in [name : STRING, entities : Seq(EntitySet) \ {<<>>}]
    BY DEF SomeStatement
  <1>2. \A e \in EntitySet : hash_emails(e) \in EntitySet
    BY TableAssumption
  <1>3. es \in Seq(EntitySet) /\ es # <<>>
    <2>1. es \in [1 .. Len(s.entities) -> EntitySet] /\ Len(s.entities) \in Nat \ {0}
      <3>1. /\ Len(s.entities) \in Nat \ {0} /\ DOMAIN s.entities = 1 .. Len(s.entities)
            /\ \A k \in DOMAIN s.entities : s.entities[k] \in EntitySet
        BY StatementShape
      <3> QED BY <1>2, <3>1
    <2> HIDE DEF es
    <2>2. es \in Seq(EntitySet) /\ DOMAIN es = 1 .. Len(s.entities)
      BY <2>1
    <2>3. Len(es) = Len(s.entities)
      BY <2>1, <2>2
    <2> QED BY <2>1, <2>2, <2>3
  <1>4. hash_emails_in(s) = [s EXCEPT !.entities = es]
    BY DEF hash_emails_in
  <1>5. hash_emails_in(s) \in SomeStatement
    BY <1>1, <1>3, <1>4 DEF SomeStatement
  <1> QED BY <1>5 DEF HashingEmails

LEMMA ColumnsOfStatement ==
  ASSUME NEW s \in SomeStatement
  PROVE  /\ EntityColumns(s) \in [Columns -> EntitySet \cup {Null}]
         /\ \A k \in Columns : EntityColumns(s)[k] # Null <=> k \in DOMAIN s.entities
         /\ \A k \in Columns : k \in DOMAIN s.entities => EntityColumns(s)[k] = s.entities[k]
         /\ EntityColumns(s)[1] = s.entities[1]
  <1>1. \A k \in Columns : k \in DOMAIN s.entities => s.entities[k] \in EntitySet /\ s.entities[k] # Null
    BY StatementShape
  <1>2. 1 \in Columns /\ 1 \in DOMAIN s.entities
    BY StatementShape DEF Columns
  <1> QED BY <1>1, <1>2 DEF EntityColumns

\* The row of an accepted statement is as some template asks for.
LEMMA AcceptedIsStored ==
  ASSUME NEW s \in SomeStatement, TableInv, has_matching_template(s)
  PROVE  IsStored(RowOf(s))
  <1> DEFINE r == RowOf(s)
  <1>1. PICK t \in Templates : matches_template(s, t)
    <2>1. CASE \E t \in Templates : s = TemplateStatement(t)
      <3>1. PICK t \in Templates : s = TemplateStatement(t)
        BY <2>1
      <3>2. s.name = "template" /\ s.entities = <<t>>
        BY <3>1 DEF TemplateStatement
      <3>3. t \in EntitySet
        BY <3>2, StatementShape
      <3>4. t.kind = "Template"
        BY <3>1, TableAssumption DEF Template
      <3>5. /\ RootTemplate.name = "template" /\ RootTemplate.types = <<{"Template"}>>
            /\ RootTemplate \in Templates
        BY TableAssumption DEF RootTemplate, Template
      <3>6. matches_template(s, RootTemplate)
        BY <3>2, <3>4, <3>5 DEF matches_template
      <3> QED BY <3>5, <3>6
    <2>2. CASE \E i \in Ids : templates[i] # Null /\ matches_template(s, templates[i])
      BY <2>2 DEF TableInv
    <2> QED BY <2>1, <2>2 DEF has_matching_template
  <1>2. /\ r.name = s.name /\ r.entity = EntityColumns(s)
        /\ r.min = cidr_minmax(s.entities[1]).min /\ r.max = cidr_minmax(s.entities[1]).max
    BY DEF RowOf
  <1>3. DOMAIN s.entities = 1 .. Len(s.entities) /\ DOMAIN t.types = 1 .. Len(t.types)
    BY StatementShape, TableAssumption
  <1>4. t.name = s.name /\ Len(s.entities) = Len(t.types)
        /\ \A k \in DOMAIN t.types : s.entities[k].kind \in t.types[k]
    BY <1>1 DEF matches_template
  <1>5. \A k \in Columns : IF k \in DOMAIN t.types
                          THEN r.entity[k] # Null /\ r.entity[k].kind \in t.types[k]
                          ELSE r.entity[k] = Null
    BY <1>2, <1>3, <1>4, ColumnsOfStatement
  <1>6. [min |-> r.min, max |-> r.max] = cidr_minmax(r.entity[1])
    <2>1. \A e : cidr_minmax(e) = [min |-> cidr_minmax(e).min, max |-> cidr_minmax(e).max]
      BY DEF cidr_minmax, NoRange
    <2> QED BY <1>2, <2>1, ColumnsOfStatement
  <1> QED BY <1>2, <1>4, <1>5, <1>6, ColumnsOfStatement DEF IsStored

\* Statement s goes to no row whose columns it shares: what looking before
\* inserting finds and what the unique constraint forbids leave no other.
LEMMA NewColumns ==
  ASSUME NEW s \in SomeStatement, TableInv,
         try_select_statement(s) = {}, ~IsConstrained(s),
         NEW j \in RowIds
  PROVE  ~SameColumns(statement[j], RowOf(s))
  <1> DEFINE c == EntityColumns(s)
             bound == [c EXCEPT ![4] = IF @ = Null THEN Null ELSE c[3]]
  <1> SUFFICES ASSUME statement[j].name = s.name, statement[j].entity = c
               PROVE  FALSE
    BY DEF SameColumns, RowOf
  <1>1. CASE c[4] = Null
    <2>1. \A k \in Columns : bound[k] = c[k]
      BY <1>1, ColumnsOfStatement DEF Columns
    <2>2. j \in try_select_statement(s)
      BY <2>1 DEF try_select_statement
    <2> QED BY <2>2
  <1>2. CASE c[4] # Null
    <2>1. 4 \in DOMAIN s.entities
      BY <1>2, ColumnsOfStatement DEF Columns
    <2>2. DOMAIN s.entities = 1 .. Len(s.entities) /\ Len(s.entities) \in Nat
      BY StatementShape
    <2>3. \A k \in Columns : c[k] # Null
      BY <2>1, <2>2, ColumnsOfStatement DEF Columns
    <2>4. IsConstrained(s)
      BY <2>3 DEF IsConstrained
    <2> QED BY <2>4
  <1> QED BY <1>1, <1>2

LEMMA PersistKeepsInv ==
  ASSUME NEW s \in SomeStatement, TableInv, persist(s)
  PROVE  TableInv'
  <1>1. has_matching_template(s)
    BY DEF persist
  <1>2. PICK id \in Ids :
          /\ IF try_select_statement(s) # {}
             THEN id \in try_select_statement(s) /\ UNCHANGED statement
             ELSE try_insert_statement(s, id)
          /\ templates' = [templates EXCEPT ![id] =
                IF s.name = "template" /\ s.entities[1].kind = "Template"
                THEN s.entities[1] ELSE @]
    BY DEF persist
  <1>3. IsStored(RowOf(s))
    BY <1>1, AcceptedIsStored
  <1>4. DOMAIN templates' = Ids /\ \A i \in Ids : templates'[i] # Null => templates'[i] \in Templates
    <2>1. s.entities[1] \in EntitySet
      BY StatementShape
    <2>2. s.entities[1].kind = "Template" => s.entities[1] \in Templates
      BY <2>1, TableAssumption
    <2> QED BY <1>2, <2>2 DEF TableInv
  <1>5. CASE try_select_statement(s) # {}
    BY <1>2, <1>4, <1>5 DEF TableInv, RowIds
  <1>6. CASE try_select_statement(s) = {}
    <2>1. ~IsConstrained(s) /\ statement' = [statement EXCEPT ![id] = RowOf(s)]
      BY <1>2, <1>6 DEF try_insert_statement
    <2>2. /\ DOMAIN statement' = Ids
          /\ statement'[id] = RowOf(s)
          /\ \A i \in Ids \ {id} : statement'[i] = statement[i]
      BY <2>1 DEF TableInv
    <2>3. \A i \in RowIds' : i = id \/ (i \in RowIds /\ i # id)
      BY <2>2 DEF RowIds
    <2>4. \A i \in RowIds' : IsStored(statement'[i])
      BY <1>3, <2>2, <2>3 DEF TableInv, RowIds
    <2>5. \A j \in RowIds : ~SameColumns(statement[j], RowOf(s)) /\ ~SameColumns(RowOf(s), statement[j])
      BY <1>6, <2>1, NewColumns DEF SameColumns
    <2>6. \A i, j \in RowIds' : SameColumns(statement'[i], statement'[j]) => i = j
      BY <2>2, <2>3, <2>5 DEF TableInv, RowIds
    <2> QED BY <1>4, <2>2, <2>4, <2>6 DEF TableInv
  <1> QED BY <1>5, <1>6

\* "!fix-cidr" changes nothing but the columns for ranges.
LEMMA FixedRow ==
  ASSUME NEW r, IsStored(r)
  PROVE  IsStored(RowOf(Said(r))) /\ SameColumns(RowOf(Said(r)), r)
  <1> DEFINE x == RowOf(Said(r))
  <1>1. /\ Said(r).name = r.name
        /\ Said(r).entities[1] = r.entity[1]
        /\ EntityColumns(Said(r)) = r.entity
    BY StoredInOrder, SaidColumns
  <1>2. /\ x.name = r.name
        /\ x.entity = r.entity
        /\ x.min = cidr_minmax(r.entity[1]).min
        /\ x.max = cidr_minmax(r.entity[1]).max
    BY <1>1 DEF RowOf
  <1>3. [min |-> x.min, max |-> x.max] = cidr_minmax(x.entity[1])
    BY <1>2 DEF cidr_minmax, NoRange
  <1> HIDE DEF x
  <1>4. IsStored(x)
    BY <1>2, <1>3 DEF IsStored
  <1>5. SameColumns(x, r)
    BY <1>2 DEF SameColumns
  <1> QED BY <1>4, <1>5 DEF x

LEMMA FixCidrKeepsInv ==
  ASSUME TableInv, fix_cidr
  PROVE  TableInv'
  <1>1. DOMAIN statement' = Ids
    BY DEF fix_cidr
  <1>2. \A i \in Ids \ RowIds : statement'[i] = Null
    BY DEF fix_cidr, RowIds
  <1>3. \A i \in RowIds : IsStored(statement'[i]) /\ SameColumns(statement'[i], statement[i])
    <2> SUFFICES ASSUME NEW i \in RowIds
                 PROVE  IsStored(statement'[i]) /\ SameColumns(statement'[i], statement[i])
      OBVIOUS
    <2>1. IsStored(statement[i])
      BY DEF TableInv
    <2>2. statement'[i] = RowOf(Said(statement[i])) \/ statement'[i] = statement[i]
      BY DEF fix_cidr, RowIds
    <2>3. SameColumns(statement[i], statement[i])
      BY DEF SameColumns
    <2> QED BY <2>1, <2>2, <2>3, FixedRow
  <1>4. \A i \in RowIds' : i \in RowIds
    BY <1>2 DEF RowIds
  <1>5. \A i, j \in RowIds' : SameColumns(statement'[i], statement'[j]) => i = j
    <2>1. \A i, j \in RowIds : SameColumns(statement[i], statement[j]) => i = j
      BY DEF TableInv
    <2> QED BY <1>3, <1>4, <2>1 DEF SameColumns
  <1>6. UNCHANGED templates
    BY DEF fix_cidr
  <1> QED BY <1>1, <1>3, <1>4, <1>5, <1>6 DEF TableInv, Ids

\* What read_templates caches are templates.
LEMMA TemplateRow ==
  ASSUME NEW r, IsStored(r), IsTemplateRow(r)
  PROVE  r.entity[1] \in Templates
  <1>1. InOrder(r.entity)
    BY StoredInOrder
  <1>2. r.entity[1] \in EntitySet
    BY <1>1 DEF InOrder, Columns
  <1> QED BY <1>2, TableAssumption DEF IsTemplateRow

LEMMA RestartKeepsInv ==
  ASSUME TableInv, NEW gone, Restart(gone)
  PROVE  TableInv'
  <1>1. /\ statement' = [i \in Ids |-> IF i \in gone THEN Null ELSE statement[i]]
        /\ templates' = [i \in Ids |->
              IF i \in RowIds /\ IsTemplateRow(statement[i]) THEN statement[i].entity[1] ELSE Null]
    BY DEF Restart
  <1>2. \A i \in RowIds' : i \in RowIds /\ statement'[i] = statement[i]
    BY <1>1 DEF RowIds
  <1>3. \A i \in Ids : templates'[i] # Null => templates'[i] \in Templates
    BY <1>1, TemplateRow DEF TableInv
  <1> QED BY <1>1, <1>2, <1>3 DEF TableInv, Ids

LEMMA TableInvariant == Spec => []TableInv
  <1>1. Init => TableInv
    <2> SUFFICES ASSUME Init PROVE TableInv
      OBVIOUS
    <2>1. /\ DOMAIN statement = Ids
          /\ \A i \in Ids : statement[i] # Null => IsStored(statement[i])
          /\ \A i, j \in Ids : statement[i] # Null /\ statement[j] # Null
                              /\ SameColumns(statement[i], statement[j]) => i = j
      BY TableAssumption DEF Init
    <2>2. \A i \in RowIds : IsStored(statement[i])
      BY <2>1 DEF RowIds
    <2>3. /\ DOMAIN templates = Ids
          /\ \A i \in Ids : templates[i] # Null => templates[i] \in Templates
      BY <2>2, TemplateRow DEF Init
    <2> QED BY <2>1, <2>2, <2>3 DEF TableInv, RowIds
  <1>2. TableInv /\ [Next]_vars => TableInv'
    <2> SUFFICES ASSUME TableInv, [Next]_vars PROVE TableInv'
      OBVIOUS
    <2>1. ASSUME NEW s \in Statements, PeerStatement(s) \/ UserStatement(s)
          PROVE  TableInv'
      <3>1. s \in SomeStatement /\ HashingEmails(s) \in SomeStatement
        BY TableAssumption, HashedShape DEF SomeStatement
      <3>2. ASSUME NEW x, PersistPanics(x)
            PROVE  TableInv'
        BY <3>2 DEF PersistPanics, TableInv, RowIds
      <3> QED BY <2>1, <3>1, <3>2, PersistKeepsInv DEF PeerStatement, UserStatement
    <2>2. CASE fix_cidr
      BY <2>2, FixCidrKeepsInv
    <2>3. ASSUME NEW gone, Restart(gone)
          PROVE  TableInv'
      BY <2>3, RestartKeepsInv
    <2>4. CASE UNCHANGED vars
      BY <2>4 DEF vars, TableInv, RowIds
    <2> QED BY <2>1, <2>2, <2>3, <2>4 DEF Next
  <1> QED BY <1>1, <1>2, PTL DEF Spec

-----------------------------------------------------------------------------
(* Storing *)

\* No statement is in the table twice (unique(name, entity_1, ..., entity_4)
\* and try_select_statement).
THEOREM StatementsAreUnique == Spec => []StatementsUnique
  <1>1. TableInv => StatementsUnique
    <2> SUFFICES ASSUME TableInv,
                        NEW i \in RowIds, NEW j \in RowIds,
                        Said(statement[i]) = Said(statement[j])
                 PROVE  i = j
      BY DEF StatementsUnique
    <2>1. /\ Said(statement[i]).name = statement[i].name
          /\ EntityColumns(Said(statement[i])) = statement[i].entity
      BY StoredInOrder, SaidColumns DEF TableInv
    <2>2. /\ Said(statement[j]).name = statement[j].name
          /\ EntityColumns(Said(statement[j])) = statement[j].entity
      BY StoredInOrder, SaidColumns DEF TableInv
    <2>3. SameColumns(statement[i], statement[j])
      BY <2>1, <2>2 DEF SameColumns
    <2> QED BY <2>3 DEF TableInv
  <1> QED BY <1>1, TableInvariant, PTL

\* Three entities at most are told by their columns.
LEMMA SameStatement ==
  ASSUME NEW s \in SomeStatement, NEW x \in SomeStatement,
         s.name = x.name, EntityColumns(s) = EntityColumns(x), EntityColumns(s)[4] = Null
  PROVE  s = x
  <1>1. /\ s.entities \in Seq(EntitySet) /\ x.entities \in Seq(EntitySet)
        /\ s = [name |-> s.name, entities |-> s.entities]
        /\ x = [name |-> x.name, entities |-> x.entities]
    BY DEF SomeStatement
  <1>2. \A k \in Columns : /\ k \in DOMAIN s.entities <=> k \in DOMAIN x.entities
                           /\ k \in DOMAIN s.entities => s.entities[k] = x.entities[k]
    BY ColumnsOfStatement
  <1>3. 4 \notin DOMAIN s.entities
    BY ColumnsOfStatement DEF Columns
  <1>4. /\ DOMAIN s.entities = 1 .. Len(s.entities) /\ Len(s.entities) \in Nat \ {0}
        /\ DOMAIN x.entities = 1 .. Len(x.entities) /\ Len(x.entities) \in Nat \ {0}
    BY StatementShape
  <1>5. Len(s.entities) <= 3 /\ Len(x.entities) <= 3
    BY <1>2, <1>3, <1>4 DEF Columns
  <1>6. Len(s.entities) = Len(x.entities)
    BY <1>2, <1>4, <1>5 DEF Columns
  <1>7. \A k \in 1 .. Len(s.entities) : s.entities[k] = x.entities[k]
    BY <1>2, <1>4, <1>5 DEF Columns
  <1>8. s.entities = x.entities
    BY <1>1, <1>6, <1>7, SeqEqual
  <1> QED BY <1>1, <1>8

LEMMA KnownStatements ==
  ASSUME NEW s \in Statements \cup {hash_emails_in(x) : x \in Statements}
  PROVE  s \in SomeStatement
  <1>1. \A x \in Statements : x \in SomeStatement
    BY TableAssumption DEF SomeStatement
  <1> QED BY <1>1, HashedShape

\* The row found for a statement is the statement's and not another's
\* (try_select_statement compares those columns only that the statement has).
THEOREM RowsFoundSayIt == Spec => []RowFoundSaysIt
  <1>1. TableInv => RowFoundSaysIt
    <2> SUFFICES ASSUME TableInv,
                        NEW s \in Statements \cup {hash_emails_in(x) : x \in Statements},
                        has_matching_template(s), HasOneArity(s.name),
                        NEW i \in try_select_statement(s)
                 PROVE  Said(statement[i]) = s
      BY DEF RowFoundSaysIt
    <2> DEFINE c == EntityColumns(s)
               r == statement[i]
               bound == [c EXCEPT ![4] = IF @ = Null THEN Null ELSE c[3]]
    <2>1. s \in SomeStatement
      BY KnownStatements
    <2>2. /\ i \in RowIds /\ r.name = s.name
          /\ \A k \in Columns : bound[k] # Null => r.entity[k] = bound[k]
      BY DEF try_select_statement
    <2>3. IsStored(r) /\ IsStored(RowOf(s))
      BY <2>1, <2>2, AcceptedIsStored DEF TableInv
    <2>4. RowOf(s).name = s.name /\ RowOf(s).entity = c
      BY DEF RowOf
    <2>5. PICK t \in Templates :
            /\ s.name = t.name
            /\ \A k \in Columns : c[k] # Null <=> k \in DOMAIN t.types
      BY <2>3, <2>4 DEF IsStored
    <2>6. PICK u \in Templates :
            /\ r.name = u.name
            /\ \A k \in Columns : r.entity[k] # Null <=> k \in DOMAIN u.types
      BY <2>3 DEF IsStored
    <2>7. Len(t.types) = Len(u.types) /\ Len(t.types) <= 3
      BY <2>2, <2>5, <2>6 DEF HasOneArity
    <2>8. /\ DOMAIN t.types = 1 .. Len(t.types) /\ Len(t.types) \in Nat
          /\ DOMAIN u.types = 1 .. Len(u.types)
      BY TableAssumption
    <2>9. c[4] = Null
      BY <2>5, <2>7, <2>8 DEF Columns
    <2>10. c \in [Columns -> EntitySet \cup {Null}] /\ r.entity \in [Columns -> EntitySet \cup {Null}]
      BY <2>1, <2>3, ColumnsOfStatement DEF IsStored
    <2>11. \A k \in Columns : bound[k] = c[k]
      BY <2>9, <2>10 DEF Columns
    <2>12. \A k \in Columns : r.entity[k] = c[k]
      BY <2>2, <2>5, <2>6, <2>7, <2>8, <2>11
    <2>13. r.entity = c
      BY <2>10, <2>12
    <2>14. /\ Said(r).name = r.name
           /\ Said(r).entities \in Seq(EntitySet) \ {<<>>}
           /\ EntityColumns(Said(r)) = r.entity
      BY <2>3, StoredInOrder, SaidColumns
    <2>15. Said(r) = [name |-> Said(r).name, entities |-> Said(r).entities]
      BY DEF Said
    <2>16. Said(r) \in SomeStatement
      <3>1. s.name \in STRING
        BY <2>1 DEF SomeStatement
      <3> QED BY <2>2, <2>14, <2>15, <3>1 DEF SomeStatement
    <2> QED BY <2>1, <2>2, <2>9, <2>13, <2>14, <2>16, SameStatement
  <1> QED BY <1>1, TableInvariant, PTL

\* What is in the table is found there when it is said again, and the loop panics
\* only while there is a row whose fourth entity is not the third again
\* (try_select_statement, persist).
THEOREM RepetitionsAreFound == Spec => []RepetitionsFindTheirRow
  <1> DEFINE Excused == loop = "panicked" => \E i \in RowIds : ~IsBoundRight(statement[i])
  <1>1. ASSUME TableInv, NEW i \in RowIds, IsBoundRight(statement[i])
        PROVE  i \in try_select_statement(Said(statement[i]))
    <2> DEFINE s == Said(statement[i])
               c == EntityColumns(s)
               bound == [c EXCEPT ![4] = IF @ = Null THEN Null ELSE c[3]]
    <2>1. InOrder(statement[i].entity)
      BY <1>1, StoredInOrder DEF TableInv
    <2>2. s.name = statement[i].name /\ c = statement[i].entity
      BY <2>1, SaidColumns
    <2>3. c \in [Columns -> EntitySet \cup {Null}] /\ c[4] \in {Null, c[3]}
      BY <1>1, <2>1, <2>2 DEF InOrder, IsBoundRight
    <2> HIDE DEF s, c
    <2>4. bound = c
      BY <2>3 DEF Columns
    <2> QED BY <2>2, <2>4 DEF try_select_statement, c, s
  <1>2. ASSUME NEW s, PersistPanics(s)
        PROVE  Excused'
    <2>1. PICK i \in RowIds :
            statement[i].name = s.name /\ statement[i].entity = EntityColumns(s)
      BY <1>2 DEF PersistPanics, IsConstrained
    <2>2. ASSUME IsBoundRight(statement[i])
          PROVE  FALSE
      <3> DEFINE c == EntityColumns(s)
                 bound == [c EXCEPT ![4] = IF @ = Null THEN Null ELSE c[3]]
      <3>1. c[4] \in {Null, c[3]} /\ c = [k \in Columns |-> c[k]]
        BY <2>1, <2>2 DEF IsBoundRight, EntityColumns
      <3>2. \A k \in Columns : bound[k] = c[k]
        <4> HIDE DEF c
        <4> QED BY <3>1 DEF Columns
      <3>3. i \in try_select_statement(s)
        BY <2>1, <3>2 DEF try_select_statement
      <3> QED BY <1>2, <3>3 DEF PersistPanics
    <2>3. UNCHANGED statement
      BY <1>2 DEF PersistPanics
    <2> QED BY <2>2, <2>3 DEF RowIds, IsBoundRight
  <1>3. Init => Excused
    BY DEF Init
  <1>4. Excused /\ [Next]_vars => Excused'
    <2> SUFFICES ASSUME Excused, [Next]_vars
                 PROVE  Excused'
      OBVIOUS
    <2>1. ASSUME NEW s, persist(s)
          PROVE  loop' = "running"
      BY <2>1 DEF persist
    <2>2. CASE \E s \in Statements : PeerStatement(s) \/ UserStatement(s)
      BY <1>2, <2>1, <2>2 DEF PeerStatement, UserStatement
    <2>3. CASE fix_cidr
      BY <2>3 DEF fix_cidr
    <2>4. CASE \E n \in 0 .. MaxGone : \E gone \in kSubset(n, RowIds) : Restart(gone)
      BY <2>4 DEF Restart
    <2>5. CASE UNCHANGED vars
      BY <2>5 DEF vars, RowIds, IsBoundRight
    <2> QED BY <2>2, <2>3, <2>4, <2>5 DEF Next
  <1>5. TableInv /\ Excused => RepetitionsFindTheirRow
    BY <1>1 DEF RepetitionsFindTheirRow
  <1> HIDE DEF Excused
  <1> QED BY <1>3, <1>4, <1>5, TableInvariant, PTL DEF Spec

\* An e-mail address is stored unhashed only where a template asks for one
\* (persist_statement_hashing_emails).
THEOREM EMailsAreCloaked == Spec => []EMailsCloaked
  <1>1. TableInv => EMailsCloaked
    <2> SUFFICES ASSUME TableInv, NEW i \in RowIds, NEW k \in Columns,
                        statement[i].entity[k] # Null,
                        statement[i].entity[k].kind = "EMail"
                 PROVE  \E t \in Templates : /\ t.name = statement[i].name
                                             /\ k \in DOMAIN t.types /\ "EMail" \in t.types[k]
      BY DEF EMailsCloaked
    <2>1. IsStored(statement[i])
      BY DEF TableInv
    <2> QED BY <2>1 DEF IsStored
  <1> QED BY <1>1, TableInvariant, PTL

-----------------------------------------------------------------------------
(* Induction *)

LEMMA LeastNatural ==
  ASSUME NEW T \in SUBSET Nat, T # {}
  PROVE  \E n \in T : \A m \in T : n <= m
  <1> DEFINE R == {ss \in Nat \X Nat : ss[1] < ss[2]}
  <1>1. IsWellFoundedOn(R, Nat)
    BY NatLessThanWellFounded DEF OpToRel
  <1> HIDE DEF R
  <1>2. PICK n \in T : \A m \in T : <<m, n>> \notin R
    BY <1>1, WFMin
  <1>3. \A m \in T : ~(m < n)
    BY <1>2 DEF R
  <1> QED BY <1>3

LEMMA AllNaturals ==
  ASSUME NEW S, 0 \in S, \A n \in Nat : n \in S => n + 1 \in S
  PROVE  \A n \in Nat : n \in S
  <1> SUFFICES ASSUME Nat \ S # {}
               PROVE FALSE
    OBVIOUS
  <1>1. PICK n \in Nat \ S : \A m \in Nat \ S : n <= m
    BY LeastNatural
  <1>2. n # 0 /\ n - 1 \in Nat /\ ~(n <= n - 1)
    BY <1>1
  <1>3. n - 1 \in S
    BY <1>1, <1>2
  <1> QED BY <1>1, <1>2, <1>3

\* There is a function that doubles from one number to the next.
LEMMA DoublingExists == \E f : f = [n \in Nat |-> IF n = 0 THEN 1 ELSE 2 * f[n - 1]]
  <1> DEFINE IsUpTo(f, n) == /\ f \in [0 .. n -> Nat] /\ f[0] = 1
                             /\ \A i \in 1 .. n : f[i] = 2 * f[i - 1]
             S == {n \in Nat : \E f : IsUpTo(f, n)}
  <1>1. 0 \in S
    <2>1. IsUpTo([i \in 0 .. 0 |-> 1], 0)
      OBVIOUS
    <2> QED BY <2>1
  <1>2. ASSUME NEW n \in Nat, n \in S
        PROVE  n + 1 \in S
    <2>1. PICK f : IsUpTo(f, n)
      BY <1>2
    <2> DEFINE g == [i \in 0 .. n + 1 |-> IF i = n + 1 THEN 2 * f[n] ELSE f[i]]
    <2>2. g \in [0 .. n + 1 -> Nat] /\ g[0] = 1
      BY <2>1
    <2>3. \A i \in 1 .. n + 1 : g[i] = 2 * g[i - 1]
      BY <2>1
    <2>4. IsUpTo(g, n + 1)
      BY <2>2, <2>3
    <2> HIDE DEF g, IsUpTo
    <2> QED BY <2>4
  <1>3. \A n \in Nat : n \in S
    <2> HIDE DEF S
    <2> QED BY <1>1, <1>2, AllNaturals
  <1>4. ASSUME NEW n \in Nat, NEW m \in Nat, NEW f, NEW g, IsUpTo(f, n), IsUpTo(g, m)
        PROVE  \A i \in Nat : i <= n /\ i <= m => f[i] = g[i]
    <2> DEFINE Q == {i \in Nat : i <= n /\ i <= m => f[i] = g[i]}
    <2>1. 0 \in Q
      BY <1>4
    <2>2. ASSUME NEW i \in Nat, i \in Q
          PROVE  i + 1 \in Q
      <3> SUFFICES ASSUME i + 1 <= n, i + 1 <= m
                   PROVE  f[i + 1] = g[i + 1]
        OBVIOUS
      <3>1. f[i] = g[i]
        BY <2>2
      <3>2. i + 1 \in 1 .. n /\ i + 1 \in 1 .. m /\ (i + 1) - 1 = i
        OBVIOUS
      <3> QED BY <3>1, <3>2, <1>4
    <2>3. \A i \in Nat : i \in Q
      <3> HIDE DEF Q
      <3> QED BY <2>1, <2>2, AllNaturals
    <2> QED BY <2>3
  <1> DEFINE upto(n) == CHOOSE f : IsUpTo(f, n)
  <1>5. \A n \in Nat : IsUpTo(upto(n), n)
    BY <1>3
  <1>6. PICK F : F = [n \in Nat |-> upto(n)[n]]
    OBVIOUS
  <1>7. ASSUME NEW n \in Nat \ {0}
        PROVE  upto(n)[n] = 2 * F[n - 1]
    <2>1. n - 1 \in Nat /\ n - 1 <= n
      OBVIOUS
    <2>2. IsUpTo(upto(n), n) /\ IsUpTo(upto(n - 1), n - 1)
      BY <1>5, <2>1
    <2>3. F[n - 1] = upto(n - 1)[n - 1]
      BY <1>6, <2>1
    <2> HIDE DEF upto
    <2>4. upto(n)[n - 1] = upto(n - 1)[n - 1]
      <3> HIDE DEF IsUpTo
      <3> QED BY <1>4, <2>1, <2>2
    <2>5. upto(n)[n] = 2 * upto(n)[n - 1]
      BY <2>2
    <2> QED BY <2>3, <2>4, <2>5
  <1>8. upto(0)[0] = 1
    BY <1>5
  <1> HIDE DEF upto
  <1> QED BY <1>6, <1>7, <1>8

LEMMA PowersDouble ==
  /\ PowerOfTwo[0] = 1
  /\ \A n \in Nat : PowerOfTwo[n + 1] = 2 * PowerOfTwo[n]
  /\ \A n \in Nat : PowerOfTwo[n] \in Nat \ {0}
  <1>1. PowerOfTwo = [n \in Nat |-> IF n = 0 THEN 1 ELSE 2 * PowerOfTwo[n - 1]]
    BY DoublingExists DEF PowerOfTwo
  <1>2. PowerOfTwo[0] = 1
    BY <1>1
  <1>3. ASSUME NEW n \in Nat
        PROVE  PowerOfTwo[n + 1] = 2 * PowerOfTwo[n]
    <2>1. n + 1 \in Nat /\ n + 1 # 0 /\ (n + 1) - 1 = n
      OBVIOUS
    <2> QED BY <1>1, <2>1
  <1>4. \A n \in Nat : PowerOfTwo[n] \in Nat \ {0}
    <2> DEFINE S == {n \in Nat : PowerOfTwo[n] \in Nat \ {0}}
    <2>1. 0 \in S
      BY <1>2
    <2>2. \A n \in Nat : n \in S => n + 1 \in S
      BY <1>3
    <2>3. \A n \in Nat : n \in S
      <3> HIDE DEF S
      <3> QED BY <2>1, <2>2, AllNaturals
    <2> QED BY <2>3
  <1> QED BY <1>2, <1>3, <1>4

LEMMA TwiceProduct ==
  ASSUME NEW x \in Nat, NEW y \in Nat
  PROVE  2 * (x * y) = x * (2 * y)
  OBVIOUS

LEMMA PowerOfSum ==
  ASSUME NEW m \in Nat, NEW n \in Nat
  PROVE  PowerOfTwo[m + n] = PowerOfTwo[m] * PowerOfTwo[n]
  <1> DEFINE S == {k \in Nat : PowerOfTwo[m + k] = PowerOfTwo[m] * PowerOfTwo[k]}
  <1>1. 0 \in S
    BY PowersDouble
  <1>2. ASSUME NEW k \in Nat, k \in S
        PROVE  k + 1 \in S
    <2>1. PowerOfTwo[m + k] = PowerOfTwo[m] * PowerOfTwo[k]
      BY <1>2
    <2>2. m + k \in Nat /\ m + (k + 1) = (m + k) + 1
      OBVIOUS
    <2>3. PowerOfTwo[m + (k + 1)] = 2 * PowerOfTwo[m + k]
      BY <2>2, PowersDouble
    <2>4. PowerOfTwo[k + 1] = 2 * PowerOfTwo[k]
      BY PowersDouble
    <2>5. PowerOfTwo[m] \in Nat /\ PowerOfTwo[k] \in Nat
      BY PowersDouble
    <2> QED BY <2>1, <2>3, <2>4, <2>5, TwiceProduct
  <1>3. \A k \in Nat : k \in S
    <2> HIDE DEF S
    <2> QED BY <1>1, <1>2, AllNaturals
  <1> QED BY <1>3

-----------------------------------------------------------------------------
(* The texts of addresses: octets from the first to the last *)

LEMMA DividedTwice ==
  ASSUME NEW a \in Nat, NEW b \in Nat \ {0}, NEW c \in Nat \ {0}
  PROVE  a \div (c * b) = (a \div c) \div b
  OBVIOUS

LEMMA DividedSmall ==
  ASSUME NEW a \in Nat, NEW b \in Nat \ {0}, a < b
  PROVE  a \div b = 0
  OBVIOUS

LEMMA DividedByOne ==
  ASSUME NEW a \in Nat
  PROVE  a \div 1 = a
  OBVIOUS

LEMMA DividedMonotonic ==
  ASSUME NEW a \in Nat, NEW b \in Nat, NEW c \in Nat \ {0}, a <= b
  PROVE  a \div c <= b \div c
  OBVIOUS

LEMMA DivisionTypes ==
  ASSUME NEW a \in Nat, NEW c \in Nat \ {0}
  PROVE  a \div c \in Nat /\ a % c \in Nat
  OBVIOUS

\* Numbers that differ, but not in what is left of the last digit, differ there.
LEMMA LastDigit ==
  ASSUME NEW a \in Nat, NEW b \in Nat, NEW c \in Nat \ {0}, a < b, a \div c = b \div c
  PROVE  a % c < b % c
  OBVIOUS

Octet(n, i, a) == (a \div PowerOfTwo[OctetBits * (n - i)]) % PowerOfTwo[OctetBits]

LEMMA OctetType ==
  ASSUME NEW n \in Nat, NEW i \in 1 .. n, NEW a \in Nat
  PROVE  Octet(n, i, a) \in Nat
  <1>1. OctetBits \in Nat /\ n - i \in Nat /\ OctetBits * (n - i) \in Nat
    BY EntityAssumption DEF OctetBits
  <1>2. PowerOfTwo[OctetBits * (n - i)] \in Nat \ {0} /\ PowerOfTwo[OctetBits] \in Nat \ {0}
    BY <1>1, PowersDouble
  <1>3. a \div PowerOfTwo[OctetBits * (n - i)] \in Nat
    BY <1>2, DivisionTypes
  <1> QED BY <1>2, <1>3, DivisionTypes DEF Octet

\* The smaller address has the smaller octet where the two first differ.
LEMMA FirstDifference ==
  ASSUME NEW n \in Nat, NEW a \in Nat, NEW b \in Nat,
         a < b, b < PowerOfTwo[OctetBits * n]
  PROVE  \E i \in 1 .. n : /\ Octet(n, i, a) < Octet(n, i, b)
                          /\ \A j \in 1 .. i - 1 : Octet(n, j, a) = Octet(n, j, b)
  <1> DEFINE place(i) == PowerOfTwo[OctetBits * (n - i)]
             head(i, x) == x \div place(i)
             base == PowerOfTwo[OctetBits]
             T == {i \in 0 .. n : head(i, a) # head(i, b)}
  <1>1. OctetBits \in Nat \ {0}
    BY EntityAssumption DEF OctetBits
  <1>2. \A i \in 0 .. n : n - i \in Nat /\ OctetBits * (n - i) \in Nat
    BY <1>1
  <1>3. base \in Nat \ {0} /\ \A i \in 0 .. n : place(i) \in Nat \ {0}
    BY <1>1, <1>2, PowersDouble
  <1>4. ASSUME NEW i \in 1 .. n
        PROVE  place(i - 1) = place(i) * base
    <2>1. n - (i - 1) = (n - i) + 1 /\ n - i \in Nat
      OBVIOUS
    <2>2. OctetBits * (n - (i - 1)) = OctetBits * (n - i) + OctetBits
      BY <1>1, <2>1
    <2>3. OctetBits * (n - i) \in Nat
      BY <1>2
    <2> QED BY <1>1, <2>2, <2>3, PowerOfSum
  <1>5. ASSUME NEW x \in Nat, NEW i \in 1 .. n
        PROVE  /\ head(i - 1, x) = head(i, x) \div base
               /\ Octet(n, i, x) = head(i, x) % base
    <2>1. place(i) \in Nat \ {0} /\ base \in Nat \ {0}
      BY <1>3
    <2> HIDE DEF place, base
    <2>2. x \div (place(i) * base) = (x \div place(i)) \div base
      BY <2>1, DividedTwice
    <2>3. head(i - 1, x) = head(i, x) \div base
      BY <1>4, <2>2
    <2>4. Octet(n, i, x) = head(i, x) % base
      BY DEF Octet, place, base
    <2> QED BY <2>3, <2>4
  <1>6. ASSUME NEW x \in Nat, NEW i \in 0 .. n
        PROVE  head(i, x) \in Nat
    <2>1. place(i) \in Nat \ {0}
      BY <1>3
    <2> HIDE DEF place
    <2> QED BY <2>1, DivisionTypes
  <1>7. head(0, a) = head(0, b)
    <2>1. place(0) = PowerOfTwo[OctetBits * n]
      OBVIOUS
    <2>2. place(0) \in Nat \ {0} /\ a < place(0) /\ b < place(0)
      BY <1>3, <2>1
    <2> HIDE DEF place
    <2> QED BY <2>2, DividedSmall
  <1>8. head(n, a) # head(n, b)
    <2>1. place(n) = 1
      <3>1. OctetBits * (n - n) = 0
        BY <1>1
      <3> QED BY <3>1, PowersDouble
    <2> HIDE DEF place
    <2> QED BY <2>1, DividedByOne
  <1>9. PICK i \in T : \A m \in T : i <= m
    <2>1. T \in SUBSET Nat /\ n \in T
      BY <1>8
    <2> HIDE DEF T
    <2> QED BY <2>1, LeastNatural
  <1>10. i \in 1 .. n /\ i - 1 \in 0 .. n /\ head(i, a) # head(i, b)
    BY <1>7, <1>9
  <1>11. \A j \in 0 .. i - 1 : head(j, a) = head(j, b)
    BY <1>9, <1>10
  <1>12. head(i, a) < head(i, b)
    <2>1. place(i) \in Nat \ {0}
      BY <1>3, <1>10
    <2>2. head(i, a) \in Nat /\ head(i, b) \in Nat
      BY <1>6, <1>10
    <2>3. head(i, a) <= head(i, b)
      <3> HIDE DEF place
      <3> QED BY <2>1, DividedMonotonic
    <2> HIDE DEF head
    <2> QED BY <1>10, <2>2, <2>3
  <1> HIDE DEF head, T, base
  <1>13. Octet(n, i, a) < Octet(n, i, b)
    <2>1. head(i, a) \div base = head(i, b) \div base
      BY <1>5, <1>10, <1>11
    <2>2. head(i, a) \in Nat /\ head(i, b) \in Nat
      BY <1>6, <1>10
    <2>3. head(i, a) % base < head(i, b) % base
      BY <1>3, <1>12, <2>1, <2>2, LastDigit
    <2> QED BY <1>5, <1>10, <2>3
  <1>14. \A j \in 1 .. i - 1 : Octet(n, j, a) = Octet(n, j, b)
    <2>1. \A j \in 1 .. i - 1 : j \in 1 .. n /\ head(j, a) = head(j, b)
      BY <1>10, <1>11
    <2> QED BY <1>5, <2>1
  <1> QED BY <1>10, <1>13, <1>14

LEMMA PairAppended ==
  ASSUME NEW s \in Seq(Nat), NEW a \in Nat, NEW b \in Nat,
         NEW t, t = s \o <<a, b>>
  PROVE  /\ t \in Seq(Nat) /\ Len(t) = Len(s) + 2
         /\ \A j \in 1 .. Len(s) : t[j] = s[j]
         /\ t[Len(s) + 1] = a /\ t[Len(s) + 2] = b
  OBVIOUS

\* What FlattenSeq makes of pairs.
LEMMA FlattenedPairs ==
  ASSUME NEW n \in Nat \ {0}, NEW x \in [1 .. n -> Nat], NEW y \in [1 .. n -> Nat]
  PROVE  LET text == FlattenSeq([i \in 1 .. n |-> <<x[i], y[i]>>])
         IN  /\ text \in Seq(Nat) /\ Len(text) = 2 * n
             /\ \A i \in 1 .. n : text[2 * i - 1] = x[i] /\ text[2 * i] = y[i]
  <1> DEFINE s == [i \in 1 .. n |-> <<x[i], y[i]>>]
             d == [j \in 1 .. 2 * n |-> IF j % 2 = 1 THEN x[(j + 1) \div 2] ELSE y[j \div 2]]
             E(i) == [j \in 1 .. 2 * i |-> d[j]]
             Flattens(f) == f = [i \in 1 .. n |-> IF i = 1 THEN s[i] ELSE f[i - 1] \o s[i]]
  <1>1. ASSUME NEW j \in 1 .. 2 * n
        PROVE  d[j] \in Nat
    <2>1. CASE j % 2 = 1
      <3>1. (j + 1) \div 2 \in 1 .. n
        BY <2>1
      <3> QED BY <2>1, <3>1
    <2>2. CASE j % 2 # 1
      <3>1. j \div 2 \in 1 .. n
        BY <2>2
      <3> QED BY <2>2, <3>1
    <2> QED BY <2>1, <2>2
  <1>2. ASSUME NEW i \in 1 .. n
        PROVE  /\ 2 * i - 1 \in 1 .. 2 * n /\ 2 * i \in 1 .. 2 * n
               /\ d[2 * i - 1] = x[i] /\ d[2 * i] = y[i]
    <2>1. 2 * i - 1 \in 1 .. 2 * n /\ 2 * i \in 1 .. 2 * n
      OBVIOUS
    <2>2. (2 * i - 1) % 2 = 1 /\ ((2 * i - 1) + 1) \div 2 = i
      OBVIOUS
    <2>3. (2 * i) % 2 = 0 /\ (2 * i) \div 2 = i
      OBVIOUS
    <2> QED BY <2>1, <2>2, <2>3
  <1>3. \A i \in 1 .. n : s[i] \in Seq(Nat) /\ Len(s[i]) = 2 /\ s[i][1] = x[i] /\ s[i][2] = y[i]
    OBVIOUS
  <1> HIDE DEF d
  <1>4. ASSUME NEW i \in 1 .. n
        PROVE  E(i) \in Seq(Nat) /\ Len(E(i)) = 2 * i /\ \A j \in 1 .. 2 * i : E(i)[j] = d[j]
    <2>1. 2 * i \in Nat /\ 1 .. 2 * i \subseteq 1 .. 2 * n
      OBVIOUS
    <2>2. E(i) \in [1 .. 2 * i -> Nat]
      BY <1>1, <2>1
    <2> QED BY <2>1, <2>2
  <1> HIDE DEF E
  <1>5. E(1) = s[1]
    <2>1. 1 \in 1 .. n /\ 2 * 1 = 2 /\ 2 * 1 - 1 = 1
      OBVIOUS
    <2>2. E(1) \in Seq(Nat) /\ Len(E(1)) = 2 /\ \A j \in 1 .. 2 : E(1)[j] = d[j]
      BY <1>4, <2>1
    <2>3. d[1] = x[1] /\ d[2] = y[1]
      BY <1>2, <2>1
    <2>4. s[1] \in Seq(Nat) /\ Len(s[1]) = 2 /\ s[1][1] = x[1] /\ s[1][2] = y[1]
      BY <1>3, <2>1
    <2> HIDE DEF s
    <2>5. \A j \in 1 .. 2 : E(1)[j] = s[1][j]
      <3>1. \A j \in 1 .. 2 : j = 1 \/ j = 2
        OBVIOUS
      <3> QED BY <2>2, <2>3, <2>4, <3>1
    <2> QED BY <2>2, <2>4, <2>5, SeqEqual
  <1>6. ASSUME NEW i \in 2 .. n
        PROVE  E(i) = E(i - 1) \o s[i]
    <2>1. /\ i \in 1 .. n /\ i - 1 \in 1 .. n
          /\ 2 * (i - 1) + 1 = 2 * i - 1 /\ 2 * (i - 1) + 2 = 2 * i
      OBVIOUS
    <2>2. /\ E(i) \in Seq(Nat) /\ Len(E(i)) = 2 * i
          /\ \A j \in 1 .. 2 * i : E(i)[j] = d[j]
      BY <1>4, <2>1
    <2>3. /\ E(i - 1) \in Seq(Nat) /\ Len(E(i - 1)) = 2 * (i - 1)
          /\ \A j \in 1 .. 2 * (i - 1) : E(i - 1)[j] = d[j]
      BY <1>4, <2>1
    <2>4. s[i] = <<x[i], y[i]>> /\ x[i] \in Nat /\ y[i] \in Nat
      BY <2>1
    <2>5. d[2 * i - 1] = x[i] /\ d[2 * i] = y[i]
      BY <1>2, <2>1
    <2>6. PICK c : c = E(i - 1) \o s[i]
      OBVIOUS
    <2> HIDE DEF s
    <2>7. /\ c \in Seq(Nat) /\ Len(c) = 2 * (i - 1) + 2
          /\ \A j \in 1 .. 2 * (i - 1) : c[j] = E(i - 1)[j]
          /\ c[2 * (i - 1) + 1] = x[i] /\ c[2 * (i - 1) + 2] = y[i]
      <3>1. PICK e \in Seq(Nat), a \in Nat, b \in Nat : e = E(i - 1) /\ a = x[i] /\ b = y[i]
        BY <2>3, <2>4
      <3>2. c = e \o <<a, b>>
        BY <2>4, <2>6, <3>1
      <3>3. /\ c \in Seq(Nat) /\ Len(c) = Len(e) + 2
            /\ \A j \in 1 .. Len(e) : c[j] = e[j]
            /\ c[Len(e) + 1] = a /\ c[Len(e) + 2] = b
        BY <3>2, PairAppended
      <3> QED BY <2>3, <3>1, <3>3
    <2>8. ASSUME NEW j \in 1 .. 2 * i
          PROVE  E(i)[j] = c[j]
      <3>1. j \in 1 .. 2 * (i - 1) \/ j = 2 * i - 1 \/ j = 2 * i
        OBVIOUS
      <3>2. E(i)[j] = d[j]
        BY <2>2
      <3> QED BY <2>1, <2>3, <2>5, <2>7, <3>1, <3>2
    <2>9. E(i) = c
      BY <2>1, <2>2, <2>7, <2>8, SeqEqual
    <2> QED BY <2>6, <2>9
  <1>7. \E f : Flattens(f)
    <2>1. PICK f : f = [i \in 1 .. n |-> E(i)]
      OBVIOUS
    <2> HIDE DEF s
    <2>2. \A i \in 1 .. n : E(i) = IF i = 1 THEN s[i] ELSE f[i - 1] \o s[i]
      <3> SUFFICES ASSUME NEW i \in 1 .. n
                   PROVE  E(i) = IF i = 1 THEN s[i] ELSE f[i - 1] \o s[i]
        OBVIOUS
      <3>1. CASE i = 1
        BY <1>5, <3>1
      <3>2. CASE i # 1
        <4>1. i \in 2 .. n /\ i - 1 \in 1 .. n
          BY <3>2
        <4>2. f[i - 1] = E(i - 1)
          BY <2>1, <4>1
        <4> QED BY <1>6, <3>2, <4>1, <4>2
      <3> QED BY <3>1, <3>2
    <2>3. f = [i \in 1 .. n |-> IF i = 1 THEN s[i] ELSE f[i - 1] \o s[i]]
      BY <2>1, <2>2
    <2> QED BY <2>3
  <1>8. ASSUME NEW f, Flattens(f)
        PROVE  f[n] = E(n)
    <2> HIDE DEF s
    <2> DEFINE S == {i \in Nat : i + 1 \in 1 .. n => f[i + 1] = E(i + 1)}
    <2>1. 0 \in S
      BY <1>5, <1>8
    <2>2. ASSUME NEW i \in Nat, i \in S
          PROVE  i + 1 \in S
      <3> SUFFICES ASSUME (i + 1) + 1 \in 1 .. n
                   PROVE  f[(i + 1) + 1] = E((i + 1) + 1)
        OBVIOUS
      <3>1. f[i + 1] = E(i + 1)
        BY <2>2
      <3>2. (i + 1) + 1 \in 2 .. n /\ (i + 1) + 1 # 1 /\ ((i + 1) + 1) - 1 = i + 1
        OBVIOUS
      <3>3. f[(i + 1) + 1] = f[i + 1] \o s[(i + 1) + 1]
        BY <1>8, <3>2
      <3> QED BY <1>6, <3>1, <3>2, <3>3
    <2>3. \A i \in Nat : i \in S
      <3> HIDE DEF S
      <3> QED BY <2>1, <2>2, AllNaturals
    <2>4. n - 1 \in S /\ (n - 1) + 1 = n /\ n \in 1 .. n
      <3> HIDE DEF S
      <3> QED BY <2>3
    <2> QED BY <2>4
  <1>9. Len(s) = n /\ DOMAIN s = 1 .. n
    OBVIOUS
  <1>10. FlattenSeq(s) = E(n)
    <2>1. FlattenSeq(s) = (CHOOSE f : Flattens(f))[n]
      <3> HIDE DEF s
      <3> QED BY <1>9 DEF FlattenSeq
    <2> HIDE DEF s, Flattens
    <2> QED BY <1>7, <1>8, <2>1
  <1>11. n \in 1 .. n /\ \A i \in 1 .. n : 2 * i - 1 \in 1 .. 2 * n /\ 2 * i \in 1 .. 2 * n
    OBVIOUS
  <1> HIDE DEF s
  <1>12. /\ FlattenSeq(s) \in Seq(Nat) /\ Len(FlattenSeq(s)) = 2 * n
         /\ \A i \in 1 .. n : FlattenSeq(s)[2 * i - 1] = x[i] /\ FlattenSeq(s)[2 * i] = y[i]
    BY <1>2, <1>4, <1>10, <1>11
  <1> QED BY <1>12 DEF s

\* The text of an address: the digit of its type, then two for each octet.
LEMMA TextOfAddress ==
  ASSUME NEW kind \in {"IPv4", "IPv6"}, NEW a \in Nat
  PROVE  LET n == OctetsOf[kind]
             text == AddressText(kind, a)
             octet(i) == Octet(n, i, a)
         IN  /\ text \in Seq(Nat) /\ Len(text) = 2 * n + 1
             /\ text[1] = IF kind = "IPv4" THEN 4 ELSE 6
             /\ \A i \in 1 .. n : /\ text[2 * i] = octet(i) \div PowerOfTwo[DigitBits]
                                 /\ text[2 * i + 1] = octet(i) % PowerOfTwo[DigitBits]
  <1> DEFINE n == OctetsOf[kind]
             octet(i) == Octet(n, i, a)
             x == [i \in 1 .. n |-> octet(i) \div PowerOfTwo[DigitBits]]
             y == [i \in 1 .. n |-> octet(i) % PowerOfTwo[DigitBits]]
  <1>1. n \in Nat \ {0} /\ DigitBits \in Nat \ {0} /\ OctetBits \in Nat \ {0}
    BY EntityAssumption DEF OctetBits
  <1>2. \A i \in 1 .. n : octet(i) \in Nat
    BY <1>1, OctetType
  <1>3. x \in [1 .. n -> Nat] /\ y \in [1 .. n -> Nat]
    <2>1. PowerOfTwo[DigitBits] \in Nat \ {0}
      BY <1>1, PowersDouble
    <2> HIDE DEF octet
    <2>2. \A i \in 1 .. n : octet(i) \div PowerOfTwo[DigitBits] \in Nat
      BY <1>2, <2>1, DivisionTypes
    <2>3. \A i \in 1 .. n : octet(i) % PowerOfTwo[DigitBits] \in Nat
      BY <1>2, <2>1, DivisionTypes
    <2> QED BY <2>2, <2>3
  <1>4. PICK digits : digits = FlattenSeq([i \in 1 .. n |-> <<x[i], y[i]>>])
    OBVIOUS
  <1>5. AddressText(kind, a) = <<IF kind = "IPv4" THEN 4 ELSE 6>> \o digits
    <2>1. \A i \in 1 .. n : HexOctet(octet(i)) = <<x[i], y[i]>>
      BY DEF HexOctet
    <2>2. [i \in 1 .. n |-> HexOctet(octet(i))] = [i \in 1 .. n |-> <<x[i], y[i]>>]
      BY <2>1
    <2>3. AddressText(kind, a) = <<IF kind = "IPv4" THEN 4 ELSE 6>>
                                 \o FlattenSeq([i \in 1 .. n |-> HexOctet(octet(i))])
      BY DEF AddressText, Octet
    <2> QED BY <1>4, <2>2, <2>3
  <1> HIDE DEF x, y
  <1>6. /\ digits \in Seq(Nat) /\ Len(digits) = 2 * n
        /\ \A i \in 1 .. n : digits[2 * i - 1] = x[i] /\ digits[2 * i] = y[i]
    BY <1>1, <1>3, <1>4, FlattenedPairs
  <1>7. PICK first \in Nat : first = IF kind = "IPv4" THEN 4 ELSE 6
    OBVIOUS
  <1>8. /\ AddressText(kind, a) \in Seq(Nat)
        /\ Len(AddressText(kind, a)) = 2 * n + 1
        /\ AddressText(kind, a)[1] = first
        /\ \A j \in 1 .. 2 * n : AddressText(kind, a)[j + 1] = digits[j]
    <2>1. AddressText(kind, a) = <<first>> \o digits
      BY <1>5, <1>7
    <2>2. \A s \in Seq(Nat) : /\ <<first>> \o s \in Seq(Nat)
                             /\ Len(<<first>> \o s) = Len(s) + 1
                             /\ (<<first>> \o s)[1] = first
                             /\ \A j \in 1 .. Len(s) : (<<first>> \o s)[j + 1] = s[j]
      OBVIOUS
    <2> QED BY <1>1, <1>6, <2>1, <2>2
  <1>9. ASSUME NEW i \in 1 .. n
        PROVE  /\ AddressText(kind, a)[2 * i] = x[i]
               /\ AddressText(kind, a)[2 * i + 1] = y[i]
    <2>1. /\ 2 * i - 1 \in 1 .. 2 * n /\ 2 * i \in 1 .. 2 * n
          /\ (2 * i - 1) + 1 = 2 * i
      BY <1>1
    <2> QED BY <1>6, <1>8, <2>1
  <1> QED BY <1>7, <1>8, <1>9 DEF x, y

-----------------------------------------------------------------------------
(* The order of texts is the order of addresses *)

Differs(s, t, p) == /\ p \in DOMAIN s \cap DOMAIN t /\ s[p] < t[p]
                    /\ \A j \in 1 .. p - 1 : s[j] = t[j]

LEMMA DifferentTexts ==
  ASSUME NEW s \in Seq(Nat), NEW t \in Seq(Nat), NEW p, Differs(s, t, p)
  PROVE  TextLeq(s, t) /\ ~TextLeq(t, s)
  <1>1. /\ p \in 1 .. Len(s) /\ p \in 1 .. Len(t) /\ s[p] < t[p]
        /\ \A j \in 1 .. p - 1 : s[j] = t[j]
    BY DEF Differs
  <1>2. TextLeq(s, t)
    <2>1. SubSeq(s, 1, p - 1) = SubSeq(t, 1, p - 1)
      <3>1. p - 1 \in 0 .. Len(s) /\ p - 1 \in 0 .. Len(t)
        BY <1>1
      <3>2. SubSeq(s, 1, p - 1) = [j \in 1 .. p - 1 |-> s[j]]
        BY <3>1
      <3>3. SubSeq(t, 1, p - 1) = [j \in 1 .. p - 1 |-> t[j]]
        BY <3>1
      <3> QED BY <1>1, <3>2, <3>3
    <2> QED BY <1>1, <2>1 DEF TextLeq
  <1>3. ASSUME TextLeq(t, s)
        PROVE  FALSE
    <2>1. CASE IsPrefix(t, s)
      <3>1. Len(t) <= Len(s) /\ SubSeq(t, 1, Len(t)) = SubSeq(s, 1, Len(t))
        BY <2>1 DEF IsPrefix
      <3>2. SubSeq(t, 1, Len(t))[p] = t[p] /\ SubSeq(s, 1, Len(t))[p] = s[p]
        BY <1>1, <3>1
      <3> QED BY <1>1, <3>1, <3>2
    <2>2. CASE \E i \in DOMAIN t \cap DOMAIN s :
                 SubSeq(t, 1, i - 1) = SubSeq(s, 1, i - 1) /\ t[i] < s[i]
      <3>1. PICK i \in DOMAIN t \cap DOMAIN s :
              SubSeq(t, 1, i - 1) = SubSeq(s, 1, i - 1) /\ t[i] < s[i]
        BY <2>2
      <3>2. i \in 1 .. Len(s) /\ i \in 1 .. Len(t) /\ s[i] \in Nat /\ t[i] \in Nat
        BY <3>1
      <3>3. s[p] \in Nat /\ t[p] \in Nat
        BY <1>1
      <3>4. CASE i < p
        BY <1>1, <3>1, <3>2, <3>4
      <3>5. CASE i = p
        BY <1>1, <3>1, <3>3, <3>5
      <3>6. CASE i > p
        <4>1. SubSeq(t, 1, i - 1)[p] = t[p] /\ SubSeq(s, 1, i - 1)[p] = s[p]
          BY <1>1, <3>2, <3>6
        <4>2. t[p] = s[p]
          BY <3>1, <4>1
        <4> QED BY <1>1, <3>3, <4>2
      <3> QED BY <1>1, <3>2, <3>4, <3>5, <3>6
    <2> QED BY <1>3, <2>1, <2>2 DEF TextLeq
  <1> QED BY <1>2, <1>3

LEMMA SameText ==
  ASSUME NEW s \in Seq(Nat)
  PROVE  TextLeq(s, s)
  BY DEF TextLeq, IsPrefix

LEMMA SmallerAddress ==
  ASSUME NEW kind \in {"IPv4", "IPv6"}, NEW a \in Nat, NEW b \in Nat,
         a < b, b < PowerOfTwo[AddressBits(kind)]
  PROVE  \E p : Differs(AddressText(kind, a), AddressText(kind, b), p)
  <1> DEFINE n == OctetsOf[kind]
             s == AddressText(kind, a)
             t == AddressText(kind, b)
             w == PowerOfTwo[DigitBits]
  <1>1. n \in Nat \ {0} /\ w \in Nat \ {0}
    BY EntityAssumption, PowersDouble
  <1>2. PICK i \in 1 .. n : /\ Octet(n, i, a) < Octet(n, i, b)
                            /\ \A j \in 1 .. i - 1 : Octet(n, j, a) = Octet(n, j, b)
    BY <1>1, FirstDifference DEF AddressBits
  <1>3. /\ s \in Seq(Nat) /\ Len(s) = 2 * n + 1
        /\ s[1] = IF kind = "IPv4" THEN 4 ELSE 6
        /\ \A j \in 1 .. n : /\ s[2 * j] = Octet(n, j, a) \div w
                            /\ s[2 * j + 1] = Octet(n, j, a) % w
    BY TextOfAddress
  <1>4. /\ t \in Seq(Nat) /\ Len(t) = 2 * n + 1
        /\ t[1] = IF kind = "IPv4" THEN 4 ELSE 6
        /\ \A j \in 1 .. n : /\ t[2 * j] = Octet(n, j, b) \div w
                            /\ t[2 * j + 1] = Octet(n, j, b) % w
    BY TextOfAddress
  <1> HIDE DEF n, s, t, w
  <1>5. ASSUME NEW k \in 1 .. 2 * i - 1
        PROVE  s[k] = t[k]
    <2>1. CASE k = 1
      BY <1>3, <1>4, <2>1
    <2>2. CASE k # 1
      <3>1. PICK j \in 1 .. i - 1 : k = 2 * j \/ k = 2 * j + 1
        <4>1. k \div 2 \in 1 .. i - 1 /\ (k = 2 * (k \div 2) \/ k = 2 * (k \div 2) + 1)
          BY <1>1, <2>2
        <4> QED BY <4>1
      <3>2. j \in 1 .. n
        BY <1>1
      <3> QED BY <1>2, <1>3, <1>4, <3>1, <3>2
    <2> QED BY <2>1, <2>2
  <1>6. 2 * i \in DOMAIN s \cap DOMAIN t /\ 2 * i + 1 \in DOMAIN s \cap DOMAIN t
    BY <1>1, <1>3, <1>4
  <1>7. Octet(n, i, a) \in Nat /\ Octet(n, i, b) \in Nat
    BY <1>1, OctetType
  <1>8. Octet(n, i, a) \div w <= Octet(n, i, b) \div w
    BY <1>1, <1>2, <1>7, DividedMonotonic
  <1>9. CASE Octet(n, i, a) \div w = Octet(n, i, b) \div w
    <2>1. Octet(n, i, a) % w < Octet(n, i, b) % w
      BY <1>1, <1>2, <1>7, <1>9, LastDigit
    <2>2. s[2 * i + 1] < t[2 * i + 1]
      BY <1>3, <1>4, <2>1
    <2>3. \A j \in 1 .. (2 * i + 1) - 1 : j = 2 * i \/ j \in 1 .. 2 * i - 1
      OBVIOUS
    <2>4. s[2 * i] = t[2 * i]
      BY <1>3, <1>4, <1>9
    <2>5. Differs(s, t, 2 * i + 1)
      BY <1>5, <1>6, <2>2, <2>3, <2>4 DEF Differs
    <2> QED BY <2>5 DEF s, t
  <1>10. CASE Octet(n, i, a) \div w # Octet(n, i, b) \div w
    <2>1. s[2 * i] < t[2 * i]
      <3>1. Octet(n, i, a) \div w \in Nat /\ Octet(n, i, b) \div w \in Nat
        BY <1>1, <1>7, DivisionTypes
      <3>2. Octet(n, i, a) \div w < Octet(n, i, b) \div w
        BY <1>8, <1>10, <3>1
      <3> QED BY <1>3, <1>4, <3>2
    <2>2. Differs(s, t, 2 * i)
      BY <1>5, <1>6, <2>1 DEF Differs
    <2> QED BY <2>2 DEF s, t
  <1> QED BY <1>9, <1>10

LEMMA TextsInOrder ==
  ASSUME NEW kind \in {"IPv4", "IPv6"}, NEW a \in Nat, NEW b \in Nat,
         a < PowerOfTwo[AddressBits(kind)], b < PowerOfTwo[AddressBits(kind)]
  PROVE  TextLeq(AddressText(kind, a), AddressText(kind, b)) <=> a <= b
  <1> DEFINE s == AddressText(kind, a)
             t == AddressText(kind, b)
  <1>1. s \in Seq(Nat) /\ t \in Seq(Nat)
    BY TextOfAddress
  <1>2. CASE a < b
    <2>1. PICK p : Differs(s, t, p)
      BY <1>2, SmallerAddress
    <2> HIDE DEF s, t
    <2>2. TextLeq(s, t)
      BY <1>1, <2>1, DifferentTexts
    <2> QED BY <1>2, <2>2 DEF s, t
  <1>3. CASE b < a
    <2>1. PICK p : Differs(t, s, p)
      BY <1>3, SmallerAddress
    <2> HIDE DEF s, t
    <2>2. ~TextLeq(s, t)
      BY <1>1, <2>1, DifferentTexts
    <2> QED BY <1>3, <2>2 DEF s, t
  <1>4. CASE a = b
    BY <1>1, <1>4, SameText
  <1> QED BY <1>2, <1>3, <1>4

LEMMA FamiliesApart ==
  ASSUME NEW a \in Nat, NEW b \in Nat
  PROVE  ~TextLeq(AddressText("IPv6", b), AddressText("IPv4", a))
  <1> DEFINE s == AddressText("IPv4", a)
             t == AddressText("IPv6", b)
  <1>1. /\ s \in Seq(Nat) /\ Len(s) = 2 * OctetsOf["IPv4"] + 1 /\ s[1] = 4
        /\ t \in Seq(Nat) /\ Len(t) = 2 * OctetsOf["IPv6"] + 1 /\ t[1] = 6
    BY TextOfAddress
  <1>2. OctetsOf["IPv4"] \in Nat /\ OctetsOf["IPv6"] \in Nat
    BY EntityAssumption
  <1> HIDE DEF s, t
  <1>3. Differs(s, t, 1)
    <2>1. 1 \in DOMAIN s \cap DOMAIN t
      <3>1. Len(s) >= 1 /\ Len(t) >= 1
        <4>1. \A n \in Nat : 2 * n + 1 >= 1
          OBVIOUS
        <4> QED BY <1>1, <1>2, <4>1
      <3>2. DOMAIN s = 1 .. Len(s) /\ DOMAIN t = 1 .. Len(t) /\ Len(s) \in Nat /\ Len(t) \in Nat
        BY <1>1
      <3> QED BY <3>1, <3>2
    <2>2. s[1] < t[1]
      BY <1>1
    <2> QED BY <2>1, <2>2 DEF Differs
  <1>4. ~TextLeq(t, s)
    BY <1>1, <1>3, DifferentTexts
  <1> QED BY <1>4 DEF s, t

\* The columns of a range are the texts of its first and its last address.
LEMMA RangeTexts ==
  ASSUME NEW x, IsRange(x), IsParsed(x)
  PROVE  /\ x.kind \in {"IPv4", "IPv6"}
         /\ x.first \in Nat /\ last_address(x) \in Nat
         /\ x.first < PowerOfTwo[AddressBits(x.kind)]
         /\ last_address(x) < PowerOfTwo[AddressBits(x.kind)]
         /\ cidr_minmax(x).min = AddressText(x.kind, x.first)
         /\ cidr_minmax(x).max = AddressText(x.kind, last_address(x))
  <1>1. x.kind \in {"IPv4", "IPv6"}
    BY DEF IsRange
  <1>2. x.first \in Nat /\ x.length \in 0 .. AddressBits(x.kind)
        /\ last_address(x) < PowerOfTwo[AddressBits(x.kind)]
    BY DEF IsParsed
  <1>3. AddressBits(x.kind) \in Nat
    BY <1>1, EntityAssumption DEF AddressBits, OctetBits
  <1>4. PICK w \in Nat \ {0} : w = PowerOfTwo[AddressBits(x.kind) - x.length]
    BY <1>2, <1>3, PowersDouble
  <1>5. last_address(x) = x.first + w - 1
    BY <1>4 DEF last_address
  <1>6. PowerOfTwo[AddressBits(x.kind)] \in Nat
    BY <1>3, PowersDouble
  <1>7. last_address(x) \in Nat /\ x.first < PowerOfTwo[AddressBits(x.kind)]
    BY <1>2, <1>4, <1>5, <1>6
  <1> QED BY <1>1, <1>2, <1>7 DEF cidr_minmax

\* A range lies around another just if its columns do, by the order of texts.
LEMMA RangesByTexts ==
  ASSUME NEW e, NEW q, IsRange(e), IsRange(q), IsParsed(e), IsParsed(q)
  PROVE  (/\ TextLeq(cidr_minmax(e).min, cidr_minmax(q).min)
          /\ TextLeq(cidr_minmax(q).max, cidr_minmax(e).max))
         <=> e.kind = q.kind /\ e.first <= q.first /\ last_address(q) <= last_address(e)
  <1>1. ASSUME NEW x, IsRange(x), IsParsed(x)
        PROVE  /\ x.kind \in {"IPv4", "IPv6"}
               /\ x.first \in Nat /\ last_address(x) \in Nat
               /\ x.first < PowerOfTwo[AddressBits(x.kind)]
               /\ last_address(x) < PowerOfTwo[AddressBits(x.kind)]
               /\ cidr_minmax(x).min = AddressText(x.kind, x.first)
               /\ cidr_minmax(x).max = AddressText(x.kind, last_address(x))
    BY <1>1, RangeTexts
  <1>2. CASE e.kind = q.kind
    BY <1>1, <1>2, TextsInOrder
  <1>3. CASE e.kind # q.kind
    <2>1. CASE e.kind = "IPv6" /\ q.kind = "IPv4"
      BY <1>1, <2>1, FamiliesApart
    <2>2. CASE e.kind = "IPv4" /\ q.kind = "IPv6"
      BY <1>1, <2>2, FamiliesApart
    <2> QED BY <1>1, <1>3, <2>1, <2>2
  <1> QED BY <1>2, <1>3

-----------------------------------------------------------------------------
(* Domains *)

LEMMA SuffixByPosition ==
  ASSUME NEW S, NEW s \in Seq(S) \ {<<>>}, NEW t \in Seq(S)
  PROVE  IsSuffix(s, t) <=> \E i \in 1 .. Len(t) : s = SubSeq(t, i, Len(t))
  <1> DEFINE m == Len(s)
             n == Len(t)
             r == Reverse(s)
             u == Reverse(t)
  <1>1. m \in Nat \ {0} /\ n \in Nat
    OBVIOUS
  <1>2. /\ r = [i \in 1 .. m |-> s[m - i + 1]] /\ u = [i \in 1 .. n |-> t[n - i + 1]]
        /\ r \in Seq(S) /\ Len(r) = m /\ u \in Seq(S) /\ Len(u) = n
    <2>1. r = [i \in 1 .. m |-> s[m - i + 1]] /\ u = [i \in 1 .. n |-> t[n - i + 1]]
      BY DEF Reverse
    <2>2. r \in [1 .. m -> S]
      <3>1. \A i \in 1 .. m : m - i + 1 \in 1 .. m /\ s[m - i + 1] \in S
        BY <1>1
      <3> QED BY <2>1, <3>1
    <2>3. u \in [1 .. n -> S]
      <3>1. \A i \in 1 .. n : n - i + 1 \in 1 .. n /\ t[n - i + 1] \in S
        BY <1>1
      <3> QED BY <2>1, <3>1
    <2> HIDE DEF r, u
    <2> QED BY <1>1, <2>1, <2>2, <2>3
  <1> HIDE DEF r, u
  <1>3. IsSuffix(s, t) <=> m <= n /\ \A i \in 1 .. m : r[i] = u[i]
    <2>1. IsSuffix(s, t) <=> m <= n /\ SubSeq(r, 1, m) = SubSeq(u, 1, m)
      BY <1>2 DEF IsSuffix, IsPrefix, r, u
    <2>2. ASSUME m <= n
          PROVE  SubSeq(r, 1, m) = [i \in 1 .. m |-> r[i]] /\ SubSeq(u, 1, m) = [i \in 1 .. m |-> u[i]]
      BY <1>1, <1>2, <2>2
    <2>3. ASSUME m <= n, SubSeq(r, 1, m) = SubSeq(u, 1, m), NEW i \in 1 .. m
          PROVE  r[i] = u[i]
      BY <2>2, <2>3
    <2> QED BY <2>1, <2>2, <2>3
  <1>4. ASSUME IsSuffix(s, t)
        PROVE  \E i \in 1 .. n : s = SubSeq(t, i, n)
    <2> DEFINE k == n - m + 1
    <2>1. m <= n /\ k \in 1 .. n /\ n - k + 1 = m
      BY <1>1, <1>3, <1>4
    <2>2. SubSeq(t, k, n) \in Seq(S) /\ Len(SubSeq(t, k, n)) = m
          /\ \A j \in 1 .. m : SubSeq(t, k, n)[j] = t[k + j - 1]
      BY <1>1, <2>1
    <2>3. ASSUME NEW j \in 1 .. m
          PROVE  s[j] = t[k + j - 1]
      <3>1. m - j + 1 \in 1 .. m /\ m - (m - j + 1) + 1 = j /\ n - (m - j + 1) + 1 = k + j - 1
        BY <1>1
      <3>2. r[m - j + 1] = u[m - j + 1]
        BY <1>3, <1>4, <3>1
      <3>3. m - j + 1 \in 1 .. n
        BY <1>1, <2>1, <3>1
      <3>4. r[m - j + 1] = s[j] /\ u[m - j + 1] = t[k + j - 1]
        BY <1>2, <3>1, <3>3
      <3> QED BY <3>2, <3>4
    <2> HIDE DEF k
    <2>4. s = SubSeq(t, k, n)
      BY <1>1, <2>2, <2>3, SeqEqual
    <2> QED BY <2>1, <2>4
  <1>5. ASSUME NEW i \in 1 .. n, s = SubSeq(t, i, n)
        PROVE  IsSuffix(s, t)
    <2>1. m = n - i + 1 /\ m <= n /\ \A j \in 1 .. m : s[j] = t[i + j - 1]
      BY <1>1, <1>5
    <2>2. ASSUME NEW j \in 1 .. m
          PROVE  r[j] = u[j]
      <3>1. m - j + 1 \in 1 .. m /\ i + (m - j + 1) - 1 = n - j + 1 /\ j \in 1 .. n
        BY <1>1, <2>1
      <3>2. s[m - j + 1] = t[n - j + 1]
        BY <2>1, <3>1
      <3> QED BY <1>2, <3>1, <3>2
    <2> QED BY <1>3, <2>1, <2>2
  <1> QED BY <1>4, <1>5

KeyAt(labels, i) ==
    [kind |-> "Domain", labels |-> SubSeq(labels, i, Len(labels)),
     dot |-> IF i # 1 /\ i = Len(labels) THEN TRUE ELSE FALSE]

LEMMA FirstKey ==
  ASSUME NEW labels \in Seq(STRING) \ {<<>>}
  PROVE  1 \in 1 .. Len(labels) /\ KeyAt(labels, 1) = Domain(labels)
  <1>1. Len(labels) \in Nat \ {0}
    OBVIOUS
  <1>2. /\ SubSeq(labels, 1, Len(labels)) \in Seq(STRING)
        /\ Len(SubSeq(labels, 1, Len(labels))) = Len(labels)
        /\ \A j \in 1 .. Len(labels) : SubSeq(labels, 1, Len(labels))[j] = labels[j]
    BY <1>1
  <1>3. SubSeq(labels, 1, Len(labels)) = labels
    BY <1>2, SeqEqual
  <1>4. KeyAt(labels, 1) = Domain(labels)
    BY <1>3 DEF KeyAt, Domain
  <1>5. 1 \in 1 .. Len(labels)
    BY <1>1
  <1> QED BY <1>4, <1>5

\* The keys of a domain are its suffixes, the last with a dot if it is another.
LEMMA KeysOfDomain ==
  ASSUME NEW labels \in Seq(STRING) \ {<<>>}
  PROVE  DomainKeys(Domain(labels)) = {KeyAt(labels, i) : i \in 1 .. Len(labels)}
  <1> DEFINE n == Len(labels)
             d == Domain(labels)
             IsKeys(f) == f = [i \in 1 .. n |-> IF i = 1 THEN d ELSE SuperDomain(f[i - 1])]
  <1>1. n \in Nat \ {0} /\ DOMAIN d.labels = 1 .. n
    BY DEF Domain
  <1>2. KeyAt(labels, 1) = d
    BY FirstKey
  <1>3. ASSUME NEW i \in 2 .. n
        PROVE  KeyAt(labels, i) = SuperDomain(KeyAt(labels, i - 1))
    <2>1. PICK k : k = KeyAt(labels, i - 1)
      OBVIOUS
    <2>2. PICK t : t = SubSeq(labels, i - 1, n)
      OBVIOUS
    <2>3. PICK u : u = SubSeq(labels, i, n)
      OBVIOUS
    <2>4. k = [kind |-> "Domain", labels |-> t, dot |-> FALSE]
      <3>1. ~(i - 1 # 1 /\ i - 1 = Len(labels))
        BY <1>1
      <3>2. k = [kind |-> "Domain", labels |-> t,
                 dot |-> IF i - 1 # 1 /\ i - 1 = Len(labels) THEN TRUE ELSE FALSE]
        BY <2>1, <2>2 DEF KeyAt
      <3> QED BY <3>1, <3>2
    <2>5. t \in Seq(STRING) /\ Len(t) = n - i + 2 /\ \A j \in 1 .. n - i + 2 : t[j] = labels[i + j - 2]
      BY <1>1, <2>2
    <2>6. u \in Seq(STRING) /\ Len(u) = n - i + 1 /\ \A j \in 1 .. n - i + 1 : u[j] = labels[i + j - 1]
      BY <1>1, <2>3
    <2>7. Tail(t) = u
      <3>1. t # <<>> /\ Len(t) - 1 = n - i + 1
        BY <1>1, <2>5
      <3>2. Tail(t) \in Seq(STRING) /\ Len(Tail(t)) = Len(t) - 1
            /\ \A j \in 1 .. Len(t) - 1 : Tail(t)[j] = t[j + 1]
        BY <2>5, <3>1
      <3>3. ASSUME NEW j \in 1 .. n - i + 1
            PROVE  Tail(t)[j] = u[j]
        <4>1. j + 1 \in 1 .. n - i + 2 /\ i + (j + 1) - 2 = i + j - 1
          BY <1>1
        <4> QED BY <2>5, <2>6, <3>1, <3>2, <4>1
      <3> QED BY <2>6, <3>1, <3>2, <3>3, SeqEqual
    <2>8. SuperDomain(k) = [kind |-> "Domain", labels |-> u,
                            dot |-> IF i = n THEN TRUE ELSE FALSE]
      <3>1. Len(t) = 2 <=> i = n
        BY <1>1, <2>5
      <3>2. k.kind # "EMail" /\ k.labels = t /\ k.dot = FALSE
        BY <2>4
      <3>3. SuperDomain(k) = [Domain(u) EXCEPT !.dot = k.dot \/ Len(t) = 2]
        BY <2>7, <3>2 DEF SuperDomain
      <3>4. SuperDomain(k) = [kind |-> "Domain", labels |-> u, dot |-> k.dot \/ Len(t) = 2]
        BY <3>3 DEF Domain
      <3> QED BY <3>1, <3>2, <3>4
    <2>9. (i # 1 /\ i = Len(labels)) <=> i = n
      BY <1>1
    <2>10. KeyAt(labels, i) = [kind |-> "Domain", labels |-> u,
                               dot |-> IF i = n THEN TRUE ELSE FALSE]
      BY <2>3, <2>9 DEF KeyAt
    <2> QED BY <2>1, <2>8, <2>10
  <1>4. \E f : IsKeys(f)
    <2>1. PICK f : f = [i \in 1 .. n |-> KeyAt(labels, i)]
      OBVIOUS
    <2>2. \A i \in 1 .. n : KeyAt(labels, i) = IF i = 1 THEN d ELSE SuperDomain(f[i - 1])
      <3> SUFFICES ASSUME NEW i \in 1 .. n
                   PROVE  KeyAt(labels, i) = IF i = 1 THEN d ELSE SuperDomain(f[i - 1])
        OBVIOUS
      <3>1. CASE i = 1
        BY <1>2, <3>1
      <3>2. CASE i # 1
        <4>1. i \in 2 .. n /\ i - 1 \in 1 .. n
          BY <3>2
        <4> QED BY <1>3, <2>1, <3>2, <4>1
      <3> QED BY <3>1, <3>2
    <2> HIDE DEF d
    <2>3. IsKeys(f)
      BY <2>1, <2>2
    <2> QED BY <2>3
  <1>5. ASSUME NEW f, IsKeys(f)
        PROVE  \A i \in 1 .. n : f[i] = KeyAt(labels, i)
    <2> DEFINE S == {i \in Nat : i + 1 \in 1 .. n => f[i + 1] = KeyAt(labels, i + 1)}
    <2> HIDE DEF d
    <2>1. 0 \in S
      BY <1>2, <1>5
    <2>2. ASSUME NEW i \in Nat, i \in S
          PROVE  i + 1 \in S
      <3> SUFFICES ASSUME (i + 1) + 1 \in 1 .. n
                   PROVE  f[(i + 1) + 1] = KeyAt(labels, (i + 1) + 1)
        OBVIOUS
      <3>1. f[i + 1] = KeyAt(labels, i + 1)
        BY <2>2
      <3>2. (i + 1) + 1 \in 2 .. n /\ (i + 1) + 1 # 1 /\ ((i + 1) + 1) - 1 = i + 1
        OBVIOUS
      <3>3. f[(i + 1) + 1] = SuperDomain(f[i + 1])
        BY <1>5, <3>2
      <3> QED BY <1>3, <3>1, <3>2, <3>3
    <2>3. \A i \in Nat : i \in S
      <3> HIDE DEF S
      <3> QED BY <2>1, <2>2, AllNaturals
    <2> SUFFICES ASSUME NEW i \in 1 .. n
                 PROVE  f[i] = KeyAt(labels, i)
      OBVIOUS
    <2>4. i - 1 \in Nat /\ (i - 1) + 1 = i
      OBVIOUS
    <2> QED BY <2>3, <2>4
  <1>6. DomainKeys(d) = {(CHOOSE f : IsKeys(f))[i] : i \in 1 .. n}
    <2> HIDE DEF d
    <2> QED BY <1>1 DEF DomainKeys
  <1> HIDE DEF IsKeys
  <1>7. \A i \in 1 .. n : (CHOOSE f : IsKeys(f))[i] = KeyAt(labels, i)
    BY <1>4, <1>5
  <1> QED BY <1>6, <1>7

-----------------------------------------------------------------------------
(* Looking up *)

LEMMA KnownEntity ==
  ASSUME NEW e \in EntitySet
  PROVE  /\ IsParsed(e)
         /\ e.kind \in {"Domain", "EMail"} => e.labels \in Seq(STRING) \ {<<>>}
         /\ e.kind = "Domain" => e = Domain(e.labels)
  <1>1. IsParsed(e)
    BY TableAssumption
  <1> QED BY <1>1 DEF IsParsed

HasDomain(q) == q.kind \in {"EMail", "Domain"}

LEMMA LookupKeys ==
  ASSUME NEW q \in EntitySet, NEW e
  PROVE  e \in all_lookup_keys(q) <=>
           \/ e = q
           \/ q.kind = "EMail" /\ e = HashValue(q)
           \/ HasDomain(q) /\ \E k \in 1 .. Len(q.labels) : e = KeyAt(q.labels, k)
  <1>1. HasDomain(q) => q.labels \in Seq(STRING) \ {<<>>}
    BY KnownEntity DEF HasDomain
  <1>2. HasDomain(q) => DomainKeys(Domain(q.labels)) = {KeyAt(q.labels, k) : k \in 1 .. Len(q.labels)}
    BY <1>1, KeysOfDomain
  <1>3. CASE q.kind = "EMail"
    <2>1. all_lookup_keys(q) = {q, HashValue(q)} \cup DomainKeys(Domain(q.labels))
      BY <1>3 DEF all_lookup_keys, SuperDomain, hash_emails
    <2> QED BY <1>2, <1>3, <2>1 DEF HasDomain
  <1>4. CASE q.kind = "Domain"
    <2>1. q = Domain(q.labels)
      BY <1>4, KnownEntity
    <2>2. all_lookup_keys(q) = DomainKeys(q)
      BY <1>4 DEF all_lookup_keys
    <2>3. 1 \in 1 .. Len(q.labels) /\ q = KeyAt(q.labels, 1)
      BY <1>1, <1>4, <2>1, FirstKey DEF HasDomain
    <2> QED BY <1>2, <1>4, <2>1, <2>2, <2>3 DEF HasDomain
  <1>5. CASE q.kind \notin {"EMail", "Domain"}
    BY <1>5 DEF all_lookup_keys, HasDomain
  <1> QED BY <1>3, <1>4, <1>5

\* The columns for ranges, where a row has them, are those of its first entity.
LEMMA RowColumns ==
  ASSUME TableInv, NEW i \in RowIds
  PROVE  /\ statement[i].entity[1] \in EntitySet
         /\ statement[i].min # Null =>
              /\ IsRange(statement[i].entity[1])
              /\ statement[i].min = cidr_minmax(statement[i].entity[1]).min
              /\ statement[i].max = cidr_minmax(statement[i].entity[1]).max
  <1> DEFINE r == statement[i]
  <1>1. IsStored(r)
    BY DEF TableInv
  <1>2. r.entity[1] \in EntitySet
    BY <1>1, StoredInOrder DEF InOrder, Columns
  <1>3. [min |-> r.min, max |-> r.max] \in {NoRange, cidr_minmax(r.entity[1])}
    BY <1>1 DEF IsStored
  <1> HIDE DEF r
  <1>4. ASSUME r.min # Null
        PROVE  [min |-> r.min, max |-> r.max] = cidr_minmax(r.entity[1]) /\ IsRange(r.entity[1])
    <2>1. NoRange.min = Null
      BY DEF NoRange
    <2>2. [min |-> r.min, max |-> r.max].min = r.min
      OBVIOUS
    <2>3. [min |-> r.min, max |-> r.max] # NoRange
      BY <1>4, <2>1, <2>2
    <2>4. ~IsRange(r.entity[1]) => cidr_minmax(r.entity[1]) = NoRange
      BY DEF cidr_minmax
    <2> QED BY <1>3, <2>3, <2>4
  <1> QED BY <1>2, <1>4 DEF r

LEMMA FoundIsAbout ==
  ASSUME TableInv, NEW q \in EntitySet,
         NEW e \in all_lookup_keys(q), NEW i \in find_statements_referencing(e)
  PROVE  i \in RowIds /\ IsAboutDirectly(i, q)
  <1> DEFINE x == statement[i].entity[1]
  <1>1. i \in RowIds /\ (~IsRange(e) => x = e)
    BY DEF find_statements_referencing
  <1>2. x \in EntitySet
    BY <1>1, RowColumns
  <1>3. CASE e = q
    <2>1. CASE IsRange(q)
      <3>1. /\ statement[i].min # Null
            /\ TextLeq(statement[i].min, cidr_minmax(q).min)
            /\ TextLeq(cidr_minmax(q).max, statement[i].max)
        BY <1>3, <2>1 DEF find_statements_referencing
      <3>2. /\ IsRange(x)
            /\ statement[i].min = cidr_minmax(x).min
            /\ statement[i].max = cidr_minmax(x).max
        BY <1>1, <3>1, RowColumns
      <3>3. IsParsed(x) /\ IsParsed(q)
        BY <1>2, KnownEntity
      <3> HIDE DEF x
      <3>4. x.kind = q.kind /\ x.first <= q.first /\ last_address(q) <= last_address(x)
        BY <2>1, <3>1, <3>2, <3>3, RangesByTexts
      <3> QED BY <1>1, <2>1, <3>4 DEF IsAboutDirectly, IsAbout, x
    <2>2. CASE ~IsRange(q)
      BY <1>1, <1>3, <2>2 DEF IsAboutDirectly, IsAbout
    <2> QED BY <2>1, <2>2
  <1>4. CASE q.kind = "EMail" /\ e = HashValue(q)
    <2>1. ~IsRange(e)
      BY <1>4 DEF IsRange, HashValue
    <2> QED BY <1>1, <1>4, <2>1 DEF IsAboutDirectly, IsAbout
  <1>5. CASE HasDomain(q) /\ \E k \in 1 .. Len(q.labels) : e = KeyAt(q.labels, k)
    <2>1. PICK k \in 1 .. Len(q.labels) : e = KeyAt(q.labels, k)
      BY <1>5
    <2>2. e.kind = "Domain" /\ e.labels = SubSeq(q.labels, k, Len(q.labels))
      BY <2>1 DEF KeyAt
    <2>3. ~IsRange(e)
      BY <2>2 DEF IsRange
    <2>4. x = e
      BY <1>1, <2>3
    <2>5. x.dot = FALSE
      <3>1. x = Domain(x.labels)
        BY <1>2, <2>2, <2>4, KnownEntity
      <3> QED BY <3>1 DEF Domain
    <2>6. q.labels \in Seq(STRING) /\ x.labels \in Seq(STRING) \ {<<>>}
      BY <1>2, <1>5, <2>2, <2>4, KnownEntity DEF HasDomain
    <2> HIDE DEF x
    <2>7. IsSuffix(x.labels, q.labels)
      BY <2>1, <2>2, <2>4, <2>6, SuffixByPosition
    <2>8. Below(q.labels, x)
      BY <2>2, <2>4, <2>5, <2>7 DEF Below
    <2> QED BY <1>1, <1>5, <2>8 DEF IsAboutDirectly, IsAbout, HasDomain, x
  <1> QED BY <1>3, <1>4, <1>5, LookupKeys

LEMMA AboutIsFound ==
  ASSUME TableInv, NEW q \in EntitySet, NEW i \in RowIds,
         IsAboutDirectly(i, q), IsFindable(i),
         IsRange(statement[i].entity[1]) => statement[i].min # Null
  PROVE  \E e \in all_lookup_keys(q) : i \in find_statements_referencing(e)
  <1> DEFINE x == statement[i].entity[1]
  <1>1. x \in EntitySet /\ IsAbout(x, q)
    BY RowColumns DEF IsAboutDirectly
  <1>2. ASSUME NEW e, ~IsRange(e), x = e
        PROVE  i \in find_statements_referencing(e)
    BY <1>2 DEF find_statements_referencing
  <1>3. ASSUME IsRange(x), IsRange(q), x.kind = q.kind,
               x.first <= q.first, last_address(q) <= last_address(x)
        PROVE  q \in all_lookup_keys(q) /\ i \in find_statements_referencing(q)
    <2>1. /\ statement[i].min # Null
          /\ statement[i].min = cidr_minmax(x).min
          /\ statement[i].max = cidr_minmax(x).max
      BY <1>3, RowColumns
    <2>2. IsParsed(x) /\ IsParsed(q)
      BY <1>1, KnownEntity
    <2>3. TextLeq(cidr_minmax(x).min, cidr_minmax(q).min) /\ TextLeq(cidr_minmax(q).max, cidr_minmax(x).max)
      <3> HIDE DEF x
      <3> QED BY <1>3, <2>2, RangesByTexts
    <2> QED BY <1>3, <2>1, <2>3, LookupKeys DEF find_statements_referencing
  <1>4. CASE x = q
    <2>1. CASE IsRange(q)
      <3>1. q.first \in Nat /\ last_address(q) \in Nat
        BY <2>1, KnownEntity, RangeTexts
      <3>2. q.first <= q.first /\ last_address(q) <= last_address(q)
        BY <3>1
      <3> QED BY <1>3, <1>4, <2>1, <3>2
    <2>2. CASE ~IsRange(q)
      BY <1>2, <1>4, <2>2, LookupKeys
    <2> QED BY <2>1, <2>2
  <1>5. CASE q.kind = "EMail" /\ x = HashValue(q)
    <2>1. ~IsRange(HashValue(q))
      BY DEF IsRange, HashValue
    <2> QED BY <1>2, <1>5, <2>1, LookupKeys
  <1>6. CASE HasDomain(q) /\ Below(q.labels, x)
    <2>1. x.kind = "Domain" /\ IsSuffix(x.labels, q.labels)
      BY <1>6 DEF Below
    <2>2. /\ q.labels \in Seq(STRING) /\ x.labels \in Seq(STRING) \ {<<>>}
          /\ x = Domain(x.labels)
      BY <1>1, <1>6, <2>1, KnownEntity DEF HasDomain
    <2>3. Len(x.labels) # 1
      BY <2>1 DEF IsFindable
    <2> HIDE DEF x
    <2>4. PICK k \in 1 .. Len(q.labels) : x.labels = SubSeq(q.labels, k, Len(q.labels))
      BY <2>1, <2>2, SuffixByPosition
    <2>5. k # Len(q.labels)
      BY <2>2, <2>3, <2>4
    <2>6. KeyAt(q.labels, k) = x
      BY <2>2, <2>4, <2>5 DEF KeyAt, Domain
    <2>7. ~IsRange(x)
      BY <2>1 DEF IsRange
    <2> QED BY <1>2, <1>6, <2>6, <2>7, LookupKeys
  <1>7. CASE IsRange(q) /\ x.kind = q.kind /\ x.first <= q.first /\ last_address(q) <= last_address(x)
    BY <1>3, <1>7 DEF IsRange
  <1> QED BY <1>1, <1>4, <1>5, <1>6, <1>7 DEF IsAbout, HasDomain

\* The rows named in the table of autonomous systems and found for q.
LEMMA AskedNetworks ==
  ASSUME NEW q, NEW i
  PROVE  i \in find_statements_about(q) <=>
           \/ \E e \in all_lookup_keys(q) : i \in find_statements_referencing(e)
           \/ \E a : /\ \E e \in all_lookup_keys(q) : a \in find_statements_referencing(e)
                   /\ statement[a].name = "asn" /\ statement[a].entity[2] # Null
                   /\ i \in find_statements_referencing(statement[a].entity[2])
  BY DEF find_statements_about

LEMMA SecondEntity ==
  ASSUME TableInv, NEW a \in RowIds, statement[a].entity[2] # Null
  PROVE  statement[a].entity[2] \in EntitySet
  <1>1. statement[a].entity \in [Columns -> EntitySet \cup {Null}]
    BY DEF TableInv, IsStored
  <1> QED BY <1>1 DEF Columns

\* A look-up finds nothing that does not concern the entity (all_lookup_keys,
\* cidr_minmax and find_statements_about).
THEOREM NothingForeignIsFound == Spec => []NothingForeignFound
  <1>1. TableInv => NothingForeignFound
    <2> SUFFICES ASSUME TableInv, NEW q \in Queries, NEW i \in find_statements_about(q)
                 PROVE  IsAboutDirectly(i, q) \/ \E a \in RowIds : IsAboutNetwork(i, q, a)
      BY DEF NothingForeignFound
    <2>1. q \in EntitySet
      BY TableAssumption
    <2>2. CASE \E e \in all_lookup_keys(q) : i \in find_statements_referencing(e)
      BY <2>1, <2>2, FoundIsAbout
    <2>3. CASE \E a : /\ \E e \in all_lookup_keys(q) : a \in find_statements_referencing(e)
                    /\ statement[a].name = "asn" /\ statement[a].entity[2] # Null
                    /\ i \in find_statements_referencing(statement[a].entity[2])
      <3>1. PICK a : /\ \E e \in all_lookup_keys(q) : a \in find_statements_referencing(e)
                     /\ statement[a].name = "asn" /\ statement[a].entity[2] # Null
                     /\ i \in find_statements_referencing(statement[a].entity[2])
        BY <2>3
      <3>2. a \in RowIds /\ IsAboutDirectly(a, q)
        BY <2>1, <3>1, FoundIsAbout
      <3>3. PICK n \in EntitySet : n = statement[a].entity[2]
        BY <3>1, <3>2, SecondEntity
      <3>4. n \in all_lookup_keys(n)
        BY LookupKeys
      <3>5. IsAboutDirectly(i, n)
        BY <3>1, <3>3, <3>4, FoundIsAbout
      <3> QED BY <3>1, <3>2, <3>3, <3>5 DEF IsAboutNetwork
    <2> QED BY <2>2, <2>3, AskedNetworks
  <1> QED BY <1>1, TableInvariant, PTL

\* A look-up misses nothing that concerns the entity or its autonomous systems,
\* but for statements on top-level domains (Entity::domain adds a dot).
THEOREM NothingIsMissed == Spec => []NothingMissed
  <1>1. TableInv => NothingMissed
    <2> SUFFICES ASSUME TableInv, Indexed, NEW q \in Queries, NEW i \in RowIds, IsFindable(i),
                        \/ IsAboutDirectly(i, q)
                        \/ \E a \in RowIds : /\ IsFindable(a) /\ IsAboutNetwork(i, q, a)
                                             /\ statement[a].entity[2].kind = "AS"
                 PROVE  i \in find_statements_about(q)
      BY DEF NothingMissed
    <2>1. q \in EntitySet
      BY TableAssumption
    <2>2. \A j \in RowIds : IsRange(statement[j].entity[1]) => statement[j].min # Null
      BY DEF Indexed
    <2>3. CASE IsAboutDirectly(i, q)
      BY <2>1, <2>2, <2>3, AboutIsFound, AskedNetworks
    <2>4. CASE \E a \in RowIds : /\ IsFindable(a) /\ IsAboutNetwork(i, q, a)
                                /\ statement[a].entity[2].kind = "AS"
      <3>1. PICK a \in RowIds : /\ IsFindable(a) /\ IsAboutNetwork(i, q, a)
                                /\ statement[a].entity[2].kind = "AS"
        BY <2>4
      <3>2. /\ statement[a].name = "asn" /\ statement[a].entity[2] # Null
            /\ IsAboutDirectly(a, q) /\ IsAboutDirectly(i, statement[a].entity[2])
        BY <3>1 DEF IsAboutNetwork
      <3>3. \E e \in all_lookup_keys(q) : a \in find_statements_referencing(e)
        BY <2>1, <2>2, <3>1, <3>2, AboutIsFound
      <3>4. PICK n \in EntitySet : n = statement[a].entity[2]
        BY <3>2, SecondEntity
      <3>5. PICK e \in all_lookup_keys(n) : i \in find_statements_referencing(e)
        BY <2>2, <3>2, <3>4, AboutIsFound
      <3>6. e = n
        BY <3>1, <3>4, LookupKeys DEF HasDomain
      <3> QED BY <3>2, <3>3, <3>4, <3>5, <3>6, AskedNetworks
    <2> QED BY <2>3, <2>4
  <1> QED BY <1>1, TableInvariant, PTL
=============================================================================
