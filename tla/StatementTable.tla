--------------------------- MODULE StatementTable ---------------------------
(***************************************************************************)
(* The table of statements as its rows really are (src/storage): a name,   *)
(* up to four entity columns of which unused ones are null, and the two    *)
(* columns by which address ranges are found.  Storage models when rows    *)
(* come, go and are cached; here a call is one step, and the question is   *)
(* which row a statement is stored in and which rows a look-up finds.      *)
(*                                                                         *)
(* The rows of the predefined templates are left out: a template is        *)
(* accepted anyway, and statements naming signers belong to Storage.       *)
(***************************************************************************)
EXTENDS Entities

CONSTANTS
    EntitySet,    \* bound: the entities that occur
    Templates,    \* the templates there are
    Statements,   \* bound: the statements that arrive or are typed in
    Databases,    \* bound: the tables the node may start with
    Queries,      \* bound: the entities looked up
    MaxId,        \* bound: row ids
    MaxRestarts,  \* bound: how often the node is restarted
    MaxGone       \* bound: how many rows are deleted at a restart

VARIABLES
    statement,  \* table: row id -> row, or Null
    templates,  \* cache: row id -> template, or Null
    loop,       \* is the event loop running, or has it panicked?
    restarts

vars == <<statement, templates, loop, restarts>>

Ids == 1 .. MaxId
Columns == 1 .. 4

TemplateStatement(t) == [name |-> "template", entities |-> <<t>>]

RowIds == {i \in Ids : statement[i] # Null}

\* The entity columns of a statement: the first four entities, then nulls.
EntityColumns(s) ==
    [i \in Columns |-> IF i \in DOMAIN s.entities THEN s.entities[i] ELSE Null]

RowOf(s) ==
    LET cidr == cidr_minmax(s.entities[1])
    IN  [name |-> s.name, entity |-> EntityColumns(s), min |-> cidr.min, max |-> cidr.max]

\* convert: what a row says.
Said(r) ==
    LET given(k) == IF r.entity[k] = Null THEN <<>> ELSE <<r.entity[k]>>
    IN  [name |-> r.name, entities |-> given(1) \o given(2) \o given(3) \o given(4)]

IsTemplateRow(r) == r.name = "template" /\ r.entity[1].kind = "Template"

\* A row that was stored: its columns are what some template asks for, and the
\* columns for ranges are missing or those of its first entity.
IsStored(r) ==
    /\ r.entity \in [Columns -> EntitySet \cup {Null}]
    /\ \E t \in Templates :
          /\ r.name = t.name
          /\ \A k \in Columns : IF k \in DOMAIN t.types
                                THEN r.entity[k] # Null /\ r.entity[k].kind \in t.types[k]
                                ELSE r.entity[k] = Null
    /\ [min |-> r.min, max |-> r.max] \in {NoRange, cidr_minmax(r.entity[1])}

SameColumns(r, x) == r.name = x.name /\ r.entity = x.entity

\* The tables to start with are such as the program leaves behind.
ASSUME TableAssumption ==
    /\ MaxId \in Nat
    /\ MaxRestarts \in Nat
    /\ MaxGone \in Nat
    /\ Null \notin EntitySet
    /\ \A e \in EntitySet :
          /\ IsParsed(e)
          /\ hash_emails(e) \in EntitySet
          /\ e.kind = "Template" => e \in Templates
    /\ Queries \subseteq EntitySet
    /\ RootTemplate \in Templates
    /\ \A t \in Templates :
          /\ t = Template(t.name, t.types)
          /\ t.types \in Seq(SUBSET STRING) \ {<<>>}
    /\ Statements \subseteq [name : STRING, entities : Seq(EntitySet) \ {<<>>}]
    /\ \A db \in Databases :
          /\ DOMAIN db = Ids
          /\ \A i \in Ids : db[i] # Null => IsStored(db[i])
          /\ \A i, j \in Ids :
                db[i] # Null /\ db[j] # Null /\ SameColumns(db[i], db[j]) => i = j

-----------------------------------------------------------------------------
(* Storing a statement *)

has_matching_template(s) ==
    \/ \E t \in Templates : s = TemplateStatement(t)
    \/ \E i \in Ids : templates[i] # Null /\ matches_template(s, templates[i])

\* Mutants of try_select_statement: null is compared with, and so is never
\* equal; the second column is forgotten; the third entity is bound to the
\* second's value, as the fourth is to the third's.
SelectNull(s) ==
    LET c == EntityColumns(s)
    IN  {i \in RowIds : statement[i].name = s.name
                        /\ \A k \in Columns : c[k] # Null /\ statement[i].entity[k] = c[k]}
SelectFirst(s) ==
    LET c == EntityColumns(s)
    IN  {i \in RowIds : statement[i].name = s.name
                        /\ \A k \in {1, 3} : c[k] # Null => statement[i].entity[k] = c[k]}

SelectShifted(s) ==
    LET c == EntityColumns(s)
        bound == [k \in Columns |-> IF k > 2 /\ c[k] # Null THEN c[k - 1] ELSE c[k]]
    IN  {i \in RowIds : /\ statement[i].name = s.name
                        /\ \A k \in Columns : bound[k] # Null => statement[i].entity[k] = bound[k]}

\* Only columns the statement has are compared, and the value bound for the
\* fourth is the third entity.
try_select_statement(s) ==
    LET c == EntityColumns(s)
        bound == [c EXCEPT ![4] = IF @ = Null THEN Null ELSE c[3]]
    IN  {i \in RowIds : /\ statement[i].name = s.name
                        /\ \A k \in Columns : bound[k] # Null => statement[i].entity[k] = bound[k]}

\* unique(name, entity_1, ..., entity_4): a row with a null equals no other.
IsConstrained(s) ==
    \E i \in RowIds : /\ statement[i].name = s.name
                      /\ statement[i].entity = EntityColumns(s)
                      /\ Null \notin {EntityColumns(s)[k] : k \in Columns}

IsNewRowId(id) ==
    /\ \A i \in RowIds : i < id
    /\ id - 1 \in Ids => id - 1 \in RowIds

try_insert_statement(s, id) ==
    /\ ~IsConstrained(s)
    /\ IsNewRowId(id)
    /\ statement' = [statement EXCEPT ![id] = RowOf(s)]

persist(s) ==
    /\ loop = "running"
    /\ has_matching_template(s)
    /\ \E id \in Ids :
          /\ IF try_select_statement(s) # {}
             THEN id \in try_select_statement(s) /\ UNCHANGED statement
             ELSE try_insert_statement(s, id)
          /\ templates' = [templates EXCEPT ![id] =
                IF s.name = "template" /\ s.entities[1].kind = "Template"
                THEN s.entities[1] ELSE @]
    /\ UNCHANGED <<loop, restarts>>

\* Neither selected nor inserted nor selected again: panic!
PersistPanics(s) ==
    /\ loop = "running"
    /\ has_matching_template(s)
    /\ try_select_statement(s) = {}
    /\ IsConstrained(s)
    /\ loop' = "panicked"
    /\ UNCHANGED <<statement, templates, restarts>>

hash_emails_in(s) ==
    [s EXCEPT !.entities = [i \in DOMAIN s.entities |-> hash_emails(s.entities[i])]]

\* persist_statement_hashing_emails: a statement that no template accepts is
\* tried again with its e-mail addresses hashed.
HashingEmails(s) == IF has_matching_template(s) THEN s ELSE hash_emails_in(s)

PeerStatement(s) == persist(s) \/ PersistPanics(s)
UserStatement(s) == persist(HashingEmails(s)) \/ PersistPanics(HashingEmails(s))

-----------------------------------------------------------------------------
(* Looking up *)

\* Mutant of find_statements_referencing: ranges that begin in the range asked for.
FindWithin(e) ==
    LET cidr == cidr_minmax(e)
    IN  IF IsRange(e)
        THEN {i \in RowIds : /\ statement[i].min # Null
                             /\ TextLeq(cidr.min, statement[i].min)
                             /\ TextLeq(statement[i].min, cidr.max)}
        ELSE {i \in RowIds : statement[i].entity[1] = e}

find_statements_referencing(e) ==
    LET cidr == cidr_minmax(e)
    IN  IF IsRange(e)
        THEN {i \in RowIds : /\ statement[i].min # Null
                             /\ TextLeq(statement[i].min, cidr.min)
                             /\ TextLeq(cidr.max, statement[i].max)}
        ELSE {i \in RowIds : statement[i].entity[1] = e}

\* What is found under a key of the entity, and what is found under the
\* autonomous systems named by that.
find_statements_about(q) ==
    LET found == UNION {find_statements_referencing(e) : e \in all_lookup_keys(q)}
        asns == {statement[i].entity[2] : i \in {x \in found : statement[x].name = "asn"}} \ {Null}
    IN  found \cup UNION {find_statements_referencing(e) : e \in asns}

-----------------------------------------------------------------------------
(* Maintenance *)

\* "!fix-cidr" is typed in.
fix_cidr ==
    /\ loop = "running"
    /\ statement' = [i \in Ids |->
          IF i \in RowIds /\ IsRange(statement[i].entity[1])
          THEN RowOf(Said(statement[i]))
          ELSE statement[i]]
    /\ UNCHANGED <<templates, loop, restarts>>

\* Caches are filled, then the statements without opinions are deleted.
Restart(gone) ==
    /\ restarts < MaxRestarts
    /\ restarts' = restarts + 1
    /\ templates' = [i \in Ids |->
          IF i \in RowIds /\ IsTemplateRow(statement[i]) THEN statement[i].entity[1] ELSE Null]
    /\ statement' = [i \in Ids |-> IF i \in gone THEN Null ELSE statement[i]]
    /\ loop' = "running"

Init ==
    /\ statement \in Databases
    /\ templates = [i \in Ids |->
          IF i \in RowIds /\ IsTemplateRow(statement[i]) THEN statement[i].entity[1] ELSE Null]
    /\ loop = "running"
    /\ restarts = 0

Next ==
    \/ \E s \in Statements : PeerStatement(s) \/ UserStatement(s)
    \/ fix_cidr
    \/ \E n \in 0 .. MaxGone : \E gone \in kSubset(n, RowIds) : Restart(gone)

Spec == Init /\ [][Next]_vars
-----------------------------------------------------------------------------
(* Properties *)

\* No statement is in the table twice: the unique constraint does not see to
\* it, as a null equals no null, but looking before inserting does.
StatementsUnique ==
    \A i, j \in RowIds : Said(statement[i]) = Said(statement[j]) => i = j

\* The templates of a name agree on the number of entities, three at most.
HasOneArity(n) ==
    \A t, u \in Templates :
        t.name = n /\ u.name = n => Len(t.types) = Len(u.types) /\ Len(t.types) <= 3

\* The row found for a statement, to which opinions on it are then attached, is
\* the statement's and not another's, whatever else is stored under the name -
\* provided that the templates of the name agree on a number of entities.
RowFoundSaysIt ==
    \A s \in Statements \cup {hash_emails_in(s) : s \in Statements} :
        has_matching_template(s) /\ HasOneArity(s.name)
        => \A i \in try_select_statement(s) : Said(statement[i]) = s

\* The fourth entity of a row is the third again, or there is none.
IsBoundRight(r) == r.entity[4] \in {Null, r.entity[3]}

\* What is in the table is found there when it is said again, whatever has been
\* stored, rewritten and deleted since: the opinions on a statement come together
\* in one row.  Rows whose fourth entity is not the third again are not found,
\* and panic!("could not insert statement") is reached only while there is one.
RepetitionsFindTheirRow ==
    /\ \A i \in RowIds : IsBoundRight(statement[i])
                        => i \in try_select_statement(Said(statement[i]))
    /\ loop = "panicked" => \E i \in RowIds : ~IsBoundRight(statement[i])

\* An e-mail address is stored unhashed only where a template asks for one.
EMailsCloaked ==
    \A i \in RowIds, k \in Columns :
        LET e == statement[i].entity[k]
        IN  e # Null /\ e.kind = "EMail"
            => \E t \in Templates : /\ t.name = statement[i].name
                                    /\ k \in DOMAIN t.types /\ "EMail" \in t.types[k]

\* Row i concerns q itself, or a network to which row a says that q belongs.
IsAboutDirectly(i, q) == IsAbout(statement[i].entity[1], q)
IsAboutNetwork(i, q, a) ==
    /\ statement[a].name = "asn" /\ statement[a].entity[2] # Null
    /\ IsAboutDirectly(a, q)
    /\ IsAboutDirectly(i, statement[a].entity[2])

\* A look-up finds nothing that does not concern the entity: hashes, domains
\* above it, ranges around it by the order of their texts.
NothingForeignFound ==
    \A q \in Queries : \A i \in find_statements_about(q) :
        IsAboutDirectly(i, q) \/ \E a \in RowIds : IsAboutNetwork(i, q, a)

\* Statements on top-level domains are looked for under another text.
IsFindable(i) ==
    LET e == statement[i].entity[1]
    IN  ~(e.kind = "Domain" /\ Len(e.labels) = 1)

\* Have all ranges their columns?  Rows of old databases may lack them.
Indexed == \A i \in RowIds : IsRange(statement[i].entity[1]) => statement[i].min # Null

\* A look-up misses nothing that concerns the entity or its autonomous systems,
\* once fix-cidr has run on an old database, and leaving aside statements on
\* top-level domains.
NothingMissed ==
    Indexed =>
    \A q \in Queries, i \in {x \in RowIds : IsFindable(x)} :
        \/ IsAboutDirectly(i, q)
        \/ \E a \in RowIds : /\ IsFindable(a) /\ IsAboutNetwork(i, q, a)
                             /\ statement[a].entity[2].kind = "AS"
        => i \in find_statements_about(q)

=============================================================================
