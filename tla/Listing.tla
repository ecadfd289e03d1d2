------------------------------- MODULE Listing -------------------------------
(***************************************************************************)
(* What a node reads off its rows for its peers (src/storage/mod.rs): the  *)
(* sync infos of a date, and the signed statements of a name and date.     *)
(* Both queries fetch statements joined with opinions and gather rows that *)
(* follow each other, so that what they return hangs on the order of rows. *)
(* Rows of one opinion have other ids in every replica.                    *)
(*                                                                         *)
(* ReputationNet takes an info for the set of opinions it is made of, and  *)
(* an answer for the set of opinions in it; here both are made from rows.  *)
(* Names and signatures stand for texts by their place in the order of     *)
(* texts.  A digest is the list of what was hashed: SHA-256 is taken to    *)
(* have no collisions.                                                     *)
(***************************************************************************)
EXTENDS Naturals, SequencesExt, FiniteSetsExt

CONSTANTS
    Replicas,
    Opinions,   \* bound: the opinions there may be: [statement, signer, date]
    signature,  \* of an opinion
    Null,       \* no row
    MaxId       \* bound: row ids of the statement table

VARIABLES
    statement,  \* table of a replica: row id -> statement, or Null
    opinion     \* table of a replica: set of rows

vars == <<statement, opinion>>

Statements == {o.statement : o \in Opinions}
Names == {s.name : s \in Statements}
Dates == {o.date : o \in Opinions}
Ids == 1 .. MaxId

ASSUME ListingAssumption ==
    /\ IsFiniteSet(Opinions)
    /\ \A o \in Opinions : o = [statement |-> o.statement, signer |-> o.signer, date |-> o.date]
    /\ Names \cup Dates \subseteq Nat
    /\ signature \in [Opinions -> Nat]
    /\ \A o, p \in Opinions : signature[o] = signature[p] => o = p
    /\ Null \notin Statements
    /\ MaxId \in Nat

-----------------------------------------------------------------------------
(* Queries *)

\* What the opinions in the rows of a replica say (from_using_storage), with the ids.
Joined(r) ==
    {[id |-> o.statement_id, statement |-> statement[r][o.statement_id],
      name |-> statement[r][o.statement_id].name,
      signer |-> o.signer, date |-> o.date] : o \in opinion[r]}

Said(row) == [statement |-> row.statement, signer |-> row.signer, date |-> row.date]

\* The orders in which rows may be fetched, where a query asks for an order.
Fetched(rows, InOrder(_, _)) ==
    {q \in SetToSeqs(rows) : \A i, j \in DOMAIN q : i < j => InOrder(q[i], q[j])}

\* A row is put to those just before it if it agrees with them in a field.
Put(groups, row, field) ==
    IF groups # <<>> /\ Head(Last(groups))[field] = row[field]
    THEN Append(Front(groups), Append(Last(groups), row))
    ELSE Append(groups, <<row>>)

\* Rows as they are gathered one after the other.
Groups(q, field) ==
    LET groups[n \in 0 .. Len(q)] ==
            IF n = 0 THEN <<>> ELSE Put(groups[n - 1], q[n], field)
    IN  groups[Len(q)]

\* Mutant of ByStatement: "order by" is left out.
ByNothing(row, next) == TRUE

ByStatement(row, next) == row.id <= next.id

\* The answers there may be: lists of statements with their opinions.
list_statements_named_signed(r, name, date) ==
    {[i \in DOMAIN groups |->
        [statement |-> Head(groups[i]).statement,
         opinions |-> [j \in DOMAIN groups[i] |-> Said(groups[i][j])]]] :
     groups \in {Groups(q, "id") :
        q \in Fetched({row \in Joined(r) : row.statement.name = name /\ row.date = date}, ByStatement)}}

ByNameAndSignature(row, next) ==
    \/ row.statement.name < next.statement.name
    \/ /\ row.statement.name = next.statement.name
       /\ signature[Said(row)] <= signature[Said(next)]

SyncInfo(group) ==
    [count |-> Len(group), hash |-> [i \in DOMAIN group |-> signature[Said(group[i])]]]

\* The infos there may be: of two groups of a name the later would count.
get_sync_infos(r, date) ==
    {[name \in {Head(groups[i]).statement.name : i \in DOMAIN groups} |->
        SyncInfo(groups[Max({i \in DOMAIN groups : Head(groups[i]).statement.name = name})])] :
     groups \in {Groups(q, "name") :
        q \in Fetched({row \in Joined(r) : row.date = date}, ByNameAndSignature)}}

\* Mutant of suggests_update: only numbers are compared.
counts_less(own, other) == own.count < other.count

suggests_update(own, other) ==
    \/ own.count < other.count
    \/ own.count = other.count /\ own.hash # other.hash

\* add_infos: is a name to be asked for?
Wanted(own, other, name) ==
    /\ name \in DOMAIN other
    /\ name \in DOMAIN own => suggests_update(own[name], other[name])

-----------------------------------------------------------------------------
(* The tables *)

Row(o, id) == [statement_id |-> id, signer |-> o.signer, date |-> o.date]

\* persist: the row of a statement, or a new one behind the last.
RowFor(r, s, id) ==
    \/ statement[r][id] = s
    \/ /\ s \notin Range(statement[r])
       /\ id = Max({0} \cup {i \in Ids : statement[r][i] # Null}) + 1

\* persist and persist_opinion: an opinion replaces an older one of its signer.
Persist(r, o) ==
    \E id \in Ids :
        LET previous == {p \in opinion[r] : p.statement_id = id /\ p.signer = o.signer}
        IN  /\ RowFor(r, o.statement, id)
            /\ statement' = [statement EXCEPT ![r][id] = o.statement]
            /\ opinion' = [opinion EXCEPT ![r] =
                  IF \A p \in previous : p.date < o.date
                  THEN (@ \ previous) \cup {Row(o, id)} ELSE @]

\* cleanup: opinions of before a date go, and the statements they leave.
Cleanup(r, date) ==
    LET left == {o \in opinion[r] : o.date >= date}
    IN  /\ opinion' = [opinion EXCEPT ![r] = left]
        /\ statement' = [statement EXCEPT ![r] =
              [id \in Ids |-> IF id \in {o.statement_id : o \in left} THEN @[id] ELSE Null]]

Init ==
    /\ statement = [r \in Replicas |-> [id \in Ids |-> Null]]
    /\ opinion = [r \in Replicas |-> {}]

Next ==
    \E r \in Replicas :
        \/ \E o \in Opinions : Persist(r, o)
        \/ \E date \in Dates : Cleanup(r, date)

Spec == Init /\ [][Next]_vars

-----------------------------------------------------------------------------
(* Properties *)

Holds(r, name, date) ==
    {o \in {Said(row) : row \in Joined(r)} : o.statement.name = name /\ o.date = date}

\* Where replicas differ one of them asks the other when told, and where they
\* are the same neither does, however their rows came about: SyncInfo hashes
\* signatures in an order that does not hang on row ids (add_infos, suggests_update).
DifferenceAskedFor ==
    \A r, q \in Replicas, date \in Dates :
        \A own \in get_sync_infos(r, date), other \in get_sync_infos(q, date), name \in Names :
            (Holds(r, name, date) # Holds(q, name, date))
            <=> Wanted(own, other, name) \/ Wanted(other, own, name)

\* An answer names each statement once, with all opinions of the date on it and
\* no others: none is lost or put to the statement of another row.
AnswersWhole ==
    \A r \in Replicas, name \in Names, date \in Dates :
        \A list \in list_statements_named_signed(r, name, date) :
            /\ \A i, j \in DOMAIN list : list[i].statement = list[j].statement => i = j
            /\ \A i \in DOMAIN list : \A j \in DOMAIN list[i].opinions :
                  list[i].opinions[j].statement = list[i].statement
            /\ UNION {Range(list[i].opinions) : i \in DOMAIN list} = Holds(r, name, date)
=============================================================================
