------------------------------ MODULE Storage -------------------------------
(***************************************************************************)
(* The storage of one node (src/storage): the SQLite tables of statements, *)
(* opinions and the private key, the in-memory caches of templates and     *)
(* signers, the start-up sequence of Storage::new, and the calls persist   *)
(* and persist_opinion through which every change is made.                 *)
(*                                                                         *)
(* A step is one committed database transaction together with the reads    *)
(* and cache updates around it, since a crash can only fall between two    *)
(* commits.  The write lock held around the calls leaves one call in       *)
(* progress at a time.  A statement is abstracted to its name and one      *)
(* entity, a name to the one template whose statements bear it.            *)
(***************************************************************************)
EXTENDS Opinions, Sequences

CONSTANTS
    RootTemplate,    \* template(Template)
    SignerTemplate,  \* signer(Signer)
    DataTemplates,   \* the templates users add
    Entities,        \* what data statements are about
    Keys,            \* public keys: the node's own and other nodes'
    OwnKeys,         \* the keys this node may generate
    Null,            \* no row, no cached value, no key yet
    Inputs,          \* bound: the statements that arrive or are typed in
    Batches,         \* bound: the lists of signed opinions they arrive with, if any
    DefaultValid,    \* validity of the node's own opinions (30 in the code)
    MaxId,           \* bound: row ids of the statement table
    MaxCrashes,      \* bound: how often the process dies
    CrashDuringReplace  \* may it die between deleting and inserting an opinion?

VARIABLES
    statement,    \* table: row id -> statement, or Null
    opinion,      \* table: the set of opinion rows
    private_key,  \* table: the set of private_key rows
    templates,    \* cache: row id -> template, or Null
    signers,      \* cache: row id -> key, or Null
    own_key,      \* the node's key, Null until start-up has found or made it
    pc,           \* next step of Storage::new, "ready" or "down"
    call,         \* the persist / persist_opinion call in progress
    today,
    crashes

vars == <<statement, opinion, private_key, templates, signers, own_key, pc,
          call, today, crashes>>
tables == <<statement, opinion, private_key>>
caches == <<templates, signers, own_key>>

Ids == 1 .. MaxId
Templates == {RootTemplate, SignerTemplate} \cup DataTemplates

TemplateStatement(t) == [name |-> RootTemplate, entity |-> t]
SignerStatement(k) == [name |-> SignerTemplate, entity |-> k]

Statements == [name : {RootTemplate}, entity : Templates]
              \cup [name : {SignerTemplate}, entity : Keys]
              \cup [name : DataTemplates, entity : Entities]

SignedOpinions == [signer : Keys, date : Dates, valid : Valids, serial : Serials]
OpinionRows == [statement_id : Ids, signer_id : Ids,
                date : Dates, valid : Valids, serial : Serials]

ASSUME StorageAssumption ==
    /\ RootTemplate # SignerTemplate
    /\ {RootTemplate, SignerTemplate} \cap DataTemplates = {}
    /\ OwnKeys \subseteq Keys
    /\ Null \notin Statements \cup Templates \cup Keys \cup Versions
    /\ Inputs \subseteq Statements
    /\ Batches \subseteq Seq(SignedOpinions)
    /\ DefaultValid \in Valids
    /\ 0 \in Serials
    /\ MaxId \in Nat
    /\ MaxCrashes \in Nat
    /\ CrashDuringReplace \in BOOLEAN

\* The state of a call: which statement and opinions are left to store, and
\* the row ids found so far.
Stages == {"idle", "statement", "signer", "select", "insert"}
Calls == [stage : Stages, statement : Statements, opinions : Seq(SignedOpinions),
          statement_id : Ids \cup {0}, signer_id : Ids \cup {0}]

Idle == [stage |-> "idle", statement |-> TemplateStatement(RootTemplate),
         opinions |-> <<>>, statement_id |-> 0, signer_id |-> 0]

Store(s, ops) == [Idle EXCEPT !.stage = "statement", !.statement = s, !.opinions = ops]

\* The node's own opinion: signed today, serial number always 0.
OwnOpinion == [signer |-> own_key, date |-> today, valid |-> DefaultValid, serial |-> 0]

-----------------------------------------------------------------------------
(* Statements *)

Stored(s) == \E i \in Ids : statement[i] = s

\* integer primary key: one more than the largest id in use, so the id of a
\* deleted last row is used again.
IsNewRowId(n) ==
    /\ \A i \in Ids : statement[i] # Null => i < n
    /\ n - 1 \in Ids => statement[n - 1] # Null

\* Statements are checked against the cache, templates are always accepted.
has_matching_template(s) ==
    \/ s.name = RootTemplate
    \/ \E i \in Ids : templates[i] = s.name

\* Mutants of FindOrInsert: no look for an existing row first; no second look
\* when the insert is refused because the row exists.
InsertBlindly(s, id) ==
    IsNewRowId(id) /\ statement' = [statement EXCEPT ![id] = s]
InsertOnly(s, id) ==
    ~Stored(s) /\ IsNewRowId(id) /\ statement' = [statement EXCEPT ![id] = s]

FindOrInsert(s, id) ==
    \/ statement[id] = s /\ UNCHANGED statement
    \/ ~Stored(s) /\ IsNewRowId(id) /\ statement' = [statement EXCEPT ![id] = s]

\* Mutants of CacheResult: the name is not looked at; found rows are not cached.
CacheAnything(s, id) ==
    /\ templates' = [templates EXCEPT ![id] = s.entity]
    /\ signers' = [signers EXCEPT ![id] = IF s.name = SignerTemplate THEN s.entity ELSE @]
CacheNew(s, id) ==
    /\ templates' = [templates EXCEPT ![id] =
          IF s.name = RootTemplate /\ statement[id] # s THEN s.entity ELSE @]
    /\ signers' = [signers EXCEPT ![id] =
          IF s.name = SignerTemplate /\ statement[id] # s THEN s.entity ELSE @]

\* A template or a signer is noted in its cache, new or old.
CacheResult(s, id) ==
    /\ templates' = [templates EXCEPT ![id] = IF s.name = RootTemplate THEN s.entity ELSE @]
    /\ signers' = [signers EXCEPT ![id] = IF s.name = SignerTemplate THEN s.entity ELSE @]

persist(s, id) ==
    /\ has_matching_template(s)
    /\ FindOrInsert(s, id)
    /\ CacheResult(s, id)

-----------------------------------------------------------------------------
(* Start-up: Storage::new, initialize_database, cleanup *)

Start ==
    /\ pc = "down"
    /\ pc' = "root_template"
    /\ UNCHANGED <<tables, caches, call, today, crashes>>

PersistPredefined(here, t, next) ==
    /\ pc = here
    /\ \E id \in Ids : persist(TemplateStatement(t), id)
    /\ pc' = next
    /\ UNCHANGED <<opinion, private_key, own_key, call, today, crashes>>

\* Mutant of LoadOwnKey: where there is a key, initialization is taken to be complete.
LoadOwnKeyAndSkip ==
    /\ pc = "own_key"
    /\ \E row \in private_key : own_key' = row.key
    /\ pc' = "read"
    /\ UNCHANGED <<tables, templates, signers, call, today, crashes>>

LoadOwnKey ==
    /\ pc = "own_key"
    /\ \E row \in private_key : own_key' = row.key
    /\ pc' = "sign_root"
    /\ UNCHANGED <<tables, templates, signers, call, today, crashes>>

\* Mutant of NoPrivateKey: a key is made on every start.
AnyPrivateKey == TRUE

NoPrivateKey == private_key = {}

\* A new key is random, hence unknown to the database.
CreateOwnKey ==
    /\ pc = "own_key"
    /\ NoPrivateKey
    /\ \E k \in OwnKeys, id \in Ids :
          /\ ~Stored(SignerStatement(k))
          /\ persist(SignerStatement(k), id)
          /\ own_key' = k
    /\ pc' = "private_key"
    /\ UNCHANGED <<opinion, private_key, call, today, crashes>>

SavePrivateKey ==
    /\ pc = "private_key"
    /\ \E id \in Ids :
          /\ statement[id] = SignerStatement(own_key)
          /\ private_key' = private_key \cup {[signer_id |-> id, key |-> own_key]}
    /\ pc' = "sign_root"
    /\ UNCHANGED <<statement, opinion, caches, call, today, crashes>>

SignPredefined(here, t, next) ==
    /\ pc = here
    /\ call = Idle
    /\ call' = Store(TemplateStatement(t), <<OwnOpinion>>)
    /\ pc' = next
    /\ UNCHANGED <<tables, caches, today, crashes>>

\* Mutant of read_signers: the call is left out.
signers_unread == signers

\* What is cached already stays, also if its row is gone.
read_templates ==
    [i \in Ids |-> IF statement[i] # Null /\ statement[i].name = RootTemplate
                   THEN statement[i].entity ELSE templates[i]]

read_signers ==
    [i \in Ids |-> IF statement[i] # Null /\ statement[i].name = SignerTemplate
                   THEN statement[i].entity ELSE signers[i]]

ReadCaches ==
    /\ pc = "read"
    /\ call = Idle
    /\ templates' = read_templates
    /\ signers' = read_signers
    /\ pc' = "cleanup_opinions"
    /\ UNCHANGED <<tables, own_key, call, today, crashes>>

CleanupOpinions ==
    /\ pc = "cleanup_opinions"
    /\ opinion' = {o \in opinion : ~Expired(o, today)}
    /\ pc' = "cleanup_statements"
    /\ UNCHANGED <<statement, private_key, caches, call, today, crashes>>

\* Mutant of Referenced: the signers of opinions are not looked at.
ReferencedAsStatement(id) ==
    \/ \E o \in opinion : id = o.statement_id
    \/ \E row \in private_key : id = row.signer_id

Referenced(id) ==
    \/ \E o \in opinion : id \in {o.statement_id, o.signer_id}
    \/ \E row \in private_key : id = row.signer_id

\* Mutant of Unreferenced: templates are kept for ever.
UnreferencedData == {i \in Ids : ~Referenced(i) /\ templates[i] = Null}

Unreferenced == {i \in Ids : ~Referenced(i)}

CleanupStatements ==
    /\ pc = "cleanup_statements"
    /\ statement' = [i \in Ids |-> IF i \in Unreferenced THEN Null ELSE statement[i]]
    /\ pc' = "ready"
    /\ UNCHANGED <<opinion, private_key, caches, call, today, crashes>>

StartUp ==
    \/ PersistPredefined("root_template", RootTemplate, "signer_template")
    \/ PersistPredefined("signer_template", SignerTemplate, "own_key")
    \/ LoadOwnKey
    \/ CreateOwnKey
    \/ SavePrivateKey
    \/ SignPredefined("sign_root", RootTemplate, "sign_signer")
    \/ SignPredefined("sign_signer", SignerTemplate, "read")
    \/ ReadCaches
    \/ CleanupOpinions
    \/ CleanupStatements

-----------------------------------------------------------------------------
(* Calls: persist followed by persist_opinion for each signed opinion *)

\* A statement received from another node, with its opinions.
Receive(s, ops) ==
    /\ pc = "ready"
    /\ call = Idle
    /\ call' = Store(s, ops)
    /\ UNCHANGED <<tables, caches, pc, today, crashes>>

\* A statement typed in by the user, to be signed by the node.
UserStatement(s) == Receive(s, <<OwnOpinion>>)

\* A statement that has come without opinions is stored, and that is all.
AfterStatement(id) ==
    IF call.opinions = <<>> THEN Idle
    ELSE [call EXCEPT !.stage = "signer", !.statement_id = id]

PersistStatement ==
    /\ call.stage = "statement"
    /\ \E id \in Ids :
          /\ persist(call.statement, id)
          /\ call' = AfterStatement(id)
    /\ UNCHANGED <<opinion, private_key, own_key, pc, today, crashes>>

\* persist returns RowNotFound and the caller drops the statement.
RefuseStatement ==
    /\ call.stage = "statement"
    /\ ~has_matching_template(call.statement)
    /\ call' = Idle
    /\ UNCHANGED <<tables, caches, pc, today, crashes>>

PersistSigner ==
    /\ call.stage = "signer"
    /\ \E id \in Ids :
          /\ persist(SignerStatement(Head(call.opinions).signer), id)
          /\ call' = [call EXCEPT !.stage = "select", !.signer_id = id]
    /\ UNCHANGED <<opinion, private_key, own_key, pc, today, crashes>>

Pending == VersionOf(Head(call.opinions))

PendingRow ==
    [statement_id |-> call.statement_id, signer_id |-> call.signer_id,
     date |-> Pending.date, valid |-> Pending.valid, serial |-> Pending.serial]

Previous ==
    {o \in opinion : /\ o.statement_id = call.statement_id
                     /\ o.signer_id = call.signer_id}

\* Mutant of Overridden: any other version is taken to be overridden.
OtherVersions == {o \in Previous : VersionOf(o) # Pending}

Overridden == {o \in Previous : Supersedes(Pending, o)}

AfterOpinion ==
    IF Len(call.opinions) = 1 THEN Idle
    ELSE [call EXCEPT !.stage = "signer", !.signer_id = 0, !.opinions = Tail(@)]

InsertFirst ==
    /\ call.stage = "select"
    /\ Previous = {}
    /\ opinion' = opinion \cup {PendingRow}
    /\ call' = AfterOpinion
    /\ UNCHANGED <<statement, private_key, caches, pc, today, crashes>>

\* Mutant of DeleteOverridden: the older opinion is not deleted.
DeleteNothing ==
    /\ call.stage = "select"
    /\ Overridden # {}
    /\ call' = [call EXCEPT !.stage = "insert"]
    /\ UNCHANGED <<tables, caches, pc, today, crashes>>

\* An older opinion is deleted in a transaction of its own ...
DeleteOverridden ==
    /\ call.stage = "select"
    /\ \E o \in Overridden : opinion' = opinion \ {o}
    /\ call' = [call EXCEPT !.stage = "insert"]
    /\ UNCHANGED <<statement, private_key, caches, pc, today, crashes>>

\* ... and the new one inserted in the next.
InsertNewer ==
    /\ call.stage = "insert"
    /\ opinion' = opinion \cup {PendingRow}
    /\ call' = AfterOpinion
    /\ UNCHANGED <<statement, private_key, caches, pc, today, crashes>>

KeepOld ==
    /\ call.stage = "select"
    /\ Previous \ Overridden # {}
    /\ call' = AfterOpinion
    /\ UNCHANGED <<tables, caches, pc, today, crashes>>

CallStep ==
    \/ PersistStatement
    \/ RefuseStatement
    \/ PersistSigner
    \/ InsertFirst
    \/ DeleteOverridden
    \/ InsertNewer
    \/ KeepOld

-----------------------------------------------------------------------------
(* The environment *)

\* The process dies: memory is lost, the database stays as last committed.
Crash ==
    /\ pc # "down"
    /\ call.stage = "insert" => CrashDuringReplace
    /\ crashes < MaxCrashes
    /\ crashes' = crashes + 1
    /\ pc' = "down"
    /\ call' = Idle
    /\ own_key' = Null
    /\ templates' = [i \in Ids |-> Null]
    /\ signers' = [i \in Ids |-> Null]
    /\ UNCHANGED <<tables, today>>

\* Start-up is assumed not to last past midnight.
NextDay ==
    /\ pc \in {"down", "ready"}
    /\ today + 1 \in Dates
    /\ today' = today + 1
    /\ UNCHANGED <<tables, caches, pc, call, crashes>>

Init ==
    /\ statement = [i \in Ids |-> Null]
    /\ opinion = {}
    /\ private_key = {}
    /\ templates = [i \in Ids |-> Null]
    /\ signers = [i \in Ids |-> Null]
    /\ own_key = Null
    /\ pc = "down"
    /\ call = Idle
    /\ today \in {d \in Dates : \A e \in Dates : d <= e}
    /\ crashes = 0

Next ==
    \/ Start
    \/ StartUp
    \/ CallStep
    \/ \E s \in Inputs, ops \in Batches : Receive(s, ops)
    \/ \E s \in Inputs : UserStatement(s)
    \/ Crash
    \/ NextDay

Spec == Init /\ [][Next]_vars

\* A running task goes on running: steps of start-up and of a call are not
\* put off for ever.  Nothing is assumed of users, peers or crashes.
FairSpec == Spec /\ WF_vars(StartUp) /\ WF_vars(CallStep)
-----------------------------------------------------------------------------
(* Properties *)

Ready == pc = "ready" /\ call = Idle

\* No call is in progress while the caches are read and the tables cleaned up.
CallPlace == call.stage # "idle" => pc \in {"sign_signer", "read", "ready"}

\* Every variable has its type; a call runs only while signing the predefined
\* statements or when start-up is complete.
TypeOK ==
    /\ statement \in [Ids -> Statements \cup {Null}]
    /\ opinion \subseteq OpinionRows
    /\ private_key \subseteq [signer_id : Ids, key : Keys]
    /\ templates \in [Ids -> Templates \cup {Null}]
    /\ signers \in [Ids -> Keys \cup {Null}]
    /\ own_key \in Keys \cup {Null}
    /\ pc \in {"down", "root_template", "signer_template", "own_key", "private_key",
               "sign_root", "sign_signer", "read", "cleanup_opinions",
               "cleanup_statements", "ready"}
    /\ call \in Calls
    /\ today \in Dates
    /\ crashes \in 0 .. MaxCrashes
    /\ CallPlace

\* The foreign keys of an opinion always lead to a statement and to the
\* statement of a signer: no insert or cleanup is refused by the database, and
\* the unwrap and the panic of Opinion::from_using_storage are never met.
ReferencesResolve ==
    \A o \in opinion :
        /\ statement[o.statement_id] # Null
        /\ \E k \in Keys : statement[o.signer_id] = SignerStatement(k)

\* Once the caches have been read, every opinion's signer is cached under the
\* id of its row, with the right key even where cleanup has freed ids that
\* were used again: list_opinions_on unwraps the entry.
SignersCached ==
    pc \in {"cleanup_opinions", "cleanup_statements", "ready"} =>
        \A o \in opinion :
            /\ signers[o.signer_id] # Null
            /\ statement[o.signer_id] = SignerStatement(signers[o.signer_id])

\* Once the caches have been read, a stored template is known under the id of
\* its row, so that its statements are accepted.
TemplatesCached ==
    pc \in {"cleanup_opinions", "cleanup_statements", "ready"} =>
        \A i \in Ids, t \in Templates :
            statement[i] = TemplateStatement(t) => templates[i] = t

\* The caches serve the unwrap of list_opinions_on and the acceptance of every
\* stored template's statements, whatever rows and ids cleanup has freed.
CachesServe == SignersCached /\ TemplatesCached

\* A statement has one row.  The unique constraint of the table does not see
\* to it, since unused entity columns are null and nulls are distinct.
StatementsUnique ==
    \A i, j \in Ids : statement[i] # Null /\ statement[i] = statement[j] => i = j

\* A signer has one opinion on a statement: persist_opinion compares a new one
\* with the first row it fetches and never looks for a second.
OneOpinionPerSigner ==
    \A o, p \in opinion :
        o.statement_id = p.statement_id /\ o.signer_id = p.signer_id => o = p

\* The node keeps one identity: after start-up its key is the one stored, and
\* the stored row's signer statement survives every cleanup (ensure_own_key
\* unwraps it on the next start).
OneIdentity ==
    /\ \A row \in private_key : statement[row.signer_id] = SignerStatement(row.key)
    /\ \A r, q \in private_key : r = q
    /\ pc = "ready" => \E row \in private_key : row.key = own_key

\* The rows a call in progress has made or found and not yet referred to.
InUse ==
    {i \in Ids : \/ i = call.statement_id /\ call.stage \in {"signer", "select", "insert"}
                 \/ i = call.signer_id /\ call.stage \in {"select", "insert"}}

Strays == {i \in Ids : statement[i] # Null /\ ~Referenced(i) /\ i \notin InUse}

\* Whatever crashes, refused statements and expired opinions there were, a start-up
\* leaves no statement behind that nothing refers to.  In a running node none is left
\* but one that has come without opinions (handle_broadcast_message,
\* handle_response_message), which stays until the next start.
NoOrphanStatements ==
    [][pc' = "ready" =>
          \A i \in Strays' :
             \/ pc = "ready" /\ i \in Strays
             \/ /\ call.stage = "statement" /\ call.opinions = <<>>
                /\ statement'[i] = call.statement]_vars

\* "for a partially initialized database it should complete initialization":
\* however many starts were cut short, a completed one leaves both predefined
\* templates stored and signed by the node.
InitializationComplete ==
    Ready =>
        \A t \in {RootTemplate, SignerTemplate} : \E o \in opinion :
            /\ statement[o.statement_id] = TemplateStatement(t)
            /\ statement[o.signer_id] = SignerStatement(own_key)

\* persist_opinion unwraps the result of persisting the signer's statement:
\* the signer template is always in the cache by then.
SignerAccepted ==
    call.stage = "signer" =>
        has_matching_template(SignerStatement(Head(call.opinions).signer))

-----------------------------------------------------------------------------
(* The opinions by what they say, as OpinionStore sees them *)

Meaning(o) ==
    [statement |-> statement[o.statement_id], signer |-> statement[o.signer_id].entity,
     date |-> o.date, valid |-> o.valid, serial |-> o.serial]

\* A new version counts from the moment the one it overrides is deleted.
Held == {Meaning(o) : o \in opinion}
        \cup IF call.stage = "insert" THEN {Meaning(PendingRow)} ELSE {}

Abstract == INSTANCE OpinionStore WITH Signers <- Keys, held <- Held

\* The tables, with row ids, caches, crashes and restarts, keep the promise of
\* OpinionStore: an opinion stays with its statement and its signer, yields
\* only to one that overrides it, and goes only when it has expired.
ImplementsOpinionStore == Abstract!Spec

\* Every start-up that is not cut short comes to an end, and so does every call.
StartsAndCallsComplete ==
    /\ pc = "root_template" ~> pc \in {"ready", "down"}
    /\ call.stage = "statement" ~> call = Idle

-----------------------------------------------------------------------------
(* What comments of the code say and the code does not do *)

\* storage/mod.rs, on deleting: "delete old, overridden opinion".  Who once has
\* an opinion on a statement keeps one until it expires.
OnlyOverriddenDeleted ==
    [][\A o \in Held : \/ \E p \in Held' : Abstract!SameSubject(o, p)
                       \/ Expired(o, today)]_vars
=============================================================================
