--------------------------- MODULE StorageProofs ----------------------------
(***************************************************************************)
(* Proofs about Storage, for every value of its constants.                 *)
(***************************************************************************)
EXTENDS Storage, SequenceTheorems, TLAPS

-----------------------------------------------------------------------------
(* Facts about statements, versions and calls *)

LEMMA StatementTypes ==
    /\ \A t \in Templates : TemplateStatement(t) \in Statements
    /\ \A k \in Keys : SignerStatement(k) \in Statements
    /\ \A s \in Statements : s.name = RootTemplate => s.entity \in Templates
    /\ \A s \in Statements : s.name = SignerTemplate => s.entity \in Keys
    /\ \A s \in Statements : s # Null
  BY StorageAssumption
     DEF Statements, TemplateStatement, SignerStatement, Templates

\* What a call record must look like at each stage for its next step to make sense.
WellFormed(c) ==
    /\ c \in Calls
    /\ c.stage = "idle" => c = Idle
    /\ c.stage \in {"signer", "select", "insert"} => c.opinions # <<>>
    /\ c.stage \in {"signer", "select", "insert"} => c.statement_id \in Ids
    /\ c.stage \in {"select", "insert"} => c.signer_id \in Ids

LEMMA IdleWellFormed == WellFormed(Idle)
  BY StatementTypes DEF WellFormed, Calls, Stages, Idle, Templates

LEMMA StoreWellFormed ==
  ASSUME NEW s \in Statements, NEW ops \in Seq(SignedOpinions)
  PROVE  WellFormed(Store(s, ops)) /\ Store(s, ops).stage = "statement"
         /\ Store(s, ops).statement = s /\ Store(s, ops).opinions = ops
  BY DEF WellFormed, Calls, Stages, Idle, Store

LEMMA HeadIsOpinion ==
  ASSUME WellFormed(call), call.stage \in {"signer", "select", "insert"}
  PROVE  Head(call.opinions) \in SignedOpinions /\ Tail(call.opinions) \in Seq(SignedOpinions)
         /\ Len(call.opinions) \in Nat \ {0}
  <1>1. call.opinions \in Seq(SignedOpinions) /\ call.opinions # <<>>
    BY DEF WellFormed, Calls
  <1> QED BY <1>1, HeadTailProperties, EmptySeq, LenProperties

\* After the statement comes the first signer, if there is one.
LEMMA AfterStatementWellFormed ==
  ASSUME WellFormed(call), NEW id \in Ids
  PROVE  /\ WellFormed(AfterStatement(id))
         /\ \/ AfterStatement(id) = Idle /\ call.opinions = <<>>
            \/ /\ AfterStatement(id).stage = "signer"
               /\ AfterStatement(id).statement = call.statement
               /\ AfterStatement(id).opinions = call.opinions
               /\ AfterStatement(id).statement_id = id
  BY IdleWellFormed DEF AfterStatement, WellFormed, Calls, Stages

LEMMA PendingRowType ==
  ASSUME WellFormed(call), call.stage \in {"select", "insert"}
  PROVE  PendingRow \in OpinionRows
  <1>1. Head(call.opinions) \in SignedOpinions
    BY HeadIsOpinion
  <1>2. call.statement_id \in Ids /\ call.signer_id \in Ids
    BY DEF WellFormed
  <1> QED BY <1>1, <1>2 DEF PendingRow, Pending, VersionOf, OpinionRows, SignedOpinions

LEMMA AfterOpinionWellFormed ==
  ASSUME WellFormed(call), call.stage \in {"select", "insert"}
  PROVE  /\ WellFormed(AfterOpinion)
         /\ \/ AfterOpinion = Idle
            \/ /\ AfterOpinion.stage = "signer"
               /\ AfterOpinion.statement = call.statement
               /\ AfterOpinion.statement_id = call.statement_id
  <1>1. CASE Len(call.opinions) = 1
    BY <1>1, IdleWellFormed DEF AfterOpinion
  <1>2. CASE Len(call.opinions) # 1
    <2>1. AfterOpinion = [call EXCEPT !.stage = "signer", !.signer_id = 0,
                                      !.opinions = Tail(call.opinions)]
      BY <1>2 DEF AfterOpinion, WellFormed, Calls
    <2>2. Tail(call.opinions) \in Seq(SignedOpinions) /\ Len(call.opinions) \in Nat \ {0}
      BY HeadIsOpinion
    <2>3. call.opinions \in Seq(SignedOpinions) /\ call.opinions # <<>>
      BY DEF WellFormed, Calls
    <2>4. Len(Tail(call.opinions)) = Len(call.opinions) - 1
      BY <2>3, HeadTailProperties
    <2>5. Len(Tail(call.opinions)) # 0
      <3> DEFINE n == Len(call.opinions)
      <3>1. n \in Nat \ {0} /\ n # 1
        BY <2>2, <1>2
      <3>2. n - 1 # 0
        BY <3>1
      <3> QED BY <3>2, <2>4
    <2>6. Tail(call.opinions) # <<>>
      <3>1. Len(<<>>) = 0
        BY EmptySeq
      <3> QED BY <2>5, <3>1
    <2> QED BY <2>1, <2>2, <2>6 DEF WellFormed, Calls, Stages
  <1> QED BY <1>1, <1>2

-----------------------------------------------------------------------------
(* What persist does to the table and the caches *)

LEMMA PersistTypes ==
  ASSUME TypeOK, NEW s \in Statements, NEW id \in Ids, persist(s, id)
  PROVE  /\ statement' \in [Ids -> Statements \cup {Null}]
         /\ templates' \in [Ids -> Templates \cup {Null}]
         /\ signers' \in [Ids -> Keys \cup {Null}]
  <1>1. statement' \in [Ids -> Statements \cup {Null}]
    BY DEF TypeOK, persist, FindOrInsert
  <1>2. templates' \in [Ids -> Templates \cup {Null}]
    BY StatementTypes DEF TypeOK, persist, CacheResult
  <1>3. signers' \in [Ids -> Keys \cup {Null}]
    BY StatementTypes DEF TypeOK, persist, CacheResult
  <1> QED BY <1>1, <1>2, <1>3

LEMMA NewRowIdIsFree ==
  ASSUME NEW n \in Ids, IsNewRowId(n)
  PROVE  statement[n] = Null
  <1>1. n \in Int
    BY StorageAssumption DEF Ids
  <1>2. statement[n] # Null => n < n
    BY DEF IsNewRowId
  <1> QED BY <1>1, <1>2

LEMMA PersistRow ==
  ASSUME TypeOK, NEW s \in Statements, NEW id \in Ids, persist(s, id)
  PROVE  /\ statement'[id] = s
         /\ \A i \in Ids : i # id => statement'[i] = statement[i]
         /\ statement[id] # Null => statement[id] = s
  <1>1. CASE statement[id] = s /\ UNCHANGED statement
    BY <1>1
  <1>2. CASE ~Stored(s) /\ IsNewRowId(id) /\ statement' = [statement EXCEPT ![id] = s]
    BY <1>2, NewRowIdIsFree DEF TypeOK
  <1> QED BY <1>1, <1>2 DEF persist, FindOrInsert

LEMMA PersistUnique ==
  ASSUME TypeOK, StatementsUnique, NEW s \in Statements, NEW id \in Ids, persist(s, id)
  PROVE  StatementsUnique'
  <1>1. CASE statement[id] = s /\ UNCHANGED statement
    BY <1>1 DEF StatementsUnique
  <1>2. CASE ~Stored(s) /\ IsNewRowId(id) /\ statement' = [statement EXCEPT ![id] = s]
    BY <1>2 DEF StatementsUnique, Stored, TypeOK
  <1> QED BY <1>1, <1>2 DEF persist, FindOrInsert

LEMMA PersistCaches ==
  ASSUME TypeOK, NEW s \in Statements, NEW id \in Ids, persist(s, id)
  PROVE  /\ \A i \in Ids : i # id => templates'[i] = templates[i] /\ signers'[i] = signers[i]
         /\ templates'[id] = IF s.name = RootTemplate THEN s.entity ELSE templates[id]
         /\ signers'[id] = IF s.name = SignerTemplate THEN s.entity ELSE signers[id]
  BY DEF TypeOK, persist, CacheResult

-----------------------------------------------------------------------------
(* Type correctness *)

KeyKnown ==
    pc \in {"private_key", "sign_root", "sign_signer", "read", "cleanup_opinions",
            "cleanup_statements", "ready"} => own_key \in Keys

Typing ==
    /\ TypeOK
    /\ WellFormed(call)
    /\ KeyKnown

LEMMA OwnOpinionType ==
  ASSUME TypeOK, own_key \in Keys
  PROVE  <<OwnOpinion>> \in Seq(SignedOpinions) /\ <<OwnOpinion>> # <<>>
  BY StorageAssumption DEF TypeOK, OwnOpinion, SignedOpinions

LEMMA TypingInit == Init => Typing
  BY IdleWellFormed, StorageAssumption
     DEF Init, Idle, Typing, TypeOK, CallPlace, KeyKnown, WellFormed

LEMMA TypingStartUp == Typing /\ (Start \/ StartUp) => Typing'
  <1> SUFFICES ASSUME Typing, Start \/ StartUp
               PROVE  Typing'
    OBVIOUS
  <1> USE DEF tables, caches
  <1>1. CASE Start
    BY <1>1 DEF Start, Typing, TypeOK, CallPlace, WellFormed, KeyKnown
  <1>2. ASSUME NEW here \in {"root_template", "signer_template"},
               NEW t \in {RootTemplate, SignerTemplate},
               NEW next \in {"signer_template", "own_key"}, PersistPredefined(here, t, next)
        PROVE  Typing'
    <2>1. PICK id \in Ids : persist(TemplateStatement(t), id)
      BY <1>2 DEF PersistPredefined
    <2>2. TemplateStatement(t) \in Statements
      BY StatementTypes DEF Templates
    <2>3. TypeOK'
      BY <1>2, <2>1, <2>2, PersistTypes DEF Typing, TypeOK, CallPlace, PersistPredefined
    <2> QED BY <1>2, <2>3 DEF Typing, WellFormed, KeyKnown, PersistPredefined
  <1>3. CASE LoadOwnKey
    BY <1>3 DEF LoadOwnKey, Typing, TypeOK, CallPlace, WellFormed, KeyKnown
  <1>4. CASE CreateOwnKey
    <2>1. PICK k \in OwnKeys, id \in Ids :
             persist(SignerStatement(k), id) /\ own_key' = k
      BY <1>4 DEF CreateOwnKey
    <2>2. k \in Keys /\ SignerStatement(k) \in Statements
      BY StorageAssumption, StatementTypes
    <2>3. TypeOK'
      BY <1>4, <2>1, <2>2, PersistTypes DEF Typing, TypeOK, CallPlace, CreateOwnKey
    <2> QED BY <1>4, <2>1, <2>2, <2>3 DEF Typing, WellFormed, KeyKnown, CreateOwnKey
  <1>5. CASE SavePrivateKey
    BY <1>5 DEF SavePrivateKey, Typing, TypeOK, CallPlace, WellFormed, KeyKnown
  <1>6. ASSUME NEW here \in {"sign_root", "sign_signer"},
               NEW t \in {RootTemplate, SignerTemplate},
               NEW next \in {"sign_signer", "read"}, SignPredefined(here, t, next)
        PROVE  Typing'
    <2>1. own_key \in Keys /\ UNCHANGED own_key
      BY <1>6 DEF Typing, KeyKnown, SignPredefined
    <2>2. WellFormed(call')
      <3>1. TemplateStatement(t) \in Statements
        BY StatementTypes DEF Templates
      <3> QED BY <1>6, <2>1, <3>1, OwnOpinionType, StoreWellFormed DEF Typing, SignPredefined
    <2>3. TypeOK'
      BY <1>6, <2>2 DEF Typing, TypeOK, CallPlace, SignPredefined, WellFormed
    <2> QED BY <2>1, <2>2, <2>3 DEF Typing, KeyKnown, WellFormed
  <1>7. CASE ReadCaches
    <2>1. read_templates \in [Ids -> Templates \cup {Null}]
      BY StatementTypes DEF read_templates, Typing, TypeOK, CallPlace
    <2>2. read_signers \in [Ids -> Keys \cup {Null}]
      BY StatementTypes DEF read_signers, Typing, TypeOK, CallPlace
    <2> QED BY <1>7, <2>1, <2>2 DEF ReadCaches, Idle, Typing, TypeOK, CallPlace, WellFormed, KeyKnown
  <1>8. CASE CleanupOpinions
    BY <1>8 DEF CleanupOpinions, Typing, TypeOK, CallPlace, WellFormed, KeyKnown
  <1>9. CASE CleanupStatements
    BY <1>9 DEF CleanupStatements, Typing, TypeOK, CallPlace, WellFormed, KeyKnown
  <1> QED BY <1>1, <1>2, <1>3, <1>4, <1>5, <1>6, <1>7, <1>8, <1>9 DEF StartUp

LEMMA TypingCallStep == Typing /\ CallStep => Typing'
  <1> SUFFICES ASSUME Typing, CallStep
               PROVE  Typing'
    OBVIOUS
  <1> USE DEF tables, caches
  <1>1. CASE PersistStatement
    <2>1. PICK id \in Ids :
             persist(call.statement, id) /\ call' = AfterStatement(id)
      BY <1>1 DEF PersistStatement
    <2>2. call \in Calls /\ call.statement \in Statements
      BY <1>1 DEF Typing, WellFormed, Calls, PersistStatement
    <2>3. WellFormed(call')
      BY <2>1, AfterStatementWellFormed DEF Typing
    <2>4. TypeOK'
      BY <1>1, <2>1, <2>2, <2>3, PersistTypes
         DEF Typing, TypeOK, CallPlace, PersistStatement, WellFormed
    <2> QED BY <1>1, <2>3, <2>4 DEF Typing, KeyKnown, PersistStatement
  <1>2. CASE RefuseStatement
    BY <1>2, IdleWellFormed DEF RefuseStatement, Typing, TypeOK, CallPlace, WellFormed, KeyKnown
  <1>3. CASE PersistSigner
    <2>1. PICK id \in Ids :
             /\ persist(SignerStatement(Head(call.opinions).signer), id)
             /\ call' = [call EXCEPT !.stage = "select", !.signer_id = id]
      BY <1>3 DEF PersistSigner
    <2>2. SignerStatement(Head(call.opinions).signer) \in Statements
      BY <1>3, HeadIsOpinion, StatementTypes DEF Typing, SignedOpinions, PersistSigner
    <2>3. WellFormed(call')
      BY <1>3, <2>1 DEF Typing, WellFormed, Calls, Stages, PersistSigner
    <2>4. TypeOK'
      BY <1>3, <2>1, <2>2, <2>3, PersistTypes
         DEF Typing, TypeOK, CallPlace, PersistSigner, WellFormed
    <2> QED BY <1>3, <2>3, <2>4 DEF Typing, KeyKnown, PersistSigner
  <1>4. CASE InsertFirst \/ InsertNewer
    <2>1. PendingRow \in OpinionRows /\ WellFormed(AfterOpinion)
      BY <1>4, PendingRowType, AfterOpinionWellFormed DEF Typing, InsertFirst, InsertNewer
    <2> QED BY <1>4, <2>1
            DEF InsertFirst, InsertNewer, Typing, TypeOK, CallPlace, WellFormed, KeyKnown
  <1>5. CASE DeleteOverridden
    <2>1. WellFormed(call')
      BY <1>5 DEF DeleteOverridden, Typing, WellFormed, Calls, Stages
    <2> QED BY <1>5, <2>1 DEF DeleteOverridden, Typing, TypeOK, CallPlace, WellFormed, KeyKnown
  <1>6. CASE KeepOld
    <2>1. WellFormed(AfterOpinion)
      BY <1>6, AfterOpinionWellFormed DEF Typing, KeepOld
    <2> QED BY <1>6, <2>1 DEF KeepOld, Typing, TypeOK, CallPlace, WellFormed, KeyKnown
  <1> QED BY <1>1, <1>2, <1>3, <1>4, <1>5, <1>6 DEF CallStep

LEMMA TypingReceive ==
  ASSUME Typing, NEW s \in Inputs,
         (\E ops \in Batches : Receive(s, ops)) \/ UserStatement(s)
  PROVE  Typing'
  <1> USE DEF tables, caches
  <1>1. s \in Statements
    BY StorageAssumption
  <1>2. PICK ops \in Seq(SignedOpinions) : Receive(s, ops)
    <2>1. CASE UserStatement(s)
      BY <2>1, OwnOpinionType DEF UserStatement, Receive, Typing, KeyKnown
    <2>2. CASE \E ops \in Batches : Receive(s, ops)
      BY <2>2, StorageAssumption
    <2> QED BY <2>1, <2>2
  <1>3. WellFormed(call')
    BY <1>1, <1>2, StoreWellFormed DEF Receive
  <1> QED BY <1>2, <1>3 DEF Receive, Typing, TypeOK, CallPlace, WellFormed, KeyKnown

LEMMA TypingEnvironment == Typing /\ (Crash \/ NextDay) => Typing'
  <1> USE DEF tables, caches
  <1>1. ASSUME Typing, Crash
        PROVE  Typing'
    <2>1. crashes + 1 \in 0 .. MaxCrashes
      BY <1>1, StorageAssumption DEF Typing, TypeOK, CallPlace, Crash
    <2> QED BY <1>1, <2>1, IdleWellFormed DEF Crash, Idle, Typing, TypeOK, CallPlace, WellFormed, KeyKnown
  <1>2. ASSUME Typing, NextDay
        PROVE  Typing'
    BY <1>2 DEF NextDay, Typing, TypeOK, CallPlace, WellFormed, KeyKnown
  <1> QED BY <1>1, <1>2

LEMMA TypingNext == Typing /\ [Next]_vars => Typing'
  <1> SUFFICES ASSUME Typing, [Next]_vars
               PROVE  Typing'
    OBVIOUS
  <1>1. CASE UNCHANGED vars
    BY <1>1 DEF vars, Typing, TypeOK, CallPlace, WellFormed, KeyKnown
  <1> QED BY <1>1, TypingStartUp, TypingCallStep, TypingReceive, TypingEnvironment DEF Next

\* The tables, the caches and the call in progress always have their types;
\* while a call runs, its fields are those its next step needs.
THEOREM TypeCorrect == Spec => []TypeOK
  <1>1. Init => Typing
    BY TypingInit
  <1>2. Typing /\ [Next]_vars => Typing'
    BY TypingNext
  <1>3. Typing => TypeOK
    BY DEF Typing
  <1> QED BY <1>1, <1>2, <1>3, PTL DEF Spec

-----------------------------------------------------------------------------
(* The inductive invariant behind the safety properties *)

\* A row id handed from one step of a call to the next still means the same.
CallIdsValid ==
    /\ call.stage \in {"signer", "select", "insert"} =>
          statement[call.statement_id] = call.statement
    /\ call.stage \in {"select", "insert"} =>
          statement[call.signer_id] = SignerStatement(Head(call.opinions).signer)

\* The opinion to be inserted has no rival left.
NothingToDelete == call.stage = "insert" => Previous = {}

KeyRows ==
    /\ \A row \in private_key : statement[row.signer_id] = SignerStatement(row.key)
    /\ \A r, q \in private_key : r = q
    /\ pc = "private_key" => private_key = {}
    /\ pc \in {"sign_root", "sign_signer", "read", "cleanup_opinions",
               "cleanup_statements", "ready"} => \E row \in private_key : row.key = own_key

SignersFresh ==
    \A i \in Ids, k \in Keys : statement[i] = SignerStatement(k) => signers[i] = k

TemplatesFresh ==
    \A i \in Ids, t \in Templates : statement[i] = TemplateStatement(t) => templates[i] = t

CachesFresh ==
    pc \in {"cleanup_opinions", "cleanup_statements", "ready"} =>
        SignersFresh /\ TemplatesFresh

Consistent ==
    /\ Typing
    /\ StatementsUnique
    /\ ReferencesResolve
    /\ OneOpinionPerSigner
    /\ CallIdsValid
    /\ NothingToDelete
    /\ KeyRows
    /\ CachesFresh

LEMMA NamesDiffer ==
    /\ \A s, k : s = SignerStatement(k) => s.name = SignerTemplate /\ s.entity = k
    /\ \A s, t : s = TemplateStatement(t) => s.name = RootTemplate /\ s.entity = t
    /\ \A k \in Keys : SignerStatement(k) # Null
    /\ \A t \in Templates : TemplateStatement(t) # Null
    /\ \A k \in Keys : k # Null
  BY StatementTypes, StorageAssumption DEF SignerStatement, TemplateStatement

\* What survives any step that adds at most one row to the statement table.
LEMMA PersistKeeps ==
  ASSUME Consistent, NEW s \in Statements, NEW id \in Ids, persist(s, id)
  PROVE  /\ StatementsUnique'
         /\ \A i \in Ids : statement[i] # Null => statement'[i] = statement[i]
         /\ statement'[id] = s
         /\ SignersFresh => SignersFresh'
         /\ TemplatesFresh => TemplatesFresh'
  <1>1. TypeOK /\ StatementsUnique
    BY DEF Consistent, Typing
  <1>2. /\ statement'[id] = s
        /\ \A i \in Ids : i # id => statement'[i] = statement[i]
        /\ statement[id] # Null => statement[id] = s
    BY <1>1, PersistRow
  <1>3. /\ \A i \in Ids : i # id => templates'[i] = templates[i] /\ signers'[i] = signers[i]
        /\ templates'[id] = IF s.name = RootTemplate THEN s.entity ELSE templates[id]
        /\ signers'[id] = IF s.name = SignerTemplate THEN s.entity ELSE signers[id]
    BY <1>1, PersistCaches
  <1>4. SignersFresh => SignersFresh'
    BY <1>2, <1>3, NamesDiffer DEF SignersFresh
  <1>5. TemplatesFresh => TemplatesFresh'
    BY <1>2, <1>3, NamesDiffer DEF TemplatesFresh
  <1> QED BY <1>1, <1>2, <1>4, <1>5, PersistUnique

\* References stay good where rows that hold a statement are kept.
LEMMA KeptRowsKeepReferences ==
  ASSUME Consistent, \A i \in Ids : statement[i] # Null => statement'[i] = statement[i],
         UNCHANGED <<opinion, private_key>>
  PROVE  /\ ReferencesResolve'
         /\ OneOpinionPerSigner'
         /\ \A row \in private_key' : statement'[row.signer_id] = SignerStatement(row.key)
  <1>1. opinion \subseteq OpinionRows /\ private_key \subseteq [signer_id : Ids, key : Keys]
    BY DEF Consistent, Typing, TypeOK
  <1>2. ReferencesResolve'
    BY <1>1, NamesDiffer DEF Consistent, ReferencesResolve, OpinionRows
  <1>3. OneOpinionPerSigner'
    BY DEF Consistent, OneOpinionPerSigner
  <1>4. \A row \in private_key' : statement'[row.signer_id] = SignerStatement(row.key)
    BY <1>1, NamesDiffer DEF Consistent, KeyRows
  <1> QED BY <1>2, <1>3, <1>4

LEMMA ConsistentInit == Init => Consistent
  BY TypingInit, NamesDiffer
     DEF Init, Consistent, StatementsUnique, ReferencesResolve, OneOpinionPerSigner,
         CallIdsValid, NothingToDelete, KeyRows, CachesFresh, Idle

LEMMA ConsistentStartUp == Consistent /\ (Start \/ StartUp) => Consistent'
  <1> SUFFICES ASSUME Consistent, Start \/ StartUp
               PROVE  Consistent'
    OBVIOUS
  <1> USE DEF tables, caches
  <1>0. Typing'
    BY TypingStartUp DEF Consistent
  <1>1. CASE Start
    BY <1>0, <1>1 DEF Start, Consistent, StatementsUnique, ReferencesResolve,
       OneOpinionPerSigner, CallIdsValid, NothingToDelete, Previous, KeyRows,
       CachesFresh
  <1>2. ASSUME NEW here \in {"root_template", "signer_template"},
               NEW t \in {RootTemplate, SignerTemplate},
               NEW next \in {"signer_template", "own_key"}, PersistPredefined(here, t, next)
        PROVE  Consistent'
    <2>1. PICK id \in Ids : persist(TemplateStatement(t), id)
      BY <1>2 DEF PersistPredefined
    <2>2. TemplateStatement(t) \in Statements
      BY StatementTypes DEF Templates
    <2>3. UNCHANGED <<opinion, private_key, own_key, call>> /\ pc = here /\ pc' = next
      BY <1>2 DEF PersistPredefined
    <2>4. call.stage = "idle"
      BY <2>3 DEF Consistent, Typing, TypeOK, CallPlace
    <2>5. StatementsUnique' /\ \A i \in Ids : statement[i] # Null => statement'[i] = statement[i]
      BY <2>1, <2>2, PersistKeeps
    <2>6. ReferencesResolve' /\ OneOpinionPerSigner' /\ KeyRows'
      BY <2>3, <2>5, KeptRowsKeepReferences DEF Consistent, KeyRows
    <2> QED BY <1>0, <2>3, <2>4, <2>5, <2>6
            DEF Consistent, CallIdsValid, NothingToDelete, CachesFresh
  <1>3. CASE LoadOwnKey
    BY <1>0, <1>3 DEF LoadOwnKey, Consistent, StatementsUnique, ReferencesResolve,
       OneOpinionPerSigner, CallIdsValid, NothingToDelete, Previous, KeyRows,
       CachesFresh
  <1>4. CASE CreateOwnKey
    <2>1. PICK k \in OwnKeys, id \in Ids : persist(SignerStatement(k), id)
      BY <1>4 DEF CreateOwnKey
    <2>2. SignerStatement(k) \in Statements
      BY StatementTypes, StorageAssumption
    <2>3. /\ UNCHANGED <<opinion, private_key, call>> /\ private_key = {}
          /\ pc = "own_key" /\ pc' = "private_key"
      BY <1>4 DEF CreateOwnKey, NoPrivateKey
    <2>4. call.stage = "idle"
      BY <2>3 DEF Consistent, Typing, TypeOK, CallPlace
    <2>5. StatementsUnique' /\ \A i \in Ids : statement[i] # Null => statement'[i] = statement[i]
      BY <2>1, <2>2, PersistKeeps
    <2>6. ReferencesResolve' /\ OneOpinionPerSigner' /\ KeyRows'
      BY <2>3, <2>5, KeptRowsKeepReferences DEF Consistent, KeyRows
    <2> QED BY <1>0, <2>3, <2>4, <2>5, <2>6
            DEF Consistent, CallIdsValid, NothingToDelete, CachesFresh
  <1>5. CASE SavePrivateKey
    <2>1. KeyRows'
      <3>1. PICK id \in Ids :
               /\ statement[id] = SignerStatement(own_key)
               /\ private_key' = private_key \cup {[signer_id |-> id, key |-> own_key]}
        BY <1>5 DEF SavePrivateKey
      <3>2. private_key' = {[signer_id |-> id, key |-> own_key]}
        BY <1>5, <3>1 DEF SavePrivateKey, Consistent, KeyRows
      <3>3. pc' = "sign_root" /\ UNCHANGED <<statement, own_key>>
        BY <1>5 DEF SavePrivateKey
      <3>4. PICK new : private_key' = {new} /\ new.signer_id = id /\ new.key = own_key
        <4> WITNESS [signer_id |-> id, key |-> own_key]
        <4> QED BY <3>2
      <3>5. statement'[new.signer_id] = SignerStatement(new.key) /\ new.key = own_key'
        BY <3>1, <3>3, <3>4
      <3> QED BY <3>3, <3>4, <3>5 DEF KeyRows, SignerStatement
    <2> QED BY <1>0, <1>5, <2>1
            DEF SavePrivateKey, Consistent, StatementsUnique, ReferencesResolve,
                OneOpinionPerSigner, CallIdsValid, NothingToDelete, CachesFresh,
                Typing, TypeOK, CallPlace
  <1>6. ASSUME NEW here \in {"sign_root", "sign_signer"},
               NEW t \in {RootTemplate, SignerTemplate},
               NEW next \in {"sign_signer", "read"}, SignPredefined(here, t, next)
        PROVE  Consistent'
    <2>1. call'.stage = "statement"
      BY <1>6 DEF SignPredefined, Store, Idle
    <2> QED BY <1>0, <1>6, <2>1
            DEF SignPredefined, Consistent, StatementsUnique, ReferencesResolve,
                OneOpinionPerSigner, CallIdsValid, NothingToDelete, KeyRows,
                CachesFresh
  <1>7. CASE ReadCaches
    <2>1. SignersFresh'
      BY <1>7, NamesDiffer DEF ReadCaches, read_signers, SignersFresh
    <2>2. TemplatesFresh'
      BY <1>7, NamesDiffer DEF ReadCaches, read_templates, TemplatesFresh
    <2>3. call'.stage = "idle"
      BY <1>7 DEF ReadCaches, Idle
    <2> QED BY <1>0, <1>7, <2>1, <2>2, <2>3
            DEF ReadCaches, Consistent, StatementsUnique, ReferencesResolve,
                OneOpinionPerSigner, CallIdsValid, NothingToDelete, KeyRows,
                CachesFresh
  <1>8. CASE CleanupOpinions
    <2>1. call.stage = "idle" /\ UNCHANGED <<call, statement>> /\ opinion' \subseteq opinion
      BY <1>8 DEF CleanupOpinions, Consistent, Typing, TypeOK, CallPlace
    <2>2. ReferencesResolve' /\ OneOpinionPerSigner'
      BY <2>1 DEF Consistent, ReferencesResolve, OneOpinionPerSigner
    <2> QED BY <1>0, <1>8, <2>1, <2>2
            DEF CleanupOpinions, Consistent, StatementsUnique, CallIdsValid,
                NothingToDelete, KeyRows, CachesFresh, SignersFresh, TemplatesFresh
  <1>9. CASE CleanupStatements
    <2>1. /\ UNCHANGED <<opinion, private_key, templates, signers, own_key, call>>
          /\ pc = "cleanup_statements" /\ pc' = "ready"
      BY <1>9 DEF CleanupStatements
    <2>2. call.stage = "idle"
      BY <2>1 DEF Consistent, Typing, TypeOK, CallPlace
    <2>3. \A i \in Ids : /\ Referenced(i) => statement'[i] = statement[i]
                         /\ statement'[i] # Null => statement'[i] = statement[i]
      BY <1>9 DEF CleanupStatements, Unreferenced
    <2>4. \A o \in opinion : Referenced(o.statement_id) /\ Referenced(o.signer_id)
      BY DEF Referenced
    <2>5. \A row \in private_key : Referenced(row.signer_id)
      BY DEF Referenced
    <2>6. opinion \subseteq OpinionRows /\ private_key \subseteq [signer_id : Ids, key : Keys]
      BY DEF Consistent, Typing, TypeOK
    <2>7. ReferencesResolve'
      BY <2>1, <2>3, <2>4, <2>6 DEF Consistent, ReferencesResolve, OpinionRows
    <2>8. KeyRows'
      BY <2>1, <2>3, <2>5, <2>6 DEF Consistent, KeyRows
    <2>9. StatementsUnique'
      BY <2>3 DEF Consistent, StatementsUnique
    <2>10. SignersFresh' /\ TemplatesFresh'
      BY <2>1, <2>3, NamesDiffer DEF Consistent, CachesFresh, SignersFresh, TemplatesFresh
    <2> QED BY <1>0, <2>1, <2>2, <2>7, <2>8, <2>9, <2>10
            DEF Consistent, OneOpinionPerSigner, CallIdsValid, NothingToDelete,
                CachesFresh
  <1> QED BY <1>1, <1>2, <1>3, <1>4, <1>5, <1>6, <1>7, <1>8, <1>9 DEF StartUp

LEMMA ConsistentAddedOpinion ==
  ASSUME Consistent, call.stage \in {"select", "insert"}, Previous = {},
         opinion' = opinion \cup {PendingRow}, UNCHANGED statement
  PROVE  ReferencesResolve' /\ OneOpinionPerSigner'
  <1>1. /\ PendingRow.statement_id = call.statement_id
        /\ PendingRow.signer_id = call.signer_id
    BY DEF PendingRow
  <1>2. call.statement \in Statements /\ Head(call.opinions).signer \in Keys
    BY HeadIsOpinion DEF Consistent, Typing, WellFormed, Calls, SignedOpinions
  <1>3. statement[PendingRow.statement_id] # Null
    BY <1>1, <1>2, StatementTypes DEF Consistent, CallIdsValid
  <1>4. \E k \in Keys : statement[PendingRow.signer_id] = SignerStatement(k)
    BY <1>1, <1>2 DEF Consistent, CallIdsValid
  <1>5. ReferencesResolve'
    BY <1>3, <1>4 DEF Consistent, ReferencesResolve
  <1>6. OneOpinionPerSigner'
    BY <1>1 DEF Consistent, OneOpinionPerSigner, Previous
  <1> QED BY <1>5, <1>6

LEMMA ConsistentCallStep == Consistent /\ CallStep => Consistent'
  <1> SUFFICES ASSUME Consistent, CallStep
               PROVE  Consistent'
    OBVIOUS
  <1> USE DEF tables, caches
  <1>0. Typing'
    BY TypingCallStep DEF Consistent
  <1>1. CASE PersistStatement
    <2>1. PICK id \in Ids :
             persist(call.statement, id) /\ call' = AfterStatement(id)
      BY <1>1 DEF PersistStatement
    <2>2. call \in Calls /\ call.statement \in Statements
      BY DEF Consistent, Typing, WellFormed, Calls
    <2>3. UNCHANGED <<opinion, private_key, own_key, pc>> /\ call.stage = "statement"
      BY <1>1 DEF PersistStatement
    <2>4. /\ StatementsUnique'
          /\ \A i \in Ids : statement[i] # Null => statement'[i] = statement[i]
          /\ statement'[id] = call.statement
          /\ SignersFresh => SignersFresh'
          /\ TemplatesFresh => TemplatesFresh'
      BY <2>1, <2>2, PersistKeeps
    <2>5. ReferencesResolve' /\ OneOpinionPerSigner' /\ KeyRows'
      BY <2>3, <2>4, KeptRowsKeepReferences DEF Consistent, KeyRows
    <2>6. \/ call'.stage = "idle"
          \/ /\ call'.stage = "signer" /\ call'.statement = call.statement
             /\ call'.statement_id = id
      BY <2>1, AfterStatementWellFormed DEF Consistent, Typing, Idle
    <2> QED BY <1>0, <2>3, <2>4, <2>5, <2>6
            DEF Consistent, CallIdsValid, NothingToDelete, CachesFresh
  <1>2. CASE RefuseStatement
    BY <1>0, <1>2 DEF RefuseStatement, Idle, Consistent, StatementsUnique, ReferencesResolve,
       OneOpinionPerSigner, CallIdsValid, NothingToDelete, KeyRows, CachesFresh,
       SignersFresh, TemplatesFresh
  <1>3. CASE PersistSigner
    <2> DEFINE k == Head(call.opinions).signer
    <2>1. PICK id \in Ids :
             /\ persist(SignerStatement(k), id)
             /\ call' = [call EXCEPT !.stage = "select", !.signer_id = id]
      BY <1>3 DEF PersistSigner
    <2>2. call \in Calls /\ SignerStatement(k) \in Statements
      BY <1>3, HeadIsOpinion, StatementTypes
         DEF PersistSigner, Consistent, Typing, WellFormed, SignedOpinions
    <2>3. UNCHANGED <<opinion, private_key, own_key, pc>> /\ call.stage = "signer"
      BY <1>3 DEF PersistSigner
    <2>4. /\ StatementsUnique'
          /\ \A i \in Ids : statement[i] # Null => statement'[i] = statement[i]
          /\ statement'[id] = SignerStatement(k)
          /\ SignersFresh => SignersFresh'
          /\ TemplatesFresh => TemplatesFresh'
      BY <2>1, <2>2, PersistKeeps
    <2>5. ReferencesResolve' /\ OneOpinionPerSigner' /\ KeyRows'
      BY <2>3, <2>4, KeptRowsKeepReferences DEF Consistent, KeyRows
    <2>6. /\ call'.stage = "select" /\ call'.statement = call.statement
          /\ call'.statement_id = call.statement_id /\ call'.signer_id = id
          /\ call'.opinions = call.opinions
      BY <2>1, <2>2 DEF Calls
    <2>7. statement'[call.statement_id] = call.statement
      <3>1. /\ call.statement_id \in Ids /\ call.statement \in Statements
            /\ statement[call.statement_id] = call.statement
        BY <2>3 DEF Consistent, Typing, WellFormed, Calls, CallIdsValid
      <3> QED BY <3>1, <2>4, StatementTypes
    <2>8. CallIdsValid'
      BY <2>4, <2>6, <2>7 DEF CallIdsValid
    <2> QED BY <1>0, <2>3, <2>4, <2>5, <2>6, <2>8
            DEF Consistent, NothingToDelete, CachesFresh
  <1>4. ASSUME call.stage \in {"select", "insert"}, call' = AfterOpinion,
               UNCHANGED <<statement, pc>>
        PROVE  CallIdsValid' /\ NothingToDelete'
    <2>1. \/ AfterOpinion = Idle
          \/ /\ AfterOpinion.stage = "signer"
             /\ AfterOpinion.statement = call.statement
             /\ AfterOpinion.statement_id = call.statement_id
      BY <1>4, AfterOpinionWellFormed DEF Consistent, Typing
    <2> QED BY <1>4, <2>1
            DEF Consistent, Idle, CallIdsValid, NothingToDelete
  <1>5. CASE InsertFirst \/ InsertNewer
    <2>1. /\ call.stage \in {"select", "insert"} /\ Previous = {}
          /\ opinion' = opinion \cup {PendingRow} /\ call' = AfterOpinion
          /\ UNCHANGED <<statement, private_key, templates, signers, own_key, pc>>
      BY <1>5 DEF InsertFirst, InsertNewer, Consistent, NothingToDelete
    <2>2. ReferencesResolve' /\ OneOpinionPerSigner'
      BY <2>1, ConsistentAddedOpinion
    <2> QED BY <1>0, <1>4, <2>1, <2>2
            DEF Consistent, StatementsUnique, KeyRows, CachesFresh, SignersFresh,
                TemplatesFresh
  <1>6. CASE DeleteOverridden
    <2>1. PICK o \in Overridden : opinion' = opinion \ {o}
      BY <1>6 DEF DeleteOverridden
    <2>2. /\ call.stage = "select" /\ call' = [call EXCEPT !.stage = "insert"]
          /\ UNCHANGED <<statement, private_key, templates, signers, own_key, pc>>
      BY <1>6 DEF DeleteOverridden
    <2>3. /\ call'.stage = "insert" /\ call'.statement = call.statement
          /\ call'.statement_id = call.statement_id /\ call'.signer_id = call.signer_id
          /\ call'.opinions = call.opinions
      BY <2>2 DEF Consistent, Typing, WellFormed, Calls
    <2>4. Previous' = {}
      BY <2>1, <2>3 DEF Overridden, Previous, Consistent, OneOpinionPerSigner
    <2>5. ReferencesResolve' /\ OneOpinionPerSigner'
      BY <2>1, <2>2 DEF Consistent, ReferencesResolve, OneOpinionPerSigner
    <2> QED BY <1>0, <2>2, <2>3, <2>4, <2>5
            DEF Consistent, StatementsUnique, CallIdsValid, NothingToDelete,
                KeyRows, CachesFresh, SignersFresh, TemplatesFresh
  <1>7. CASE KeepOld
    <2>1. /\ call.stage = "select" /\ call' = AfterOpinion
          /\ UNCHANGED <<statement, opinion, private_key, templates, signers, own_key, pc>>
      BY <1>7 DEF KeepOld
    <2> QED BY <1>0, <1>4, <2>1
            DEF Consistent, StatementsUnique, ReferencesResolve, OneOpinionPerSigner,
                KeyRows, CachesFresh, SignersFresh, TemplatesFresh
  <1> QED BY <1>1, <1>2, <1>3, <1>5, <1>6, <1>7 DEF CallStep

LEMMA ConsistentReceive ==
  ASSUME Consistent, NEW s \in Inputs,
         (\E ops \in Batches : Receive(s, ops)) \/ UserStatement(s)
  PROVE  Consistent'
  <1> USE DEF tables, caches
  <1>1. Typing'
    BY TypingReceive DEF Consistent
  <1>2. PICK ops : Receive(s, ops)
    BY DEF UserStatement
  <1>3. call'.stage = "statement"
    BY <1>2 DEF Receive, Store, Idle
  <1> QED BY <1>1, <1>2, <1>3
          DEF Receive, Consistent, StatementsUnique, ReferencesResolve, OneOpinionPerSigner,
              CallIdsValid, NothingToDelete, KeyRows, CachesFresh, SignersFresh,
              TemplatesFresh

LEMMA ConsistentEnvironment == Consistent /\ (Crash \/ NextDay) => Consistent'
  <1> USE DEF tables, caches
  <1>1. ASSUME Consistent, Crash
        PROVE  Consistent'
    <2>1. Typing'
      BY <1>1, TypingEnvironment DEF Consistent
    <2> QED BY <1>1, <2>1
            DEF Crash, Idle, Consistent, StatementsUnique, ReferencesResolve,
                OneOpinionPerSigner, CallIdsValid, NothingToDelete, KeyRows,
                CachesFresh
  <1>2. ASSUME Consistent, NextDay
        PROVE  Consistent'
    <2>1. Typing'
      BY <1>2, TypingEnvironment DEF Consistent
    <2> QED BY <1>2, <2>1
            DEF NextDay, Consistent, StatementsUnique, ReferencesResolve,
                OneOpinionPerSigner, CallIdsValid, NothingToDelete, Previous,
                KeyRows, CachesFresh, SignersFresh, TemplatesFresh
  <1> QED BY <1>1, <1>2

LEMMA ConsistentNext == Consistent /\ [Next]_vars => Consistent'
  <1> SUFFICES ASSUME Consistent, [Next]_vars
               PROVE  Consistent'
    OBVIOUS
  <1>1. CASE UNCHANGED vars
    <2>1. Typing'
      BY <1>1, TypingNext DEF Consistent
    <2> QED BY <1>1, <2>1
            DEF vars, Consistent, StatementsUnique, ReferencesResolve, OneOpinionPerSigner,
                CallIdsValid, NothingToDelete, Previous, KeyRows, CachesFresh,
                SignersFresh, TemplatesFresh
  <1> QED BY <1>1, ConsistentStartUp, ConsistentCallStep, ConsistentReceive,
             ConsistentEnvironment DEF Next

LEMMA AlwaysConsistent == Spec => []Consistent
  BY ConsistentInit, ConsistentNext, PTL DEF Spec

\* The database never refuses a step for a foreign key, and the signer of any
\* opinion can be read back, whichever rows cleanup has freed and reused.
THEOREM ReferencesAlwaysResolve == Spec => []ReferencesResolve
  <1>1. Consistent => ReferencesResolve
    BY DEF Consistent
  <1> QED BY <1>1, AlwaysConsistent, PTL

\* list_opinions_on finds the signer of every opinion in the cache, with the
\* key that the opinion's row refers to, and the statements of a stored template
\* are accepted, once start-up has read the tables.
THEOREM CachesAlwaysServe == Spec => []CachesServe
  <1>1. Consistent => SignersCached
    BY NamesDiffer
       DEF Consistent, Typing, TypeOK, OpinionRows, CachesFresh, SignersFresh,
           ReferencesResolve, SignersCached
  <1>2. Consistent => TemplatesCached
    BY DEF Consistent, CachesFresh, TemplatesFresh, TemplatesCached
  <1>3. Consistent => CachesServe
    BY <1>1, <1>2 DEF CachesServe
  <1> QED BY <1>3, AlwaysConsistent, PTL

\* Select and insert leave one row for a statement.
THEOREM StatementsAlwaysUnique == Spec => []StatementsUnique
  <1>1. Consistent => StatementsUnique
    BY DEF Consistent
  <1> QED BY <1>1, AlwaysConsistent, PTL

\* persist_opinion leaves one opinion of a signer on a statement, also where a
\* crash falls between deleting and inserting.
THEOREM OneOpinionAlways == Spec => []OneOpinionPerSigner
  <1>1. Consistent => OneOpinionPerSigner
    BY DEF Consistent
  <1> QED BY <1>1, AlwaysConsistent, PTL

\* Crashes during start-up never give the node a second identity, nor a key
\* without its signer statement.
THEOREM AlwaysOneIdentity == Spec => []OneIdentity
  <1>1. Consistent => OneIdentity
    BY DEF Consistent, KeyRows, OneIdentity
  <1> QED BY <1>1, AlwaysConsistent, PTL

-----------------------------------------------------------------------------
(***************************************************************************)
(* Storage implements OpinionStore: every step of the tables, seen through *)
(* what the opinions say, is one the abstract store may take.              *)
(***************************************************************************)

(* What opinion rows mean *)

Rows == {Meaning(o) : o \in opinion}

LEMMA HeldRows ==
    /\ call.stage # "insert" => Held = Rows
    /\ call.stage = "insert" => Held = Rows \cup {Meaning(PendingRow)}
  BY DEF Held, Rows

\* An opinion row means the same as long as its statement and its signer do.
LEMMA RowsSame ==
  ASSUME Consistent, UNCHANGED opinion,
         \A i \in Ids : statement[i] # Null => statement'[i] = statement[i]
  PROVE  Rows' = Rows
  <1>1. \A o \in opinion : o.statement_id \in Ids /\ o.signer_id \in Ids
    BY DEF Consistent, Typing, TypeOK, OpinionRows
  <1>2. \A o \in opinion : statement[o.statement_id] # Null /\ statement[o.signer_id] # Null
    BY NamesDiffer DEF Consistent, ReferencesResolve
  <1>3. \A o \in opinion : /\ statement'[o.statement_id] = statement[o.statement_id]
                           /\ statement'[o.signer_id] = statement[o.signer_id]
    BY <1>1, <1>2
  <1>4. \A o \in opinion : Meaning(o)' = Meaning(o)
    BY <1>3 DEF Meaning
  <1> QED BY <1>4 DEF Rows

\* A row whose ids are valid means an opinion of its signer on its statement.
LEMMA MeaningType ==
  ASSUME Consistent, NEW o \in OpinionRows, statement[o.statement_id] # Null,
         NEW k \in Keys, statement[o.signer_id] = SignerStatement(k)
  PROVE  /\ Meaning(o) \in Abstract!HeldOpinions
         /\ Meaning(o).signer = k
         /\ Meaning(o).statement = statement[o.statement_id]
         /\ Meaning(o).date = o.date /\ Meaning(o).valid = o.valid
         /\ Meaning(o).serial = o.serial
  <1>1. statement[o.signer_id].entity = k
    BY NamesDiffer
  <1>2. statement[o.statement_id] \in Statements
    BY DEF Consistent, Typing, TypeOK, OpinionRows
  <1> QED BY <1>1, <1>2 DEF Meaning, OpinionRows, Abstract!HeldOpinions

\* Two rows that say something of one signer on one statement refer to the
\* same rows of the statement table.
LEMMA SameSubjectSameIds ==
  ASSUME Consistent, NEW o \in OpinionRows, NEW p \in OpinionRows,
         statement[o.statement_id] # Null, statement[p.statement_id] # Null,
         NEW k \in Keys, statement[o.signer_id] = SignerStatement(k),
         NEW l \in Keys, statement[p.signer_id] = SignerStatement(l)
  PROVE  Abstract!SameSubject(Meaning(o), Meaning(p))
            <=> o.statement_id = p.statement_id /\ o.signer_id = p.signer_id
  <1>1. /\ Meaning(o).signer = k /\ Meaning(o).statement = statement[o.statement_id]
        /\ Meaning(p).signer = l /\ Meaning(p).statement = statement[p.statement_id]
    BY MeaningType
  <1>2. /\ o.statement_id \in Ids /\ o.signer_id \in Ids
        /\ p.statement_id \in Ids /\ p.signer_id \in Ids
    BY DEF OpinionRows
  <1>3. \A i, j \in Ids : statement[i] # Null /\ statement[i] = statement[j] => i = j
    BY DEF Consistent, StatementsUnique
  <1>4. k = l <=> SignerStatement(k) = SignerStatement(l)
    BY NamesDiffer
  <1>5. statement[o.signer_id] # Null
    BY NamesDiffer
  <1>6. k = l <=> o.signer_id = p.signer_id
    BY <1>2, <1>3, <1>4, <1>5
  <1>7. statement[o.statement_id] = statement[p.statement_id]
           <=> o.statement_id = p.statement_id
    BY <1>2, <1>3
  <1> QED BY <1>1, <1>6, <1>7 DEF Abstract!SameSubject

LEMMA OpinionRefers ==
  ASSUME Consistent, NEW o \in opinion
  PROVE  /\ o \in OpinionRows
         /\ statement[o.statement_id] # Null
         /\ \E k \in Keys : statement[o.signer_id] = SignerStatement(k)
  BY DEF Consistent, Typing, TypeOK, ReferencesResolve

LEMMA PendingRefers ==
  ASSUME Consistent, call.stage \in {"select", "insert"}
  PROVE  /\ PendingRow \in OpinionRows
         /\ PendingRow.statement_id = call.statement_id
         /\ PendingRow.signer_id = call.signer_id
         /\ statement[PendingRow.statement_id] # Null
         /\ \E k \in Keys : statement[PendingRow.signer_id] = SignerStatement(k)
  <1>1. PendingRow \in OpinionRows
    BY PendingRowType DEF Consistent, Typing
  <1>2. /\ PendingRow.statement_id = call.statement_id
        /\ PendingRow.signer_id = call.signer_id
    BY DEF PendingRow
  <1>3. call.statement \in Statements /\ Head(call.opinions).signer \in Keys
    BY HeadIsOpinion DEF Consistent, Typing, WellFormed, Calls, SignedOpinions
  <1> QED BY <1>1, <1>2, <1>3, StatementTypes DEF Consistent, CallIdsValid

\* Just the previous opinions share the subject of the one to be stored.
LEMMA PreviousAreRivals ==
  ASSUME Consistent, call.stage \in {"select", "insert"}, NEW o \in opinion
  PROVE  Abstract!SameSubject(Meaning(PendingRow), Meaning(o)) <=> o \in Previous
  <1>1. /\ PendingRow \in OpinionRows /\ statement[PendingRow.statement_id] # Null
        /\ \E k \in Keys : statement[PendingRow.signer_id] = SignerStatement(k)
        /\ PendingRow.statement_id = call.statement_id
        /\ PendingRow.signer_id = call.signer_id
    BY PendingRefers
  <1>2. /\ o \in OpinionRows /\ statement[o.statement_id] # Null
        /\ \E k \in Keys : statement[o.signer_id] = SignerStatement(k)
    BY OpinionRefers
  <1>3. Abstract!SameSubject(Meaning(PendingRow), Meaning(o))
           <=> /\ PendingRow.statement_id = o.statement_id
               /\ PendingRow.signer_id = o.signer_id
    BY <1>1, <1>2, SameSubjectSameIds
  <1> QED BY <1>1, <1>3 DEF Previous

LEMMA PendingMeaning ==
  ASSUME Consistent, call.stage \in {"select", "insert"}
  PROVE  /\ Meaning(PendingRow) \in Abstract!HeldOpinions
         /\ \A o : Abstract!Supersedes(Meaning(PendingRow), o) <=> Supersedes(Pending, o)
  <1>1. Meaning(PendingRow) \in Abstract!HeldOpinions
    BY PendingRefers, MeaningType
  <1>2. /\ Meaning(PendingRow).date = Pending.date
        /\ Meaning(PendingRow).serial = Pending.serial
    BY DEF Meaning, PendingRow
  <1> QED BY <1>1, <1>2 DEF Supersedes, Abstract!Supersedes

-----------------------------------------------------------------------------
(* The steps that store an opinion *)

\* What the meaning of the pending opinion depends on.
LEMMA PendingKept ==
  ASSUME UNCHANGED statement, call'.statement_id = call.statement_id,
         call'.signer_id = call.signer_id, call'.opinions = call.opinions
  PROVE  PendingRow' = PendingRow /\ Meaning(PendingRow)' = Meaning(PendingRow)
  BY DEF PendingRow, Pending, Meaning

\* The pending opinion takes the place of R, the opinions it overrides.
LEMMA AcceptStep ==
  ASSUME Consistent, call.stage = "select",
         \A o \in Previous : Supersedes(Pending, o),
         Held' = {Meaning(o) : o \in opinion \ Previous} \cup {Meaning(PendingRow)},
         UNCHANGED today
  PROVE  Abstract!Next
  <1> DEFINE new == Meaning(PendingRow)
  <1>1. Held = Rows
    BY HeldRows
  <1>2. \A o \in opinion : Abstract!SameSubject(new, Meaning(o)) <=> o \in Previous
    BY PreviousAreRivals
  <1>3. \A p \in Held : Abstract!SameSubject(new, p) => Abstract!Supersedes(new, p)
    <2> SUFFICES ASSUME NEW p \in Held, Abstract!SameSubject(new, p)
                 PROVE  Abstract!Supersedes(new, p)
      OBVIOUS
    <2>1. PICK o \in opinion : p = Meaning(o)
      BY <1>1 DEF Rows
    <2>2. Supersedes(Pending, o)
      BY <1>2, <2>1
    <2>3. p.date = o.date /\ p.serial = o.serial
      BY <2>1 DEF Meaning
    <2>4. Supersedes(Pending, p)
      BY <2>2, <2>3 DEF Supersedes
    <2> QED BY <2>4, PendingMeaning
  <1>4. {p \in Held : ~Abstract!SameSubject(new, p)} = {Meaning(o) : o \in opinion \ Previous}
    <2> HIDE DEF new
    <2>1. Held = {Meaning(o) : o \in opinion}
      BY <1>1 DEF Rows
    <2>2. \A o \in opinion : ~Abstract!SameSubject(new, Meaning(o)) <=> o \in opinion \ Previous
      BY <1>2
    <2> QED BY <2>1, <2>2
  <1>5. Abstract!Accept(new)
    BY <1>3, <1>4 DEF Abstract!Accept
  <1>6. new \in Abstract!HeldOpinions /\ new \in Held'
    BY PendingMeaning
  <1> QED BY <1>5, <1>6 DEF Abstract!Next

LEMMA AfterOpinionNotInsert ==
  ASSUME Consistent, call.stage \in {"select", "insert"}
  PROVE  AfterOpinion.stage # "insert"
  BY AfterOpinionWellFormed DEF Consistent, Typing, Idle

LEMMA InsertFirstStep == Consistent /\ InsertFirst => Abstract!Next
  <1> SUFFICES ASSUME Consistent, InsertFirst
               PROVE  Abstract!Next
    OBVIOUS
  <1>1. /\ call.stage = "select" /\ Previous = {} /\ call' = AfterOpinion
        /\ opinion' = opinion \cup {PendingRow} /\ UNCHANGED <<statement, today>>
    BY DEF InsertFirst
  <1>2. call'.stage # "insert"
    BY <1>1, AfterOpinionNotInsert
  <1>3. Held' = {Meaning(o)' : o \in opinion'}
    BY <1>2 DEF Held
  <1>4. \A o : Meaning(o)' = Meaning(o)
    BY <1>1 DEF Meaning
  <1>5. Held' = {Meaning(o) : o \in opinion \ Previous} \cup {Meaning(PendingRow)}
    BY <1>1, <1>3, <1>4
  <1> QED BY <1>1, <1>5, AcceptStep

LEMMA DeleteOverriddenStep == Consistent /\ DeleteOverridden => Abstract!Next
  <1> SUFFICES ASSUME Consistent, DeleteOverridden
               PROVE  Abstract!Next
    OBVIOUS
  <1>1. PICK o \in Overridden : opinion' = opinion \ {o}
    BY DEF DeleteOverridden
  <1>2. /\ call.stage = "select" /\ call' = [call EXCEPT !.stage = "insert"]
        /\ UNCHANGED <<statement, today>>
    BY DEF DeleteOverridden
  <1>3. /\ call'.stage = "insert" /\ call'.statement_id = call.statement_id
        /\ call'.signer_id = call.signer_id /\ call'.opinions = call.opinions
    BY <1>2 DEF Consistent, Typing, WellFormed, Calls
  <1>4. Previous = {o}
    BY <1>1 DEF Overridden, Previous, Consistent, OneOpinionPerSigner
  <1>5. \A p \in Previous : Supersedes(Pending, p)
    BY <1>1, <1>4 DEF Overridden
  <1>6. Meaning(PendingRow)' = Meaning(PendingRow)
    BY <1>2, <1>3, PendingKept
  <1>7. \A p : Meaning(p)' = Meaning(p)
    BY <1>2 DEF Meaning
  <1>8. Held' = {Meaning(p)' : p \in opinion'} \cup {Meaning(PendingRow)'}
    BY <1>3 DEF Held
  <1>9. Held' = {Meaning(p) : p \in opinion \ Previous} \cup {Meaning(PendingRow)}
    BY <1>1, <1>4, <1>6, <1>7, <1>8
  <1> QED BY <1>2, <1>5, <1>9, AcceptStep

\* The replacement has counted since the deletion.
LEMMA InsertNewerStep == Consistent /\ InsertNewer => UNCHANGED Abstract!vars
  <1> SUFFICES ASSUME Consistent, InsertNewer
               PROVE  UNCHANGED Abstract!vars
    OBVIOUS
  <1>1. /\ call.stage = "insert" /\ call' = AfterOpinion
        /\ opinion' = opinion \cup {PendingRow} /\ UNCHANGED <<statement, today>>
    BY DEF InsertNewer
  <1>2. call'.stage # "insert"
    BY <1>1, AfterOpinionNotInsert
  <1>3. Held' = {Meaning(o)' : o \in opinion'}
    BY <1>2 DEF Held
  <1>4. \A o : Meaning(o)' = Meaning(o)
    BY <1>1 DEF Meaning
  <1>5. Held = {Meaning(o) : o \in opinion} \cup {Meaning(PendingRow)}
    BY <1>1 DEF Held
  <1>6. Held' = Held
    BY <1>1, <1>3, <1>4, <1>5
  <1> QED BY <1>1, <1>6 DEF Abstract!vars

-----------------------------------------------------------------------------
(* All steps *)

\* A step that keeps opinions and rows, and has none to be inserted.
LEMMA Stutter ==
  ASSUME Consistent, UNCHANGED <<opinion, today>>,
         \A i \in Ids : statement[i] # Null => statement'[i] = statement[i],
         call.stage # "insert", call'.stage # "insert"
  PROVE  UNCHANGED Abstract!vars
  <1>1. Held = Rows /\ Held' = Rows'
    BY DEF Held, Rows
  <1> QED BY <1>1, RowsSame DEF Abstract!vars

LEMMA CallStepImplements ==
  Consistent /\ CallStep => [Abstract!Next]_(Abstract!vars)
  <1> SUFFICES ASSUME Consistent, CallStep
               PROVE  [Abstract!Next]_(Abstract!vars)
    OBVIOUS
  <1> USE DEF tables, caches
  <1>1. call \in Calls /\ call.statement \in Statements
    BY DEF Consistent, Typing, TypeOK, Calls
  <1>2. CASE PersistStatement
    <2>1. PICK id \in Ids :
             persist(call.statement, id) /\ call' = AfterStatement(id)
      BY <1>2 DEF PersistStatement
    <2>2. \A i \in Ids : statement[i] # Null => statement'[i] = statement[i]
      BY <1>1, <2>1, PersistKeeps
    <2>3. call'.stage \in {"idle", "signer"} /\ call.stage = "statement" /\ UNCHANGED <<opinion, today>>
      BY <1>2, <2>1, AfterStatementWellFormed DEF PersistStatement, Consistent, Typing, Idle
    <2> QED BY <2>2, <2>3, Stutter
  <1>3. CASE RefuseStatement
    BY <1>3, Stutter DEF RefuseStatement, Idle
  <1>4. CASE PersistSigner
    <2> DEFINE k == Head(call.opinions).signer
    <2>1. PICK id \in Ids :
             /\ persist(SignerStatement(k), id)
             /\ call' = [call EXCEPT !.stage = "select", !.signer_id = id]
      BY <1>4 DEF PersistSigner
    <2>2. SignerStatement(k) \in Statements
      BY <1>4, HeadIsOpinion, StatementTypes
         DEF PersistSigner, Consistent, Typing, SignedOpinions
    <2>3. \A i \in Ids : statement[i] # Null => statement'[i] = statement[i]
      BY <2>1, <2>2, PersistKeeps
    <2>4. call'.stage = "select" /\ call.stage = "signer" /\ UNCHANGED <<opinion, today>>
      BY <1>1, <1>4, <2>1 DEF Calls, PersistSigner
    <2> QED BY <2>3, <2>4, Stutter
  <1>5. CASE InsertFirst
    BY <1>5, InsertFirstStep
  <1>6. CASE DeleteOverridden
    BY <1>6, DeleteOverriddenStep
  <1>7. CASE InsertNewer
    BY <1>7, InsertNewerStep
  <1>8. CASE KeepOld
    <2>1. call.stage = "select" /\ call' = AfterOpinion /\ UNCHANGED <<statement, opinion, today>>
      BY <1>8 DEF KeepOld
    <2>2. call'.stage # "insert"
      BY <2>1, AfterOpinionNotInsert
    <2> QED BY <2>1, <2>2, Stutter
  <1> QED BY <1>2, <1>3, <1>4, <1>5, <1>6, <1>7, <1>8 DEF CallStep

LEMMA StartUpImplements ==
  Consistent /\ (Start \/ StartUp) => [Abstract!Next]_(Abstract!vars)
  <1> SUFFICES ASSUME Consistent, Start \/ StartUp
               PROVE  [Abstract!Next]_(Abstract!vars)
    OBVIOUS
  <1> USE DEF tables, caches
  <1>0. /\ pc \in {"down", "root_template", "signer_template", "own_key", "private_key",
                   "sign_root", "cleanup_opinions", "cleanup_statements"} => call.stage = "idle"
        /\ call = Idle => call.stage = "idle"
    BY DEF Consistent, Typing, TypeOK, CallPlace, Idle
  <1>1. ASSUME NEW s \in Statements, NEW id \in Ids, persist(s, id),
               UNCHANGED <<opinion, call, today>>, call.stage = "idle"
        PROVE  UNCHANGED Abstract!vars
    <2>1. \A i \in Ids : statement[i] # Null => statement'[i] = statement[i]
      BY <1>1, PersistKeeps
    <2> QED BY <1>1, <2>1, Stutter
  <1>2. CASE Start
    BY <1>0, <1>2, Stutter DEF Start
  <1>3. ASSUME NEW here \in {"root_template", "signer_template"}, NEW t \in Templates, NEW next,
               PersistPredefined(here, t, next)
        PROVE  UNCHANGED Abstract!vars
    <2>1. PICK id \in Ids : persist(TemplateStatement(t), id)
      BY <1>3 DEF PersistPredefined
    <2>2. TemplateStatement(t) \in Statements
      BY StatementTypes
    <2> QED BY <1>0, <1>1, <1>3, <2>1, <2>2 DEF PersistPredefined
  <1>4. CASE LoadOwnKey
    BY <1>0, <1>4, Stutter DEF LoadOwnKey
  <1>5. CASE CreateOwnKey
    <2>1. PICK k \in OwnKeys, id \in Ids : persist(SignerStatement(k), id)
      BY <1>5 DEF CreateOwnKey
    <2>2. SignerStatement(k) \in Statements
      BY StatementTypes, StorageAssumption
    <2> QED BY <1>0, <1>1, <1>5, <2>1, <2>2 DEF CreateOwnKey
  <1>6. CASE SavePrivateKey
    BY <1>0, <1>6, Stutter DEF SavePrivateKey
  <1>7. ASSUME NEW here, NEW t, NEW next, SignPredefined(here, t, next)
        PROVE  UNCHANGED Abstract!vars
    BY <1>0, <1>7, Stutter DEF SignPredefined, Store, Idle
  <1>8. CASE ReadCaches
    BY <1>0, <1>8, Stutter DEF ReadCaches
  <1>9. CASE CleanupOpinions
    <2>1. /\ opinion' = {o \in opinion : ~Expired(o, today)} /\ UNCHANGED <<statement, call, today>>
          /\ call.stage = "idle"
      BY <1>0, <1>9 DEF CleanupOpinions
    <2>2. \A o : Meaning(o)' = Meaning(o)
      BY <2>1 DEF Meaning
    <2>3. \A o : Abstract!Expired(Meaning(o), today) <=> Expired(o, today)
      BY DEF Meaning, Expired, LastDate, Abstract!Expired, Abstract!LastDate
    <2>4. Held = {Meaning(o) : o \in opinion}
      BY <2>1 DEF Held
    <2>5. Held' = {Meaning(o)' : o \in opinion'}
      BY <2>1 DEF Held
    <2>6. Held' = {p \in Held : ~Abstract!Expired(p, today)}
      BY <2>1, <2>2, <2>3, <2>4, <2>5
    <2>7. Abstract!Expire
      BY <2>1, <2>6 DEF Abstract!Expire
    <2> QED BY <2>7 DEF Abstract!Next
  <1>10. CASE CleanupStatements
    <2>1. /\ \A i \in Ids : Referenced(i) => statement'[i] = statement[i]
          /\ UNCHANGED <<opinion, call, today>> /\ call.stage = "idle"
      BY <1>0, <1>10 DEF CleanupStatements, Unreferenced
    <2>2. \A o \in opinion : /\ statement'[o.statement_id] = statement[o.statement_id]
                             /\ statement'[o.signer_id] = statement[o.signer_id]
      BY <2>1 DEF Referenced, Consistent, Typing, TypeOK, OpinionRows
    <2>3. \A o \in opinion : Meaning(o)' = Meaning(o)
      BY <2>2 DEF Meaning
    <2>4. Held' = Held
      BY <2>1, <2>3 DEF Held
    <2> QED BY <2>1, <2>4 DEF Abstract!vars
  <1>11. RootTemplate \in Templates /\ SignerTemplate \in Templates
    BY DEF Templates
  <1> QED BY <1>2, <1>3, <1>4, <1>5, <1>6, <1>7, <1>8, <1>9, <1>10, <1>11 DEF StartUp

LEMMA EnvironmentImplements ==
  ASSUME Consistent, ~CrashDuringReplace, Crash \/ NextDay
  PROVE  [Abstract!Next]_(Abstract!vars)
  <1> USE DEF tables, caches
  <1>1. CASE Crash
    BY <1>1, Stutter DEF Crash, Idle
  <1>2. CASE NextDay
    <2>1. UNCHANGED <<statement, opinion, call>> /\ today' = today + 1
      BY <1>2 DEF NextDay
    <2>2. Held' = Held
      BY <2>1 DEF Held, Meaning, PendingRow, Pending
    <2> QED BY <2>1, <2>2 DEF Abstract!NextDay, Abstract!Next
  <1> QED BY <1>1, <1>2

LEMMA StepImplements ==
  ASSUME Consistent, ~CrashDuringReplace, [Next]_vars
  PROVE  [Abstract!Next]_(Abstract!vars)
  <1> USE DEF tables, caches
  <1>1. CASE Start \/ StartUp
    BY <1>1, StartUpImplements
  <1>2. CASE CallStep
    BY <1>2, CallStepImplements
  <1>3. ASSUME NEW s, NEW ops, Receive(s, ops)
        PROVE  UNCHANGED Abstract!vars
    BY <1>3, Stutter DEF Receive, Store, Idle
  <1>4. CASE Crash \/ NextDay
    BY <1>4, EnvironmentImplements
  <1>5. CASE UNCHANGED vars
    BY <1>5 DEF vars, Abstract!vars, Held, Meaning, PendingRow, Pending
  <1> QED BY <1>1, <1>2, <1>3, <1>4, <1>5 DEF Next, UserStatement

LEMMA InitImplements == Init => Abstract!Init
  BY VersionAssumption DEF Init, Abstract!Init, Held, Idle

\* Unless the process dies between deleting an opinion and inserting its
\* successor, the tables keep the promise of OpinionStore through every start,
\* crash, cleanup and reuse of row ids.
THEOREM StorageImplements ==
  ASSUME ~CrashDuringReplace
  PROVE  Spec => ImplementsOpinionStore
  <1>1. Init => Abstract!Init
    BY InitImplements
  <1>2. Consistent /\ [Next]_vars => [Abstract!Next]_(Abstract!vars)
    BY StepImplements
  <1> QED BY <1>1, <1>2, AlwaysConsistent, PTL DEF Spec, ImplementsOpinionStore, Abstract!Spec

-----------------------------------------------------------------------------
(* What a completed start-up leaves behind and the calls after it keep *)

\* The opinion that an overridden one has been deleted for.
Replacing == IF call.stage = "insert" THEN {PendingRow} ELSE {}

\* The node's own opinion on a predefined template is stored, or about to be
\* inserted.  Until start-up is complete it is too young for cleanup to take.
SignedBy(o, t) ==
    /\ statement[o.statement_id] = TemplateStatement(t)
    /\ statement[o.signer_id] = SignerStatement(own_key)
    /\ pc # "ready" => o.date >= today

Signed(t) == \E o \in opinion \cup Replacing : SignedBy(o, t)

\* While start-up has an opinion stored, the call is about the right template.
SigningCall ==
    /\ pc = "sign_signer" /\ call # Idle =>
          call.statement = TemplateStatement(RootTemplate) /\ call.opinions = <<OwnOpinion>>
    /\ pc = "read" /\ call # Idle =>
          call.statement = TemplateStatement(SignerTemplate) /\ call.opinions = <<OwnOpinion>>

BothSigned == {"cleanup_opinions", "cleanup_statements", "ready"}

RootSigned ==
    pc \in BothSigned \cup {"read"} \/ (pc = "sign_signer" /\ call = Idle) =>
        Signed(RootTemplate)

SignerSigned ==
    pc \in BothSigned \/ (pc = "read" /\ call = Idle) => Signed(SignerTemplate)

SignerTemplateAt(i) ==
    statement[i] = TemplateStatement(SignerTemplate) /\ templates[i] = SignerTemplate

SignerTemplateKnown ==
    pc \notin {"down", "root_template", "signer_template"} => \E i \in Ids : SignerTemplateAt(i)

Completing ==
    /\ Consistent
    /\ SigningCall
    /\ RootSigned
    /\ SignerSigned
    /\ SignerTemplateKnown

-----------------------------------------------------------------------------
(* What keeps its parts *)

\* A row that holds a statement keeps it.
RowsKept == \A i \in Ids : statement[i] # Null => statement'[i] = statement[i]

LEMMA PredefinedTemplates ==
    /\ RootTemplate \in Templates /\ SignerTemplate \in Templates
    /\ RootTemplate # SignerTemplate
    /\ \A t \in {RootTemplate, SignerTemplate} : TemplateStatement(t) \in Statements
  BY StorageAssumption, StatementTypes DEF Templates

LEMMA PersistKeepsTemplate ==
  ASSUME Consistent, NEW s \in Statements, NEW id \in Ids, persist(s, id),
         NEW i \in Ids, SignerTemplateAt(i)
  PROVE  SignerTemplateAt(i)'
  <1>1. TypeOK
    BY DEF Consistent, Typing
  <1>2. statement[i] # Null
    BY NamesDiffer, PredefinedTemplates DEF SignerTemplateAt
  <1>3. statement'[i] = statement[i] /\ statement'[id] = s
    BY <1>2, PersistKeeps
  <1>4. /\ i # id => templates'[i] = templates[i]
        /\ templates'[id] = IF s.name = RootTemplate THEN s.entity ELSE templates[id]
    BY <1>1, PersistCaches
  <1>5. i = id => s = TemplateStatement(SignerTemplate)
    BY <1>3 DEF SignerTemplateAt
  <1> QED BY <1>3, <1>4, <1>5, NamesDiffer DEF SignerTemplateAt

LEMMA HeldRowsTyped ==
  ASSUME Consistent, NEW o \in opinion \cup Replacing
  PROVE  o \in OpinionRows
  BY PendingRowType DEF Consistent, Typing, TypeOK, Replacing

LEMMA SignedByStays ==
  ASSUME Consistent, RowsKept, own_key \in Keys, UNCHANGED own_key,
         pc' # "ready" => pc # "ready" /\ today' = today,
         NEW t \in Templates, NEW o \in opinion \cup Replacing, SignedBy(o, t)
  PROVE  SignedBy(o, t)'
  <1>1. o.statement_id \in Ids /\ o.signer_id \in Ids
    BY HeldRowsTyped DEF OpinionRows
  <1>2. statement[o.statement_id] # Null /\ statement[o.signer_id] # Null
    BY NamesDiffer DEF SignedBy
  <1>3. /\ statement'[o.statement_id] = TemplateStatement(t)
        /\ statement'[o.signer_id] = SignerStatement(own_key)
    BY <1>1, <1>2 DEF SignedBy, RowsKept
  <1> QED BY <1>3 DEF SignedBy, SignerStatement

LEMMA SignedStays ==
  ASSUME Consistent, RowsKept, own_key \in Keys, UNCHANGED own_key,
         pc' # "ready" => pc # "ready" /\ today' = today,
         opinion \cup Replacing \subseteq opinion' \cup Replacing',
         NEW t \in Templates, Signed(t)
  PROVE  Signed(t)'
  <1>1. PICK o \in opinion \cup Replacing : SignedBy(o, t)
    BY DEF Signed
  <1>2. SignedBy(o, t)'
    BY <1>1, SignedByStays
  <1> QED BY <1>2 DEF Signed

-----------------------------------------------------------------------------
(* The steps of start-up *)

LEMMA CompletingInit == Init => Completing
  BY ConsistentInit
     DEF Init, Completing, SigningCall, RootSigned, SignerSigned, BothSigned,
         SignerTemplateKnown

LEMMA EarlySteps ==
  ASSUME Completing, pc' \in {"root_template", "signer_template", "own_key", "private_key",
                              "sign_root", "down"}
  PROVE  SigningCall' /\ RootSigned' /\ SignerSigned'
  BY DEF SigningCall, RootSigned, SignerSigned, BothSigned

LEMMA CompletingPersists ==
  ASSUME Completing,
         \/ PersistPredefined("root_template", RootTemplate, "signer_template")
         \/ PersistPredefined("signer_template", SignerTemplate, "own_key")
         \/ CreateOwnKey
  PROVE  Completing'
  <1>0. Consistent /\ Consistent'
    BY ConsistentStartUp DEF Completing, StartUp
  <1>1. CASE PersistPredefined("root_template", RootTemplate, "signer_template")
    BY <1>0, <1>1, EarlySteps DEF PersistPredefined, Completing, SignerTemplateKnown
  <1>2. CASE PersistPredefined("signer_template", SignerTemplate, "own_key")
    <2>1. PICK id \in Ids : persist(TemplateStatement(SignerTemplate), id)
      BY <1>2 DEF PersistPredefined
    <2>2. TypeOK /\ TemplateStatement(SignerTemplate) \in Statements
      BY PredefinedTemplates DEF Completing, Consistent, Typing
    <2>3. SignerTemplateAt(id)'
      BY <2>1, <2>2, PersistRow, PersistCaches, NamesDiffer DEF SignerTemplateAt
    <2>4. SignerTemplateKnown'
      BY <2>3 DEF SignerTemplateKnown
    <2> QED BY <1>0, <1>2, <2>4, EarlySteps DEF PersistPredefined, Completing
  <1>3. CASE CreateOwnKey
    <2>1. PICK k \in OwnKeys, id \in Ids : persist(SignerStatement(k), id)
      BY <1>3 DEF CreateOwnKey
    <2>2. SignerStatement(k) \in Statements
      BY StorageAssumption, StatementTypes
    <2>3. PICK i \in Ids : SignerTemplateAt(i)
      BY <1>3 DEF CreateOwnKey, Completing, SignerTemplateKnown
    <2>4. SignerTemplateAt(i)'
      BY <1>0, <2>1, <2>2, <2>3, PersistKeepsTemplate
    <2>5. SignerTemplateKnown'
      BY <2>4 DEF SignerTemplateKnown
    <2> QED BY <1>0, <1>3, <2>5, EarlySteps DEF CreateOwnKey, Completing
  <1> QED BY <1>1, <1>2, <1>3

LEMMA CompletingKeySteps ==
  ASSUME Completing, Start \/ LoadOwnKey \/ SavePrivateKey
  PROVE  Completing'
  <1>1. Consistent'
    BY ConsistentStartUp DEF Completing, StartUp
  <1>2. SigningCall' /\ RootSigned' /\ SignerSigned'
    BY EarlySteps DEF Start, LoadOwnKey, SavePrivateKey
  <1>3. SignerTemplateKnown'
    BY DEF Start, LoadOwnKey, SavePrivateKey, tables, caches, Completing,
           SignerTemplateKnown, SignerTemplateAt
  <1> QED BY <1>1, <1>2, <1>3 DEF Completing

LEMMA CompletingSigning ==
  ASSUME Completing,
         \/ SignPredefined("sign_root", RootTemplate, "sign_signer")
         \/ SignPredefined("sign_signer", SignerTemplate, "read")
  PROVE  Completing'
  <1> USE DEF tables, caches
  <1>0. Consistent'
    BY ConsistentStartUp DEF Completing, StartUp
  <1>1. PICK t \in {RootTemplate, SignerTemplate} :
           call' = Store(TemplateStatement(t), <<OwnOpinion>>)
    BY DEF SignPredefined
  <1>2. call' # Idle /\ OwnOpinion' = OwnOpinion
    <2>1. call'.stage = "statement" /\ Idle.stage = "idle"
      BY <1>1 DEF Store, Idle
    <2> QED BY <2>1 DEF SignPredefined, OwnOpinion
  <1>3. SignerTemplateKnown'
    BY DEF SignPredefined, Completing, SignerTemplateKnown, SignerTemplateAt
  <1>4. SignerSigned'
    BY <1>2 DEF SignPredefined, SignerSigned, BothSigned
  <1>5. CASE SignPredefined("sign_root", RootTemplate, "sign_signer")
    <2>1. SigningCall'
      BY <1>2, <1>5 DEF SignPredefined, Store, Idle, SigningCall
    <2>2. RootSigned'
      BY <1>2, <1>5 DEF SignPredefined, RootSigned, BothSigned
    <2> QED BY <1>0, <1>3, <1>4, <2>1, <2>2 DEF Completing
  <1>6. CASE SignPredefined("sign_signer", SignerTemplate, "read")
    <2>1. SigningCall'
      BY <1>2, <1>6 DEF SignPredefined, Store, Idle, SigningCall
    <2>2. Signed(RootTemplate) /\ own_key \in Keys
      BY <1>6 DEF SignPredefined, Completing, RootSigned, Consistent, Typing, KeyKnown
    <2>3. Replacing = {} /\ RowsKept
      BY <1>6 DEF SignPredefined, Idle, Replacing, RowsKept
    <2>4. Signed(RootTemplate)'
      BY <1>6, <2>2, <2>3, SignedStays, PredefinedTemplates DEF SignPredefined, Completing
    <2>5. RootSigned'
      BY <2>4 DEF RootSigned
    <2> QED BY <1>0, <1>3, <1>4, <2>1, <2>5 DEF Completing
  <1> QED BY <1>5, <1>6

LEMMA CompletingRead == Completing /\ ReadCaches => Completing'
  <1> SUFFICES ASSUME Completing, ReadCaches
               PROVE  Completing'
    OBVIOUS
  <1> USE DEF tables, caches
  <1>0. Consistent'
    BY ConsistentStartUp DEF Completing, StartUp
  <1>1. /\ pc = "read" /\ pc' = "cleanup_opinions" /\ call = Idle
        /\ templates' = read_templates
        /\ UNCHANGED <<statement, opinion, private_key, own_key, call, today>>
    BY DEF ReadCaches
  <1>2. Signed(RootTemplate) /\ Signed(SignerTemplate) /\ own_key \in Keys
    BY <1>1 DEF Completing, RootSigned, SignerSigned, Consistent, Typing, KeyKnown
  <1>3. Replacing = {} /\ RowsKept
    BY <1>1 DEF Idle, Replacing, RowsKept
  <1>4. Signed(RootTemplate)' /\ Signed(SignerTemplate)'
    BY <1>1, <1>2, <1>3, SignedStays, PredefinedTemplates DEF Completing
  <1>5. PICK i \in Ids : SignerTemplateAt(i)
    BY <1>1 DEF Completing, SignerTemplateKnown
  <1>6. SignerTemplateAt(i)'
    BY <1>1, <1>5, NamesDiffer, PredefinedTemplates DEF SignerTemplateAt, read_templates
  <1> QED BY <1>0, <1>1, <1>4, <1>6
          DEF Completing, SigningCall, RootSigned, SignerSigned, SignerTemplateKnown

\* An opinion of today or later has not expired.
LEMMA YoungNotExpired ==
  ASSUME NEW o \in OpinionRows, o.date >= today, today \in Dates
  PROVE  ~Expired(o, today)
  <1>1. o.date \in Dates /\ o.valid \in Valids
    BY DEF OpinionRows
  <1>2. o.date \in Nat /\ o.valid \in Nat /\ today \in Nat
    BY <1>1, VersionAssumption
  <1>3. ~(o.date + o.valid < today)
    BY <1>2
  <1> QED BY <1>3 DEF Expired, LastDate

LEMMA CompletingCleanupOpinions == Completing /\ CleanupOpinions => Completing'
  <1> SUFFICES ASSUME Completing, CleanupOpinions
               PROVE  Completing'
    OBVIOUS
  <1> USE DEF tables, caches
  <1>0. Consistent'
    BY ConsistentStartUp DEF Completing, StartUp
  <1>1. /\ pc = "cleanup_opinions" /\ pc' = "cleanup_statements"
        /\ opinion' = {o \in opinion : ~Expired(o, today)}
        /\ UNCHANGED <<statement, private_key, templates, own_key, call, today>>
    BY DEF CleanupOpinions
  <1>2. call.stage = "idle"
    BY <1>1 DEF Completing, Consistent, Typing, TypeOK, CallPlace
  <1>3. ASSUME NEW t \in Templates, Signed(t)
        PROVE  Signed(t)'
    <2>1. PICK o \in opinion : SignedBy(o, t)
      BY <1>2, <1>3 DEF Signed, Replacing
    <2>2. o \in OpinionRows /\ today \in Dates
      BY DEF Completing, Consistent, Typing, TypeOK
    <2>3. o.date >= today
      BY <1>1, <2>1 DEF SignedBy
    <2>4. o \in opinion'
      BY <1>1, <2>2, <2>3, YoungNotExpired
    <2>5. SignedBy(o, t)'
      BY <1>1, <2>1 DEF SignedBy, SignerStatement
    <2> QED BY <2>4, <2>5 DEF Signed
  <1>4. Signed(RootTemplate)' /\ Signed(SignerTemplate)'
    BY <1>1, <1>3, PredefinedTemplates DEF Completing, RootSigned, SignerSigned, BothSigned
  <1>5. SignerTemplateKnown'
    BY <1>1 DEF Completing, SignerTemplateKnown, SignerTemplateAt
  <1> QED BY <1>0, <1>1, <1>4, <1>5
          DEF Completing, SigningCall, RootSigned, SignerSigned

LEMMA CompletingCleanupStatements == Completing /\ CleanupStatements => Completing'
  <1> SUFFICES ASSUME Completing, CleanupStatements
               PROVE  Completing'
    OBVIOUS
  <1> USE DEF tables, caches
  <1>0. Consistent'
    BY ConsistentStartUp DEF Completing, StartUp
  <1>1. /\ pc = "cleanup_statements" /\ pc' = "ready"
        /\ UNCHANGED <<opinion, private_key, templates, own_key, call, today>>
    BY DEF CleanupStatements
  <1>2. call.stage = "idle"
    BY <1>1 DEF Completing, Consistent, Typing, TypeOK, CallPlace
  <1>3. \A i \in Ids : /\ Referenced(i) => statement'[i] = statement[i]
                       /\ statement'[i] # Null => Referenced(i)
    BY DEF CleanupStatements, Unreferenced
  <1>4. ASSUME NEW t \in Templates, Signed(t)
        PROVE  \E o \in opinion : SignedBy(o, t) /\ SignedBy(o, t)'
    <2>1. PICK o \in opinion : SignedBy(o, t)
      BY <1>2, <1>4 DEF Signed, Replacing
    <2>2. o.statement_id \in Ids /\ o.signer_id \in Ids
      BY DEF Completing, Consistent, Typing, TypeOK, OpinionRows
    <2>3. Referenced(o.statement_id) /\ Referenced(o.signer_id)
      BY DEF Referenced
    <2>4. /\ statement'[o.statement_id] = statement[o.statement_id]
          /\ statement'[o.signer_id] = statement[o.signer_id]
      BY <1>3, <2>2, <2>3
    <2>5. SignedBy(o, t)'
      BY <1>1, <2>1, <2>4 DEF SignedBy, SignerStatement
    <2> QED BY <2>1, <2>5
  <1>5. Signed(RootTemplate) /\ Signed(SignerTemplate)
    BY <1>1 DEF Completing, RootSigned, SignerSigned, BothSigned
  <1>6. Signed(RootTemplate)' /\ Signed(SignerTemplate)'
    BY <1>1, <1>4, <1>5, PredefinedTemplates DEF Signed
  <1>7. SignerTemplateKnown'
    <2>1. PICK o \in opinion : SignedBy(o, SignerTemplate) /\ SignedBy(o, SignerTemplate)'
      BY <1>4, <1>5, PredefinedTemplates
    <2>2. o.statement_id \in Ids
      BY DEF Completing, Consistent, Typing, TypeOK, OpinionRows
    <2>3. templates[o.statement_id] = SignerTemplate
      BY <1>1, <2>1, <2>2, PredefinedTemplates
         DEF SignedBy, Completing, Consistent, CachesFresh, TemplatesFresh
    <2>4. SignerTemplateAt(o.statement_id)'
      BY <1>1, <2>1, <2>3 DEF SignedBy, SignerTemplateAt
    <2> QED BY <2>2, <2>4 DEF SignerTemplateKnown
  <1> QED BY <1>0, <1>1, <1>6, <1>7
          DEF Completing, SigningCall, RootSigned, SignerSigned

LEMMA CompletingStartUp == Completing /\ (Start \/ StartUp) => Completing'
  BY CompletingPersists, CompletingKeySteps, CompletingSigning, CompletingRead,
     CompletingCleanupOpinions, CompletingCleanupStatements DEF StartUp

-----------------------------------------------------------------------------
(* The steps of a call *)

LEMMA CallStepKeepsRows ==
  ASSUME Consistent, CallStep
  PROVE  /\ RowsKept
         /\ UNCHANGED <<private_key, own_key, pc, today>>
         /\ call.stage # "idle"
  <1> USE DEF tables, caches
  <1>1. CASE PersistStatement
    <2>1. PICK id \in Ids : persist(call.statement, id)
      BY <1>1 DEF PersistStatement
    <2>2. call.statement \in Statements
      BY DEF Consistent, Typing, WellFormed, Calls
    <2> QED BY <1>1, <2>1, <2>2, PersistKeeps DEF RowsKept, PersistStatement
  <1>2. CASE PersistSigner
    <2>1. PICK id \in Ids : persist(SignerStatement(Head(call.opinions).signer), id)
      BY <1>2 DEF PersistSigner
    <2>2. SignerStatement(Head(call.opinions).signer) \in Statements
      BY <1>2, HeadIsOpinion, StatementTypes
         DEF PersistSigner, Consistent, Typing, SignedOpinions
    <2> QED BY <1>2, <2>1, <2>2, PersistKeeps DEF RowsKept, PersistSigner
  <1>3. CASE RefuseStatement \/ InsertFirst \/ DeleteOverridden \/ InsertNewer \/ KeepOld
    BY <1>3 DEF RowsKept, RefuseStatement, InsertFirst, DeleteOverridden, InsertNewer, KeepOld
  <1> QED BY <1>1, <1>2, <1>3 DEF CallStep

\* What AfterOpinion makes of the call.
LEMMA AfterOpinionStage ==
  ASSUME Consistent, call.stage \in {"select", "insert"}
  PROVE  \/ AfterOpinion = Idle
         \/ AfterOpinion.stage = "signer" /\ AfterOpinion.statement_id = call.statement_id
  BY AfterOpinionWellFormed DEF Consistent, Typing

\* The opinion that overrides another is no older.
LEMMA DeleteKeepsSigned ==
  ASSUME Consistent, DeleteOverridden, NEW t \in Templates, Signed(t)
  PROVE  Signed(t)'
  <1> USE DEF tables, caches
  <1>1. PICK d \in Overridden : opinion' = opinion \ {d}
    BY DEF DeleteOverridden
  <1>2. /\ call.stage = "select" /\ call' = [call EXCEPT !.stage = "insert"]
        /\ UNCHANGED <<statement, own_key, pc, today>>
    BY DEF DeleteOverridden
  <1>3. call' = [call EXCEPT !.stage = "insert"] /\ call \in Calls /\ call'.stage = "insert"
    BY <1>2 DEF Consistent, Typing, WellFormed, Calls
  <1>4. /\ call'.statement_id = call.statement_id /\ call'.signer_id = call.signer_id
        /\ call'.opinions = call.opinions
    BY <1>3 DEF Calls
  <1>5. PendingRow' = PendingRow /\ Replacing' = {PendingRow} /\ Replacing = {}
    BY <1>2, <1>3, <1>4 DEF PendingRow, Pending, Replacing
  <1>6. PICK o \in opinion : SignedBy(o, t)
    BY <1>5 DEF Signed
  <1>7. CASE o # d
    BY <1>1, <1>2, <1>6, <1>7 DEF Signed, SignedBy, SignerStatement
  <1>8. CASE o = d
    <2>1. /\ o.statement_id = call.statement_id /\ o.signer_id = call.signer_id
          /\ Supersedes(Pending, o) /\ PendingRow.date = Pending.date
          /\ PendingRow.statement_id = call.statement_id
          /\ PendingRow.signer_id = call.signer_id
      BY <1>8 DEF Overridden, Previous, PendingRow
    <2>2. o \in OpinionRows /\ PendingRow \in OpinionRows /\ today \in Dates
      BY <1>2, PendingRowType DEF Consistent, Typing, TypeOK
    <2>3. o.date \in Nat /\ PendingRow.date \in Nat /\ today \in Nat
      BY <2>2, VersionAssumption DEF OpinionRows
    <2>4. o.date >= today => PendingRow.date >= today
      BY <2>1, <2>3 DEF Supersedes
    <2>5. PICK p : p = PendingRow
      OBVIOUS
    <2>6. SignedBy(p, t)
      BY <1>6, <1>8, <2>1, <2>4, <2>5 DEF SignedBy
    <2>7. SignedBy(p, t)'
      BY <1>2, <2>6 DEF SignedBy, SignerStatement
    <2> QED BY <1>5, <2>5, <2>7 DEF Signed
  <1> QED BY <1>7, <1>8

LEMMA CallStepKeepsSigned ==
  ASSUME Consistent, CallStep, own_key \in Keys, NEW t \in Templates, Signed(t)
  PROVE  Signed(t)'
  <1> USE DEF tables, caches
  <1>1. CASE DeleteOverridden
    BY <1>1, DeleteKeepsSigned
  <1>2. CASE ~DeleteOverridden
    <2>1. opinion \cup Replacing \subseteq opinion' \cup Replacing'
      <3>1. CASE InsertFirst \/ InsertNewer
        BY <3>1 DEF InsertFirst, InsertNewer, Replacing
      <3>2. CASE PersistStatement \/ RefuseStatement \/ PersistSigner \/ KeepOld
        BY <3>2 DEF PersistStatement, RefuseStatement, PersistSigner, KeepOld, Replacing
      <3> QED BY <1>2, <3>1, <3>2 DEF CallStep
    <2> QED BY <2>1, CallStepKeepsRows, SignedStays
  <1> QED BY <1>1, <1>2

\* The call that stores the node's own opinion is over after that opinion.
LEMMA OwnCallEnds ==
  ASSUME call.opinions = <<OwnOpinion>>
  PROVE  /\ Head(call.opinions) = OwnOpinion
         /\ Pending.date = today
         /\ AfterOpinion = Idle
  BY DEF Pending, VersionOf, OwnOpinion, AfterOpinion

\* It leaves the template signed, with the new opinion or with one as young.
LEMMA OwnCallSigns ==
  ASSUME Consistent, CallStep, own_key \in Keys, NEW t \in {RootTemplate, SignerTemplate},
         call.statement = TemplateStatement(t), call.opinions = <<OwnOpinion>>,
         call'.stage = "idle"
  PROVE  Signed(t)'
  <1> USE DEF tables, caches
  <1>0. RowsKept /\ UNCHANGED <<own_key, pc, today>> /\ today \in Dates /\ call \in Calls
    BY CallStepKeepsRows DEF Consistent, Typing, TypeOK
  <1>1. /\ ~PersistStatement /\ ~PersistSigner /\ ~DeleteOverridden
    BY <1>0, <<OwnOpinion>> # <<>>
       DEF PersistStatement, AfterStatement, PersistSigner, DeleteOverridden, Calls
  <1>2. ~RefuseStatement
    BY DEF RefuseStatement, has_matching_template, TemplateStatement
  <1>3. InsertFirst \/ InsertNewer \/ KeepOld
    BY <1>1, <1>2 DEF CallStep
  <1>4. call.stage \in {"select", "insert"} /\ UNCHANGED statement
    BY <1>3 DEF InsertFirst, InsertNewer, KeepOld
  <1>5. PICK o \in opinion' : /\ o.statement_id = call.statement_id
                              /\ o.signer_id = call.signer_id
                              /\ o.date >= today
    <2>1. today \in Nat /\ Pending.date = today
      BY <1>0, OwnCallEnds, VersionAssumption
    <2>2. CASE InsertFirst \/ InsertNewer
      <3>1. /\ PendingRow \in opinion'
            /\ PendingRow.statement_id = call.statement_id
            /\ PendingRow.signer_id = call.signer_id
            /\ PendingRow.date = Pending.date
        BY <2>2 DEF InsertFirst, InsertNewer, PendingRow
      <3> QED BY <2>1, <3>1
    <2>3. CASE KeepOld
      <3>1. PICK o \in Previous : ~Supersedes(Pending, o)
        BY <2>3 DEF KeepOld, Overridden
      <3>2. o \in opinion' /\ o.statement_id = call.statement_id /\ o.signer_id = call.signer_id
        BY <2>3, <3>1 DEF KeepOld, Previous
      <3>3. o.date \in Nat
        BY <3>1, VersionAssumption DEF Previous, Consistent, Typing, TypeOK, OpinionRows
      <3>4. ~(o.date < today)
        BY <2>1, <3>1 DEF Supersedes
      <3> QED BY <2>1, <3>2, <3>3, <3>4
    <2> QED BY <1>3, <2>2, <2>3
  <1>6. /\ statement[call.statement_id] = TemplateStatement(t)
        /\ statement[call.signer_id] = SignerStatement(own_key)
    BY <1>4, OwnCallEnds DEF Consistent, CallIdsValid, OwnOpinion
  <1>7. SignedBy(o, t)'
    BY <1>0, <1>4, <1>5, <1>6 DEF SignedBy, SignerStatement
  <1> QED BY <1>5, <1>7 DEF Signed

\* The call keeps its template and its opinion, or is over.
LEMMA OwnCallGoesOn ==
  ASSUME Consistent, CallStep, call.opinions = <<OwnOpinion>>
  PROVE  \/ call' = Idle
         \/ /\ call'.stage # "idle"
            /\ call'.statement = call.statement /\ call'.opinions = call.opinions
            /\ OwnOpinion' = OwnOpinion
  <1>1. call \in Calls /\ OwnOpinion' = OwnOpinion
    BY CallStepKeepsRows DEF Consistent, Typing, TypeOK, OwnOpinion
  <1>2. CASE PersistStatement \/ PersistSigner \/ DeleteOverridden
    BY <1>1, <1>2 DEF PersistStatement, AfterStatement, PersistSigner, DeleteOverridden, Calls
  <1>3. CASE RefuseStatement \/ InsertFirst \/ InsertNewer \/ KeepOld
    BY <1>3, OwnCallEnds DEF RefuseStatement, InsertFirst, InsertNewer, KeepOld
  <1> QED BY <1>2, <1>3 DEF CallStep

\* The row of a statement that has come without opinions.
BareRow(i) ==
    call.stage = "statement" /\ call.opinions = <<>> /\ statement'[i] = call.statement

\* A row is referred to, or in use by the call, after every step of a call; what
\* the call lets go of, the opinion it has stored or found refers to, if it has any.
LEMMA CallStepKeepsReferences ==
  ASSUME Consistent, CallStep, NEW i \in Ids, statement'[i] # Null,
         statement[i] # Null => Referenced(i) \/ i \in InUse
  PROVE  Referenced(i)' \/ i \in InUse' \/ BareRow(i)
  <1> USE DEF tables, caches
  <1>0. call \in Calls /\ private_key' = private_key
    BY CallStepKeepsRows DEF Consistent, Typing, TypeOK
  <1>1. CASE PersistStatement
    <2>1. PICK id \in Ids :
             persist(call.statement, id) /\ call' = AfterStatement(id)
      BY <1>1 DEF PersistStatement
    <2>2. /\ \/ call.opinions = <<>>
             \/ call'.stage = "signer" /\ call'.statement_id = id
          /\ call.stage = "statement" /\ InUse = {}
      BY <1>1, <2>1, AfterStatementWellFormed DEF PersistStatement, Consistent, Typing, InUse
    <2>3. /\ i # id => statement'[i] = statement[i]
          /\ statement'[id] = call.statement
      <3>1. call.statement \in Statements /\ TypeOK
        BY <1>0 DEF Consistent, Typing, Calls
      <3> QED BY <2>1, <3>1, PersistRow
    <2>4. Referenced(i) => Referenced(i)'
      BY <1>1 DEF PersistStatement, Referenced
    <2> QED BY <2>2, <2>3, <2>4 DEF InUse, BareRow
  <1>2. CASE PersistSigner
    <2> DEFINE s == SignerStatement(Head(call.opinions).signer)
    <2>1. PICK id \in Ids :
             persist(s, id) /\ call' = [call EXCEPT !.stage = "select", !.signer_id = id]
      BY <1>2 DEF PersistSigner
    <2>2. /\ call'.stage = "select" /\ call'.signer_id = id
          /\ call'.statement_id = call.statement_id
      BY <1>0, <2>1 DEF Calls
    <2>3. s \in Statements
      BY <1>2, HeadIsOpinion, StatementTypes
         DEF PersistSigner, Consistent, Typing, SignedOpinions
    <2>4. i # id => statement'[i] = statement[i]
      BY <2>1, <2>3, PersistRow DEF Consistent, Typing
    <2>5. Referenced(i) => Referenced(i)'
      BY <1>2 DEF PersistSigner, Referenced
    <2>6. i \in InUse => i \in InUse'
      BY <1>2, <2>2 DEF PersistSigner, InUse
    <2>7. id \in InUse'
      BY <2>2 DEF InUse
    <2> QED BY <2>4, <2>5, <2>6, <2>7
  <1>3. CASE RefuseStatement
    BY <1>3 DEF RefuseStatement, Referenced, InUse
  <1>4. CASE DeleteOverridden
    <2>1. PICK d \in Overridden : opinion' = opinion \ {d}
      BY <1>4 DEF DeleteOverridden
    <2>2. /\ call.stage = "select" /\ call'.stage = "insert"
          /\ call'.statement_id = call.statement_id /\ call'.signer_id = call.signer_id
      BY <1>0, <1>4 DEF DeleteOverridden, Calls
    <2>3. d.statement_id = call.statement_id /\ d.signer_id = call.signer_id
      BY DEF Overridden, Previous
    <2>4. Referenced(i) => Referenced(i)' \/ i \in {d.statement_id, d.signer_id}
      BY <1>0, <2>1 DEF Referenced
    <2> QED BY <1>4, <2>2, <2>3, <2>4 DEF DeleteOverridden, InUse
  <1>5. CASE InsertFirst \/ InsertNewer \/ KeepOld
    <2>1. call.stage \in {"select", "insert"} /\ UNCHANGED statement /\ opinion \subseteq opinion'
      BY <1>5 DEF InsertFirst, InsertNewer, KeepOld
    <2>2. \E o \in opinion' : /\ o.statement_id = call.statement_id
                              /\ o.signer_id = call.signer_id
      <3>1. CASE InsertFirst \/ InsertNewer
        <4>1. /\ PendingRow \in opinion'
              /\ PendingRow.statement_id = call.statement_id
              /\ PendingRow.signer_id = call.signer_id
          BY <3>1 DEF InsertFirst, InsertNewer, PendingRow
        <4> QED BY <4>1
      <3>2. CASE KeepOld
        BY <3>2 DEF KeepOld, Previous
      <3> QED BY <1>5, <3>1, <3>2
    <2>3. i \in InUse => Referenced(i)'
      BY <2>2 DEF InUse, Referenced
    <2>4. Referenced(i) => Referenced(i)'
      BY <1>0, <2>1 DEF Referenced
    <2> QED BY <2>1, <2>3, <2>4
  <1> QED BY <1>1, <1>2, <1>3, <1>4, <1>5 DEF CallStep

LEMMA CompletingCallStep == Completing /\ CallStep => Completing'
  <1> SUFFICES ASSUME Completing, CallStep
               PROVE  Completing'
    OBVIOUS
  <1> USE DEF tables, caches
  <1>0. Consistent /\ Consistent'
    BY ConsistentCallStep DEF Completing
  <1>1. /\ UNCHANGED <<private_key, own_key, pc, today>> /\ call.stage # "idle"
        /\ call # Idle /\ pc \in {"sign_signer", "read", "ready"} /\ own_key \in Keys
    BY <1>0, CallStepKeepsRows DEF Idle, Consistent, Typing, TypeOK, CallPlace, KeyKnown
  <1>2. \A t \in Templates : Signed(t) => Signed(t)'
    BY <1>0, <1>1, CallStepKeepsSigned
  <1>3. Idle.stage = "idle"
    BY DEF Idle
  <1>4. ASSUME pc = "sign_signer"
        PROVE  SigningCall' /\ RootSigned' /\ SignerSigned'
    <2>1. call.statement = TemplateStatement(RootTemplate) /\ call.opinions = <<OwnOpinion>>
      BY <1>1, <1>4 DEF Completing, SigningCall
    <2>2. SigningCall'
      BY <1>0, <1>1, <1>4, <2>1, OwnCallGoesOn DEF SigningCall
    <2>3. RootSigned'
      <3>1. call' = Idle => Signed(RootTemplate)'
        BY <1>0, <1>1, <1>3, <2>1, OwnCallSigns
      <3> QED BY <1>1, <1>4, <3>1 DEF RootSigned, BothSigned
    <2> QED BY <1>1, <1>4, <2>2, <2>3 DEF SignerSigned, BothSigned
  <1>5. ASSUME pc = "read"
        PROVE  SigningCall' /\ RootSigned' /\ SignerSigned'
    <2>1. call.statement = TemplateStatement(SignerTemplate) /\ call.opinions = <<OwnOpinion>>
      BY <1>1, <1>5 DEF Completing, SigningCall
    <2>2. SigningCall'
      BY <1>0, <1>1, <1>5, <2>1, OwnCallGoesOn DEF SigningCall
    <2>3. SignerSigned'
      <3>1. call' = Idle => Signed(SignerTemplate)'
        BY <1>0, <1>1, <1>3, <2>1, OwnCallSigns
      <3> QED BY <1>1, <1>5, <3>1 DEF SignerSigned, BothSigned
    <2>4. RootSigned'
      BY <1>2, <1>5, PredefinedTemplates DEF Completing, RootSigned
    <2> QED BY <2>2, <2>3, <2>4
  <1>6. ASSUME pc = "ready"
        PROVE  SigningCall' /\ RootSigned' /\ SignerSigned'
    BY <1>1, <1>2, <1>6, PredefinedTemplates
       DEF Completing, SigningCall, RootSigned, SignerSigned, BothSigned
  <1>7. SignerTemplateKnown'
    <2>1. PICK i \in Ids : SignerTemplateAt(i)
      BY <1>1 DEF Completing, SignerTemplateKnown
    <2>2. SignerTemplateAt(i)'
      <3>1. CASE PersistStatement
        BY <1>0, <2>1, <3>1, PersistKeepsTemplate
           DEF PersistStatement, Consistent, Typing, WellFormed, Calls
      <3>2. CASE PersistSigner
        <4>1. SignerStatement(Head(call.opinions).signer) \in Statements
          BY <1>0, <3>2, HeadIsOpinion, StatementTypes
             DEF PersistSigner, Consistent, Typing, SignedOpinions
        <4> QED BY <1>0, <2>1, <3>2, <4>1, PersistKeepsTemplate DEF PersistSigner
      <3>3. CASE RefuseStatement \/ InsertFirst \/ DeleteOverridden \/ InsertNewer \/ KeepOld
        BY <2>1, <3>3 DEF SignerTemplateAt, RefuseStatement, InsertFirst, DeleteOverridden,
                          InsertNewer, KeepOld
      <3> QED BY <3>1, <3>2, <3>3 DEF CallStep
    <2> QED BY <2>2 DEF SignerTemplateKnown
  <1> QED BY <1>0, <1>1, <1>4, <1>5, <1>6, <1>7 DEF Completing

-----------------------------------------------------------------------------
(* Users, peers, crashes and days *)

LEMMA CompletingReceive ==
  ASSUME Completing, NEW s \in Inputs,
         (\E ops \in Batches : Receive(s, ops)) \/ UserStatement(s)
  PROVE  Completing'
  <1> USE DEF tables, caches
  <1>0. Consistent /\ Consistent'
    BY ConsistentReceive DEF Completing
  <1>1. PICK ops : Receive(s, ops)
    BY DEF UserStatement
  <1>2. /\ pc = "ready" /\ pc' = "ready" /\ call = Idle /\ call'.stage = "statement"
        /\ UNCHANGED <<statement, opinion, private_key, templates, own_key, today>>
        /\ own_key \in Keys
    BY <1>0, <1>1 DEF Receive, Store, Idle, Consistent, Typing, KeyKnown
  <1>3. RowsKept /\ Replacing = {}
    BY <1>2 DEF RowsKept, Replacing, Idle
  <1>4. \A t \in Templates : Signed(t) => Signed(t)'
    BY <1>0, <1>2, <1>3, SignedStays
  <1>5. RootSigned' /\ SignerSigned'
    BY <1>2, <1>4, PredefinedTemplates
       DEF Completing, RootSigned, SignerSigned, BothSigned
  <1>6. SignerTemplateKnown' /\ SigningCall'
    BY <1>2 DEF Completing, SignerTemplateKnown, SignerTemplateAt, SigningCall
  <1> QED BY <1>0, <1>5, <1>6 DEF Completing

LEMMA CompletingEnvironment == Completing /\ (Crash \/ NextDay) => Completing'
  <1> USE DEF tables, caches
  <1>1. ASSUME Completing, Crash
        PROVE  Completing'
    <2>1. Consistent' /\ pc' = "down"
      BY <1>1, ConsistentEnvironment DEF Completing, Crash
    <2> QED BY <1>1, <2>1, EarlySteps DEF Completing, SignerTemplateKnown
  <1>2. ASSUME Completing, NextDay
        PROVE  Completing'
    <2>0. Consistent /\ Consistent'
      BY <1>2, ConsistentEnvironment DEF Completing
    <2>1. /\ UNCHANGED <<statement, opinion, private_key, templates, own_key, call, pc>>
          /\ pc \in {"down", "ready"}
      BY <1>2 DEF NextDay
    <2>2. RowsKept /\ Replacing' = Replacing
      BY <2>1 DEF RowsKept, Replacing, PendingRow, Pending
    <2>3. SignerTemplateKnown' /\ SigningCall'
      BY <1>2, <2>1, <2>2
         DEF Completing, SignerTemplateKnown, SignerTemplateAt, SigningCall
    <2>4. RootSigned' /\ SignerSigned'
      <3>1. CASE pc = "down"
        BY <2>1, <3>1 DEF RootSigned, SignerSigned, BothSigned
      <3>2. CASE pc = "ready"
        BY <1>2, <2>1, <2>2, <3>2
           DEF Completing, RootSigned, SignerSigned, BothSigned, Signed, SignedBy, SignerStatement
      <3> QED BY <2>1, <3>1, <3>2
    <2> QED BY <2>0, <2>3, <2>4 DEF Completing
  <1> QED BY <1>1, <1>2

LEMMA CompletingNext == Completing /\ [Next]_vars => Completing'
  <1> SUFFICES ASSUME Completing, [Next]_vars
               PROVE  Completing'
    OBVIOUS
  <1>1. CASE UNCHANGED vars
    <2>1. Consistent'
      BY <1>1, ConsistentNext DEF Completing
    <2> QED BY <1>1, <2>1
            DEF vars, Completing, SigningCall, RootSigned, SignerSigned, SignerTemplateKnown,
                SignerTemplateAt, Signed, SignedBy, Replacing,
                PendingRow, Pending, OwnOpinion, SignerStatement
  <1> QED BY <1>1, CompletingStartUp, CompletingCallStep, CompletingReceive,
             CompletingEnvironment DEF Next

LEMMA AlwaysCompleting == Spec => []Completing
  BY CompletingInit, CompletingNext, PTL DEF Spec

-----------------------------------------------------------------------------
(* The results *)

\* However many starts a crash has cut short, the one that is completed leaves
\* both predefined templates stored and signed by the node, and they stay so.
THEOREM InitializationAlwaysCompletes == Spec => []InitializationComplete
  <1>1. Completing => InitializationComplete
    BY DEF Completing, RootSigned, SignerSigned, BothSigned, Signed, SignedBy, Replacing,
           Idle, Ready, InitializationComplete
  <1> QED BY <1>1, AlwaysCompleting, PTL

\* persist_opinion can store the statement of any signer: the unwrap of its
\* result never meets a refused statement.
THEOREM SignersAlwaysAccepted == Spec => []SignerAccepted
  <1>1. ASSUME Completing, call.stage = "signer"
        PROVE  has_matching_template(SignerStatement(Head(call.opinions).signer))
    <2>1. pc \in {"sign_signer", "read", "ready"}
      BY <1>1 DEF Completing, Consistent, Typing, TypeOK, CallPlace
    <2>2. PICK i \in Ids : templates[i] = SignerTemplate
      BY <1>1, <2>1 DEF Completing, SignerTemplateKnown, SignerTemplateAt
    <2> QED BY <2>2 DEF has_matching_template, SignerStatement
  <1>2. Completing => SignerAccepted
    BY <1>1 DEF SignerAccepted
  <1> QED BY <1>2, AlwaysCompleting, PTL

\* Start-up leaves no row that nothing refers to, and in a running node there is no
\* new one but that of a statement which has come without opinions.
LEMMA StraysStep ==
  ASSUME Consistent, [Next]_vars, pc' = "ready", NEW i \in Strays'
  PROVE  (pc = "ready" /\ i \in Strays) \/ BareRow(i)
  <1> USE DEF tables, caches
  <1>0. i \in Ids /\ statement'[i] # Null /\ ~Referenced(i)' /\ i \notin InUse'
    BY DEF Strays
  <1>1. CASE Start \/ StartUp
    <2>1. CleanupStatements
      BY <1>1 DEF Start, StartUp, PersistPredefined, LoadOwnKey, CreateOwnKey, SavePrivateKey,
                  SignPredefined, ReadCaches, CleanupOpinions
    <2>2. Referenced(i) /\ (Referenced(i)' <=> Referenced(i))
      BY <1>0, <2>1 DEF CleanupStatements, Unreferenced, Referenced
    <2> QED BY <1>0, <2>2
  <1>2. CASE CallStep
    <2>1. pc = "ready"
      BY <1>2, CallStepKeepsRows
    <2> QED BY <1>0, <1>2, <2>1, CallStepKeepsReferences DEF Strays
  <1>3. CASE \E s \in Inputs : (\E ops \in Batches : Receive(s, ops)) \/ UserStatement(s)
    <2>1. PICK s, ops : Receive(s, ops)
      BY <1>3 DEF UserStatement
    <2>2. pc = "ready" /\ call = Idle /\ UNCHANGED <<statement, opinion, private_key>>
      BY <2>1 DEF Receive
    <2>3. InUse = {} /\ (Referenced(i)' <=> Referenced(i))
      BY <2>2 DEF InUse, Idle, Referenced
    <2> QED BY <1>0, <2>2, <2>3 DEF Strays
  <1>4. CASE Crash \/ NextDay \/ UNCHANGED vars
    <2>1. UNCHANGED <<statement, opinion, private_key, call, pc>>
      BY <1>4 DEF Crash, NextDay, vars
    <2>2. InUse' = InUse /\ (Referenced(i)' <=> Referenced(i))
      BY <2>1 DEF InUse, Referenced
    <2> QED BY <1>0, <2>1, <2>2 DEF Strays
  <1> QED BY <1>1, <1>2, <1>3, <1>4 DEF Next

\* What cleanup leaves, and what later calls with opinions add, is referred to by an
\* opinion or by the private key once the call is over.
THEOREM NoNewOrphanStatements == Spec => NoOrphanStatements
  <1>1. ASSUME Consistent, [Next]_vars
        PROVE  [pc' = "ready" =>
                   \A i \in Strays' :
                      \/ pc = "ready" /\ i \in Strays
                      \/ /\ call.stage = "statement" /\ call.opinions = <<>>
                         /\ statement'[i] = call.statement]_vars
    BY <1>1, StraysStep DEF BareRow
  <1>2. Consistent /\ [Next]_vars =>
            [pc' = "ready" =>
                \A i \in Strays' :
                   \/ pc = "ready" /\ i \in Strays
                   \/ /\ call.stage = "statement" /\ call.opinions = <<>>
                      /\ statement'[i] = call.statement]_vars
    BY <1>1
  <1> QED BY <1>2, AlwaysConsistent, PTL DEF Spec, NoOrphanStatements
=============================================================================
