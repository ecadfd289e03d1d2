---------------------------- MODULE MilterProofs ----------------------------
(***************************************************************************)
(* Proofs about Milter, for every number of sessions, entities, statements *)
(* and days.                                                               *)
(***************************************************************************)
EXTENDS Milter, SequenceTheorems, TLAPS

-----------------------------------------------------------------------------
(* Facts about commands, severities and replies *)

LEMMA CommandTypes ==
  ASSUME NEW c \in Commands
  PROVE  /\ c.kind \in Kinds
         /\ c.mentions \in Seq(Entities)
         /\ c.mentions # <<>> => c.kind \in LookingUp
  <1>1. <<>> \in Seq(Entities)
    BY EmptySeq
  <1> QED BY <1>1, MilterAssumption DEF Commands, Kinds

LEMMA SeverityRange == \A st \in Statements : SeverityOf(st) \in None .. Known
  BY DEF SeverityOf, None, Quarantine, Tempfail, Reject, Known

LEMMA MaxSeverity ==
  ASSUME NEW S, S \subseteq None .. Known, S # {}
  PROVE  Max(S) \in S /\ \A v \in S : v <= Max(S)
  <1>1. S \subseteq {0, 1, 2, 3, 4}
    BY DEF None, Known
  <1>2. PICK m \in S : \A v \in S : m >= v
    <2>1. CASE 4 \in S  BY <2>1, <1>1
    <2>2. CASE 4 \notin S /\ 3 \in S  BY <2>2, <1>1
    <2>3. CASE 4 \notin S /\ 3 \notin S /\ 2 \in S  BY <2>3, <1>1
    <2>4. CASE 4 \notin S /\ 3 \notin S /\ 2 \notin S /\ 1 \in S  BY <2>4, <1>1
    <2>5. CASE 4 \notin S /\ 3 \notin S /\ 2 \notin S /\ 1 \notin S
      <3>1. PICK x \in S : TRUE  OBVIOUS
      <3>2. x = 0  BY <2>5, <1>1
      <3>3. \A v \in S : v = 0  BY <2>5, <1>1
      <3> QED BY <3>1, <3>2, <3>3
    <2> QED BY <2>1, <2>2, <2>3, <2>4, <2>5
  <1> QED BY <1>1, <1>2 DEF Max

LEMMA FoundTypes == \A e \in Entities : Found(e) \subseteq Statements
  BY MilterAssumption DEF Found

LEMMA FoundOfAll == \A T \in SUBSET Entities : UNION {Found(e) : e \in T} \subseteq Statements
  BY FoundTypes

\* The highest severity after a look-up bounds the one before and those found.
LEMMA LookupSeverity ==
  ASSUME NEW v \in None .. Known, NEW e \in Entities
  PROVE  LET m == Max({v} \cup {SeverityOf(st) : st \in Found(e)})
         IN  /\ m \in None .. Known
             /\ v <= m
             /\ \A st \in Found(e) : SeverityOf(st) <= m
             /\ m = v \/ \E st \in Found(e) : m = SeverityOf(st)
  <1> DEFINE S == {v} \cup {SeverityOf(st) : st \in Found(e)}
  <1>1. S \subseteq None .. Known /\ S # {}
    BY FoundTypes, SeverityRange
  <1>2. Max(S) \in S /\ \A w \in S : w <= Max(S)
    BY <1>1, MaxSeverity
  <1> QED BY <1>1, <1>2

LEMMA ResponseKinds ==
  ASSUME NEW v \in None .. Known
  PROVE  /\ Response[v] \in {"Continue", "Quarantine", "457", "554", "Accept"}
         /\ Response[v] = "Continue" <=> v = None
         /\ \A w \in None .. Known : Response[v] = Response[w] => v = w
  BY DEF Response, None, Quarantine, Tempfail, Reject, Known

LEMMA ReplyTypes ==
  ASSUME TypeOK, NEW s \in Sessions
  PROVE  /\ Continue \in Replies
         /\ [kind |-> "Optneg", reason |-> Null] \in Replies
         /\ PolicyResponses(s) \subseteq Replies
  <1>1. Response[None] = "Continue" /\ None \in None .. Known
    BY DEF Response, None, Quarantine, Tempfail, Reject, Known
  <1>2. severity[s] \in None .. Known /\ Reasons(s) \subseteq Matches
    BY DEF TypeOK, Reasons
  <1>3. PolicyResponses(s) \subseteq Replies
    BY <1>2 DEF PolicyResponses, Replies
  <1> QED BY <1>1, <1>3 DEF Continue, Replies

-----------------------------------------------------------------------------
(* Types *)

\* The command read next has its type, and so has what is left.
LEMMA ReadTypes ==
  ASSUME TypeOK, NEW s \in Sessions, input[s] # <<>>
  PROVE  Head(input[s]) \in Commands /\ Tail(input[s]) \in Seq(Commands)
  BY HeadTailProperties DEF TypeOK

LEMMA InitTypes ==
  ASSUME Init
  PROVE  TypeOK
  <1>1. /\ <<>> \in Seq(Commands)
        /\ <<>> \in Seq(Replies)
        /\ <<>> \in Seq(Entities)
    BY EmptySeq
  <1>2. 1 \in Days
    BY MilterAssumption DEF Days
  <1> QED BY <1>1, <1>2 DEF Init, TypeOK, Ended, None, Known

\* A reply of its type can be written.
LEMMA WriteTypes ==
  ASSUME TypeOK, NEW s \in Sessions, NEW r \in Replies, Write(s, r)
  PROVE  output' \in [Sessions -> Seq(Replies)]
  <1>1. Append(output[s], r) \in Seq(Replies)
    BY AppendProperties DEF TypeOK
  <1> QED BY <1>1 DEF TypeOK, Write

LEMMA ResetTypes ==
  ASSUME TypeOK, NEW s \in Sessions, ResetPolicy(s)
  PROVE  statements' \in [Sessions -> SUBSET Matches] /\ severity' \in [Sessions -> None .. Known]
  <1>1. statements \in [Sessions -> SUBSET Matches] /\ severity \in [Sessions -> None .. Known]
    BY DEF TypeOK
  <1>2. None \in None .. Known
    BY DEF None, Known
  <1>3. {} \in SUBSET Matches
    OBVIOUS
  <1>4. statements' \in [Sessions -> SUBSET Matches]
    BY <1>1, <1>3 DEF ResetPolicy
  <1>5. severity' \in [Sessions -> None .. Known]
    BY <1>1, <1>2 DEF ResetPolicy
  <1> QED BY <1>4, <1>5

LEMMA StepTypes ==
  ASSUME TypeOK, NEW s \in Sessions, Step(s)
  PROVE  TypeOK'
  <1> USE DEF TypeOK
  <1>0. /\ <<>> \in Seq(Entities)
        /\ Reading \in [pc : {"reading", "looking up", "ended"}, todo : Seq(Entities)]
        /\ Ended \in [pc : {"reading", "looking up", "ended"}, todo : Seq(Entities)]
    BY EmptySeq DEF Reading, Ended
  <1>a. ASSUME NEW kinds, Read(s, kinds)
        PROVE  /\ input' \in [Sessions -> Seq(Commands)]
               /\ UNCHANGED <<stored, today, mta, awaiting, due, mentioned, carried>>
    BY <1>a, ReadTypes DEF Read, connection, history
  <1>b. ASSUME ResetPolicy(s)
        PROVE  statements' \in [Sessions -> SUBSET Matches] /\ severity' \in [Sessions -> None .. Known]
    BY <1>b, ResetTypes
  <1>1. CASE HandleMention(s)
    <2>1. Head(input[s]).mentions \in Seq(Entities)
      BY <1>1, ReadTypes, CommandTypes DEF HandleMention, Read
    <2>2. task' \in [Sessions -> [pc : {"reading", "looking up", "ended"}, todo : Seq(Entities)]]
      BY <1>1, <2>1 DEF HandleMention
    <2>3. /\ input' \in [Sessions -> Seq(Commands)]
          /\ UNCHANGED <<stored, today, mta, awaiting, due, mentioned, carried>>
      BY <1>1, <1>a DEF HandleMention
    <2> QED BY <1>1, <2>2, <2>3 DEF HandleMention, policy
  <1>2. CASE HandleOptneg(s)
    BY <1>2, <1>a, <1>b, ReplyTypes, WriteTypes DEF HandleOptneg
  <1>3. CASE HandleAsking(s)
    BY <1>3, <1>a, ReplyTypes, WriteTypes DEF HandleAsking, policy
  <1>4. CASE HandleBodyEob(s)
    BY <1>4, <1>a, <1>b, ReplyTypes, WriteTypes DEF HandleBodyEob
  <1>5. CASE HandleBody(s)
    BY <1>5, <1>a, ReplyTypes, WriteTypes DEF HandleBody, policy
  <1>6. CASE HandleAbort(s)
    BY <1>6, <1>a, <1>b DEF HandleAbort
  <1>7. CASE HandleMacro(s)
    BY <1>7, <1>a DEF HandleMacro, policy
  <1>8. CASE HandleQuit(s)
    BY <1>8, <1>0, <1>a DEF HandleQuit, policy
  <1>9. CASE Lookup(s)
    <2> DEFINE e == Head(task[s].todo)
    <2>1. e \in Entities /\ Tail(task[s].todo) \in Seq(Entities)
      BY <1>9, HeadTailProperties DEF Lookup
    <2>2. Max({severity[s]} \cup {SeverityOf(st) : st \in Found(e)}) \in None .. Known
      BY <2>1, LookupSeverity
    <2>3. [entity : {e}, statement : Found(e)] \subseteq Matches
      BY <2>1, FoundTypes DEF Matches
    <2>4. severity' \in [Sessions -> None .. Known]
      BY <1>9, <2>2 DEF Lookup
    <2>5. statements' \in [Sessions -> SUBSET Matches]
      BY <1>9, <2>3 DEF Lookup
    <2>6. task' \in [Sessions -> [pc : {"reading", "looking up", "ended"}, todo : Seq(Entities)]]
      BY <1>9, <2>1 DEF Lookup
    <2> QED BY <1>9, <2>4, <2>5, <2>6 DEF Lookup, connection, history
  <1>10. CASE Proceed(s)
    <2>1. task' \in [Sessions -> [pc : {"reading", "looking up", "ended"}, todo : Seq(Entities)]]
      BY <1>10, <1>0 DEF Proceed
    <2>2. output' \in [Sessions -> Seq(Replies)]
      <3>1. CASE UNCHANGED output  BY <3>1
      <3>2. CASE Write(s, Continue)  BY <3>2, ReplyTypes, WriteTypes
      <3> QED BY <1>10, <3>1, <3>2 DEF Proceed
    <2> QED BY <1>10, <2>1, <2>2 DEF Proceed, connection, history, policy
  <1>11. CASE ReadEnd(s)
    BY <1>11, <1>0 DEF ReadEnd, connection, history, policy
  <1> QED BY <1>1, <1>2, <1>3, <1>4, <1>5, <1>6, <1>7, <1>8, <1>9, <1>10, <1>11 DEF Step

LEMMA SendTypes ==
  ASSUME TypeOK, NEW s \in Sessions, NEW c \in Commands, Send(s, c)
  PROVE  TypeOK'
  <1> USE DEF TypeOK
  <1>1. c.kind \in Kinds /\ {c.mentions[i] : i \in DOMAIN c.mentions} \subseteq Entities
    <2>1. c.kind \in Kinds /\ c.mentions \in Seq(Entities)
      BY CommandTypes
    <2>2. c.mentions \in [DOMAIN c.mentions -> Entities]
      BY <2>1, LenProperties
    <2> QED BY <2>1, <2>2
  <1>2. UNION {Found(e) : e \in {c.mentions[i] : i \in DOMAIN c.mentions}} \subseteq Statements
    BY <1>1, FoundOfAll
  <1>3. due' \in [Sessions -> SUBSET Statements]
    BY <1>2 DEF Send
  <1>4. mentioned' \in [Sessions -> SUBSET Entities] /\ carried' \in [Sessions -> BOOLEAN]
    BY <1>1 DEF Send
  <1>5. input' \in [Sessions -> Seq(Commands)]
    BY AppendProperties DEF Send
  <1>6. mta' \in [Sessions -> Kinds \cup {"Open", "Closed", "Accepted"}] /\ awaiting' \in [Sessions -> BOOLEAN]
    BY <1>1 DEF Send
  <1> QED BY <1>3, <1>4, <1>5, <1>6 DEF Send, policy

LEMMA TypesKept ==
  ASSUME TypeOK, [Next]_vars
  PROVE  TypeOK'
  <1>0. /\ <<>> \in Seq(Commands)
        /\ <<>> \in Seq(Replies)
        /\ <<>> \in Seq(Entities)
    BY EmptySeq
  <1>1. CASE \E s \in Sessions : Step(s)
    BY <1>1, StepTypes
  <1>2. CASE \E s \in Sessions, c \in Commands : Send(s, c)
    BY <1>2, SendTypes
  <1>3. CASE \E s \in Sessions : Receive(s)
    <2>1. PICK s \in Sessions : Receive(s)
      BY <1>3
    <2>2. Tail(output[s]) \in Seq(Replies)
      BY <2>1, HeadTailProperties DEF Receive, TypeOK
    <2>3. /\ mta' \in [Sessions -> Kinds \cup {"Open", "Closed", "Accepted"}]
          /\ mentioned' \in [Sessions -> SUBSET Entities]
          /\ due' \in [Sessions -> SUBSET Statements]
          /\ carried' \in [Sessions -> BOOLEAN]
      <3>1. CASE Accepts(s)
        BY <2>1, <3>1 DEF Receive, TypeOK
      <3>2. CASE ~Accepts(s)
        BY <2>1, <3>2 DEF Receive, TypeOK, history
      <3> QED BY <3>1, <3>2
    <2> QED BY <2>1, <2>2, <2>3 DEF Receive, TypeOK, policy
  <1>4. CASE \E s \in Sessions : Hangup(s)
    <2>1. PICK s \in Sessions : Hangup(s)
      BY <1>4
    <2>2. input' \in [Sessions -> Seq(Commands)]
      BY <2>1, <1>0 DEF Hangup, TypeOK
    <2>3. output' \in [Sessions -> Seq(Replies)]
      BY <2>1, <1>0 DEF Hangup, TypeOK
    <2>4. mta' \in [Sessions -> Kinds \cup {"Open", "Closed", "Accepted"}] /\ awaiting' \in [Sessions -> BOOLEAN]
      BY <2>1 DEF Hangup, TypeOK
    <2> QED BY <2>1, <2>2, <2>3, <2>4 DEF Hangup, TypeOK, policy, history
  <1>5. CASE \E s \in Sessions : Accept(s)
    <2>1. PICK s \in Sessions : Accept(s)
      BY <1>5
    <2>2. task' \in [Sessions -> [pc : {"reading", "looking up", "ended"}, todo : Seq(Entities)]]
      BY <2>1, <1>0 DEF Accept, TypeOK, Reading
    <2>3. statements' \in [Sessions -> SUBSET Matches] /\ severity' \in [Sessions -> None .. Known]
      BY <2>1, ResetTypes DEF Accept
    <2> QED BY <2>1, <2>2, <2>3 DEF Accept, TypeOK
  <1>6. CASE \E st \in Statements, day \in {Unsupported} \cup Days : Learn(st, day)
    BY <1>6 DEF Learn, TypeOK, connection, history, policy
  <1>7. CASE Restart
    <2>1. stored' \in [Statements -> Days \cup {Null, Unsupported}]
      BY <1>7 DEF Restart, TypeOK
    <2>2. task' \in [Sessions -> [pc : {"reading", "looking up", "ended"}, todo : Seq(Entities)]]
      BY <1>7, <1>0 DEF Restart, Ended
    <2> QED BY <1>7, <1>0, <2>1, <2>2 DEF Restart, TypeOK, policy, history
  <1>8. CASE NextDay
    <2>1. today \in 1 .. MaxDay /\ today < MaxDay /\ MaxDay \in Nat
      BY <1>8, MilterAssumption DEF NextDay, Days, TypeOK
    <2>2. today + 1 \in Days
      BY <2>1 DEF Days
    <2> QED BY <1>8, <2>2 DEF NextDay, TypeOK, connection, history, policy
  <1>9. CASE UNCHANGED vars
    BY <1>9 DEF vars, TypeOK, history
  <1> QED BY <1>1, <1>2, <1>3, <1>4, <1>5, <1>6, <1>7, <1>8, <1>9 DEF Next

\* What a session keeps, what is under way and the history have their types,
\* whatever commands come and whatever is stored meanwhile.
THEOREM TypesCorrect == Spec => []TypeOK
  BY InitTypes, TypesKept, PTL DEF Spec

-----------------------------------------------------------------------------
(* Where the command or the reply under way is *)

InPlace(s) ==
    /\ \A i \in 1 .. Len(input[s]) :
          \/ input[s][i].kind \in Unanswered
          \/ i = Len(input[s]) /\ awaiting[s] /\ mta[s] = input[s][i].kind
    /\ output[s] # <<>> =>
          awaiting[s] /\ Len(output[s]) = 1 /\ input[s] = <<>> /\ task[s].pc # "looking up"
    /\ task[s].pc = "looking up" /\ mta[s] # "Closed" =>
          awaiting[s] /\ input[s] = <<>> /\ output[s] = <<>> /\ mta[s] \in LookingUp
    /\ mta[s] = "Closed" => ~awaiting[s] /\ input[s] = <<>> /\ output[s] = <<>>

\* Nothing of session r changes.
Same(r) ==
    /\ mta'[r] = mta[r] /\ awaiting'[r] = awaiting[r]
    /\ input'[r] = input[r] /\ output'[r] = output[r] /\ task'[r] = task[r]
    /\ statements'[r] = statements[r] /\ severity'[r] = severity[r]
    /\ due'[r] = due[r] /\ mentioned'[r] = mentioned[r] /\ carried'[r] = carried[r]

\* What a session and its MTA do.
SessionStep(s) ==
    Step(s) \/ (\E c \in Commands : Send(s, c)) \/ Receive(s) \/ Hangup(s) \/ Accept(s)

LEMMA OthersSame ==
  ASSUME TypeOK, NEW s \in Sessions, NEW r \in Sessions, r # s, SessionStep(s)
  PROVE  Same(r)
  <1>a. ASSUME NEW kinds, Read(s, kinds)
        PROVE  /\ input'[r] = input[r]
               /\ UNCHANGED <<stored, mta, awaiting, due, mentioned, carried>>
    BY <1>a DEF Read, connection, history, TypeOK
  <1>b. ResetPolicy(s) => statements'[r] = statements[r] /\ severity'[r] = severity[r]
    BY DEF ResetPolicy, TypeOK
  <1>c. ASSUME NEW x, Write(s, x)  PROVE output'[r] = output[r]
    BY <1>c DEF Write, TypeOK
  <1> USE DEF Same
  <1>1. CASE HandleMention(s) \/ HandleAsking(s) \/ HandleBody(s) \/ HandleMacro(s) \/ HandleQuit(s)
    BY <1>1, <1>a, <1>c
       DEF HandleMention, HandleAsking, HandleBody, HandleMacro, HandleQuit, policy, TypeOK
  <1>2. CASE HandleOptneg(s) \/ HandleBodyEob(s) \/ HandleAbort(s)
    BY <1>2, <1>a, <1>b, <1>c DEF HandleOptneg, HandleBodyEob, HandleAbort
  <1>3. CASE Lookup(s)
    BY <1>3 DEF Lookup, connection, history, TypeOK
  <1>4. CASE Proceed(s)
    BY <1>4, <1>c DEF Proceed, connection, history, policy, TypeOK
  <1>5. CASE ReadEnd(s)
    BY <1>5 DEF ReadEnd, connection, history, policy, TypeOK
  <1>6. CASE \E c \in Commands : Send(s, c)
    BY <1>6 DEF Send, policy, TypeOK
  <1>7. CASE Hangup(s)
    BY <1>7 DEF Hangup, policy, history, TypeOK
  <1>8. CASE Accept(s)
    BY <1>8, <1>b DEF Accept, TypeOK
  <1>9. CASE Receive(s)
    <2>1. CASE Accepts(s)
      BY <1>9, <2>1 DEF Receive, policy, TypeOK
    <2>2. CASE ~Accepts(s)
      BY <1>9, <2>2 DEF Receive, policy, history, TypeOK
    <2> QED BY <2>1, <2>2
  <1> QED BY <1>1, <1>2, <1>3, <1>4, <1>5, <1>6, <1>7, <1>8, <1>9 DEF SessionStep, Step

\* Reading takes the first command; one with a reply is the last as well.
LEMMA ReadFacts ==
  ASSUME TypeOK, NEW s \in Sessions, InPlace(s), NEW kinds, Read(s, kinds)
  PROVE  /\ input[s] # <<>> /\ input[s][1] = Head(input[s]) /\ input[s][1].kind \in kinds
         /\ Head(input[s]) \in Commands
         /\ Len(input[s]) \in Nat \ {0}
         /\ output[s] = <<>> /\ mta[s] # "Closed" /\ task[s].pc = "reading"
         /\ input'[s] \in Seq(Commands)
         /\ Len(input'[s]) = Len(input[s]) - 1
         /\ \A i \in 1 .. Len(input'[s]) : input'[s][i] = input[s][i + 1]
         /\ input[s][1].kind \notin Unanswered =>
               input'[s] = <<>> /\ Len(input[s]) = 1 /\ awaiting[s] /\ mta[s] = input[s][1].kind
         /\ stored' = stored /\ mta' = mta /\ awaiting' = awaiting
         /\ due' = due /\ mentioned' = mentioned /\ carried' = carried
  <1>1. input[s] \in Seq(Commands) /\ input[s] # <<>> /\ Head(input[s]).kind \in kinds
    BY DEF TypeOK, Read
  <1>2. Len(input[s]) \in Nat \ {0} /\ Head(input[s]) = input[s][1] /\ Head(input[s]) \in Commands
    BY <1>1, EmptySeq, HeadTailProperties
  <1>3. input'[s] = Tail(input[s])
    BY DEF Read, TypeOK
  <1>4. /\ input'[s] \in Seq(Commands)
        /\ Len(input'[s]) = Len(input[s]) - 1
        /\ \A i \in 1 .. Len(input'[s]) : input'[s][i] = input[s][i + 1]
    BY <1>1, <1>3, HeadTailProperties
  <1>5. output[s] = <<>> /\ mta[s] # "Closed" /\ task[s].pc = "reading"
    BY <1>1 DEF InPlace, Read
  <1>6. ASSUME input[s][1].kind \notin Unanswered
        PROVE  input'[s] = <<>> /\ Len(input[s]) = 1 /\ awaiting[s] /\ mta[s] = input[s][1].kind
    <2>1. 1 \in 1 .. Len(input[s])
      BY <1>2
    <2>2. Len(input[s]) = 1 /\ awaiting[s] /\ mta[s] = input[s][1].kind
      BY <2>1, <1>6 DEF InPlace
    <2>3. input'[s] = <<>>
      BY <2>2, <1>4, EmptySeq
    <2> QED BY <2>2, <2>3
  <1> QED BY <1>1, <1>2, <1>4, <1>5, <1>6 DEF Read, connection, history

LEMMA NoIndex == 1 .. Len(<<>>) = {}
  <1>1. Len(<<>>) = 0
    BY EmptySeq
  <1> QED BY <1>1

\* Writing a reply where none is under way leaves that one.
LEMMA WriteFacts ==
  ASSUME TypeOK, NEW s \in Sessions, NEW r \in Replies, output[s] = <<>>, Write(s, r)
  PROVE  output'[s] # <<>> /\ Len(output'[s]) = 1 /\ Head(output'[s]) = r
  <1>1. output'[s] = Append(output[s], r) /\ output[s] \in Seq(Replies) /\ Len(output[s]) = 0
    BY EmptySeq DEF Write, TypeOK
  <1>2. output'[s] # <<>> /\ Len(output'[s]) = 1 /\ output'[s][1] = r /\ output'[s] \in Seq(Replies)
    BY <1>1, AppendProperties
  <1> QED BY <1>2

\* A reply to the command just read, the last one sent.
LEMMA InPlaceReply ==
  ASSUME TypeOK, NEW s \in Sessions, InPlace(s), NEW kinds, Read(s, kinds),
         kinds \cap Unanswered = {}, NEW r \in Replies, Write(s, r), UNCHANGED task
  PROVE  InPlace(s)'
  <1>1. input[s][1].kind \notin Unanswered
    BY ReadFacts
  <1>2. /\ input'[s] = <<>> /\ awaiting'[s] /\ task'[s].pc = "reading" /\ mta'[s] # "Closed"
        /\ output[s] = <<>>
    BY <1>1, ReadFacts
  <1>3. output'[s] # <<>> /\ Len(output'[s]) = 1
    BY <1>2, WriteFacts
  <1> QED BY <1>2, <1>3, NoIndex DEF InPlace

\* A command without a reply.
LEMMA InPlaceSilence ==
  ASSUME TypeOK, NEW s \in Sessions, InPlace(s), NEW kinds, Read(s, kinds),
         UNCHANGED output, task'[s].pc # "looking up"
  PROVE  InPlace(s)'
  <1>1. ASSUME NEW i \in 1 .. Len(input'[s])
        PROVE  \/ input'[s][i].kind \in Unanswered
               \/ i = Len(input'[s]) /\ awaiting'[s] /\ mta'[s] = input'[s][i].kind
    <2>1. i + 1 \in 1 .. Len(input[s]) /\ (i + 1 = Len(input[s]) <=> i = Len(input'[s]))
      <3>1. Len(input[s]) \in Nat \ {0} /\ Len(input'[s]) = Len(input[s]) - 1
        BY ReadFacts
      <3>2. i \in 1 .. (Len(input[s]) - 1)
        BY <3>1
      <3> QED BY ONLY <3>1, <3>2
    <2>2. input'[s][i] = input[s][i + 1] /\ awaiting' = awaiting /\ mta' = mta
      BY ReadFacts
    <2> QED BY <2>1, <2>2 DEF InPlace
  <1> QED BY <1>1, ReadFacts DEF InPlace

LEMMA InPlaceStep ==
  ASSUME TypeOK, NEW s \in Sessions, InPlace(s), Step(s)
  PROVE  InPlace(s)'
  <1>0. /\ LookingUp \cap Unanswered = {} /\ Asking \cap Unanswered = {}
        /\ "Optneg" \notin Unanswered /\ "BodyEob" \notin Unanswered /\ "Body" \notin Unanswered
    BY DEF LookingUp, Asking, Unanswered
  <1>r. /\ Continue \in Replies
        /\ [kind |-> "Optneg", reason |-> Null] \in Replies
        /\ PolicyResponses(s) \subseteq Replies
    BY ReplyTypes
  <1>1. CASE HandleMention(s)
    <2>1. Read(s, LookingUp) /\ task'[s].pc = "looking up" /\ output' = output
      BY <1>1 DEF HandleMention, TypeOK
    <2>2. input[s][1].kind \notin Unanswered /\ input[s][1].kind \in LookingUp
      BY <2>1, <1>0, ReadFacts
    <2>3. /\ input'[s] = <<>> /\ awaiting'[s] /\ mta'[s] \in LookingUp
          /\ output'[s] = <<>> /\ mta'[s] # "Closed"
      BY <2>1, <2>2, ReadFacts
    <2> QED BY <2>1, <2>3, NoIndex DEF InPlace
  <1>2. CASE HandleOptneg(s)  BY <1>2, <1>0, <1>r, InPlaceReply DEF HandleOptneg
  <1>3. CASE HandleAsking(s)  BY <1>3, <1>0, <1>r, InPlaceReply DEF HandleAsking
  <1>4. CASE HandleBodyEob(s)  BY <1>4, <1>0, <1>r, InPlaceReply DEF HandleBodyEob
  <1>5. CASE HandleBody(s)  BY <1>5, <1>0, <1>r, InPlaceReply DEF HandleBody
  <1>6. CASE HandleAbort(s)  BY <1>6, InPlaceSilence, ReadFacts DEF HandleAbort
  <1>7. CASE HandleMacro(s)  BY <1>7, InPlaceSilence, ReadFacts DEF HandleMacro
  <1>8. CASE HandleQuit(s)
    <2>1. task'[s].pc # "looking up"
      BY <1>8 DEF HandleQuit, Ended, TypeOK
    <2> QED BY <1>8, <2>1, InPlaceSilence DEF HandleQuit
  <1>9. CASE Lookup(s)
    <2>1. task'[s].pc = task[s].pc
      BY <1>9 DEF Lookup, TypeOK
    <2> QED BY <1>9, <2>1 DEF Lookup, InPlace, connection, history
  <1>10. CASE Proceed(s)
    <2>1. CASE mta[s] = "Closed"
      <3>1. task'[s].pc # "looking up" /\ output' = output
        <4>1. task' = [task EXCEPT ![s] = Ended] /\ output' = output
          BY <1>10, <2>1 DEF Proceed
        <4> QED BY <4>1 DEF Ended, TypeOK
      <3>2. input' = input /\ mta' = mta /\ awaiting' = awaiting
        BY <1>10 DEF Proceed, connection, history
      <3> QED BY <3>1, <3>2 DEF InPlace
    <2>2. CASE mta[s] # "Closed"
      <3>1. task'[s].pc # "looking up" /\ Write(s, Continue) /\ output[s] = <<>>
        <4>1. task' = [task EXCEPT ![s] = Reading] /\ Write(s, Continue) /\ task[s].pc = "looking up"
          BY <1>10, <2>2 DEF Proceed
        <4>2. output[s] = <<>>
          BY <4>1, <2>2 DEF InPlace
        <4> QED BY <4>1, <4>2 DEF Reading, TypeOK
      <3>2. awaiting'[s] /\ input'[s] = <<>> /\ mta'[s] # "Closed"
        BY <1>10, <2>2 DEF Proceed, connection, history, InPlace
      <3>3. output'[s] # <<>> /\ Len(output'[s]) = 1
        BY <3>1, <1>r, WriteFacts
      <3> QED BY <3>1, <3>2, <3>3, NoIndex DEF InPlace
    <2> QED BY <2>1, <2>2
  <1>11. CASE ReadEnd(s)
    <2>1. task'[s].pc # "looking up"
      BY <1>11 DEF ReadEnd, Ended, TypeOK
    <2> QED BY <1>11, <2>1 DEF ReadEnd, InPlace, connection, history
  <1> QED BY <1>1, <1>2, <1>3, <1>4, <1>5, <1>6, <1>7, <1>8, <1>9, <1>10, <1>11 DEF Step

\* What is sent comes last.
LEMMA SendFacts ==
  ASSUME TypeOK, NEW s \in Sessions, NEW c \in Commands, InPlace(s), Send(s, c)
  PROVE  /\ ~awaiting[s] /\ mta[s] # "Closed" /\ mta'[s] # "Closed"
         /\ output[s] = <<>> /\ output' = output /\ task[s].pc # "looking up" /\ task' = task
         /\ input'[s] \in Seq(Commands)
         /\ Len(input[s]) \in Nat /\ Len(input'[s]) = Len(input[s]) + 1
         /\ \A i \in 1 .. Len(input[s]) : input'[s][i] = input[s][i] /\ input[s][i].kind \in Unanswered
         /\ input'[s][Len(input'[s])] = c
         /\ input'[s] # <<>>
         /\ c.kind \notin Unanswered => awaiting'[s] /\ mta'[s] = c.kind
  <1>1. input[s] \in Seq(Commands) /\ input'[s] = Append(input[s], c)
    BY DEF Send, TypeOK
  <1>2. /\ input'[s] \in Seq(Commands)
        /\ Len(input[s]) \in Nat /\ Len(input'[s]) = Len(input[s]) + 1
        /\ \A i \in 1 .. Len(input[s]) : input'[s][i] = input[s][i]
        /\ input'[s][Len(input'[s])] = c
        /\ input'[s] # <<>>
    BY <1>1, AppendProperties, LenProperties
  <1>3. ~awaiting[s] /\ mta[s] # "Closed"
    BY DEF Send
  <1>4. output[s] = <<>> /\ task[s].pc # "looking up"
        /\ \A i \in 1 .. Len(input[s]) : input[s][i].kind \in Unanswered
    BY <1>3 DEF InPlace
  <1>5. mta'[s] # "Closed" /\ (c.kind \notin Unanswered => awaiting'[s] /\ mta'[s] = c.kind)
    <2>1. c.kind \in Kinds /\ "Closed" \notin Kinds
      BY CommandTypes DEF Kinds, LookingUp, Asking, Resetting, Unanswered
    <2> QED BY <2>1, <1>3 DEF Send, TypeOK, Unanswered
  <1> QED BY <1>2, <1>3, <1>4, <1>5 DEF Send

LEMMA InPlaceSend ==
  ASSUME TypeOK, NEW s \in Sessions, NEW c \in Commands, InPlace(s), Send(s, c)
  PROVE  InPlace(s)'
  <1>1. ASSUME NEW i \in 1 .. Len(input'[s])
        PROVE  \/ input'[s][i].kind \in Unanswered
               \/ i = Len(input'[s]) /\ awaiting'[s] /\ mta'[s] = input'[s][i].kind
    <2>1. CASE i \in 1 .. Len(input[s])  BY <2>1, SendFacts
    <2>2. CASE i = Len(input'[s])  BY <2>2, SendFacts
    <2>3. Len(input[s]) \in Nat /\ Len(input'[s]) = Len(input[s]) + 1
      BY SendFacts
    <2> QED BY <2>1, <2>2, <2>3
  <1>2. output'[s] = <<>> /\ task'[s].pc # "looking up" /\ mta'[s] # "Closed"
    BY SendFacts
  <1> QED BY <1>1, <1>2 DEF InPlace

LEMMA InPlaceKept ==
  ASSUME TypeOK, [Next]_vars, \A s \in Sessions : InPlace(s)
  PROVE  \A s \in Sessions : InPlace(s)'
  <1> SUFFICES ASSUME NEW r \in Sessions  PROVE InPlace(r)'
    OBVIOUS
  <1>0. ASSUME Same(r)  PROVE InPlace(r)'
    <2>1. InPlace(r)
      OBVIOUS
    <2> QED BY <1>0, <2>1 DEF Same, InPlace
  <1>1. ASSUME NEW s \in Sessions, SessionStep(s)  PROVE InPlace(r)'
    <2>1. CASE r # s  BY <2>1, <1>0, <1>1, OthersSame
    <2>2. CASE r = s /\ Step(s)  BY <2>2, InPlaceStep
    <2>3. CASE r = s /\ \E c \in Commands : Send(s, c)  BY <2>3, InPlaceSend
    <2>4. CASE r = s /\ Receive(s)
      <3>1. output'[s] = <<>>
        <4>1. Len(output[s]) = 1 /\ output[s] \in Seq(Replies) /\ output[s] # <<>>
          BY <2>4 DEF Receive, InPlace, TypeOK
        <4>2. Tail(output[s]) \in Seq(Replies) /\ Len(Tail(output[s])) = 0
          BY <4>1, HeadTailProperties
        <4>3. Tail(output[s]) = <<>>
          BY <4>2, EmptySeq
        <4> QED BY <4>3, <2>4 DEF Receive, TypeOK
      <3>2. awaiting'[s] = FALSE /\ input' = input /\ task' = task
            /\ input[s] = <<>> /\ task[s].pc # "looking up"
        BY <2>4 DEF Receive, InPlace, TypeOK
      <3> QED BY <2>4, <3>1, <3>2, NoIndex DEF InPlace
    <2>5. CASE r = s /\ Hangup(s)
      <3>1. mta'[s] = "Closed" /\ awaiting'[s] = FALSE /\ input'[s] = <<>> /\ output'[s] = <<>>
        BY <2>5 DEF Hangup, TypeOK
      <3> QED BY <2>5, <3>1, NoIndex DEF InPlace
    <2>6. CASE r = s /\ Accept(s)
      <3>1. task'[s].pc = "reading" /\ mta'[s] = "Open" /\ input' = input /\ output' = output
        BY <2>6 DEF Accept, Reading, TypeOK
      <3>2. input[s] = <<>> /\ output[s] = <<>>
        BY <2>6 DEF Accept, InPlace
      <3> QED BY <2>6, <3>1, <3>2, NoIndex DEF InPlace
    <2> QED BY <1>1, <2>1, <2>2, <2>3, <2>4, <2>5, <2>6 DEF SessionStep
  <1>2. CASE \E st \in Statements, day \in {Unsupported} \cup Days : Learn(st, day)
    BY <1>2, <1>0 DEF Learn, Same, connection, history, policy
  <1>3. CASE Restart
    <2>1. mta'[r] = "Closed" /\ awaiting'[r] = FALSE /\ input'[r] = <<>> /\ output'[r] = <<>>
      BY <1>3 DEF Restart
    <2> QED BY <2>1, NoIndex DEF InPlace
  <1>4. CASE NextDay \/ UNCHANGED vars
    BY <1>4, <1>0 DEF NextDay, Same, vars, connection, history, policy
  <1> QED BY <1>1, <1>2, <1>3, <1>4 DEF Next, SessionStep

LEMMA InPlaceInit ==
  ASSUME Init
  PROVE  \A s \in Sessions : InPlace(s)
  BY NoIndex DEF Init, InPlace, Ended

\* A reply under way is the one awaited, and no command waits behind it.
THEOREM AlwaysInStep == Spec => []InStep
  <1>1. Init => TypeOK /\ \A s \in Sessions : InPlace(s)
    BY InitTypes, InPlaceInit
  <1>2. TypeOK /\ (\A s \in Sessions : InPlace(s)) /\ [Next]_vars
        => TypeOK' /\ (\A s \in Sessions : InPlace(s))'
    BY TypesKept, InPlaceKept
  <1>3. (\A s \in Sessions : InPlace(s)) => InStep
    BY DEF InPlace, InStep
  <1> QED BY <1>1, <1>2, <1>3, PTL DEF Spec

-----------------------------------------------------------------------------
(* What the filter has taken account of *)

ElementsOf(q) == {q[i] : i \in DOMAIN q}

LEMMA NoElements == ElementsOf(<<>>) = {}
  <1>1. <<>> \in Seq({}) /\ DOMAIN <<>> = 1 .. Len(<<>>)
    BY EmptySeq, LenProperties
  <1> QED BY <1>1, NoIndex DEF ElementsOf

\* What has been told and is not yet looked up.
Left(s) ==
    IF task[s].pc = "looking up" THEN ElementsOf(task[s].todo)
    ELSE IF input[s] = <<>> THEN {} ELSE ElementsOf(input[s][Len(input[s])].mentions)

NoReset(s) == \A i \in 1 .. Len(input[s]) : input[s][i].kind \notin Resetting

\* Account is taken of what is due, or it is still to be looked up.
Covered(s) ==
    \A st \in due[s] : \/ SeverityOf(st) <= severity[s] /\ NoReset(s)
                       \/ \E e \in Left(s) : st \in Found(e)

LeftMentioned(s) == Left(s) \subseteq mentioned[s]

\* What an accepted message has left decides until a reset is sent.
Carrying(s) == carried[s] => NoReset(s) /\ severity[s] = Known

MatchesMentioned(s) ==
    NoReset(s) /\ ~carried[s] => \A m \in statements[s] : m.entity \in mentioned[s] /\ m.statement \in Found(m.entity)

SeverityAttained(s) ==
    severity[s] = None \/ \E m \in statements[s] : SeverityOf(m.statement) = severity[s]

VerdictGiven(s) == IsVerdict(s) => Head(output[s]) \in PolicyResponses(s)

Account(s) ==
    mta[s] # "Closed" =>
        Covered(s) /\ LeftMentioned(s) /\ Carrying(s) /\ MatchesMentioned(s) /\ SeverityAttained(s) /\ VerdictGiven(s)

\* A session to which nothing happens, while the storage may grow.
LEMMA AccountSame ==
  ASSUME TypeOK, NEW r \in Sessions, Account(r), Same(r),
         \A e \in Entities : Found(e) \subseteq Found(e)'
  PROVE  Account(r)'
  <1> SUFFICES ASSUME mta[r] # "Closed"
               PROVE  /\ Covered(r)' /\ LeftMentioned(r)' /\ Carrying(r)' /\ MatchesMentioned(r)'
                      /\ SeverityAttained(r)' /\ VerdictGiven(r)'
    BY DEF Same, Account
  <1>1. Left(r)' = Left(r) /\ (NoReset(r)' <=> NoReset(r))
    BY DEF Same, Left, NoReset
  <1>2. Covered(r) /\ LeftMentioned(r) /\ Carrying(r) /\ MatchesMentioned(r) /\ SeverityAttained(r) /\ VerdictGiven(r)
    BY DEF Account
  <1>3. Left(r) \subseteq Entities /\ \A m \in statements[r] : m.entity \in Entities
    <2>1. mentioned[r] \subseteq Entities /\ statements[r] \subseteq Matches /\ Left(r) \subseteq mentioned[r]
      BY <1>2 DEF TypeOK, LeftMentioned
    <2>2. \A m \in Matches : m.entity \in Entities
      BY DEF Matches
    <2> QED BY <2>1, <2>2
  <1>4. Covered(r)' /\ LeftMentioned(r)'
    BY <1>1, <1>2, <1>3 DEF Covered, LeftMentioned, Same
  <1>5. Carrying(r)' /\ MatchesMentioned(r)' /\ SeverityAttained(r)'
    BY <1>1, <1>2, <1>3 DEF Carrying, MatchesMentioned, SeverityAttained, Same
  <1>6. VerdictGiven(r)'
    BY <1>2 DEF VerdictGiven, IsVerdict, PolicyResponses, Reasons, Same
  <1> QED BY <1>4, <1>5, <1>6

LEMMA LearnFinds ==
  ASSUME TypeOK, NEW st \in Statements, NEW day \in {Unsupported} \cup Days, Learn(st, day)
  PROVE  \A e \in Entities : Found(e) \subseteq Found(e)'
  <1>1. day # Null
    BY MilterAssumption DEF Unsupported, Days
  <1>2. \A x \in Statements : stored[x] # Null => stored'[x] # Null
    BY <1>1 DEF Learn, TypeOK
  <1> QED BY <1>2, MilterAssumption DEF Found

LEMMA Shift ==
  ASSUME NEW n \in Nat \ {0}
  PROVE  /\ 1 \in 1 .. n /\ n \in 1 .. n
         /\ n - 1 = 0 <=> n = 1
         /\ n # 1 => n - 1 \in 1 .. n - 1 /\ (n - 1) + 1 = n
         /\ \A i \in 1 .. n - 1 : i + 1 \in 1 .. n
         /\ \A i \in 1 .. n : i # 1 => i - 1 \in 1 .. n - 1 /\ (i - 1) + 1 = i
  OBVIOUS

\* Reading a command that mentions nothing.
LEMMA ReadAccount ==
  ASSUME TypeOK, NEW s \in Sessions, InPlace(s), NEW kinds, Read(s, kinds),
         kinds \cap LookingUp = {}, task'[s].pc # "looking up"
  PROVE  /\ Left(s)' = Left(s)
         /\ NoReset(s) => NoReset(s)' /\ input[s][1].kind \notin Resetting
         /\ NoReset(s)' /\ input[s][1].kind \notin Resetting => NoReset(s)
  <1> DEFINE n == Len(input[s])
  <1>1. n \in Nat \ {0} /\ Len(input'[s]) = n - 1 /\ input'[s] \in Seq(Commands)
    BY ReadFacts
  <1>2. \A i \in 1 .. n - 1 : input'[s][i] = input[s][i + 1]
    BY <1>1, ReadFacts
  <1>a. /\ task[s].pc # "looking up" /\ task'[s].pc # "looking up"
        /\ input[s] # <<>> /\ (n = 1 => input'[s] = <<>>)
    <2>1. n = 1 => Len(input'[s]) = 0
      BY <1>1, Shift
    <2>2. n = 1 => input'[s] = <<>>
      BY <2>1, <1>1, EmptySeq
    <2>3. task[s].pc # "looking up" /\ input[s] # <<>>
      BY ReadFacts
    <2> QED BY <2>2, <2>3
  <1>b. Left(s) = ElementsOf(input[s][n].mentions)
    BY <1>a DEF Left
  <1>c. Left(s)' = IF input'[s] = <<>> THEN {} ELSE ElementsOf(input'[s][n - 1].mentions)
    BY <1>a, <1>1 DEF Left
  <1>d. /\ NoReset(s) <=> \A i \in 1 .. n : input[s][i].kind \notin Resetting
        /\ NoReset(s)' <=> \A i \in 1 .. n - 1 : input'[s][i].kind \notin Resetting
    BY <1>1 DEF NoReset
  <1>e. Len(<<>>) = 0 /\ (input'[s] = <<>> => n = 1)
    <2>1. Len(<<>>) = 0
      BY EmptySeq
    <2>2. Len(input'[s]) = 0 => n = 1
      BY <1>1, Shift
    <2> QED BY <2>1, <2>2
  <1> HIDE DEF n
  <1>3. Left(s)' = Left(s)
    <2>1. CASE n = 1
      <3>1. input[s][1].mentions = <<>>
        <4>1. input[s][1] = Head(input[s]) /\ Head(input[s]) \in Commands /\ input[s][1].kind \in kinds
          BY ReadFacts
        <4>2. input[s][1].kind \notin LookingUp
          BY <4>1
        <4> QED BY <4>1, <4>2, CommandTypes
      <3> QED BY <2>1, <3>1, <1>a, <1>b, <1>c, NoElements
    <2>2. CASE n # 1
      <3>1. n - 1 \in 1 .. n - 1 /\ (n - 1) + 1 = n
        BY <2>2, <1>1, Shift
      <3>2. input'[s][n - 1] = input[s][n]
        BY <3>1, <1>2
      <3> QED BY <2>2, <3>2, <1>b, <1>c, <1>e
    <2> QED BY <2>1, <2>2
  <1>4. ASSUME NoReset(s)  PROVE NoReset(s)' /\ input[s][1].kind \notin Resetting
    <2>1. ASSUME NEW i \in 1 .. n - 1  PROVE input'[s][i].kind \notin Resetting
      <3>1. i + 1 \in 1 .. n
        BY <1>1, Shift
      <3> QED BY <3>1, <1>2, <1>4, <1>d
    <2>2. 1 \in 1 .. n
      BY <1>1, Shift
    <2> QED BY <2>1, <2>2, <1>4, <1>d
  <1>5. ASSUME NoReset(s)', input[s][1].kind \notin Resetting  PROVE NoReset(s)
    <2>1. ASSUME NEW i \in 1 .. n  PROVE input[s][i].kind \notin Resetting
      <3>1. CASE i = 1  BY <3>1, <1>5
      <3>2. CASE i # 1
        <4>1. i - 1 \in 1 .. n - 1 /\ (i - 1) + 1 = i
          BY <3>2, <1>1, Shift
        <4> QED BY <4>1, <1>2, <1>5, <1>d
      <3> QED BY <3>1, <3>2
    <2> QED BY <2>1, <1>d
  <1> QED BY <1>3, <1>4, <1>5

\* What is in a sequence is first in it or in its rest.
LEMMA HeadAndTail ==
  ASSUME NEW S, NEW q \in Seq(S), q # <<>>
  PROVE  ElementsOf(q) = {Head(q)} \cup ElementsOf(Tail(q))
  <1> DEFINE n == Len(q)
  <1>1. n \in Nat \ {0} /\ DOMAIN q = 1 .. n /\ q[1] = Head(q)
    BY EmptySeq, LenProperties
  <1>2. DOMAIN Tail(q) = 1 .. n - 1 /\ \A i \in 1 .. n - 1 : Tail(q)[i] = q[i + 1]
    BY HeadTailProperties, LenProperties
  <1> HIDE DEF n
  <1>3. ASSUME NEW i \in 1 .. n, i # 1  PROVE \E j \in 1 .. n - 1 : q[i] = Tail(q)[j]
    <2>1. i - 1 \in 1 .. n - 1 /\ (i - 1) + 1 = i
      BY <1>1, <1>3, Shift
    <2> QED BY <2>1, <1>2
  <1>4. \A j \in 1 .. n - 1 : j + 1 \in 1 .. n
    BY <1>1, Shift
  <1>5. 1 \in 1 .. n
    BY <1>1, Shift
  <1>6. ElementsOf(q) \subseteq {Head(q)} \cup ElementsOf(Tail(q))
    <2> SUFFICES ASSUME NEW i \in 1 .. n  PROVE q[i] \in {Head(q)} \cup ElementsOf(Tail(q))
      BY <1>1 DEF ElementsOf
    <2>1. CASE i = 1  BY <2>1, <1>1
    <2>2. CASE i # 1  BY <2>2, <1>2, <1>3 DEF ElementsOf
    <2> QED BY <2>1, <2>2
  <1>7. Head(q) \in ElementsOf(q)
    BY <1>1, <1>5 DEF ElementsOf
  <1>8. ElementsOf(Tail(q)) \subseteq ElementsOf(q)
    BY <1>1, <1>2, <1>4 DEF ElementsOf
  <1> QED BY <1>6, <1>7, <1>8

LEMMA FoundSame ==
  ASSUME stored' = stored
  PROVE  \A e : Found(e)' = Found(e)
  BY DEF Found

LEMMA AccountKeeping ==
  ASSUME TypeOK, NEW s \in Sessions, InPlace(s), Account(s), NEW kinds, Read(s, kinds),
         kinds \cap LookingUp = {}, kinds \cap Resetting = {}, UNCHANGED policy,
         task'[s].pc # "looking up", VerdictGiven(s)'
  PROVE  Account(s)'
  <1>1. Covered(s) /\ LeftMentioned(s) /\ Carrying(s) /\ MatchesMentioned(s) /\ SeverityAttained(s)
    BY ReadFacts DEF Account
  <1>2. input[s][1].kind \notin Resetting
    BY ReadFacts
  <1>3. Left(s)' = Left(s) /\ (NoReset(s)' <=> NoReset(s))
    BY <1>2, ReadAccount
  <1>4. /\ statements' = statements /\ severity' = severity
        /\ due' = due /\ mentioned' = mentioned /\ carried' = carried /\ \A e : Found(e)' = Found(e)
    BY ReadFacts, FoundSame DEF policy
  <1>5. Covered(s)' /\ LeftMentioned(s)' /\ Carrying(s)' /\ MatchesMentioned(s)' /\ SeverityAttained(s)'
    BY <1>1, <1>3, <1>4 DEF Covered, LeftMentioned, Carrying, MatchesMentioned, SeverityAttained
  <1> QED BY <1>5 DEF Account

LEMMA AccountResetting ==
  ASSUME TypeOK, NEW s \in Sessions, InPlace(s), Account(s), NEW kinds, Read(s, kinds),
         kinds \cap LookingUp = {}, kinds \subseteq Resetting, ResetPolicy(s),
         UNCHANGED task, VerdictGiven(s)'
  PROVE  Account(s)'
  <1>1. Covered(s) /\ LeftMentioned(s) /\ Carrying(s)
    BY ReadFacts DEF Account
  <1>2. input[s][1].kind \in Resetting /\ task'[s].pc # "looking up"
    BY ReadFacts
  <1>3. Left(s)' = Left(s) /\ ~NoReset(s)
    BY <1>2, ReadAccount
  <1>4. /\ statements'[s] = {} /\ severity'[s] = None
        /\ due' = due /\ mentioned' = mentioned /\ carried' = carried /\ \A e : Found(e)' = Found(e)
    <2>1. statements'[s] = {} /\ severity'[s] = None
      BY DEF ResetPolicy, TypeOK
    <2>2. due' = due /\ mentioned' = mentioned /\ carried' = carried /\ stored' = stored
      BY ReadFacts
    <2> QED BY <2>1, <2>2, FoundSame
  <1>5. Covered(s)' /\ LeftMentioned(s)' /\ Carrying(s)' /\ MatchesMentioned(s)' /\ SeverityAttained(s)'
    BY <1>1, <1>3, <1>4 DEF Covered, LeftMentioned, Carrying, MatchesMentioned, SeverityAttained
  <1> QED BY <1>5 DEF Account

LEMMA AccountMention ==
  ASSUME TypeOK, NEW s \in Sessions, InPlace(s), Account(s), HandleMention(s)
  PROVE  Account(s)'
  <1>1. Read(s, LookingUp) /\ output' = output
        /\ task'[s].pc = "looking up" /\ task'[s].todo = Head(input[s]).mentions
        /\ statements' = statements /\ severity' = severity
    BY DEF HandleMention, policy, TypeOK
  <1>2. input[s][1].kind \in LookingUp /\ input[s][1].kind \notin Unanswered
        /\ input[s][1].kind \notin Resetting
    <2>1. input[s][1].kind \in LookingUp
      BY <1>1, ReadFacts
    <2> QED BY <2>1 DEF LookingUp, Unanswered, Resetting
  <1>3. /\ input[s] # <<>> /\ Len(input[s]) = 1 /\ input'[s] = <<>> /\ Head(input[s]) = input[s][1]
        /\ output[s] = <<>> /\ mta[s] # "Closed" /\ task[s].pc # "looking up"
        /\ due' = due /\ mentioned' = mentioned /\ carried' = carried /\ stored' = stored
    BY <1>1, <1>2, ReadFacts
  <1>4. Left(s)' = Left(s)
    <2>1. Left(s) = ElementsOf(Head(input[s]).mentions)
      <3>1. input[s][Len(input[s])] = Head(input[s])
        BY <1>3
      <3> QED BY <1>3, <3>1 DEF Left
    <2>2. Left(s)' = ElementsOf(Head(input[s]).mentions)
      BY <1>1 DEF Left
    <2> QED BY <2>1, <2>2
  <1>5. NoReset(s)' /\ NoReset(s)
    <2>1. \A i \in 1 .. 1 : i = 1
      OBVIOUS
    <2>2. NoReset(s)
      BY <2>1, <1>2, <1>3 DEF NoReset
    <2>3. NoReset(s)'
      BY <1>3, NoIndex DEF NoReset
    <2> QED BY <2>2, <2>3
  <1>6. Covered(s) /\ LeftMentioned(s) /\ Carrying(s) /\ MatchesMentioned(s) /\ SeverityAttained(s)
    BY <1>3 DEF Account
  <1>7. \A e : Found(e)' = Found(e)
    BY <1>3, FoundSame
  <1>8. Covered(s)' /\ LeftMentioned(s)' /\ Carrying(s)' /\ MatchesMentioned(s)' /\ SeverityAttained(s)'
    BY <1>1, <1>3, <1>4, <1>5, <1>6, <1>7
       DEF Covered, LeftMentioned, Carrying, MatchesMentioned, SeverityAttained
  <1>9. VerdictGiven(s)'
    BY <1>1, <1>3 DEF VerdictGiven, IsVerdict
  <1> QED BY <1>8, <1>9 DEF Account

LEMMA AccountLookup ==
  ASSUME TypeOK, NEW s \in Sessions, InPlace(s), Account(s), Lookup(s)
  PROVE  Account(s)'
  <1> SUFFICES ASSUME mta[s] # "Closed"
               PROVE  /\ Covered(s)' /\ LeftMentioned(s)' /\ Carrying(s)' /\ MatchesMentioned(s)'
                      /\ SeverityAttained(s)' /\ VerdictGiven(s)'
    BY DEF Account, Lookup, connection, history
  <1> DEFINE e == Head(task[s].todo)
  <1>1. /\ task[s].pc = "looking up" /\ task[s].todo # <<>>
        /\ severity'[s] = Max({severity[s]} \cup {SeverityOf(st) : st \in Found(e)})
        /\ statements'[s] = statements[s] \cup [entity : {e}, statement : Found(e)]
        /\ task'[s].pc = "looking up" /\ task'[s].todo = Tail(task[s].todo)
        /\ input' = input /\ output' = output
        /\ due' = due /\ mentioned' = mentioned /\ carried' = carried /\ stored' = stored
    BY DEF Lookup, connection, history, TypeOK
  <1>2. input[s] = <<>> /\ output[s] = <<>>
    BY <1>1 DEF InPlace
  <1>3. Covered(s) /\ LeftMentioned(s) /\ Carrying(s) /\ MatchesMentioned(s) /\ SeverityAttained(s)
    BY DEF Account
  <1>4. NoReset(s) /\ NoReset(s)'
    BY <1>1, <1>2, NoIndex DEF NoReset
  <1>5. e \in Entities /\ task[s].todo \in Seq(Entities) /\ severity[s] \in None .. Known
    BY <1>1, HeadTailProperties DEF TypeOK
  <1>6. Left(s) = {e} \cup Left(s)'
    BY <1>1, <1>5, HeadAndTail DEF Left
  <1>7. /\ severity'[s] \in None .. Known /\ severity[s] <= severity'[s]
        /\ \A st \in Found(e) : SeverityOf(st) <= severity'[s]
        /\ severity'[s] = severity[s] \/ \E st \in Found(e) : severity'[s] = SeverityOf(st)
    BY <1>1, <1>5, LookupSeverity
  <1>8. \A x : Found(x)' = Found(x)
    BY <1>1, FoundSame
  <1>9. Covered(s)'
    <2> SUFFICES ASSUME NEW st \in due[s]
                 PROVE  SeverityOf(st) <= severity'[s] \/ \E x \in Left(s)' : st \in Found(x)
      BY <1>1, <1>4, <1>8 DEF Covered
    <2>1. CASE SeverityOf(st) <= severity[s]
      <3>1. st \in Statements
        BY DEF TypeOK
      <3>2. SeverityOf(st) \in 0 .. 4 /\ severity[s] \in 0 .. 4 /\ severity'[s] \in 0 .. 4
        BY <3>1, <1>5, <1>7, SeverityRange DEF None, Known
      <3> QED BY <3>2, <2>1, <1>7
    <2>2. CASE \E x \in Left(s) : st \in Found(x)
      BY <2>2, <1>6, <1>7
    <2> QED BY <2>1, <2>2, <1>3 DEF Covered
  <1>10. LeftMentioned(s)' /\ e \in mentioned[s]
    BY <1>1, <1>3, <1>6 DEF LeftMentioned
  <1>11. Carrying(s)' /\ MatchesMentioned(s)'
    <2>1. severity[s] = Known => severity'[s] = Known
      <3>1. severity'[s] \in 0 .. 4 /\ severity[s] \in 0 .. 4 /\ severity[s] <= severity'[s]
        BY <1>5, <1>7 DEF None, Known
      <3> QED BY <3>1 DEF Known
    <2> QED BY <2>1, <1>1, <1>3, <1>4, <1>8, <1>10 DEF Carrying, MatchesMentioned
  <1>12. SeverityAttained(s)'
    <2>1. CASE severity'[s] = severity[s]
      BY <2>1, <1>1, <1>3 DEF SeverityAttained
    <2>2. CASE \E st \in Found(e) : severity'[s] = SeverityOf(st)
      <3>1. PICK st \in Found(e) : severity'[s] = SeverityOf(st)
        BY <2>2
      <3>2. [entity |-> e, statement |-> st] \in statements'[s]
        BY <1>1
      <3> QED BY <3>1, <3>2 DEF SeverityAttained
    <2> QED BY <2>1, <2>2, <1>7
  <1>13. VerdictGiven(s)'
    BY <1>1, <1>2 DEF VerdictGiven, IsVerdict
  <1> QED BY <1>9, <1>10, <1>11, <1>12, <1>13

LEMMA AccountProceed ==
  ASSUME TypeOK, NEW s \in Sessions, InPlace(s), Account(s), Proceed(s)
  PROVE  Account(s)'
  <1> SUFFICES ASSUME mta[s] # "Closed"
               PROVE  /\ Covered(s)' /\ LeftMentioned(s)' /\ Carrying(s)' /\ MatchesMentioned(s)'
                      /\ SeverityAttained(s)' /\ VerdictGiven(s)'
    BY DEF Account, Proceed, connection, history
  <1>1. /\ task[s].pc = "looking up" /\ task[s].todo = <<>>
        /\ input' = input /\ stored' = stored /\ mta' = mta
        /\ due' = due /\ mentioned' = mentioned /\ carried' = carried /\ statements' = statements /\ severity' = severity
    BY DEF Proceed, connection, history, policy
  <1>2. task'[s].pc = "reading"
    <2>1. task' = [task EXCEPT ![s] = Reading]
      BY DEF Proceed
    <2> QED BY <2>1 DEF Reading, TypeOK
  <1>3. input[s] = <<>> /\ mta[s] \in LookingUp
    BY <1>1 DEF InPlace
  <1>4. Left(s) = {} /\ Left(s)' = {} /\ (NoReset(s)' <=> NoReset(s))
    BY <1>1, <1>2, <1>3, NoElements DEF Left, NoReset
  <1>5. Covered(s) /\ LeftMentioned(s) /\ Carrying(s) /\ MatchesMentioned(s) /\ SeverityAttained(s)
    BY DEF Account
  <1>6. \A e : Found(e)' = Found(e)
    BY <1>1, FoundSame
  <1>7. Covered(s)' /\ LeftMentioned(s)' /\ Carrying(s)' /\ MatchesMentioned(s)' /\ SeverityAttained(s)'
    BY <1>1, <1>4, <1>5, <1>6 DEF Covered, LeftMentioned, Carrying, MatchesMentioned, SeverityAttained
  <1>8. VerdictGiven(s)'
    BY <1>1, <1>3 DEF VerdictGiven, IsVerdict, LookingUp, Asking
  <1> QED BY <1>7, <1>8

\* Replies to commands that do not ask are no verdicts.
LEMMA NoVerdict ==
  ASSUME TypeOK, NEW s \in Sessions, InPlace(s), NEW kinds, Read(s, kinds),
         kinds \cap Asking = {}, kinds \cap Unanswered = {}
  PROVE  VerdictGiven(s)'
  <1>1. mta'[s] \in kinds
    BY ReadFacts
  <1> QED BY <1>1 DEF VerdictGiven, IsVerdict

LEMMA SilenceNoVerdict ==
  ASSUME TypeOK, NEW s \in Sessions, InPlace(s), NEW kinds, Read(s, kinds), UNCHANGED output
  PROVE  VerdictGiven(s)'
  <1>1. output'[s] = <<>>
    BY ReadFacts
  <1> QED BY <1>1 DEF VerdictGiven, IsVerdict

LEMMA AccountStep ==
  ASSUME TypeOK, NEW s \in Sessions, InPlace(s), Account(s), Step(s)
  PROVE  Account(s)'
  <1>0. /\ {"Optneg", "BodyEob", "Abort"} \subseteq Resetting
        /\ {"Optneg"} \cap LookingUp = {} /\ {"BodyEob"} \cap LookingUp = {} /\ {"Abort"} \cap LookingUp = {}
        /\ {"Body"} \cap LookingUp = {} /\ {"Macro"} \cap LookingUp = {} /\ {"Quit"} \cap LookingUp = {}
        /\ {"Body"} \cap Resetting = {} /\ {"Macro"} \cap Resetting = {} /\ {"Quit"} \cap Resetting = {}
        /\ Asking \cap LookingUp = {} /\ Asking \cap Resetting = {} /\ Asking \cap Unanswered = {}
        /\ {"Optneg"} \cap Asking = {} /\ {"BodyEob"} \cap Asking = {} /\ {"Body"} \cap Asking = {}
        /\ {"Optneg"} \cap Unanswered = {} /\ {"BodyEob"} \cap Unanswered = {} /\ {"Body"} \cap Unanswered = {}
    BY DEF LookingUp, Asking, Resetting, Unanswered
  <1>r. PolicyResponses(s) \subseteq Replies
    BY ReplyTypes
  <1>1. CASE HandleMention(s)
    BY <1>1, AccountMention
  <1>2. CASE HandleOptneg(s)
    <2>1. Read(s, {"Optneg"}) /\ ResetPolicy(s) /\ UNCHANGED task
      BY <1>2 DEF HandleOptneg
    <2>2. VerdictGiven(s)'
      BY <2>1, <1>0, NoVerdict
    <2> QED BY <2>1, <2>2, <1>0, AccountResetting
  <1>3. CASE HandleAsking(s)
    <2>1. Read(s, Asking) /\ UNCHANGED <<task, policy>>
      BY <1>3 DEF HandleAsking
    <2>2. PICK r \in PolicyResponses(s) : Write(s, r)
      BY <1>3 DEF HandleAsking
    <2>3. output[s] = <<>> /\ task'[s].pc # "looking up"
      BY <2>1, ReadFacts
    <2>4. Head(output'[s]) = r
      BY <2>2, <2>3, <1>r, WriteFacts
    <2>5. PolicyResponses(s)' = PolicyResponses(s)
      BY <2>1 DEF policy, PolicyResponses, Reasons
    <2>6. VerdictGiven(s)'
      BY <2>4, <2>5 DEF VerdictGiven
    <2> QED BY <2>1, <2>3, <2>6, <1>0, AccountKeeping
  <1>4. CASE HandleBodyEob(s)
    <2>1. Read(s, {"BodyEob"}) /\ ResetPolicy(s) /\ UNCHANGED task
      BY <1>4 DEF HandleBodyEob
    <2>2. VerdictGiven(s)'
      BY <2>1, <1>0, NoVerdict
    <2> QED BY <2>1, <2>2, <1>0, AccountResetting
  <1>5. CASE HandleBody(s)
    <2>1. Read(s, {"Body"}) /\ UNCHANGED <<task, policy>>
      BY <1>5 DEF HandleBody
    <2>2. VerdictGiven(s)' /\ task'[s].pc # "looking up"
      BY <2>1, <1>0, NoVerdict, ReadFacts
    <2> QED BY <2>1, <2>2, <1>0, AccountKeeping
  <1>6. CASE HandleAbort(s)
    <2>1. Read(s, {"Abort"}) /\ ResetPolicy(s) /\ UNCHANGED <<output, task>>
      BY <1>6 DEF HandleAbort
    <2>2. VerdictGiven(s)'
      BY <2>1, SilenceNoVerdict
    <2> QED BY <2>1, <2>2, <1>0, AccountResetting
  <1>7. CASE HandleMacro(s)
    <2>1. Read(s, {"Macro"}) /\ UNCHANGED <<output, task, policy>>
      BY <1>7 DEF HandleMacro
    <2>2. VerdictGiven(s)' /\ task'[s].pc # "looking up"
      BY <2>1, SilenceNoVerdict, ReadFacts
    <2> QED BY <2>1, <2>2, <1>0, AccountKeeping
  <1>8. CASE HandleQuit(s)
    <2>1. Read(s, {"Quit"}) /\ UNCHANGED <<output, policy>>
      BY <1>8 DEF HandleQuit
    <2>2. VerdictGiven(s)'
      BY <2>1, SilenceNoVerdict
    <2>3. task'[s].pc # "looking up"
      BY <1>8 DEF HandleQuit, Ended, TypeOK
    <2> QED BY <2>1, <2>2, <2>3, <1>0, AccountKeeping
  <1>9. CASE Lookup(s)
    BY <1>9, AccountLookup
  <1>10. CASE Proceed(s)
    BY <1>10, AccountProceed
  <1>11. CASE ReadEnd(s)
    BY <1>11 DEF ReadEnd, connection, history, Account
  <1> QED BY <1>1, <1>2, <1>3, <1>4, <1>5, <1>6, <1>7, <1>8, <1>9, <1>10, <1>11 DEF Step

LEMMA AccountSend ==
  ASSUME TypeOK, NEW s \in Sessions, NEW c \in Commands, InPlace(s), Account(s), Send(s, c)
  PROVE  Account(s)'
  <1> DEFINE before(x) == IF c.kind \in Resetting THEN {} ELSE x
             told == ElementsOf(c.mentions)
             n == Len(input[s])
  <1>1. /\ stored' = stored /\ statements' = statements /\ severity' = severity
        /\ mentioned'[s] = before(mentioned[s]) \cup told
        /\ due'[s] = before(due[s]) \cup UNION {Found(e) : e \in told}
        /\ carried'[s] = (carried[s] /\ c.kind \notin Resetting)
    BY DEF Send, policy, TypeOK, ElementsOf
  <1>2. /\ mta[s] # "Closed" /\ task[s].pc # "looking up" /\ task' = task
        /\ output'[s] = <<>> /\ input'[s] # <<>> /\ input'[s][Len(input'[s])] = c
    BY SendFacts
  <1>3. Left(s)' = told
    BY <1>2 DEF Left
  <1>4. Left(s) = {}
    <2>1. CASE input[s] = <<>>
      BY <2>1, <1>2 DEF Left
    <2>2. CASE input[s] # <<>>
      <3>1. input[s] \in Seq(Commands) /\ n \in 1 .. n
        <4>1. input[s] \in Seq(Commands) /\ n \in Nat \ {0}
          BY <2>2, EmptySeq DEF TypeOK
        <4> QED BY <4>1, Shift
      <3>2. input[s][n] \in Commands
        BY <3>1, ElementOfSeq
      <3>3. input[s][n].kind \notin LookingUp
        BY <3>1, SendFacts DEF LookingUp, Unanswered
      <3>4. input[s][n].mentions = <<>>
        BY <3>2, <3>3, CommandTypes
      <3> QED BY <2>2, <3>4, <1>2, NoElements DEF Left
    <2> QED BY <2>1, <2>2
  <1>5. NoReset(s)' <=> NoReset(s) /\ c.kind \notin Resetting
    <2>1. n \in Nat /\ Len(input'[s]) = n + 1 /\ \A i \in 1 .. n : input'[s][i] = input[s][i]
      BY SendFacts
    <2>2. input'[s][n + 1] = c
      BY <2>1, <1>2
    <2> HIDE DEF n
    <2>3. \A i : i \in 1 .. n + 1 <=> i \in 1 .. n \/ i = n + 1
      BY <2>1
    <2>4. NoReset(s) <=> \A i \in 1 .. n : input[s][i].kind \notin Resetting
      BY DEF NoReset, n
    <2>5. NoReset(s)' <=> \A i \in 1 .. n + 1 : input'[s][i].kind \notin Resetting
      BY <2>1 DEF NoReset
    <2> QED BY <2>1, <2>2, <2>3, <2>4, <2>5
  <1>6. Covered(s) /\ Carrying(s) /\ MatchesMentioned(s) /\ SeverityAttained(s)
    BY <1>2 DEF Account
  <1>7. \A e : Found(e)' = Found(e)
    BY <1>1, FoundSame
  <1>8. Covered(s)'
    BY <1>1, <1>3, <1>4, <1>5, <1>6, <1>7 DEF Covered
  <1>9. LeftMentioned(s)'
    BY <1>1, <1>3 DEF LeftMentioned
  <1>10. Carrying(s)' /\ MatchesMentioned(s)' /\ SeverityAttained(s)'
    BY <1>1, <1>5, <1>6, <1>7 DEF Carrying, MatchesMentioned, SeverityAttained
  <1>11. VerdictGiven(s)'
    BY <1>2 DEF VerdictGiven, IsVerdict
  <1> QED BY <1>8, <1>9, <1>10, <1>11 DEF Account

LEMMA AccountKept ==
  ASSUME TypeOK, [Next]_vars, \A s \in Sessions : InPlace(s), \A s \in Sessions : Account(s)
  PROVE  \A s \in Sessions : Account(s)'
  <1> SUFFICES ASSUME NEW r \in Sessions  PROVE Account(r)'
    OBVIOUS
  <1>0. ASSUME Same(r), stored' = stored  PROVE Account(r)'
    <2>1. Account(r) /\ \A e \in Entities : Found(e) \subseteq Found(e)'
      BY <1>0, FoundSame
    <2> QED BY <2>1, <1>0, AccountSame
  <1>1. ASSUME NEW s \in Sessions, SessionStep(s)  PROVE Account(r)'
    <2>1. CASE r # s
      <3>1. stored' = stored
        BY <1>1 DEF SessionStep, Step, Read, HandleMention, HandleOptneg, HandleAsking, HandleBodyEob,
                    HandleBody, HandleAbort, HandleMacro, HandleQuit, Lookup, Proceed, ReadEnd,
                    Send, Receive, Hangup, Accept
      <3> QED BY <2>1, <3>1, <1>0, <1>1, OthersSame
    <2>2. CASE r = s /\ Step(s)  BY <2>2, AccountStep
    <2>3. CASE r = s /\ \E c \in Commands : Send(s, c)  BY <2>3, AccountSend
    <2>4. CASE r = s /\ Receive(s)
      <3>1. /\ output[s] # <<>> /\ input' = input /\ task' = task /\ stored' = stored
            /\ statements' = statements /\ severity' = severity
            /\ IF Accepts(s)
               THEN /\ mta'[s] = "Accepted" /\ due'[s] = {} /\ mentioned'[s] = {}
                    /\ carried'[s] = TRUE
               ELSE mta' = mta /\ due' = due /\ mentioned' = mentioned /\ carried' = carried
        BY <2>4 DEF Receive, policy, history, TypeOK
      <3>2. output'[s] = <<>>
        <4>1. Len(output[s]) = 1 /\ output[s] \in Seq(Replies) /\ output[s] # <<>>
          BY <2>4 DEF Receive, InPlace, TypeOK
        <4>2. Tail(output[s]) \in Seq(Replies) /\ Len(Tail(output[s])) = 0
          BY <4>1, HeadTailProperties
        <4>3. Tail(output[s]) = <<>>
          BY <4>2, EmptySeq
        <4> QED BY <4>3, <2>4 DEF Receive, TypeOK
      <3>3. Left(s)' = Left(s) /\ (NoReset(s)' <=> NoReset(s)) /\ \A e : Found(e)' = Found(e)
        BY <3>1, FoundSame DEF Left, NoReset
      <3>4. VerdictGiven(s)'
        BY <3>2 DEF VerdictGiven, IsVerdict
      <3>5. CASE ~Accepts(s)
        <4>1. mta[s] # "Closed" =>
                /\ Covered(s)' /\ LeftMentioned(s)' /\ Carrying(s)'
                /\ MatchesMentioned(s)' /\ SeverityAttained(s)'
          BY <3>1, <3>3, <3>5
             DEF Account, Covered, LeftMentioned, Carrying, MatchesMentioned, SeverityAttained
        <4> QED BY <2>4, <3>1, <3>4, <3>5, <4>1 DEF Account
      <3>6. CASE Accepts(s)
        <4>1. mta[s] # "Closed" /\ IsVerdict(s) /\ Head(output[s]).kind = "Accept"
          BY <3>1, <3>6 DEF Accepts, IsVerdict, Asking
        <4>2. SeverityAttained(s) /\ Head(output[s]) \in PolicyResponses(s)
          BY <4>1, <2>4 DEF Account, VerdictGiven
        <4>3. Response[severity[s]] = "Accept" /\ severity[s] \in None .. Known
          BY <4>1, <4>2 DEF PolicyResponses, TypeOK
        <4>4. severity[s] = Known
          BY <4>3 DEF Response, None, Quarantine, Tempfail, Reject, Known
        <4>5. NoReset(s) /\ Left(s) = {}
          <5>1. input[s] = <<>> /\ task[s].pc # "looking up"
            BY <3>1, <2>4 DEF InPlace
          <5> QED BY <5>1, NoIndex DEF NoReset, Left
        <4>6. /\ Covered(s)' /\ LeftMentioned(s)' /\ Carrying(s)'
              /\ MatchesMentioned(s)' /\ SeverityAttained(s)'
          BY <3>1, <3>3, <3>6, <4>2, <4>4, <4>5
             DEF Covered, LeftMentioned, Carrying, MatchesMentioned, SeverityAttained
        <4> QED BY <2>4, <3>4, <4>6 DEF Account
      <3> QED BY <3>5, <3>6
    <2>5. CASE r = s /\ Hangup(s)
      <3>1. mta'[s] = "Closed"
        BY <2>5 DEF Hangup, TypeOK
      <3> QED BY <2>5, <3>1 DEF Account
    <2>6. CASE r = s /\ Accept(s)
      <3>1. /\ input'[s] = <<>> /\ output'[s] = <<>> /\ task'[s].pc = "reading"
            /\ due'[s] = {} /\ mentioned'[s] = {} /\ ~carried'[s]
        BY <2>6 DEF Accept, InPlace, Reading, TypeOK
      <3>2. statements'[s] = {} /\ severity'[s] = None
        BY <2>6 DEF Accept, ResetPolicy, TypeOK
      <3>3. Left(s)' = {}
        BY <3>1 DEF Left
      <3>4. Covered(s)' /\ LeftMentioned(s)' /\ Carrying(s)' /\ MatchesMentioned(s)' /\ SeverityAttained(s)'
        BY <3>1, <3>2, <3>3 DEF Covered, LeftMentioned, Carrying, MatchesMentioned, SeverityAttained
      <3>5. VerdictGiven(s)'
        BY <3>1 DEF VerdictGiven, IsVerdict
      <3> QED BY <2>6, <3>4, <3>5 DEF Account
    <2> QED BY <1>1, <2>1, <2>2, <2>3, <2>4, <2>5, <2>6 DEF SessionStep
  <1>2. CASE \E st \in Statements, day \in {Unsupported} \cup Days : Learn(st, day)
    <2>1. Same(r) /\ \A e \in Entities : Found(e) \subseteq Found(e)'
      BY <1>2, LearnFinds DEF Learn, Same, connection, history, policy
    <2> QED BY <2>1, AccountSame
  <1>3. CASE Restart
    <2>1. mta'[r] = "Closed"
      BY <1>3 DEF Restart
    <2> QED BY <2>1 DEF Account
  <1>4. CASE NextDay \/ UNCHANGED vars
    BY <1>4, <1>0 DEF NextDay, Same, vars, connection, history, policy
  <1> QED BY <1>1, <1>2, <1>3, <1>4 DEF Next, SessionStep

-----------------------------------------------------------------------------
(* Verdicts *)

Accounted == TypeOK /\ \A s \in Sessions : InPlace(s) /\ Account(s)

LEMMA AlwaysAccounted == Spec => []Accounted
  <1>1. Init => Accounted
    BY InitTypes, InPlaceInit DEF Init, Account, Accounted
  <1>2. Accounted /\ [Next]_vars => Accounted'
    BY TypesKept, InPlaceKept, AccountKept DEF Accounted
  <1> QED BY <1>1, <1>2, PTL DEF Spec

\* A verdict comes when all is looked up and no reset is under way.
LEMMA VerdictFacts ==
  ASSUME Accounted, NEW s \in Sessions, IsVerdict(s)
  PROVE  /\ Head(output[s]) \in PolicyResponses(s)
         /\ Head(output[s]).kind = Response[severity[s]] /\ severity[s] \in None .. Known
         /\ NoReset(s) /\ Left(s) = {}
         /\ Covered(s) /\ Carrying(s) /\ MatchesMentioned(s) /\ SeverityAttained(s)
  <1>1. output[s] # <<>> /\ mta[s] # "Closed"
    BY DEF IsVerdict, Asking
  <1>2. input[s] = <<>> /\ task[s].pc # "looking up"
    BY <1>1 DEF Accounted, InPlace
  <1>3. NoReset(s) /\ Left(s) = {}
    BY <1>2, NoIndex DEF NoReset, Left
  <1>4. /\ Covered(s) /\ Carrying(s) /\ MatchesMentioned(s) /\ SeverityAttained(s)
        /\ Head(output[s]) \in PolicyResponses(s)
    BY <1>1 DEF Accounted, Account, VerdictGiven
  <1>5. Head(output[s]).kind = Response[severity[s]]
    BY <1>4 DEF PolicyResponses
  <1> QED BY <1>3, <1>4, <1>5 DEF Accounted, TypeOK

\* A verdict is not milder than the worst of what was stored when the MTA told
\* of it, whatever is stored between the look-ups.
THEOREM VerdictsCoverTold == Spec => []VerdictCoversTold
  <1>1. Accounted => VerdictCoversTold
    <2> SUFFICES ASSUME Accounted, NEW s \in Sessions, IsVerdict(s)
                 PROVE  \E v \in None .. Known : Gives(s, v) /\ \A st \in due[s] : SeverityOf(st) <= v
      BY DEF VerdictCoversTold
    <2>1. Gives(s, severity[s]) /\ severity[s] \in None .. Known
      BY VerdictFacts DEF Gives
    <2>2. \A st \in due[s] : SeverityOf(st) <= severity[s]
      BY VerdictFacts DEF Covered
    <2> QED BY <2>1, <2>2
  <1> QED BY <1>1, AlwaysAccounted, PTL

\* A verdict other than to continue is that of a stored statement about
\* something mentioned in this very message, and so is the reason of a refusal,
\* unless it is to accept what follows an accepted message without a reset.
THEOREM VerdictsRestOnTold == Spec => []VerdictRestsOnTold
  <1>1. ASSUME Accounted, NEW s \in Sessions, IsVerdict(s), ~carried[s]
        PROVE  RestsOnTold(s)
    <2> SUFFICES ASSUME Head(output[s]).kind # Response[None]
                 PROVE  \E e \in mentioned[s] : \E st \in Found(e) : Gives(s, SeverityOf(st))
      BY DEF RestsOnTold
    <2>1. severity[s] # None
      BY <1>1, VerdictFacts
    <2>2. PICK m \in statements[s] : SeverityOf(m.statement) = severity[s]
      BY <1>1, <2>1, VerdictFacts DEF SeverityAttained
    <2>3. m.entity \in mentioned[s] /\ m.statement \in Found(m.entity)
      BY <1>1, VerdictFacts DEF MatchesMentioned
    <2>4. Gives(s, SeverityOf(m.statement))
      BY <1>1, <2>2, VerdictFacts DEF Gives
    <2> QED BY <2>3, <2>4
  <1>2. ASSUME Accounted, NEW s \in Sessions, IsVerdict(s), ~carried[s]
        PROVE  RefusalHasReason(s)
    <2> SUFFICES ASSUME Gives(s, Tempfail) \/ Gives(s, Reject)
                 PROVE  LET reason == Head(output[s]).reason
                        IN  /\ reason # Null /\ reason.entity \in mentioned[s]
                            /\ Gives(s, SeverityOf(reason.statement))
      BY DEF RefusalHasReason
    <2> DEFINE reason == Head(output[s]).reason
    <2>1. severity[s] \in {Tempfail, Reject}
      <3>1. Tempfail \in None .. Known /\ Reject \in None .. Known
        BY DEF None, Tempfail, Reject, Known
      <3> QED BY <1>2, <3>1, VerdictFacts, ResponseKinds DEF Gives
    <2>2. severity[s] \notin {None, Known}
      BY <2>1 DEF None, Tempfail, Reject, Known
    <2>3. Reasons(s) # {}
      BY <1>2, <2>2, VerdictFacts DEF SeverityAttained, Reasons
    <2>4. reason \in Reasons(s)
      BY <1>2, <2>2, <2>3, VerdictFacts DEF PolicyResponses
    <2>5. reason \in Matches /\ reason \in statements[s] /\ SeverityOf(reason.statement) = severity[s]
      BY <1>2, <2>4 DEF Reasons, Accounted, TypeOK
    <2>6. reason # Null
      BY <2>5, MilterAssumption DEF Matches
    <2>7. reason.entity \in mentioned[s]
      BY <1>2, <2>5, VerdictFacts DEF MatchesMentioned
    <2>8. Gives(s, SeverityOf(reason.statement))
      BY <1>2, <2>5, VerdictFacts DEF Gives
    <2> QED BY <2>6, <2>7, <2>8
  <1>3. ASSUME Accounted, NEW s \in Sessions, IsVerdict(s), carried[s]
        PROVE  Gives(s, Known)
    BY <1>3, VerdictFacts DEF Carrying, Gives
  <1>4. Accounted => VerdictRestsOnTold
    BY <1>1, <1>2, <1>3 DEF VerdictRestsOnTold
  <1> QED BY <1>4, AlwaysAccounted, PTL
=============================================================================
