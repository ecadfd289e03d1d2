------------------------ MODULE ReputationNetProofs -------------------------
(***************************************************************************)
(* Proofs about ReputationNet, for any number of nodes, names, entities    *)
(* and days, any capacity of channels, and any initial databases that      *)
(* earlier runs may have left.                                             *)
(***************************************************************************)
EXTENDS ReputationNet, SequenceTheorems, TLAPS

-----------------------------------------------------------------------------
(* What handlers compute has its type *)

LEMMA StatementNames ==
    /\ \A k \in Names : Template(k) \in Statements
    /\ \A s \in Statements : s.name \in Names
    /\ \A s \in Statements : s.name = TemplateName => s.about \in Names
  BY NetAssumption DEF Statements, Template, Names

LEMMA SignedIsOpinion ==
  ASSUME today \in Dates, NEW n \in Nodes, NEW s \in Statements,
         NEW v \in {OwnValid, AnswerValid}
  PROVE  Sign(n, s, v) \in SignedOpinions
  BY NetAssumption DEF Sign, SignedOpinions

LEMMA MergeType ==
  ASSUME NEW h \in SUBSET SignedOpinions, NEW ops \in SUBSET SignedOpinions
  PROVE  Merge(h, ops) \in SUBSET SignedOpinions
  BY DEF Merge

LEMMA TemplatesAmongType ==
  ASSUME NEW ops \in SUBSET SignedOpinions
  PROVE  TemplatesAmong(ops) \in SUBSET Names
  BY StatementNames DEF TemplatesAmong, SignedOpinions

LEMMA TemplateNameKnown == TemplateName \in Names /\ Template(TemplateName) \in Statements
  BY StatementNames DEF Names

LEMMA StartedType ==
  ASSUME today \in Dates, NEW n \in Nodes, NEW h \in SUBSET SignedOpinions
  PROVE  /\ Started(n, h) \in SUBSET SignedOpinions
         /\ Cleaned(Started(n, h)) \in SUBSET SignedOpinions
         /\ TemplatesAmong(Started(n, h)) \in SUBSET Names
         /\ TemplatesAmong(Cleaned(Started(n, h))) \in SUBSET Names
  <1>1. {Sign(n, Template(TemplateName), OwnValid)} \in SUBSET SignedOpinions
    BY TemplateNameKnown, SignedIsOpinion
  <1>2. Started(n, h) \in SUBSET SignedOpinions
    BY <1>1, MergeType DEF Started
  <1>3. Cleaned(Started(n, h)) \in SUBSET SignedOpinions
    BY <1>2 DEF Cleaned
  <1> QED BY <1>2, <1>3, TemplatesAmongType

\* The types of all variables, channels being sequences.
Typing == TypeOK /\ inbox \in [Nodes -> Seq(Messages)]

LEMMA SyncInfosType ==
  ASSUME TypeOK, NEW n \in Nodes, NEW d \in Dates
  PROVE  /\ get_sync_infos(n, d) \in Infos
         /\ get_own_infos(n, d) \in Infos
  <1>1. get_sync_infos(n, d) \in Infos
    BY DEF TypeOK, get_sync_infos, list_statements_named_signed, Infos
  <1>2. own_infos[n][d] \in Infos \cup {None}
    BY DEF TypeOK
  <1> QED BY <1>1, <1>2 DEF get_own_infos

LEMMA CacheOwnInfosType ==
  ASSUME TypeOK, NEW n \in Nodes, NEW d \in Dates, CacheOwnInfos(n, d)
  PROVE  own_infos' \in [Nodes -> [Dates -> Infos \cup {None}]]
  BY SyncInfosType DEF CacheOwnInfos, TypeOK

LEMMA FlushType ==
  ASSUME TypeOK, NEW n \in Nodes, flush_own_infos(n)
  PROVE  own_infos' \in [Nodes -> [Dates -> Infos \cup {None}]]
  BY DEF flush_own_infos, TypeOK

LEMMA PersistType ==
  ASSUME TypeOK, NEW n \in Nodes, NEW ops \in SUBSET SignedOpinions, Persist(n, ops)
  PROVE  /\ held' \in [Nodes -> SUBSET SignedOpinions]
         /\ templates' \in [Nodes -> SUBSET Names]
  <1>1. Merge(held[n], ops) \in SUBSET SignedOpinions
    BY MergeType DEF TypeOK
  <1>2. TemplatesAmong(ops) \in SUBSET Names
    BY TemplatesAmongType
  <1> QED BY <1>1, <1>2 DEF Persist, TypeOK

LEMMA SpendType ==
  ASSUME TypeOK, NEW e \in Events, Spend(e)
  PROVE  spent' \in [Events -> Nat]
  BY DEF Spend, TypeOK

\* The message that is handled, and what is left in the channel.
LEMMA ReceiveType ==
  ASSUME Typing, NEW n \in Nodes, NEW kinds, Receive(n, kinds)
  PROVE  /\ Head(inbox[n]) \in Messages /\ Head(inbox[n]).kind \in kinds
         /\ inbox' \in [Nodes -> Seq(Messages)]
         /\ \A x \in Nodes : Len(inbox'[x]) <= InboxSize
         /\ UNCHANGED <<today, spent>>
  <1>1. inbox \in [Nodes -> Seq(Messages)] /\ inbox[n] # <<>>
    BY DEF Typing, Receive
  <1>2. inbox[n] \in Seq(Messages)
    BY <1>1
  <1>3. /\ Head(inbox[n]) \in Messages /\ Tail(inbox[n]) \in Seq(Messages)
        /\ Len(Tail(inbox[n])) = Len(inbox[n]) - 1 /\ Len(inbox[n]) \in Nat
    BY <1>1, <1>2, HeadTailProperties, LenProperties
  <1>4. inbox' = [inbox EXCEPT ![n] = Tail(@)]
    BY DEF Receive
  <1>5. \A x \in Nodes : Len(inbox'[x]) <= InboxSize
    BY <1>1, <1>3, <1>4, NetAssumption DEF Typing, TypeOK
  <1> QED BY <1>1, <1>3, <1>4, <1>5 DEF Receive

LEMMA MessageTypes ==
  ASSUME NEW m \in Messages
  PROVE  /\ m.kind \in {"statement", "announcement", "response"} \cup Requests
         /\ m.from \in Nodes /\ m.to \in Nodes
         /\ m.kind = "statement" => m.opinion \in SignedOpinions
         /\ m.kind = "announcement" => m.date \in Dates /\ m.infos \in Infos
         /\ m.kind = "opinion_request" => m.name \in Names /\ m.date \in Dates
         /\ m.kind \in Requests => m.open \in BOOLEAN
         /\ m.kind = "response" => m.list \in SUBSET SignedOpinions
         /\ m.kind \in Requests => [m EXCEPT !.open = FALSE] \in Messages
         /\ m.kind \in Requests => [m EXCEPT !.open = FALSE].kind = m.kind
  BY DEF Messages, Requests

LEMMA ClosedType ==
  ASSUME NEW m \in Messages
  PROVE  Closed(m) \in Messages
  BY MessageTypes DEF Closed

\* What is in a channel of messages are messages.
LEMMA MessagesQueued ==
  ASSUME inbox' \in [Nodes -> Seq(Messages)]
  PROVE  \A n \in Nodes : \A i \in DOMAIN inbox'[n] : inbox'[n][i] \in Messages
  <1> TAKE n \in Nodes
  <1>1. inbox'[n] \in Seq(Messages)
    OBVIOUS
  <1> QED BY <1>1, ElementOfSeq, LenProperties

LEMMA AnswerType ==
  ASSUME NEW m \in Messages, NEW list \in SUBSET SignedOpinions
  PROVE  Answer(m, list) \in Messages
  BY MessageTypes DEF Answer, Messages

LEMMA PublishType ==
  ASSUME NEW n \in Nodes, NEW o \in SignedOpinions
  PROVE  publish_statement(n, o) \subseteq Messages
  BY DEF publish_statement, Messages

LEMMA DisconnectType ==
  ASSUME Typing, NEW n \in Nodes, Disconnect(n)
  PROVE  /\ inbox' \in [Nodes -> Seq(Messages)]
         /\ \A x \in Nodes : Len(inbox'[x]) <= InboxSize
         /\ net' \subseteq Messages
  <1>1. ASSUME NEW x \in Nodes
        PROVE  inbox'[x] \in Seq(Messages) /\ Len(inbox'[x]) <= InboxSize
    <2>1. CASE x = n
      <3>1. inbox'[x] = <<>>
        BY <2>1 DEF Disconnect
      <3> QED BY <3>1, NetAssumption
    <2>2. CASE x # n
      <3> DEFINE closed(i) == IF inbox[x][i].from = n THEN Closed(inbox[x][i]) ELSE inbox[x][i]
      <3>1. inbox'[x] = [i \in DOMAIN inbox[x] |-> closed(i)]
        BY <2>2 DEF Disconnect
      <3>2. inbox[x] \in Seq(Messages) /\ Len(inbox[x]) \in Nat
            /\ DOMAIN inbox[x] = 1 .. Len(inbox[x])
        BY LenProperties DEF Typing
      <3>3. \A i \in 1 .. Len(inbox[x]) : closed(i) \in Messages
        BY <3>2, ClosedType
      <3> HIDE DEF closed
      <3>4. inbox'[x] \in Seq(Messages) /\ Len(inbox'[x]) = Len(inbox[x])
        BY <3>1, <3>2, <3>3
      <3> QED BY <3>4 DEF Typing, TypeOK
    <2> QED BY <2>1, <2>2
  <1>2. DOMAIN inbox' = Nodes /\ inbox' = [x \in Nodes |-> inbox'[x]]
    BY DEF Disconnect
  <1>3. inbox' \in [Nodes -> Seq(Messages)]
    BY <1>1, <1>2
  <1>4. net' \subseteq Messages
    BY DEF Disconnect, Typing, TypeOK
  <1> QED BY <1>1, <1>3, <1>4

LEMMA RestartType ==
  ASSUME Typing, NEW n \in Nodes, Restart(n)
  PROVE  Typing'
  <1>1. held[n] \in SUBSET SignedOpinions /\ today \in Dates
    BY DEF Typing, TypeOK
  <1>2. /\ held' \in [Nodes -> SUBSET SignedOpinions]
        /\ templates' \in [Nodes -> SUBSET Names]
        /\ topics' \in [Nodes -> SUBSET Names]
    BY <1>1, StartedType DEF Restart, Typing, TypeOK
  <1>3. own_infos' \in [Nodes -> [Dates -> Infos \cup {None}]]
    BY DEF Restart, Typing, TypeOK
  <1>4. /\ inbox' \in [Nodes -> Seq(Messages)]
        /\ \A x \in Nodes : Len(inbox'[x]) <= InboxSize
        /\ net' \subseteq Messages
    BY DisconnectType DEF Restart
  <1>5. spent' \in [Events -> Nat]
    BY SpendType DEF Restart, Events, Typing
  <1>6. loop' \in [Nodes -> {"running", "panicked"}] /\ today' \in Dates
    BY DEF Restart, Typing, TypeOK
  <1> QED BY <1>2, <1>3, <1>4, <1>5, <1>6, MessagesQueued DEF Typing, TypeOK

LEMMA PanicType ==
  ASSUME Typing, NEW n \in Nodes, Panic(n)
  PROVE  Typing'
  <1>1. /\ inbox' \in [Nodes -> Seq(Messages)]
        /\ \A x \in Nodes : Len(inbox'[x]) <= InboxSize
        /\ net' \subseteq Messages
    BY DisconnectType DEF Panic
  <1>2. UNCHANGED <<held, templates, own_infos, topics, today, spent>>
        /\ loop' \in [Nodes -> {"running", "panicked"}]
    BY DEF Panic, node_state, Typing, TypeOK
  <1> QED BY <1>1, <1>2, MessagesQueued DEF Typing, TypeOK

LEMMA TypingInitially == Init => Typing
  <1> SUFFICES ASSUME Init PROVE Typing
    OBVIOUS
  <1>1. today \in Dates /\ loop \in [Nodes -> {"running", "panicked"}] /\ net \subseteq Messages
        /\ spent \in [Events -> Nat]
        /\ own_infos \in [Nodes -> [Dates -> Infos \cup {None}]]
    BY NetAssumption DEF Init
  <1>2. inbox \in [Nodes -> Seq(Messages)] /\ \A n \in Nodes : inbox[n] = <<>>
    BY DEF Init
  <1>3. PICK db \in Databases :
          /\ held = [n \in Nodes |-> Cleaned(Started(n, db[n]))]
          /\ templates = [n \in Nodes |-> TemplatesAmong(Started(n, db[n]))]
    BY DEF Init
  <1>4. \A n \in Nodes : db[n] \in SUBSET SignedOpinions
    BY NetAssumption
  <1>5. /\ held \in [Nodes -> SUBSET SignedOpinions]
        /\ templates \in [Nodes -> SUBSET Names]
    BY <1>1, <1>3, <1>4, StartedType
  <1>6. topics \in [Nodes -> SUBSET Names]
    BY <1>5, TemplatesAmongType DEF Init
  <1>7. \A n \in Nodes : Len(inbox[n]) <= InboxSize /\ DOMAIN inbox[n] = {}
    BY <1>2, NetAssumption
  <1> QED BY <1>1, <1>2, <1>5, <1>6, <1>7 DEF Typing, TypeOK

\* Messages handled: one step for each handler.
LEMMA TypingByHandler ==
  ASSUME Typing, NEW n \in Nodes, HandleMessage(n)
  PROVE  Typing'
  <1> DEFINE m == Head(inbox[n])
             Queues == /\ inbox' \in [Nodes -> Seq(Messages)]
                       /\ \A x \in Nodes : Len(inbox'[x]) <= InboxSize
                       /\ today' \in Dates /\ spent' \in [Events -> Nat]
  <1>1. ASSUME NEW kinds, Receive(n, kinds)
        PROVE  m \in Messages /\ m.kind \in kinds /\ Queues
    BY <1>1, ReceiveType DEF Typing, TypeOK
  <1>2. CASE HandleStatement(n)
    <2>1. m \in Messages /\ m.kind = "statement" /\ Queues
      BY <1>1, <1>2 DEF HandleStatement
    <2>2. m.opinion \in SignedOpinions
      BY <2>1, MessageTypes
    <2>3. {m.opinion} \in SUBSET SignedOpinions
      BY <2>2
    <2>4. /\ held' \in [Nodes -> SUBSET SignedOpinions]
          /\ templates' \in [Nodes -> SUBSET Names]
      BY <1>2, <2>3, PersistType DEF HandleStatement, Typing
    <2>5. TemplatesAmong({m.opinion}) \in SUBSET Names
      BY <2>3, TemplatesAmongType
    <2>6. topics' \in [Nodes -> SUBSET Names]
      BY <1>2, <2>5 DEF HandleStatement, Typing, TypeOK
    <2>7. own_infos' \in [Nodes -> [Dates -> Infos \cup {None}]]
      BY <1>2, FlushType DEF HandleStatement, Typing
    <2>8. UNCHANGED <<loop, net>>
      BY <1>2 DEF HandleStatement
    <2> QED BY <2>1, <2>4, <2>6, <2>7, <2>8, MessagesQueued DEF Typing, TypeOK
  <1>3. CASE RefuseStatement(n)
    <2>1. Queues
      BY <1>1, <1>3 DEF RefuseStatement
    <2> QED BY <1>3, <2>1, MessagesQueued DEF RefuseStatement, node_state, Typing, TypeOK
  <1>4. CASE HandleAnnouncement(n)
    <2>1. m \in Messages /\ m.kind = "announcement" /\ Queues
      BY <1>1, <1>4 DEF HandleAnnouncement
    <2>2. m.date \in Dates /\ m.from \in Nodes
      BY <2>1, MessageTypes
    <2>3. own_infos' \in [Nodes -> [Dates -> Infos \cup {None}]]
      BY <1>4, <2>2, CacheOwnInfosType DEF HandleAnnouncement, Typing
    <2> DEFINE asked == {[kind |-> "opinion_request", from |-> n, to |-> m.from, name |-> k,
                          date |-> m.date, open |-> TRUE] : k \in add_infos(n, m.date, m.infos)}
    <2>4. asked \subseteq Messages
      <3>1. add_infos(n, m.date, m.infos) \subseteq Names
        BY DEF add_infos
      <3>2. \A k \in Names :
              [kind |-> "opinion_request", from |-> n, to |-> m.from, name |-> k,
               date |-> m.date, open |-> TRUE] \in Messages
        BY <2>2 DEF Messages
      <3> HIDE DEF m
      <3> QED BY <3>1, <3>2
    <2>5. net' = net \cup asked
      BY <1>4 DEF HandleAnnouncement, Post
    <2> HIDE DEF asked
    <2> QED BY <1>4, <2>1, <2>3, <2>4, <2>5, MessagesQueued DEF HandleAnnouncement, Typing, TypeOK
  <1>5. CASE HandleOpinionRequest(n)
    <2>1. m \in Messages /\ m.kind = "opinion_request" /\ Queues
      BY <1>1, <1>5 DEF HandleOpinionRequest
    <2>2. list_statements_named_signed(n, m.name, m.date) \in SUBSET SignedOpinions
      BY DEF list_statements_named_signed, Typing, TypeOK
    <2>3. net' \subseteq Messages
      BY <1>5, <2>1, <2>2, AnswerType DEF HandleOpinionRequest, Post, Typing, TypeOK
    <2> QED BY <1>5, <2>1, <2>3, MessagesQueued DEF HandleOpinionRequest, node_state, Typing, TypeOK
  <1>6. CASE HandleTemplateRequest(n)
    <2>1. m \in Messages /\ m.kind = "template_request" /\ Queues
      BY <1>1, <1>6 DEF HandleTemplateRequest
    <2> DEFINE list == {Sign(n, Template(k), AnswerValid) : k \in TemplatesAmong(held[n])}
    <2>2. list \in SUBSET SignedOpinions
      <3>1. TemplatesAmong(held[n]) \subseteq Names /\ today \in Dates
        BY TemplatesAmongType DEF Typing, TypeOK
      <3>2. \A k \in Names : Sign(n, Template(k), AnswerValid) \in SignedOpinions
        BY <3>1, SignedIsOpinion, StatementNames
      <3> QED BY <3>1, <3>2
    <2>3. net' = net \cup {Answer(m, list)}
      BY <1>6 DEF HandleTemplateRequest, Post
    <2> HIDE DEF list
    <2>4. net' \subseteq Messages
      BY <2>1, <2>2, <2>3, AnswerType DEF Typing, TypeOK
    <2> QED BY <1>6, <2>1, <2>4, MessagesQueued DEF HandleTemplateRequest, node_state, Typing, TypeOK
  <1>7. CASE AnswerNobody(n)
    <2>1. Queues
      BY <1>1, <1>7 DEF AnswerNobody
    <2> QED BY <1>7, <2>1, MessagesQueued DEF AnswerNobody, node_state, Typing, TypeOK
  <1>8. CASE PanicOnRequest(n) \/ PanicOnResponse(n)
    BY <1>8, PanicType DEF PanicOnRequest, PanicOnResponse
  <1>9. CASE HandleResponse(n)
    <2>1. m \in Messages /\ m.kind = "response" /\ Queues
      BY <1>1, <1>9 DEF HandleResponse
    <2>2. m.list \in SUBSET SignedOpinions
      BY <2>1, MessageTypes
    <2>3. /\ held' \in [Nodes -> SUBSET SignedOpinions]
          /\ templates' \in [Nodes -> SUBSET Names]
      BY <1>9, <2>2, PersistType DEF HandleResponse, Typing
    <2>4. own_infos' \in [Nodes -> [Dates -> Infos \cup {None}]]
      BY <1>9, FlushType DEF HandleResponse, Typing
    <2> QED BY <1>9, <2>1, <2>3, <2>4, MessagesQueued DEF HandleResponse, Typing, TypeOK
  <1> QED BY <1>2, <1>3, <1>4, <1>5, <1>6, <1>7, <1>8, <1>9 DEF HandleMessage

LEMMA TypingByStep == Typing /\ [Next]_vars => Typing'
  <1> SUFFICES ASSUME Typing, [Next]_vars
               PROVE  Typing'
    OBVIOUS
  <1>1. CASE \E m \in net : Deliver(m)
    <2>1. PICK m \in net : Deliver(m)
      BY <1>1
    <2>2. m \in Messages /\ m.to \in Nodes
      BY <2>1, MessageTypes DEF Typing, TypeOK
    <2>3. inbox[m.to] \in Seq(Messages) /\ Len(inbox[m.to]) \in Nat
      BY <2>2, LenProperties DEF Typing
    <2>4. Append(inbox[m.to], m) \in Seq(Messages)
          /\ Len(Append(inbox[m.to], m)) = Len(inbox[m.to]) + 1
      BY <2>2, <2>3, AppendProperties
    <2>5. CASE inbox' = inbox
      BY <2>1, <2>5 DEF Deliver, node_state, Typing, TypeOK
    <2>6. CASE inbox' = [inbox EXCEPT ![m.to] = Append(@, m)] /\ Len(inbox[m.to]) < InboxSize
      <3>1. inbox' \in [Nodes -> Seq(Messages)]
            /\ \A x \in Nodes : Len(inbox'[x]) <= InboxSize
        BY <2>2, <2>3, <2>4, <2>6, NetAssumption DEF Typing, TypeOK
      <3>2. net' \subseteq Messages
            /\ UNCHANGED <<held, templates, own_infos, topics, loop, today, spent>>
        BY <2>1 DEF Deliver, node_state, Typing, TypeOK
      <3> QED BY <3>1, <3>2, MessagesQueued DEF Typing, TypeOK
    <2> QED BY <2>1, <2>5, <2>6 DEF Deliver
  <1>2. CASE \E m \in net : Lose(m)
    <2>1. PICK m \in net : Lose(m)
      BY <1>2
    <2>2. spent' \in [Events -> Nat]
      BY <2>1, SpendType DEF Lose, Events, Typing
    <2> QED BY <2>1, <2>2 DEF Lose, node_state, Typing, TypeOK
  <1>3. CASE \E n \in Nodes : HandleMessage(n)
    BY <1>3, TypingByHandler
  <1>4. CASE \E n \in Nodes : \E i \in DOMAIN inbox[n] : GiveUp(n, i)
    <2>1. PICK n \in Nodes : \E i \in DOMAIN inbox[n] : GiveUp(n, i)
      BY <1>4
    <2>2. PICK i \in DOMAIN inbox[n] : GiveUp(n, i)
      BY <2>1
    <2>3. inbox[n] \in Seq(Messages) /\ inbox[n][i] \in Messages
      BY <2>2 DEF Typing, TypeOK
    <2> DEFINE c == [inbox[n][i] EXCEPT !.open = FALSE]
    <2>4. c \in Messages
      BY <2>2, <2>3, MessageTypes DEF GiveUp
    <2>5. inbox' = [inbox EXCEPT ![n] = [@ EXCEPT ![i] = c]]
      BY <2>2 DEF GiveUp
    <2> HIDE DEF c
    <2>6. [inbox[n] EXCEPT ![i] = c] \in Seq(Messages)
          /\ Len([inbox[n] EXCEPT ![i] = c]) = Len(inbox[n])
      BY <2>2, <2>3, <2>4, ExceptSeq
    <2>7. inbox' \in [Nodes -> Seq(Messages)]
          /\ \A x \in Nodes : Len(inbox'[x]) <= InboxSize
      BY <2>5, <2>6 DEF Typing, TypeOK
    <2>8. spent' \in [Events -> Nat]
      BY <2>2, SpendType DEF GiveUp, Events, Typing
    <2> QED BY <2>2, <2>7, <2>8, MessagesQueued DEF GiveUp, node_state, Typing, TypeOK
  <1>5. CASE \E n \in Nodes, s \in Statements : UserStatement(n, s)
    <2>1. PICK n \in Nodes, s \in Statements : UserStatement(n, s)
      BY <1>5
    <2> DEFINE o == Sign(n, s, OwnValid)
    <2>2. o \in SignedOpinions /\ {o} \in SUBSET SignedOpinions
      BY SignedIsOpinion DEF Typing, TypeOK
    <2> HIDE DEF o
    <2>3. Persist(n, {o}) /\ net' = net \cup publish_statement(n, o)
          /\ UNCHANGED <<own_infos, topics, inbox, loop, today>> /\ Spend("typed")
      BY <2>1 DEF UserStatement, Post, o
    <2>4. /\ held' \in [Nodes -> SUBSET SignedOpinions]
          /\ templates' \in [Nodes -> SUBSET Names]
      BY <2>2, <2>3, PersistType DEF Typing
    <2>5. net' \subseteq Messages
      BY <2>2, <2>3, PublishType DEF Typing, TypeOK
    <2>6. spent' \in [Events -> Nat]
      BY <2>3, SpendType DEF Events, Typing
    <2> QED BY <2>3, <2>4, <2>5, <2>6 DEF Typing, TypeOK
  <1>6. CASE \E n \in Nodes, d \in Dates : announce_infos(n, d)
    <2>1. PICK n \in Nodes, d \in Dates : announce_infos(n, d)
      BY <1>6
    <2> DEFINE i == get_own_infos(n, d)
               told == {[kind |-> "announcement", from |-> n, to |-> m, date |-> d,
                         infos |-> i] : m \in Nodes \ {n}}
    <2>2. own_infos' \in [Nodes -> [Dates -> Infos \cup {None}]] /\ i \in Infos
      BY <2>1, CacheOwnInfosType, SyncInfosType DEF announce_infos, Typing
    <2> HIDE DEF i
    <2>3. told \subseteq Messages
      BY <2>2 DEF Messages
    <2>4. net' = net \cup told
      BY <2>1 DEF announce_infos, Post, i
    <2> HIDE DEF told
    <2>5. spent' \in [Events -> Nat]
      BY <2>1, SpendType DEF announce_infos, Events, Typing
    <2> QED BY <2>1, <2>2, <2>3, <2>4, <2>5 DEF announce_infos, Typing, TypeOK
  <1>7. CASE \E n, m \in Nodes : ConnectionEstablished(n, m)
    <2>1. PICK n \in Nodes, m \in Nodes : ConnectionEstablished(n, m)
      BY <1>7
    <2>2. [kind |-> "template_request", from |-> n, to |-> m, open |-> TRUE] \in Messages
      BY DEF Messages
    <2>3. net' \subseteq Messages
      BY <2>1, <2>2 DEF ConnectionEstablished, Post, Typing, TypeOK
    <2>4. spent' \in [Events -> Nat]
      BY <2>1, SpendType DEF ConnectionEstablished, Events, Typing
    <2> QED BY <2>1, <2>3, <2>4 DEF ConnectionEstablished, node_state, Typing, TypeOK
  <1>8. CASE \E n \in Nodes : Restart(n)
    BY <1>8, RestartType
  <1>9. CASE NextDay
    BY <1>9 DEF NextDay, node_state, Typing, TypeOK
  <1>10. CASE UNCHANGED vars
    BY <1>10 DEF vars, Typing, TypeOK
  <1> QED
    BY <1>1, <1>2, <1>3, <1>4, <1>5, <1>6, <1>7, <1>8, <1>9, <1>10 DEF Next

LEMMA TypingAlways == Spec => []Typing
  BY TypingInitially, TypingByStep, PTL DEF Spec

\* Through lost messages, panics and restarts every variable keeps its type, and
\* no channel has more than its capacity (TypeOK).
THEOREM TypesCorrect == Spec => []TypeOK
  <1>1. Typing => TypeOK
    BY DEF Typing
  <1> QED BY <1>1, TypingAlways, PTL

-----------------------------------------------------------------------------
(* Cached sync infos *)

\* What a node has cached for a date differs from what it holds by its own
\* opinions only.
OnlyOwn(n, cached, h, d) ==
    \A k \in Names : \A o \in SignedOpinions :
        (o \in cached[k]) # (o \in h /\ o.statement.name = k /\ o.date = d) => o.signer = n

FreshButOwn(n) ==
    \A d \in Dates : own_infos[n][d] # None => OnlyOwn(n, own_infos[n][d], held[n], d)

LEMMA StaleByNode ==
  ASSUME TypeOK
  PROVE  StaleOnlyByOwn <=> \A n \in Nodes : FreshButOwn(n)
  <1>1. ASSUME NEW n \in Nodes, NEW d \in Dates, NEW k \in Names, own_infos[n][d] # None
        PROVE  own_infos[n][d][k] \in SUBSET SignedOpinions /\ held[n] \in SUBSET SignedOpinions
               /\ get_sync_infos(n, d)[k] = {o \in held[n] : o.statement.name = k /\ o.date = d}
    BY <1>1 DEF TypeOK, Infos, get_sync_infos, list_statements_named_signed
  <1>2. ASSUME NEW n \in Nodes, NEW d \in Dates, own_infos[n][d] # None
        PROVE  OnlyOwn(n, own_infos[n][d], held[n], d)
               <=> \A k \in Names :
                     \A o \in (own_infos[n][d][k] \ get_sync_infos(n, d)[k])
                              \cup (get_sync_infos(n, d)[k] \ own_infos[n][d][k]) : o.signer = n
    BY <1>1, <1>2 DEF OnlyOwn
  <1> QED BY <1>2 DEF StaleOnlyByOwn, FreshButOwn

LEMMA FreshUntouched ==
  ASSUME NEW n \in Nodes, FreshButOwn(n), UNCHANGED <<own_infos[n], held[n]>>
  PROVE  FreshButOwn(n)'
  BY DEF FreshButOwn, OnlyOwn

LEMMA FreshWhenFlushed ==
  ASSUME NEW n \in Nodes, \A d \in Dates : own_infos'[n][d] = None
  PROVE  FreshButOwn(n)'
  BY DEF FreshButOwn

\* What is cached anew is what is held.
LEMMA FreshWhenCached ==
  ASSUME TypeOK, NEW n \in Nodes, NEW x \in Nodes, NEW d \in Dates, FreshButOwn(x),
         CacheOwnInfos(n, d), held' = held
  PROVE  FreshButOwn(x)'
  <1>1. CASE x # n
    <2>1. own_infos'[x] = own_infos[x]
      BY <1>1 DEF CacheOwnInfos, TypeOK
    <2> QED BY <2>1, FreshUntouched
  <1>2. CASE x = n
    <2> SUFFICES ASSUME NEW e \in Dates, own_infos'[n][e] # None
                 PROVE  OnlyOwn(n, own_infos'[n][e], held[n], e)
      BY <1>2 DEF FreshButOwn
    <2>1. own_infos'[n][e] = IF e = d THEN get_own_infos(n, d) ELSE own_infos[n][e]
      BY DEF CacheOwnInfos, TypeOK
    <2>2. CASE own_infos'[n][e] = own_infos[n][e]
      BY <1>2, <2>2 DEF FreshButOwn
    <2>3. CASE e = d /\ own_infos'[n][e] = get_sync_infos(n, d)
      BY <2>3 DEF OnlyOwn, get_sync_infos, list_statements_named_signed
    <2> QED BY <2>1, <2>2, <2>3 DEF get_own_infos
  <1> QED BY <1>1, <1>2

\* A user's statement changes what is held by opinions of the node only.
LEMMA FreshWhenTyped ==
  ASSUME TypeOK, NEW n \in Nodes, NEW s \in Statements, UserStatement(n, s), FreshButOwn(n)
  PROVE  FreshButOwn(n)'
  <1> DEFINE o == Sign(n, s, OwnValid)
  <1>1. own_infos' = own_infos /\ held'[n] = Merge(held[n], {o})
    BY DEF UserStatement, Persist, TypeOK
  <1>2. o.signer = n
    BY DEF Sign
  <1> HIDE DEF o
  <1>3. \A p \in SignedOpinions : (p \in held'[n]) # (p \in held[n]) => p.signer = n
    BY <1>1, <1>2 DEF Merge, SameSubject
  <1> QED BY <1>1, <1>3 DEF FreshButOwn, OnlyOwn

LEMMA FreshInitially == Init => \A n \in Nodes : FreshButOwn(n)
  BY DEF Init, FreshButOwn

LEMMA FreshByStep ==
  ASSUME Typing, [Next]_vars, NEW x \in Nodes, FreshButOwn(x)
  PROVE  FreshButOwn(x)'
  <1>0. TypeOK
    BY DEF Typing
  <1>1. CASE UNCHANGED <<own_infos, held>>
    BY <1>1, FreshUntouched
  <1>2. CASE \E n \in Nodes : flush_own_infos(n) /\ \E ops : Persist(n, ops)
    <2>1. PICK n \in Nodes : flush_own_infos(n) /\ \E ops : Persist(n, ops)
      BY <1>2
    <2>2. CASE x = n
      BY <1>0, <2>1, <2>2, FreshWhenFlushed DEF flush_own_infos, TypeOK
    <2>3. CASE x # n
      BY <1>0, <2>1, <2>3, FreshUntouched DEF flush_own_infos, Persist, TypeOK
    <2> QED BY <2>2, <2>3
  <1>3. CASE \E n \in Nodes, d \in Dates : CacheOwnInfos(n, d) /\ held' = held
    BY <1>0, <1>3, FreshWhenCached
  <1>4. CASE \E n \in Nodes, s \in Statements : UserStatement(n, s)
    <2>1. PICK n \in Nodes, s \in Statements : UserStatement(n, s)
      BY <1>4
    <2>2. CASE x = n
      BY <1>0, <2>1, <2>2, FreshWhenTyped
    <2>3. CASE x # n
      BY <1>0, <2>1, <2>3, FreshUntouched DEF UserStatement, Persist, TypeOK
    <2> QED BY <2>2, <2>3
  <1>5. CASE \E n \in Nodes : Restart(n)
    <2>1. PICK n \in Nodes : Restart(n)
      BY <1>5
    <2>2. CASE x = n
      BY <1>0, <2>1, <2>2, FreshWhenFlushed DEF Restart, TypeOK
    <2>3. CASE x # n
      BY <1>0, <2>1, <2>3, FreshUntouched DEF Restart, TypeOK
    <2> QED BY <2>2, <2>3
  <1>6. CASE \E n \in Nodes : HandleMessage(n)
    <2>1. PICK n \in Nodes : HandleMessage(n)
      BY <1>6
    <2>2. CASE HandleStatement(n) \/ HandleResponse(n)
      BY <1>2, <2>2 DEF HandleStatement, HandleResponse
    <2>3. CASE HandleAnnouncement(n)
      <3>1. Head(inbox[n]) \in Messages /\ Head(inbox[n]).kind = "announcement"
        BY <2>3, ReceiveType DEF HandleAnnouncement
      <3>2. Head(inbox[n]).date \in Dates
        BY <3>1, MessageTypes
      <3> QED BY <1>3, <2>3, <3>2 DEF HandleAnnouncement
    <2>4. CASE RefuseStatement(n) \/ HandleOpinionRequest(n) \/ HandleTemplateRequest(n)
               \/ AnswerNobody(n) \/ PanicOnRequest(n) \/ PanicOnResponse(n)
      BY <1>1, <2>4 DEF RefuseStatement, HandleOpinionRequest, HandleTemplateRequest,
         AnswerNobody, PanicOnRequest, PanicOnResponse, Panic, node_state
    <2> QED BY <2>1, <2>2, <2>3, <2>4 DEF HandleMessage
  <1>7. CASE \E n \in Nodes, d \in Dates : announce_infos(n, d)
    BY <1>3, <1>7 DEF announce_infos
  <1>8. CASE \/ \E m \in net : Deliver(m) \/ Lose(m)
             \/ \E n \in Nodes : \E i \in DOMAIN inbox[n] : GiveUp(n, i)
             \/ \E n, m \in Nodes : ConnectionEstablished(n, m)
             \/ NextDay
             \/ UNCHANGED vars
    BY <1>1, <1>8 DEF Deliver, Lose, GiveUp, ConnectionEstablished, NextDay, node_state, vars
  <1> QED BY <1>4, <1>5, <1>6, <1>7, <1>8 DEF Next

\* However announcements, answers, broadcasts, input and restarts interleave, what a
\* node has cached to announce differs from what it holds by what its own user has
\* signed, and by nothing that has come from a peer (StaleOnlyByOwn).
THEOREM AlwaysStaleOnlyByOwn == Spec => []StaleOnlyByOwn
  <1> DEFINE Fresh == Typing /\ \A n \in Nodes : FreshButOwn(n)
  <1>1. Init => Fresh
    BY TypingInitially, FreshInitially
  <1>2. Fresh /\ [Next]_vars => Fresh'
    BY TypingByStep, FreshByStep
  <1>3. Fresh => StaleOnlyByOwn
    BY StaleByNode DEF Typing
  <1> HIDE DEF Fresh
  <1> QED BY <1>1, <1>2, <1>3, PTL DEF Spec

-----------------------------------------------------------------------------
(* Who holds what *)

LEMMA VersionOrder ==
  ASSUME NEW o \in SignedOpinions, NEW p \in SignedOpinions, NEW q \in SignedOpinions
  PROVE  /\ ~Supersedes(o, o)
         /\ Supersedes(o, p) => ~Supersedes(p, o)
         /\ ~Supersedes(o, p) /\ ~Supersedes(p, q) => ~Supersedes(o, q)
         /\ ~Supersedes(o, p) => o.date <= p.date
         /\ o.date \in Nat /\ o.valid \in Nat
  <1>1. /\ {o.date, p.date, q.date, o.valid} \subseteq Nat
        /\ {o.serial, p.serial, q.serial} \subseteq Nat
    BY VersionAssumption DEF SignedOpinions
  <1> QED BY <1>1 DEF Supersedes

\* The opinions hold o or a later one on its subject.
Covers(ops, o) == \E p \in ops : SameSubject(p, o) /\ ~Supersedes(o, p)

LEMMA MergeOneOfEach ==
  ASSUME NEW h \in SUBSET SignedOpinions, NEW ops \in SUBSET SignedOpinions,
         OneOfEach(h), OneOfEach(ops)
  PROVE  OneOfEach(Merge(h, ops))
  <1> SUFFICES ASSUME NEW o \in Merge(h, ops), NEW p \in Merge(h, ops), SameSubject(o, p)
               PROVE  o = p
    BY DEF OneOfEach
  <1>1. SameSubject(p, o)
    BY DEF SameSubject
  <1>2. CASE o \in h /\ p \in h
    BY <1>2 DEF OneOfEach
  <1>3. CASE o \in ops /\ p \in ops
    BY <1>3 DEF OneOfEach
  <1>4. CASE o \notin ops /\ p \notin h
    BY <1>1, <1>4 DEF Merge
  <1>5. CASE o \notin h /\ p \notin ops
    BY <1>1, <1>5 DEF Merge
  <1> QED BY <1>2, <1>3, <1>4, <1>5 DEF Merge

\* What was covered is covered after new opinions have been stored.
LEMMA MergeKeepsCovered ==
  ASSUME NEW h \in SUBSET SignedOpinions, NEW ops \in SUBSET SignedOpinions,
         OneOfEach(h), NEW o \in SignedOpinions, Covers(h, o)
  PROVE  Covers(Merge(h, ops), o)
  <1>1. PICK p \in h : SameSubject(p, o) /\ ~Supersedes(o, p)
    BY DEF Covers
  <1>2. CASE p \in Merge(h, ops)
    BY <1>1, <1>2 DEF Covers
  <1>3. CASE p \notin Merge(h, ops)
    <2>1. PICK q \in ops : SameSubject(q, p) /\ Supersedes(q, p)
      BY <1>3 DEF Merge
    <2>2. \A x \in h : SameSubject(q, x) => x = p
      BY <2>1 DEF OneOfEach, SameSubject
    <2>3. q \in Merge(h, ops)
      BY <2>1, <2>2 DEF Merge
    <2>4. SameSubject(q, o)
      BY <1>1, <2>1 DEF SameSubject
    <2>5. ~Supersedes(o, q)
      BY <1>1, <2>1, VersionOrder
    <2> QED BY <2>3, <2>4, <2>5 DEF Covers
  <1> QED BY <1>2, <1>3

\* What is stored is covered.
LEMMA MergeCovers ==
  ASSUME NEW h \in SUBSET SignedOpinions, NEW ops \in SUBSET SignedOpinions,
         OneOfEach(ops), NEW o \in ops
  PROVE  Covers(Merge(h, ops), o)
  <1>1. SameSubject(o, o) /\ ~Supersedes(o, o)
    BY VersionOrder DEF SameSubject
  <1>2. CASE \A p \in h : SameSubject(o, p) => Supersedes(o, p)
    BY <1>1, <1>2 DEF Merge, Covers
  <1>3. CASE \E p \in h : SameSubject(o, p) /\ ~Supersedes(o, p)
    <2>1. PICK p \in h : SameSubject(o, p) /\ ~Supersedes(o, p)
      BY <1>3
    <2>2. \A q \in ops : SameSubject(q, p) => q = o
      BY <2>1 DEF OneOfEach, SameSubject
    <2>3. p \in Merge(h, ops)
      BY <2>1, <2>2 DEF Merge
    <2> QED BY <2>1, <2>3 DEF Covers, SameSubject
  <1> QED BY <1>2, <1>3

\* The opinions that come with a message.
Carried(m) ==
    CASE m.kind = "statement" -> {m.opinion}
      [] m.kind = "response" -> m.list
      [] OTHER -> {}

\* The messages under way and in channels.
AllMessages ==
    {m \in Messages : m \in net \/ \E n \in Nodes : \E i \in DOMAIN inbox[n] : m = inbox[n][i]}

Exists(o) == (\E n \in Nodes : o \in held[n]) \/ (\E m \in AllMessages : o \in Carried(m))

HeldOnce == \A n \in Nodes : OneOfEach(held[n])
CarriedOnce == \A m \in AllMessages : OneOfEach(Carried(m))

\* An opinion on data has the usual span, and its signer has it.
SignedAndHeld(o) ==
    o.statement.name \in DataNames =>
        o.valid = OwnValid /\ (Expired(o, today) \/ Covers(held[o.signer], o))

Spread == HeldOnce /\ CarriedOnce /\ \A o \in SignedOpinions : Exists(o) => SignedAndHeld(o)

LEMMA CarriedType ==
  ASSUME NEW m \in Messages
  PROVE  Carried(m) \in SUBSET SignedOpinions
  BY MessageTypes DEF Carried, Requests

\* Nobody's opinions get lost in the step, but for those of the past.
CoversKept ==
    \A n \in Nodes, o \in SignedOpinions :
        o.statement.name \in DataNames /\ o.valid = OwnValid /\ Covers(held[n], o)
        => Expired(o, today') \/ Covers(held[n], o)'

\* The messages of the step are old, or carry one opinion on each subject, which
\* are held by their signers.
MessagesAccounted ==
    \A m \in AllMessages' :
        \/ Carried(m) = {}
        \/ \E x \in AllMessages : Carried(m) = Carried(x)
        \/ OneOfEach(Carried(m)) /\ \A o \in Carried(m) : Exists(o) \/ SignedAndHeld(o)'

HeldAccounted == \A n \in Nodes : \A o \in held'[n] : Exists(o) \/ SignedAndHeld(o)'

LEMMA SpreadKept ==
  ASSUME Typing, Spread, today' \in Nat, today <= today',
         CoversKept, MessagesAccounted, HeldOnce', HeldAccounted
  PROVE  Spread'
  <1>1. CarriedOnce'
    BY DEF CarriedOnce, MessagesAccounted, Spread, OneOfEach
  <1>2. ASSUME NEW o \in SignedOpinions, Exists(o) PROVE SignedAndHeld(o)'
    <2> SUFFICES ASSUME o.statement.name \in DataNames
                 PROVE  o.valid = OwnValid /\ (Expired(o, today') \/ Covers(held'[o.signer], o))
      BY DEF SignedAndHeld
    <2>1. o.valid = OwnValid /\ (Expired(o, today) \/ Covers(held[o.signer], o))
      BY <1>2 DEF Spread, SignedAndHeld
    <2>2. o \in SignedOpinions /\ o.signer \in Nodes
      BY DEF SignedOpinions
    <2>3. Expired(o, today) => Expired(o, today')
      BY <2>2, VersionOrder, VersionAssumption DEF Expired, LastDate, Typing, TypeOK
    <2> QED BY <2>1, <2>2, <2>3 DEF CoversKept, Covers
  <1>3. ASSUME NEW o \in SignedOpinions, Exists(o)' PROVE Exists(o) \/ SignedAndHeld(o)'
    <2>1. CASE \E n \in Nodes : o \in held'[n]
      BY <2>1 DEF HeldAccounted
    <2>2. CASE \E m \in AllMessages' : o \in Carried(m)
      BY <2>2 DEF MessagesAccounted, Exists
    <2> QED BY <1>3, <2>1, <2>2 DEF Exists
  <1> QED BY <1>1, <1>2, <1>3 DEF Spread

-----------------------------------------------------------------------------
(* What the steps do with opinions and messages *)

LEMMA CoversUnchanged ==
  ASSUME held' = held
  PROVE  CoversKept /\ HeldAccounted /\ (HeldOnce => HeldOnce')
  BY DEF CoversKept, Covers, HeldAccounted, HeldOnce, Exists

LEMMA PersistAccounted ==
  ASSUME Typing, HeldOnce, NEW n \in Nodes, NEW ops \in SUBSET SignedOpinions,
         OneOfEach(ops), Persist(n, ops)
  PROVE  /\ CoversKept /\ HeldOnce'
         /\ \A x \in Nodes : \A o \in held'[x] : o \in held[x] \/ o \in ops
         /\ \A o \in ops : Covers(held'[n], o)
  <1>1. \A x \in Nodes : held[x] \in SUBSET SignedOpinions
                         /\ held'[x] = IF x = n THEN Merge(held[n], ops) ELSE held[x]
    BY DEF Persist, Typing, TypeOK
  <1>2. CoversKept
    BY <1>1, MergeKeepsCovered DEF CoversKept, HeldOnce, Covers
  <1>3. HeldOnce'
    BY <1>1, MergeOneOfEach DEF HeldOnce
  <1>4. \A x \in Nodes : \A o \in held'[x] : o \in held[x] \/ o \in ops
    BY <1>1 DEF Merge
  <1>5. \A o \in ops : Covers(held'[n], o)
    BY <1>1, MergeCovers
  <1> QED BY <1>2, <1>3, <1>4, <1>5

\* A start adds an opinion on a template, and deletes nothing that still counts.
LEMMA StartedKeeps ==
  ASSUME today \in Dates, NEW n \in Nodes, NEW h \in SUBSET SignedOpinions, OneOfEach(h),
         \A p \in h : p.statement.name \in DataNames => p.valid = OwnValid
  PROVE  /\ OneOfEach(Cleaned(Started(n, h)))
         /\ \A o \in Cleaned(Started(n, h)) : o \in h \/ o.statement.name \notin DataNames
         /\ \A o \in SignedOpinions :
               o.statement.name \in DataNames /\ o.valid = OwnValid /\ Covers(h, o)
               => Expired(o, today) \/ Covers(Cleaned(Started(n, h)), o)
  <1> DEFINE t == Sign(n, Template(TemplateName), OwnValid)
  <1>1. t \in SignedOpinions /\ t.statement.name \notin DataNames
    <2>1. t \in SignedOpinions
      BY TemplateNameKnown, SignedIsOpinion
    <2> QED BY <2>1, NetAssumption DEF Sign, Template
  <1>2. Started(n, h) = Merge(h, {t}) /\ OneOfEach({t}) /\ {t} \in SUBSET SignedOpinions
    BY <1>1 DEF Started, OneOfEach
  <1> HIDE DEF t
  <1>3. OneOfEach(Cleaned(Started(n, h)))
    BY <1>2, MergeOneOfEach DEF Cleaned, OneOfEach
  <1>4. \A o \in Started(n, h) : o \in h \/ o = t
    BY <1>2 DEF Merge
  <1>5. ASSUME NEW o \in SignedOpinions, o.statement.name \in DataNames, o.valid = OwnValid,
               Covers(h, o), ~Expired(o, today)
        PROVE  Covers(Cleaned(Started(n, h)), o)
    <2>1. Covers(Started(n, h), o)
      BY <1>2, <1>5, MergeKeepsCovered
    <2>2. PICK p \in Started(n, h) : SameSubject(p, o) /\ ~Supersedes(o, p)
      BY <2>1 DEF Covers
    <2>3. p \in h /\ p.valid = OwnValid
      BY <1>1, <1>4, <1>5, <2>2 DEF SameSubject
    <2>4. o.date <= p.date /\ o.date \in Nat /\ p.date \in Nat /\ o.valid \in Nat
          /\ today \in Nat
      BY <2>2, <2>3, VersionOrder, VersionAssumption
    <2>5. ~Expired(p, today)
      BY <1>5, <2>3, <2>4 DEF Expired, LastDate
    <2> QED BY <2>2, <2>5 DEF Cleaned, Covers
  <1>6. \A o \in Cleaned(Started(n, h)) : o \in h \/ o.statement.name \notin DataNames
    BY <1>1, <1>4 DEF Cleaned
  <1> QED BY <1>3, <1>5, <1>6

LEMMA ReceivedMessages ==
  ASSUME Typing, NEW n \in Nodes, NEW kinds, Receive(n, kinds)
  PROVE  /\ Head(inbox[n]) \in AllMessages
         /\ \A m \in AllMessages' : m \in AllMessages \/ m \in net' \ net
  <1>1. /\ inbox[n] \in Seq(Messages) /\ inbox[n] # <<>>
        /\ inbox' = [inbox EXCEPT ![n] = Tail(@)] /\ inbox \in [Nodes -> Seq(Messages)]
    BY DEF Typing, Receive
  <1>2. /\ Len(inbox[n]) \in Nat \ {0} /\ DOMAIN inbox[n] = 1 .. Len(inbox[n])
        /\ Head(inbox[n]) = inbox[n][1] /\ Head(inbox[n]) \in Messages
    BY <1>1, HeadTailProperties, LenProperties, EmptySeq
  <1>3. Head(inbox[n]) \in AllMessages
    BY <1>2 DEF AllMessages
  <1>4. ASSUME NEW x \in Nodes, NEW i \in DOMAIN inbox'[x]
        PROVE  \E j \in DOMAIN inbox[x] : inbox'[x][i] = inbox[x][j]
    <2>1. CASE x # n
      BY <1>1, <1>4, <2>1
    <2>2. CASE x = n
      <3>1. inbox'[n] = Tail(inbox[n])
        BY <1>1
      <3>2. /\ DOMAIN Tail(inbox[n]) = 1 .. Len(inbox[n]) - 1
            /\ \A k \in 1 .. Len(inbox[n]) - 1 : Tail(inbox[n])[k] = inbox[n][k + 1]
        BY <1>1, <1>2
      <3> QED BY <1>2, <1>4, <2>2, <3>1, <3>2
    <2> QED BY <2>1, <2>2
  <1>5. \A m \in AllMessages' : m \in AllMessages \/ m \in net' \ net
    BY <1>4 DEF AllMessages
  <1> QED BY <1>3, <1>5

LEMMA DisconnectedMessages ==
  ASSUME Typing, NEW n \in Nodes, Disconnect(n)
  PROVE  \A m \in AllMessages' : Carried(m) = {} \/ m \in AllMessages
  <1>1. net' \subseteq net
    BY DEF Disconnect
  <1>2. \A m \in Messages : Closed(m) = m \/ Carried(Closed(m)) = {}
    BY MessageTypes DEF Closed, Carried, Requests
  <1>3. ASSUME NEW x \in Nodes, NEW i \in DOMAIN inbox'[x]
        PROVE  \/ Carried(inbox'[x][i]) = {}
               \/ i \in DOMAIN inbox[x] /\ inbox'[x][i] = inbox[x][i]
    <2>1. CASE x = n
      <3>1. inbox'[x] = <<>>
        BY <2>1 DEF Disconnect
      <3> QED BY <1>3, <3>1
    <2>2. CASE x # n
      <3> DEFINE closed(k) == IF inbox[x][k].from = n THEN Closed(inbox[x][k]) ELSE inbox[x][k]
      <3>1. inbox'[x] = [k \in DOMAIN inbox[x] |-> closed(k)]
        BY <2>2 DEF Disconnect
      <3>2. i \in DOMAIN inbox[x] /\ inbox'[x][i] = closed(i)
        BY <1>3, <3>1
      <3>3. inbox[x][i] \in Messages
        BY <3>2 DEF Typing, TypeOK
      <3> QED BY <1>2, <3>2, <3>3
    <2> QED BY <2>1, <2>2
  <1> QED BY <1>1, <1>3 DEF AllMessages

\* No opinion is put into a message.
LEMMA NothingSent ==
  ASSUME \A m \in AllMessages' : Carried(m) = {} \/ \E x \in AllMessages : Carried(m) = Carried(x)
  PROVE  MessagesAccounted
  BY DEF MessagesAccounted

LEMMA SpreadInitially == Init => Spread
  <1> SUFFICES ASSUME Init PROVE Spread
    OBVIOUS
  <1>1. PICK db \in Databases : held = [n \in Nodes |-> Cleaned(Started(n, db[n]))]
    BY DEF Init
  <1>2. today = FirstDay /\ today \in Dates
    BY NetAssumption DEF Init
  <1>3. ASSUME NEW n \in Nodes
        PROVE  /\ db[n] \in SUBSET SignedOpinions /\ OneOfEach(db[n])
               /\ \A o \in db[n] : o.statement.name \in DataNames =>
                     o.valid = OwnValid /\ (Expired(o, today) \/ Covers(db[o.signer], o))
    BY <1>2, NetAssumption, DatabasesAssumption DEF Covers
  <1>4. ASSUME NEW n \in Nodes
        PROVE  /\ OneOfEach(held[n])
               /\ \A o \in held[n] : o \in db[n] \/ o.statement.name \notin DataNames
               /\ \A o \in SignedOpinions :
                     o.statement.name \in DataNames /\ o.valid = OwnValid /\ Covers(db[n], o)
                     => Expired(o, today) \/ Covers(held[n], o)
    <2>1. \A p \in db[n] : p.statement.name \in DataNames => p.valid = OwnValid
      BY <1>3
    <2>2. held[n] = Cleaned(Started(n, db[n]))
      BY <1>1
    <2> QED BY <1>2, <1>3, <2>1, <2>2, StartedKeeps
  <1>5. AllMessages = {}
    BY DEF Init, AllMessages
  <1>6. ASSUME NEW o \in SignedOpinions, Exists(o) PROVE SignedAndHeld(o)
    <2>1. PICK n \in Nodes : o \in held[n]
      BY <1>5, <1>6 DEF Exists
    <2>2. CASE o.statement.name \notin DataNames
      BY <2>2 DEF SignedAndHeld
    <2>3. CASE o.statement.name \in DataNames /\ o \in db[n]
      <3>1. o.valid = OwnValid /\ (Expired(o, today) \/ Covers(db[o.signer], o))
        BY <1>3, <2>3
      <3>2. o.signer \in Nodes
        BY DEF SignedOpinions
      <3> QED BY <1>4, <2>3, <3>1, <3>2 DEF SignedAndHeld
    <2> QED BY <1>4, <2>1, <2>2, <2>3
  <1> QED BY <1>4, <1>5, <1>6 DEF Spread, HeldOnce, CarriedOnce

\* A handler that stores nothing and sends no opinion.
LEMMA HandledIdly ==
  ASSUME Typing, Spread, NEW n \in Nodes, NEW kinds, Receive(n, kinds), held' = held,
         \A m \in net' \ net : Carried(m) = {}
  PROVE  Spread'
  <1>1. MessagesAccounted
    BY ReceivedMessages, NothingSent
  <1>2. CoversKept /\ HeldAccounted /\ HeldOnce'
    BY CoversUnchanged DEF Spread
  <1>3. today' = today /\ today \in Nat
    BY VersionAssumption DEF Receive, Typing, TypeOK
  <1> QED BY <1>1, <1>2, <1>3, SpreadKept

\* A handler that answers with opinions.
LEMMA HandledAnswering ==
  ASSUME Typing, Spread, NEW n \in Nodes, NEW kinds, Receive(n, kinds), held' = held,
         NEW list \in SUBSET SignedOpinions, OneOfEach(list),
         Post({Answer(Head(inbox[n]), list)}),
         \A o \in list : o \in held[n] \/ o.statement.name \notin DataNames
  PROVE  Spread'
  <1> DEFINE a == Answer(Head(inbox[n]), list)
  <1>1. net' = net \cup {a} /\ Carried(a) = list
    BY DEF Post, Answer, Carried
  <1> HIDE DEF a
  <1>2. \A m \in AllMessages' : m \in AllMessages \/ m = a
    BY <1>1, ReceivedMessages
  <1>3. \A o \in list : Exists(o) \/ SignedAndHeld(o)'
    BY DEF Exists, SignedAndHeld
  <1>4. MessagesAccounted
    BY <1>1, <1>2, <1>3 DEF MessagesAccounted
  <1>5. CoversKept /\ HeldAccounted /\ HeldOnce'
    BY CoversUnchanged DEF Spread
  <1>6. today' = today /\ today \in Nat
    BY VersionAssumption DEF Receive, Typing, TypeOK
  <1> QED BY <1>4, <1>5, <1>6, SpreadKept

\* A handler that stores what has come.
LEMMA HandledStoring ==
  ASSUME Typing, Spread, NEW n \in Nodes, NEW kinds, Receive(n, kinds), net' = net,
         Persist(n, Carried(Head(inbox[n])))
  PROVE  Spread'
  <1> DEFINE m == Head(inbox[n])
  <1>1. m \in AllMessages /\ m \in Messages
    BY ReceivedMessages DEF AllMessages
  <1>2. Carried(m) \in SUBSET SignedOpinions /\ OneOfEach(Carried(m))
    BY <1>1, CarriedType DEF Spread, CarriedOnce
  <1>3. \A o \in Carried(m) : Exists(o)
    BY <1>1 DEF Exists
  <1> HIDE DEF m
  <1>4. /\ CoversKept /\ HeldOnce'
        /\ \A x \in Nodes : \A o \in held'[x] : o \in held[x] \/ o \in Carried(m)
    BY <1>2, PersistAccounted DEF Spread, m
  <1>5. HeldAccounted
    BY <1>3, <1>4 DEF HeldAccounted, Exists
  <1>6. MessagesAccounted
    <2>1. \A x \in AllMessages' : x \in AllMessages
      BY ReceivedMessages
    <2> QED BY <2>1, NothingSent
  <1>7. today' = today /\ today \in Nat
    BY VersionAssumption DEF Receive, Typing, TypeOK
  <1> QED BY <1>4, <1>5, <1>6, <1>7, SpreadKept

LEMMA SpreadByPanic ==
  ASSUME Typing, Spread, NEW n \in Nodes, Panic(n)
  PROVE  Spread'
  <1>1. MessagesAccounted
    BY DisconnectedMessages, NothingSent DEF Panic
  <1>2. CoversKept /\ HeldAccounted /\ HeldOnce'
    BY CoversUnchanged DEF Spread, Panic, node_state
  <1>3. today' = today /\ today \in Nat
    BY VersionAssumption DEF Panic, Typing, TypeOK
  <1> QED BY <1>1, <1>2, <1>3, SpreadKept

LEMMA SpreadByHandler ==
  ASSUME Typing, Spread, NEW n \in Nodes, HandleMessage(n)
  PROVE  Spread'
  <1> DEFINE m == Head(inbox[n])
  <1>1. CASE HandleStatement(n)
    <2>1. Receive(n, {"statement"}) /\ Persist(n, {m.opinion}) /\ net' = net
      BY <1>1 DEF HandleStatement
    <2>2. m.kind = "statement"
      BY <2>1, ReceiveType
    <2>3. Carried(m) = {m.opinion}
      BY <2>2 DEF Carried
    <2> QED BY <2>1, <2>3, HandledStoring
  <1>2. CASE HandleResponse(n)
    <2>1. Receive(n, {"response"}) /\ Persist(n, m.list) /\ net' = net
      BY <1>2 DEF HandleResponse
    <2>2. m.kind = "response"
      BY <2>1, ReceiveType
    <2>3. Carried(m) = m.list
      BY <2>2 DEF Carried
    <2> QED BY <2>1, <2>3, HandledStoring
  <1>3. CASE RefuseStatement(n) \/ AnswerNobody(n)
    <2>1. \E kinds : Receive(n, kinds)
      BY <1>3 DEF RefuseStatement, AnswerNobody
    <2>2. held' = held /\ net' = net
      BY <1>3 DEF RefuseStatement, AnswerNobody, node_state
    <2> QED BY <2>1, <2>2, HandledIdly
  <1>4. CASE HandleAnnouncement(n)
    <2> DEFINE asked == {[kind |-> "opinion_request", from |-> n, to |-> m.from, name |-> k,
                          date |-> m.date, open |-> TRUE] : k \in add_infos(n, m.date, m.infos)}
    <2>1. Receive(n, {"announcement"}) /\ held' = held /\ net' = net \cup asked
      BY <1>4 DEF HandleAnnouncement, Post
    <2>2. \A x \in asked : Carried(x) = {}
      BY DEF Carried
    <2> HIDE DEF asked
    <2> QED BY <2>1, <2>2, HandledIdly
  <1>5. CASE HandleOpinionRequest(n)
    <2> DEFINE list == list_statements_named_signed(n, m.name, m.date)
    <2>1. /\ Receive(n, {"opinion_request"}) /\ held' = held
          /\ Post({Answer(m, list)})
      BY <1>5 DEF HandleOpinionRequest, node_state
    <2>2. list \subseteq held[n] /\ list \in SUBSET SignedOpinions
      BY DEF list_statements_named_signed, Typing, TypeOK
    <2> HIDE DEF list
    <2>3. OneOfEach(list)
      BY <2>2 DEF Spread, HeldOnce, OneOfEach
    <2> QED BY <2>1, <2>2, <2>3, HandledAnswering
  <1>6. CASE HandleTemplateRequest(n)
    <2> DEFINE list == {Sign(n, Template(k), AnswerValid) : k \in TemplatesAmong(held[n])}
    <2>1. /\ Receive(n, {"template_request"}) /\ held' = held
          /\ Post({Answer(m, list)})
      BY <1>6 DEF HandleTemplateRequest, node_state
    <2>2. TemplatesAmong(held[n]) \subseteq Names /\ today \in Dates
      BY TemplatesAmongType DEF Typing, TypeOK
    <2>3. \A k \in Names : Sign(n, Template(k), AnswerValid) \in SignedOpinions
      BY <2>2, SignedIsOpinion, StatementNames
    <2>4. list \in SUBSET SignedOpinions
      BY <2>2, <2>3
    <2>5. \A o \in list : o.statement.name \notin DataNames
      BY NetAssumption DEF Sign, Template
    <2>6. OneOfEach(list)
      BY DEF OneOfEach, SameSubject, Sign, Template
    <2> HIDE DEF list
    <2> QED BY <2>1, <2>4, <2>5, <2>6, HandledAnswering
  <1>7. CASE PanicOnRequest(n) \/ PanicOnResponse(n)
    BY <1>7, SpreadByPanic DEF PanicOnRequest, PanicOnResponse
  <1> QED BY <1>1, <1>2, <1>3, <1>4, <1>5, <1>6, <1>7 DEF HandleMessage

\* What the user has typed is held by its signer and by no other yet.
LEMMA SpreadByUser ==
  ASSUME Typing, Spread, NEW n \in Nodes, NEW s \in Statements, UserStatement(n, s)
  PROVE  Spread'
  <1>0. PICK o \in SignedOpinions : o = Sign(n, s, OwnValid)
    BY SignedIsOpinion DEF Typing, TypeOK
  <1>1. o.signer = n /\ o.valid = OwnValid
    BY <1>0 DEF Sign
  <1>2. Persist(n, {o}) /\ net' = net \cup publish_statement(n, o) /\ inbox' = inbox
        /\ today' = today
    BY <1>0 DEF UserStatement, Post
  <1>3. \A m \in publish_statement(n, o) : Carried(m) = {o}
    BY DEF publish_statement, Carried
  <1>4. {o} \in SUBSET SignedOpinions /\ OneOfEach({o})
    BY <1>1 DEF OneOfEach
  <1>5. /\ CoversKept /\ HeldOnce'
        /\ \A x \in Nodes : \A p \in held'[x] : p \in held[x] \/ p \in {o}
        /\ Covers(held'[n], o)
    BY <1>2, <1>4, PersistAccounted DEF Spread
  <1>6. SignedAndHeld(o)'
    BY <1>1, <1>5 DEF SignedAndHeld, Covers
  <1>7. HeldAccounted
    BY <1>5, <1>6 DEF HeldAccounted, Exists
  <1>8. \A m \in AllMessages' : m \in AllMessages \/ Carried(m) = {o}
    BY <1>2, <1>3 DEF AllMessages
  <1>9. MessagesAccounted
    BY <1>4, <1>6, <1>8 DEF MessagesAccounted
  <1>10. today \in Nat
    BY VersionAssumption DEF Typing, TypeOK
  <1> QED BY <1>2, <1>5, <1>7, <1>9, <1>10, SpreadKept

LEMMA SpreadByRestart ==
  ASSUME Typing, Spread, NEW n \in Nodes, Restart(n)
  PROVE  Spread'
  <1>1. MessagesAccounted
    BY DisconnectedMessages, NothingSent DEF Restart
  <1>2. today' = today /\ today \in Nat /\ today \in Dates
    BY VersionAssumption DEF Restart, Typing, TypeOK
  <1>3. \A x \in Nodes : held[x] \in SUBSET SignedOpinions
          /\ held'[x] = IF x = n THEN Cleaned(Started(n, held[n])) ELSE held[x]
    BY DEF Restart, Typing, TypeOK
  <1>4. OneOfEach(held[n]) /\ \A p \in held[n] : p.statement.name \in DataNames => p.valid = OwnValid
    BY <1>3 DEF Spread, HeldOnce, Exists, SignedAndHeld
  <1>5. /\ OneOfEach(held'[n])
        /\ \A o \in held'[n] : o \in held[n] \/ o.statement.name \notin DataNames
        /\ \A o \in SignedOpinions :
              o.statement.name \in DataNames /\ o.valid = OwnValid /\ Covers(held[n], o)
              => Expired(o, today) \/ Covers(held'[n], o)
    BY <1>2, <1>3, <1>4, StartedKeeps
  <1>6. HeldOnce'
    BY <1>3, <1>5 DEF Spread, HeldOnce
  <1>7. CoversKept
    BY <1>2, <1>3, <1>5 DEF CoversKept, Covers
  <1>8. HeldAccounted
    BY <1>3, <1>5 DEF HeldAccounted, Exists, SignedAndHeld
  <1> QED BY <1>1, <1>2, <1>6, <1>7, <1>8, SpreadKept

LEMMA SpreadByStep == Typing /\ Spread /\ [Next]_vars => Spread'
  <1> SUFFICES ASSUME Typing, Spread, [Next]_vars
               PROVE  Spread'
    OBVIOUS
  <1>0. today \in Nat /\ today \in Dates
    BY VersionAssumption DEF Typing, TypeOK
  <1>1. ASSUME held' = held, today' \in Nat, today <= today',
               \A m \in AllMessages' :
                  Carried(m) = {} \/ \E x \in AllMessages : Carried(m) = Carried(x)
        PROVE  Spread'
    <2>1. MessagesAccounted
      BY <1>1, NothingSent
    <2>2. CoversKept /\ HeldAccounted /\ HeldOnce'
      BY <1>1, CoversUnchanged DEF Spread
    <2> QED BY <1>1, <2>1, <2>2, SpreadKept
  <1>2. CASE \E m \in net : Deliver(m)
    <2>1. PICK m \in net : Deliver(m)
      BY <1>2
    <2>2. m \in Messages /\ m.to \in Nodes /\ m \in AllMessages
      BY <2>1, MessageTypes DEF AllMessages, Typing, TypeOK
    <2>3. inbox[m.to] \in Seq(Messages) /\ inbox \in [Nodes -> Seq(Messages)]
      BY <2>2 DEF Typing
    <2>4. ASSUME NEW x \in Nodes, NEW i \in DOMAIN inbox'[x]
          PROVE  inbox'[x][i] = m \/ \E j \in DOMAIN inbox[x] : inbox'[x][i] = inbox[x][j]
      <3>1. inbox'[x] = inbox[x] \/ (x = m.to /\ inbox'[x] = Append(inbox[x], m))
        BY <2>1, <2>2, <2>3 DEF Deliver
      <3> DEFINE q == inbox[m.to]
                 a == Append(q, m)
      <3>2. q \in Seq(Messages)
        BY <2>3
      <3> HIDE DEF q
      <3>3. /\ Len(q) \in Nat /\ DOMAIN q = 1 .. Len(q) /\ DOMAIN a = 1 .. Len(q) + 1
            /\ \A k \in 1 .. Len(q) + 1 : a[k] = IF k = Len(q) + 1 THEN m ELSE q[k]
        BY <2>2, <3>2
      <3> HIDE DEF a
      <3>4. \A k \in DOMAIN a : a[k] = m \/ (k \in DOMAIN q /\ a[k] = q[k])
        BY <3>3
      <3> QED BY <2>4, <3>1, <3>4 DEF q, a
    <2>5. \A x \in AllMessages' : x \in AllMessages
      BY <2>1, <2>2, <2>4 DEF Deliver, AllMessages
    <2>6. held' = held /\ today' = today
      BY <2>1 DEF Deliver, node_state
    <2> QED BY <1>0, <1>1, <2>5, <2>6
  <1>3. CASE \E m \in net : Lose(m)
    <2>1. held' = held /\ today' = today /\ inbox' = inbox /\ net' \subseteq net
      BY <1>3 DEF Lose, node_state
    <2>2. \A x \in AllMessages' : x \in AllMessages
      BY <2>1 DEF AllMessages
    <2> QED BY <1>0, <1>1, <2>1, <2>2
  <1>4. CASE \E n \in Nodes : HandleMessage(n)
    BY <1>4, SpreadByHandler
  <1>5. CASE \E n \in Nodes : \E i \in DOMAIN inbox[n] : GiveUp(n, i)
    <2>1. PICK n \in Nodes : \E i \in DOMAIN inbox[n] : GiveUp(n, i)
      BY <1>5
    <2>2. PICK i \in DOMAIN inbox[n] : GiveUp(n, i)
      BY <2>1
    <2> DEFINE c == [inbox[n][i] EXCEPT !.open = FALSE]
    <2>3. inbox[n][i] \in Messages /\ inbox \in [Nodes -> Seq(Messages)]
      BY <2>2 DEF Typing, TypeOK
    <2>4. Carried(c) = {}
      BY <2>2, <2>3, MessageTypes DEF GiveUp, Carried, Requests
    <2>5. inbox' = [inbox EXCEPT ![n] = [@ EXCEPT ![i] = c]]
      BY <2>2 DEF GiveUp
    <2> HIDE DEF c
    <2>6. ASSUME NEW x \in Nodes, NEW j \in DOMAIN inbox'[x]
          PROVE  inbox'[x][j] = c \/ (j \in DOMAIN inbox[x] /\ inbox'[x][j] = inbox[x][j])
      <3>1. CASE x = n
        <4> DEFINE q == inbox[n]
        <4>1. inbox'[x] = [q EXCEPT ![i] = c] /\ q \in Seq(Messages)
          BY <2>3, <2>5, <3>1 DEF Typing
        <4> HIDE DEF q
        <4>2. /\ DOMAIN [q EXCEPT ![i] = c] = DOMAIN q
              /\ \A k \in DOMAIN q : [q EXCEPT ![i] = c][k] = IF k = i THEN c ELSE q[k]
          BY <4>1
        <4> QED BY <2>6, <3>1, <4>1, <4>2 DEF q
      <3>2. CASE x # n
        BY <2>3, <2>5, <2>6, <3>2
      <3> QED BY <3>1, <3>2
    <2>7. net' = net /\ held' = held /\ today' = today
      BY <2>2 DEF GiveUp, node_state
    <2>8. \A x \in AllMessages' : x = c \/ x \in AllMessages
      BY <2>6, <2>7 DEF AllMessages
    <2> QED BY <1>0, <1>1, <2>4, <2>7, <2>8
  <1>6. CASE \E n \in Nodes, s \in Statements : UserStatement(n, s)
    BY <1>6, SpreadByUser
  <1>7. CASE \E n \in Nodes, d \in Dates : announce_infos(n, d)
    <2>1. PICK n \in Nodes, d \in Dates : announce_infos(n, d)
      BY <1>7
    <2> DEFINE i == get_own_infos(n, d)
               told == {[kind |-> "announcement", from |-> n, to |-> m, date |-> d,
                         infos |-> i] : m \in Nodes \ {n}}
    <2>2. net' = net \cup told /\ inbox' = inbox /\ held' = held /\ today' = today
      BY <2>1 DEF announce_infos, Post
    <2> HIDE DEF i
    <2>3. \A x \in told : Carried(x) = {}
      BY DEF Carried
    <2> HIDE DEF told
    <2>4. \A x \in AllMessages' : x \in told \/ x \in AllMessages
      BY <2>2 DEF AllMessages
    <2> QED BY <1>0, <1>1, <2>2, <2>3, <2>4
  <1>8. CASE \E n, m \in Nodes : ConnectionEstablished(n, m)
    <2>1. PICK n \in Nodes, m \in Nodes : ConnectionEstablished(n, m)
      BY <1>8
    <2> DEFINE r == [kind |-> "template_request", from |-> n, to |-> m, open |-> TRUE]
    <2>2. net' = net \cup {r} /\ inbox' = inbox /\ held' = held /\ today' = today
      BY <2>1 DEF ConnectionEstablished, Post, node_state
    <2>3. Carried(r) = {}
      BY DEF Carried
    <2> HIDE DEF r
    <2>4. \A x \in AllMessages' : x = r \/ x \in AllMessages
      BY <2>2 DEF AllMessages
    <2> QED BY <1>0, <1>1, <2>2, <2>3, <2>4
  <1>9. CASE \E n \in Nodes : Restart(n)
    BY <1>9, SpreadByRestart
  <1>10. CASE NextDay \/ UNCHANGED vars
    <2>1. held' = held /\ AllMessages' = AllMessages
      BY <1>10 DEF NextDay, vars, node_state, AllMessages
    <2>2. today' \in Nat /\ today <= today'
      BY <1>0, <1>10 DEF NextDay, vars
    <2> QED BY <1>1, <2>1, <2>2
  <1> QED
    BY <1>2, <1>3, <1>4, <1>5, <1>6, <1>7, <1>8, <1>9, <1>10 DEF Next

\* What a node has signed about data it keeps as long as it counts: through broadcasts,
\* answers, losses, panics and restarts, and whatever its peers store and pass on, an
\* opinion that turns up anywhere is held by its signer, or a later one is (SignerHolds).
THEOREM SignerAlwaysHolds == Spec => []SignerHolds
  <1>1. Init => Typing /\ Spread
    BY TypingInitially, SpreadInitially
  <1>2. Typing /\ Spread /\ [Next]_vars => Typing' /\ Spread'
    BY TypingByStep, SpreadByStep
  <1>3. Typing /\ Spread => SignerHolds
    <2> SUFFICES ASSUME Typing, Spread,
                        NEW o \in (UNION {held[n] : n \in Nodes}) \cup UnderWay,
                        o.statement.name \in DataNames, ~Expired(o, today)
                 PROVE  \E p \in held[o.signer] : SameSubject(p, o) /\ ~Supersedes(o, p)
      BY DEF SignerHolds
    <2>0. (\E n \in Nodes : o \in held[n]) \/ o \in UnderWay
      <3>1. o \in UnderWay \/ \E h \in {held[n] : n \in Nodes} : o \in h
        OBVIOUS
      <3> QED BY <3>1
    <2>1. CASE \E n \in Nodes : o \in held[n]
      <3>1. Exists(o) /\ o \in SignedOpinions
        BY <2>1 DEF Exists, Typing, TypeOK
      <3> QED BY <3>1 DEF Spread, SignedAndHeld, Covers
    <2>2. CASE o \in UnderWay
      <3>1. PICK m \in net : o \in Carried(m)
        BY <2>2 DEF UnderWay, Carried
      <3>2. m \in AllMessages /\ o \in SignedOpinions
        BY <3>1, CarriedType DEF AllMessages, Typing, TypeOK
      <3>3. Exists(o)
        BY <3>1, <3>2 DEF Exists
      <3> QED BY <3>2, <3>3 DEF Spread, SignedAndHeld, Covers
    <2> QED BY <2>0, <2>1, <2>2
  <1> QED BY <1>1, <1>2, <1>3, PTL DEF Spec
=============================================================================
