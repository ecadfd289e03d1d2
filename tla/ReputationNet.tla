--------------------------- MODULE ReputationNet ----------------------------
(***************************************************************************)
(* The nodes of the network (src/reputation_net, main.rs): what each does  *)
(* with user input, with statements broadcast to it, with announcements of *)
(* its peers and with the requests and answers that follow from them.      *)
(*                                                                         *)
(* One task per node runs the event loop, so that a handler is one step.   *)
(* The storage of a node is taken as OpinionStore describes it: the set of *)
(* opinions held, where a statement has a row just while it is the subject *)
(* of an opinion (Storage!ImplementsOpinionStore and NoOrphanStatements).  *)
(* An opinion carries its statement and stands for its signature too.      *)
(***************************************************************************)
EXTENDS Opinions, Sequences, FiniteSets, Functions

CONSTANTS
    Nodes,         \* the nodes, each also standing for its public key
    TemplateName,  \* "template", the name of the statements about templates
    DataNames,     \* the names of the templates users add
    Entities,      \* what data statements are about
    None,          \* nothing cached for a date
    OwnValid,      \* validity of signed statements (30 in the code)
    AnswerValid,   \* validity of the opinions answering TemplateRequest (7)
    InboxSize,     \* capacity of the message channel (100, and one for its sender)
    AnswerLimit,   \* how many statements fit in an answer (20000 bytes)
    FirstDay,      \* the day on which the nodes are started
    Databases,     \* bound: what the nodes' storages may hold then
    Limits,        \* bound: how often each event of the environment happens
    MaxEvents      \* bound: how many of these events happen in all

VARIABLES
    held,       \* the opinions in a node's storage
    templates,  \* the names a node accepts statements of (Storage.templates)
    own_infos,  \* a node's cached sync infos by date
    topics,     \* the gossipsub topics a node has subscribed to
    inbox,      \* a node's message channel
    loop,       \* is its network loop running, or has it panicked?
    net,        \* the messages under way
    today,
    spent       \* how often each event of the environment has happened

vars == <<held, templates, own_infos, topics, inbox, loop, net, today, spent>>
node_state == <<held, templates, own_infos, topics>>

Names == {TemplateName} \cup DataNames

Template(k) == [name |-> TemplateName, about |-> k]
Statements == [name : {TemplateName}, about : Names] \cup [name : DataNames, about : Entities]

SignedOpinions ==
    [statement : Statements, signer : Nodes, date : Dates, valid : Valids, serial : Serials]

Events == {"typed", "synced", "connected", "restarted", "lost"}

ASSUME NetAssumption ==
    /\ TemplateName \notin DataNames
    /\ None \notin [Names -> SUBSET SignedOpinions]
    /\ {OwnValid, AnswerValid} \subseteq Valids
    /\ 0 \in Serials
    /\ InboxSize \in Nat \ {0}
    /\ AnswerLimit \in Nat
    /\ FirstDay \in Dates
    /\ Databases \subseteq [Nodes -> SUBSET SignedOpinions]
    /\ Limits \in [Events -> Nat]
    /\ MaxEvents \in Nat

\* The sync infos of a date: for each name the signatures, of which the code
\* sends the number and a hash.
Infos == [Names -> SUBSET SignedOpinions]

Messages ==
    [kind : {"statement"}, from : Nodes, to : Nodes, opinion : SignedOpinions]
    \cup [kind : {"announcement"}, from : Nodes, to : Nodes, date : Dates, infos : Infos]
    \cup [kind : {"opinion_request"}, from : Nodes, to : Nodes, name : Names, date : Dates,
          open : BOOLEAN]
    \cup [kind : {"template_request"}, from : Nodes, to : Nodes, open : BOOLEAN]
    \cup [kind : {"response"}, from : Nodes, to : Nodes, list : SUBSET SignedOpinions]

Requests == {"opinion_request", "template_request"}

-----------------------------------------------------------------------------
(* Storage, seen from outside *)

SameSubject(o, p) == o.statement = p.statement /\ o.signer = p.signer

\* persist_opinion for each of a set of opinions with different subjects.
Merge(h, ops) ==
    {p \in h : \A o \in ops : ~(SameSubject(o, p) /\ Supersedes(o, p))}
    \cup {o \in ops : \A p \in h : SameSubject(o, p) => Supersedes(o, p)}

OneOfEach(ops) == \A o, p \in ops : SameSubject(o, p) => o = p

\* What earlier runs leave behind: one opinion on each subject; data statements
\* signed for the usual span, and still held by their signers (SignerHolds).
ASSUME DatabasesAssumption ==
    \A db \in Databases, n \in Nodes :
        /\ OneOfEach(db[n])
        /\ \A o \in db[n] : o.statement.name \in DataNames =>
              /\ o.valid = OwnValid
              /\ Expired(o, FirstDay)
                 \/ \E p \in db[o.signer] : SameSubject(p, o) /\ ~Supersedes(o, p)

Known(n, k) == k = TemplateName \/ k \in templates[n]

TemplatesAmong(ops) == {o.statement.about : o \in {p \in ops : p.statement.name = TemplateName}}

IsNew(n, s) == \A o \in held[n] : o.statement # s

Sign(n, s, valid) ==
    [statement |-> s, signer |-> n, date |-> today, valid |-> valid, serial |-> 0]

list_statements_named_signed(n, k, d) ==
    {o \in held[n] : o.statement.name = k /\ o.date = d}

get_sync_infos(n, d) == [k \in Names |-> list_statements_named_signed(n, k, d)]

Persist(n, ops) ==
    /\ held' = [held EXCEPT ![n] = Merge(@, ops)]
    /\ templates' = [templates EXCEPT ![n] = @ \cup TemplatesAmong(ops)]

-----------------------------------------------------------------------------
(* Synchronization state *)

get_own_infos(n, d) ==
    IF own_infos[n][d] = None THEN get_sync_infos(n, d) ELSE own_infos[n][d]

CacheOwnInfos(n, d) == own_infos' = [own_infos EXCEPT ![n][d] = get_own_infos(n, d)]

\* Mutant of flush_own_infos: nothing is flushed.
keep_own_infos(n) == own_infos' = [own_infos EXCEPT ![n] = @]

flush_own_infos(n) == own_infos' = [own_infos EXCEPT ![n] = [d \in Dates |-> None]]

\* Mutant of suggests_update: the digests are not looked at.
counts_less(own, other) == Cardinality(own) < Cardinality(other)

suggests_update(own, other) ==
    \/ Cardinality(own) < Cardinality(other)
    \/ Cardinality(own) = Cardinality(other) /\ own # other

\* The names to ask a peer for that announces infos of a date.
add_infos(n, d, infos) ==
    {k \in Names : infos[k] # {} /\ LET own == get_own_infos(n, d)[k]
                                    IN own = {} \/ suggests_update(own, infos[k])}

-----------------------------------------------------------------------------
(* The network *)

Post(ms) == net' = net \cup ms

publish_statement(n, o) ==
    {[kind |-> "statement", from |-> n, to |-> m, opinion |-> o] :
        m \in {x \in Nodes \ {n} : o.statement.name \in topics[x]}}

Spend(event) ==
    /\ spent[event] < Limits[event]
    /\ SumFunction(spent) < MaxEvents
    /\ spent' = [spent EXCEPT ![event] = @ + 1]

Answer(m, list) == [kind |-> "response", from |-> m.to, to |-> m.from, list |-> list]

\* Mutant of Deliver: the channel has no limit.
DeliverAlways(m) ==
    /\ m \in net
    /\ net' = net \ {m}
    /\ inbox' = IF loop[m.to] = "running" THEN [inbox EXCEPT ![m.to] = Append(@, m)] ELSE inbox
    /\ UNCHANGED <<node_state, loop, today, spent>>

\* What arrives goes to the channel of the running loop: try_send drops it where
\* the channel is full, and an answer that is too long is not read at all.
Deliver(m) ==
    /\ m \in net
    /\ net' = net \ {m}
    /\ inbox' = IF /\ loop[m.to] = "running"
                   /\ Len(inbox[m.to]) < InboxSize
                   /\ m.kind = "response" => Cardinality(m.list) <= AnswerLimit
                THEN [inbox EXCEPT ![m.to] = Append(@, m)]
                ELSE inbox
    /\ UNCHANGED <<node_state, loop, today, spent>>

Lose(m) ==
    /\ m \in net
    /\ Spend("lost")
    /\ net' = net \ {m}
    /\ UNCHANGED <<node_state, inbox, loop, today>>

\* The one who asked gives up, or the connection ends, before the request is handled.
GiveUp(n, i) ==
    /\ inbox[n][i].kind \in Requests
    /\ inbox[n][i].open
    /\ Spend("lost")
    /\ inbox' = [inbox EXCEPT ![n][i].open = FALSE]
    /\ UNCHANGED <<node_state, loop, net, today>>

\* The node's channel and connections go: its requests wait for answers in
\* vain, and requests and answers under way are lost; broadcasts go round.
Closed(m) == IF m.kind \in Requests THEN [m EXCEPT !.open = FALSE] ELSE m

Disconnect(n) ==
    /\ inbox' = [x \in Nodes |->
          IF x = n THEN <<>>
          ELSE [i \in DOMAIN inbox[x] |->
                  IF inbox[x][i].from = n THEN Closed(inbox[x][i]) ELSE inbox[x][i]]]
    /\ net' = {m \in net : n \in {m.from, m.to} => m.kind \in {"statement", "announcement"}}

-----------------------------------------------------------------------------
(* Messages handled by the network loop *)

Receive(n, kinds) ==
    /\ loop[n] = "running"
    /\ inbox[n] # <<>>
    /\ Head(inbox[n]).kind \in kinds
    /\ inbox' = [inbox EXCEPT ![n] = Tail(@)]
    /\ UNCHANGED <<today, spent>>

\* Mutant of HandleStatement: what a peer has published is published again.
RepublishStatement(n) ==
    LET o == Head(inbox[n]).opinion
    IN  /\ Receive(n, {"statement"})
        /\ Known(n, o.statement.name)
        /\ Persist(n, {o})
        /\ Post(publish_statement(n, o))
        /\ flush_own_infos(n)
        /\ UNCHANGED <<topics, loop>>

\* Mutant of HandleStatement: only new statements are stored.
HandleNewStatement(n) ==
    LET o == Head(inbox[n]).opinion
        s == o.statement
    IN  /\ Receive(n, {"statement"})
        /\ Known(n, s.name)
        /\ Persist(n, IF IsNew(n, s) THEN {o} ELSE {})
        /\ topics' = [topics EXCEPT ![n] = @ \cup
                         IF IsNew(n, s) THEN TemplatesAmong({o}) ELSE {}]
        /\ flush_own_infos(n)
        /\ UNCHANGED <<loop, net>>

HandleStatement(n) ==
    LET o == Head(inbox[n]).opinion
        s == o.statement
    IN  /\ Receive(n, {"statement"})
        /\ Known(n, s.name)
        /\ Persist(n, {o})
        /\ topics' = [topics EXCEPT ![n] = @ \cup
                         IF IsNew(n, s) THEN TemplatesAmong({o}) ELSE {}]
        /\ flush_own_infos(n)
        /\ UNCHANGED <<loop, net>>

RefuseStatement(n) ==
    /\ Receive(n, {"statement"})
    /\ ~Known(n, Head(inbox[n]).opinion.statement.name)
    /\ UNCHANGED <<node_state, loop, net>>

HandleAnnouncement(n) ==
    LET m == Head(inbox[n])
    IN  /\ Receive(n, {"announcement"})
        /\ CacheOwnInfos(n, m.date)
        /\ Post({[kind |-> "opinion_request", from |-> n, to |-> m.from, name |-> k,
                  date |-> m.date, open |-> TRUE] : k \in add_infos(n, m.date, m.infos)})
        /\ UNCHANGED <<held, templates, topics, loop>>

HandleOpinionRequest(n) ==
    LET m == Head(inbox[n])
    IN  /\ Receive(n, {"opinion_request"})
        /\ m.open
        /\ Post({Answer(m, list_statements_named_signed(n, m.name, m.date))})
        /\ UNCHANGED <<node_state, loop>>

\* Every template in storage is signed afresh, and nothing of it stored.
HandleTemplateRequest(n) ==
    LET m == Head(inbox[n])
    IN  /\ Receive(n, {"template_request"})
        /\ m.open
        /\ Post({Answer(m, {Sign(n, Template(k), AnswerValid) : k \in TemplatesAmong(held[n])})})
        /\ UNCHANGED <<node_state, loop>>

\* The connection has ended and the node has not noticed: the answer is lost.
AnswerNobody(n) ==
    /\ Receive(n, Requests)
    /\ ~Head(inbox[n]).open
    /\ UNCHANGED <<node_state, loop, net>>

\* The loop's task ends, and with it the connections and the channel.
Panic(n) ==
    /\ loop[n] = "running"
    /\ loop' = [loop EXCEPT ![n] = "panicked"]
    /\ Disconnect(n)
    /\ UNCHANGED <<node_state, today, spent>>

\* send_response(..).unwrap(): the node has noticed.
PanicOnRequest(n) ==
    /\ inbox[n] # <<>>
    /\ Head(inbox[n]).kind \in Requests
    /\ ~Head(inbox[n]).open
    /\ Panic(n)

HandleResponse(n) ==
    LET list == Head(inbox[n]).list
    IN  /\ Receive(n, {"response"})
        /\ \A o \in list : Known(n, o.statement.name)
        /\ Persist(n, list)
        /\ flush_own_infos(n)
        /\ UNCHANGED <<topics, loop, net>>

\* persist(..).expect(..): the statements of an answer all have the one name
\* asked for, so that nothing of it has been stored before.
PanicOnResponse(n) ==
    /\ inbox[n] # <<>>
    /\ Head(inbox[n]).kind = "response"
    /\ \E o \in Head(inbox[n]).list : ~Known(n, o.statement.name)
    /\ Panic(n)

HandleMessage(n) ==
    \/ HandleStatement(n)
    \/ RefuseStatement(n)
    \/ HandleAnnouncement(n)
    \/ HandleOpinionRequest(n)
    \/ HandleTemplateRequest(n)
    \/ AnswerNobody(n)
    \/ PanicOnRequest(n)
    \/ HandleResponse(n)
    \/ PanicOnResponse(n)

-----------------------------------------------------------------------------
(* Users, connections, restarts *)

\* A statement is typed in: it is stored and signed, then published.  Neither
\* the sync infos nor the topics are brought up to date.
UserStatement(n, s) ==
    LET o == Sign(n, s, OwnValid)
    IN  /\ loop[n] = "running"
        /\ Known(n, s.name)
        /\ Spend("typed")
        /\ Persist(n, {o})
        /\ Post(publish_statement(n, o))
        /\ UNCHANGED <<own_infos, topics, inbox, loop, today>>

\* "!sync" is typed in.
announce_infos(n, d) ==
    /\ loop[n] = "running"
    /\ Spend("synced")
    /\ CacheOwnInfos(n, d)
    /\ Post({[kind |-> "announcement", from |-> n, to |-> m, date |-> d,
              infos |-> get_own_infos(n, d)] : m \in Nodes \ {n}})
    /\ UNCHANGED <<held, templates, topics, inbox, loop, today>>

ConnectionEstablished(n, m) ==
    /\ n # m
    /\ loop[n] = "running"
    /\ Spend("connected")
    /\ Post({[kind |-> "template_request", from |-> n, to |-> m, open |-> TRUE]})
    /\ UNCHANGED <<node_state, inbox, loop, today>>

\* Storage::new and ReputationNet::new: the predefined statement is signed, the
\* templates are cached, what has expired is deleted, and the topics are those
\* of the templates left.
Started(n, h) == Merge(h, {Sign(n, Template(TemplateName), OwnValid)})

\* Mutant of Cleaned: the last day does not count.
CleanedEarly(h) == {o \in h : today < LastDate(o)}
Cleaned(h) == {o \in h : ~Expired(o, today)}

Restart(n) ==
    /\ Spend("restarted")
    /\ held' = [held EXCEPT ![n] = Cleaned(Started(n, @))]
    /\ templates' = [templates EXCEPT ![n] = TemplatesAmong(Started(n, held[n]))]
    /\ topics' = [topics EXCEPT ![n] = TemplatesAmong(Cleaned(Started(n, held[n])))]
    /\ own_infos' = [own_infos EXCEPT ![n] = [d \in Dates |-> None]]
    /\ loop' = [loop EXCEPT ![n] = "running"]
    /\ Disconnect(n)
    /\ UNCHANGED today

NextDay ==
    /\ today + 1 \in Dates
    /\ today' = today + 1
    /\ UNCHANGED <<node_state, inbox, loop, net, spent>>

Init ==
    /\ today = FirstDay
    /\ \E db \in Databases :
          /\ held = [n \in Nodes |-> Cleaned(Started(n, db[n]))]
          /\ templates = [n \in Nodes |-> TemplatesAmong(Started(n, db[n]))]
    /\ topics = [n \in Nodes |-> TemplatesAmong(held[n])]
    /\ own_infos = [n \in Nodes |-> [d \in Dates |-> None]]
    /\ inbox = [n \in Nodes |-> <<>>]
    /\ loop = [n \in Nodes |-> "running"]
    /\ net = {}
    /\ spent = [e \in Events |-> 0]

Next ==
    \/ \E m \in net : Deliver(m) \/ Lose(m)
    \/ \E n \in Nodes : HandleMessage(n)
    \/ \E n \in Nodes : \E i \in DOMAIN inbox[n] : GiveUp(n, i)
    \/ \E n \in Nodes, s \in Statements : UserStatement(n, s)
    \/ \E n \in Nodes, d \in Dates : announce_infos(n, d)
    \/ \E n, m \in Nodes : ConnectionEstablished(n, m)
    \/ \E n \in Nodes : Restart(n)
    \/ NextDay

Spec == Init /\ [][Next]_vars

\* Messages are delivered or lost in the end, and a running loop goes on
\* handling what is in its channel.  Nothing is assumed of users.
FairSpec ==
    /\ Spec
    /\ WF_vars(\E m \in net : Deliver(m))
    /\ \A n \in Nodes : WF_vars(HandleMessage(n))
-----------------------------------------------------------------------------
(* Properties *)

\* Every variable has its type.
TypeOK ==
    /\ held \in [Nodes -> SUBSET SignedOpinions]
    /\ templates \in [Nodes -> SUBSET Names]
    /\ own_infos \in [Nodes -> [Dates -> Infos \cup {None}]]
    /\ topics \in [Nodes -> SUBSET Names]
    /\ \A n \in Nodes : \A i \in DOMAIN inbox[n] : inbox[n][i] \in Messages
    /\ \A n \in Nodes : Len(inbox[n]) <= InboxSize
    /\ loop \in [Nodes -> {"running", "panicked"}]
    /\ net \subseteq Messages
    /\ today \in Dates
    /\ spent \in [Events -> Nat]

\* A cached sync info may be out of date, but only by what the node's own user
\* has signed since: whatever came from a peer has been announced or asked for
\* on the strength of what is really stored.
StaleOnlyByOwn ==
    \A n \in Nodes, d \in Dates : own_infos[n][d] # None =>
        \A k \in Names :
            LET cached == own_infos[n][d][k]
                stored == get_sync_infos(n, d)[k]
            IN  \A o \in (cached \ stored) \cup (stored \ cached) : o.signer = n

\* All opinions of a signer's that are stored or under way.
UnderWay ==
    {m.opinion : m \in {x \in net : x.kind = "statement"}}
    \cup UNION {m.list : m \in {x \in net : x.kind = "response"}}

\* What a node has signed about a data statement it keeps, and keeps as long as
\* anybody does: wherever an opinion turns up, through broadcasts, answers,
\* losses and restarts, its signer holds it or a later one until it expires.
SignerHolds ==
    \A o \in (UNION {held[n] : n \in Nodes}) \cup UnderWay :
        o.statement.name \in DataNames /\ ~Expired(o, today)
        => \E p \in held[o.signer] : SameSubject(p, o) /\ ~Supersedes(o, p)

\* Has nothing been lost, and no channel been full, no node stopped?
Undisturbed ==
    /\ spent.lost = 0 /\ spent.restarted = 0
    /\ \A n \in Nodes : loop[n] = "running" /\ Len(inbox[n]) < InboxSize

\* n has the opinion or a later one.
Has(n, o) == \E p \in held[n] : SameSubject(p, o) /\ ~Supersedes(o, p)

Asked(n, m, o) ==
    \E x \in net \cup {inbox[m][i] : i \in DOMAIN inbox[m]} :
        /\ x.kind = "opinion_request"
        /\ x.from = n /\ x.to = m
        /\ x.name = o.statement.name /\ x.date = o.date

\* How many opinions a node has under the name and date of one.
Count(n, o) == Cardinality(list_statements_named_signed(n, o.statement.name, o.date))

\* No message sets off an endless exchange: users pausing, the network falls silent.
FallsSilent == <>[](net = {} /\ \A n \in Nodes : inbox[n] = <<>>)

\* Is n told by m of infos in which o is?
Told(n, m, o) ==
    \E i \in DOMAIN inbox[n] :
        /\ inbox[n][i].kind = "announcement"
        /\ inbox[n][i].from = m
        /\ o \in inbox[n][i].infos[o.statement.name]


\* A statement on its way to a peer that accepts statements of its name gets
\* there: the peer comes to hold the opinion or a later one, whatever it has held
\* before (handle_broadcast_message, persist_opinion).
PublishedArrives ==
    \A n \in Nodes, o \in SignedOpinions :
        (Undisturbed /\ \E x \in net : x.kind = "statement" /\ x.to = n /\ x.opinion = o)
        ~> (Has(n, o) \/ ~Undisturbed)

-----------------------------------------------------------------------------
(* What an assertion of the code says and the code does not do *)

\* reputation_net/mod.rs, on an answer: expect("could persist statement").
AnswersPersist ==
    [][\A n \in Nodes :
          loop[n] = "running" /\ loop'[n] = "panicked"
          => Head(inbox[n]).kind # "response"]_vars
=============================================================================
