------------------------------- MODULE Milter -------------------------------
(***************************************************************************)
(* The mail filter (src/milter): a mail server (MTA) tells a session what  *)
(* it learns of a connection and of the messages that come over it; the    *)
(* session looks up what is mentioned, accumulates the severity of the     *)
(* statements found, and gives its verdict on every recipient and at the   *)
(* end of the header.                                                      *)
(*                                                                         *)
(* Each session is a task of its own; look-ups take the read lock of the   *)
(* storage one by one, and the storage may change between them.  Where a   *)
(* match was found and the macros of the MTA are only worded and printed,  *)
(* and are left out.  The MTA is external: it sends commands in the order  *)
(* of SMTP and waits for the reply to those that have one.                 *)
(***************************************************************************)
EXTENDS Naturals, Sequences, FiniteSetsExt

CONSTANTS
    Sessions,
    Entities,      \* what commands mention
    Statements,    \* what may be stored
    name,          \* the name of a statement
    Concerning,    \* entity -> the statements a look-up of it finds, if stored
    Null,
    MentionLists,  \* bound: what the entities mentioned by a command may be
    MaxDay,        \* bound: days
    InputSize      \* bound: commands under way

VARIABLES
    stored,      \* statement -> the last day of its opinions, or Null if not stored
    today,
    mta,         \* the last command but macros a session's MTA has sent, or "Accepted"
    awaiting,    \* does the MTA wait for a reply?
    input,       \* commands sent and not yet read
    output,      \* replies written and not yet received
    task,        \* is the session reading or looking up, and what is left of that?
    statements,  \* the matches accumulated
    severity,    \* their highest severity
    due,         \* history: what was stored about what the MTA then told
    mentioned,   \* history: what the MTA has told since a message last ended for it
    carried      \* history: has a message been accepted since, and no reset been sent?

history == <<due, mentioned, carried>>
vars == <<stored, today, mta, awaiting, input, output, task, statements, severity, history>>
connection == <<mta, awaiting, history>>
policy == <<statements, severity>>

Days == 1 .. MaxDay
Unsupported == 0   \* the "last day" of a statement whose opinion is yet to be stored

\* Severities
None == 0
Quarantine == 1
Tempfail == 2
Reject == 3
Known == 4

SeverityOf(st) ==
    CASE name[st] \in {"spammer", "exploited"}         -> Reject
      [] name[st] \in {"spammer_friendly", "dynamic"}  -> Tempfail
      [] name[st] = "known"                            -> Known
      [] OTHER                                         -> None

ASSUME MilterAssumption ==
    /\ name \in [Statements -> STRING]
    /\ Concerning \in [Entities -> SUBSET Statements]
    /\ Null \notin Nat \cup [entity : Entities, statement : Statements]
    /\ MentionLists \subseteq Seq(Entities)
    /\ MaxDay \in Nat \ {0}
    /\ InputSize \in Nat

LookingUp == {"Connect", "Helo", "Mail", "Header"}   \* commands that mention something
Asking == {"Rcpt", "Eoh"}                            \* commands answered by a verdict
Resetting == {"Optneg", "BodyEob", "Abort"}
Unanswered == {"Macro", "Abort", "Quit"}
Kinds == LookingUp \cup Asking \cup Resetting \cup Unanswered \cup {"Body"}

\* Body stands for all commands without effect: Body, Data, Unknown.
Commands ==
    [kind : LookingUp, mentions : MentionLists] \cup [kind : Kinds \ LookingUp, mentions : {<<>>}]

Matches == [entity : Entities, statement : Statements]

Found(e) == {st \in Concerning[e] : stored[st] # Null}

-----------------------------------------------------------------------------
(* Responses *)

Response == [v \in None .. Known |->
    CASE v = None       -> "Continue"
      [] v = Quarantine -> "Quarantine"
      [] v = Tempfail   -> "457"
      [] v = Reject     -> "554"
      [] v = Known      -> "Accept"]

Continue == [kind |-> "Continue", reason |-> Null]

\* The reason is worded from a match of the severity that decides.
Reasons(s) == {m \in statements[s] : SeverityOf(m.statement) = severity[s]}

\* The reason is a part of refusals only.
PolicyResponses(s) ==
    [kind : {Response[severity[s]]},
     reason : IF severity[s] \in {None, Known} \/ Reasons(s) = {} THEN {Null} ELSE Reasons(s)]

-----------------------------------------------------------------------------
(* The MTA *)

\* A message that is accepted is over for the filter: the MTA tells it no more of
\* that, not its end either, and goes on with the next.
MayFollow(k) ==
    CASE k = "Open"                            -> {"Optneg"}
      [] k = "Optneg"                          -> {"Connect"}
      [] k = "Connect"                         -> {"Helo"}
      [] k \in {"Helo", "BodyEob", "Abort"}    -> {"Helo", "Mail"}
      [] k = "Accepted"                        -> {"Helo", "Mail", "Abort"}
      [] k = "Mail"                            -> {"Rcpt", "Abort"}
      [] k = "Rcpt"                            -> {"Rcpt", "Header", "Eoh", "Abort"}
      [] k = "Header"                          -> {"Header", "Eoh", "Abort"}
      [] k \in {"Eoh", "Body"}                 -> {"Body", "BodyEob", "Abort"}
      [] OTHER                                 -> {}

Send(s, c) ==
    /\ mta[s] \notin {"Closed", "Quit"}
    /\ ~awaiting[s]
    /\ Len(input[s]) < InputSize
    /\ c.kind \in MayFollow(mta[s]) \cup {"Macro", "Quit"}
    /\ mta' = [mta EXCEPT ![s] = IF c.kind = "Macro" THEN @ ELSE c.kind]
    /\ awaiting' = [awaiting EXCEPT ![s] = c.kind \notin Unanswered]
    /\ input' = [input EXCEPT ![s] = Append(@, c)]
    /\ LET told == {c.mentions[i] : i \in DOMAIN c.mentions}
           before(x) == IF c.kind \in Resetting THEN {} ELSE x
       IN  /\ mentioned' = [mentioned EXCEPT ![s] = before(@) \cup told]
           /\ due' = [due EXCEPT ![s] = before(@) \cup UNION {Found(e) : e \in told}]
    /\ carried' = [carried EXCEPT ![s] = @ /\ c.kind \notin Resetting]
    /\ UNCHANGED <<stored, today, output, task, policy>>

\* Is the message accepted by the reply under way?
Accepts(s) == mta[s] \in Asking /\ Head(output[s]).kind = "Accept"

Receive(s) ==
    /\ output[s] # <<>>
    /\ output' = [output EXCEPT ![s] = Tail(@)]
    /\ awaiting' = [awaiting EXCEPT ![s] = FALSE]
    /\ IF Accepts(s)
       THEN /\ mta' = [mta EXCEPT ![s] = "Accepted"]
            /\ mentioned' = [mentioned EXCEPT ![s] = {}]
            /\ due' = [due EXCEPT ![s] = {}]
            /\ carried' = [carried EXCEPT ![s] = TRUE]
       ELSE UNCHANGED <<mta, history>>
    /\ UNCHANGED <<stored, today, input, task, policy>>

\* The connection ends, properly or not.
Hangup(s) ==
    /\ mta[s] # "Closed"
    /\ mta' = [mta EXCEPT ![s] = "Closed"]
    /\ awaiting' = [awaiting EXCEPT ![s] = FALSE]
    /\ input' = [input EXCEPT ![s] = <<>>]
    /\ output' = [output EXCEPT ![s] = <<>>]
    /\ UNCHANGED <<stored, today, task, policy, history>>

-----------------------------------------------------------------------------
(* The session: handle_command *)

Reading == [pc |-> "reading", todo |-> <<>>]
Ended == [pc |-> "ended", todo |-> <<>>]

\* Mutant of ResetPolicy: the severity is kept.
ResetMatches(s) ==
    /\ statements' = [statements EXCEPT ![s] = {}]
    /\ UNCHANGED severity

ResetPolicy(s) ==
    /\ statements' = [statements EXCEPT ![s] = {}]
    /\ severity' = [severity EXCEPT ![s] = None]

Write(s, response) == output' = [output EXCEPT ![s] = Append(@, response)]

Read(s, kinds) ==
    /\ task[s].pc = "reading"
    /\ input[s] # <<>>
    /\ Head(input[s]).kind \in kinds
    /\ input' = [input EXCEPT ![s] = Tail(@)]
    /\ UNCHANGED <<stored, today, connection>>

HandleMention(s) ==
    /\ Read(s, LookingUp)
    /\ task' = [task EXCEPT ![s] = [pc |-> "looking up", todo |-> Head(input[s]).mentions]]
    /\ UNCHANGED <<output, policy>>

HandleOptneg(s) ==
    /\ Read(s, {"Optneg"})
    /\ ResetPolicy(s)
    /\ Write(s, [kind |-> "Optneg", reason |-> Null])
    /\ UNCHANGED task

\* Mutant of HandleAsking: nothing to say.
HandleSilently(s) ==
    /\ Read(s, Asking)
    /\ IF severity[s] = None THEN UNCHANGED output ELSE \E r \in PolicyResponses(s) : Write(s, r)
    /\ UNCHANGED <<task, policy>>

HandleAsking(s) ==
    /\ Read(s, Asking)
    /\ \E r \in PolicyResponses(s) : Write(s, r)
    /\ UNCHANGED <<task, policy>>

HandleBodyEob(s) ==
    /\ Read(s, {"BodyEob"})
    /\ ResetPolicy(s)
    /\ Write(s, Continue)
    /\ UNCHANGED task

HandleBody(s) ==
    /\ Read(s, {"Body"})
    /\ Write(s, Continue)
    /\ UNCHANGED <<task, policy>>

\* Mutant of HandleAbort: the reply of the other commands is written.
AbortReplying(s) ==
    /\ Read(s, {"Abort"})
    /\ ResetPolicy(s)
    /\ Write(s, Continue)
    /\ UNCHANGED task

HandleAbort(s) ==
    /\ Read(s, {"Abort"})
    /\ ResetPolicy(s)
    /\ UNCHANGED <<output, task>>

HandleMacro(s) ==
    /\ Read(s, {"Macro"})
    /\ UNCHANGED <<output, task, policy>>

\* The output is closed, and the next command that is read is the end.
HandleQuit(s) ==
    /\ Read(s, {"Quit"})
    /\ task' = [task EXCEPT ![s] = Ended]
    /\ UNCHANGED <<output, policy>>

\* Mutant of Lookup: the severity is that of the statements found last.
LookupLast(s) ==
    /\ task[s].pc = "looking up"
    /\ task[s].todo # <<>>
    /\ LET e == Head(task[s].todo)
       IN  /\ severity' = [severity EXCEPT ![s] = Max({None} \cup {SeverityOf(st) : st \in Found(e)})]
           /\ statements' = [statements EXCEPT ![s] = @ \cup [entity : {e}, statement : Found(e)]]
    /\ task' = [task EXCEPT ![s].todo = Tail(@)]
    /\ UNCHANGED <<stored, today, connection, input, output>>

\* Mutant of Lookup: severities are added up.
LookupAdding(s) ==
    /\ task[s].pc = "looking up"
    /\ task[s].todo # <<>>
    /\ LET e == Head(task[s].todo)
       IN  /\ severity' = [severity EXCEPT ![s] = @ + Max({None} \cup {SeverityOf(st) : st \in Found(e)})]
           /\ statements' = [statements EXCEPT ![s] = @ \cup [entity : {e}, statement : Found(e)]]
    /\ task' = [task EXCEPT ![s].todo = Tail(@)]
    /\ UNCHANGED <<stored, today, connection, input, output>>

Lookup(s) ==
    /\ task[s].pc = "looking up"
    /\ task[s].todo # <<>>
    /\ LET e == Head(task[s].todo)
       IN  /\ severity' = [severity EXCEPT ![s] = Max({@} \cup {SeverityOf(st) : st \in Found(e)})]
           /\ statements' = [statements EXCEPT ![s] = @ \cup [entity : {e}, statement : Found(e)]]
    /\ task' = [task EXCEPT ![s].todo = Tail(@)]
    /\ UNCHANGED <<stored, today, connection, input, output>>

\* All is looked up.  Where nobody is left to reply to, the session ends.
Proceed(s) ==
    /\ task[s].pc = "looking up"
    /\ task[s].todo = <<>>
    /\ IF mta[s] = "Closed"
       THEN task' = [task EXCEPT ![s] = Ended] /\ UNCHANGED output
       ELSE task' = [task EXCEPT ![s] = Reading] /\ Write(s, Continue)
    /\ UNCHANGED <<stored, today, connection, input, policy>>

ReadEnd(s) ==
    /\ task[s].pc = "reading"
    /\ mta[s] = "Closed"
    /\ task' = [task EXCEPT ![s] = Ended]
    /\ UNCHANGED <<stored, today, connection, input, output, policy>>

Step(s) ==
    \/ HandleMention(s)
    \/ HandleOptneg(s)
    \/ HandleAsking(s)
    \/ HandleBodyEob(s)
    \/ HandleBody(s)
    \/ HandleAbort(s)
    \/ HandleMacro(s)
    \/ HandleQuit(s)
    \/ Lookup(s)
    \/ Proceed(s)
    \/ ReadEnd(s)

\* A connection is accepted, and a session started on it.
Accept(s) ==
    /\ mta[s] = "Closed"
    /\ task[s].pc = "ended"
    /\ mta' = [mta EXCEPT ![s] = "Open"]
    /\ task' = [task EXCEPT ![s] = Reading]
    /\ ResetPolicy(s)
    /\ mentioned' = [mentioned EXCEPT ![s] = {}]
    /\ due' = [due EXCEPT ![s] = {}]
    /\ carried' = [carried EXCEPT ![s] = FALSE]
    /\ UNCHANGED <<stored, today, awaiting, input, output>>

-----------------------------------------------------------------------------
(* The storage *)

\* A statement is stored, an opinion on it is.
Learn(st, day) ==
    /\ stored[st] # Null => stored[st] < day
    /\ stored' = [stored EXCEPT ![st] = day]
    /\ UNCHANGED <<today, connection, input, output, task, policy>>

\* The node is restarted: connections end, and what has expired is deleted.
Restart ==
    /\ stored' = [st \in Statements |->
          IF stored[st] # Null /\ stored[st] < today THEN Null ELSE stored[st]]
    /\ mta' = [s \in Sessions |-> "Closed"]
    /\ awaiting' = [s \in Sessions |-> FALSE]
    /\ input' = [s \in Sessions |-> <<>>]
    /\ output' = [s \in Sessions |-> <<>>]
    /\ task' = [s \in Sessions |-> Ended]
    /\ UNCHANGED <<today, policy, history>>

NextDay ==
    /\ today < MaxDay
    /\ today' = today + 1
    /\ UNCHANGED <<stored, connection, input, output, task, policy>>

Init ==
    /\ stored = [st \in Statements |-> Null]
    /\ today = 1
    /\ mta = [s \in Sessions |-> "Closed"]
    /\ awaiting = [s \in Sessions |-> FALSE]
    /\ input = [s \in Sessions |-> <<>>]
    /\ output = [s \in Sessions |-> <<>>]
    /\ task = [s \in Sessions |-> Ended]
    /\ statements = [s \in Sessions |-> {}]
    /\ severity = [s \in Sessions |-> None]
    /\ due = [s \in Sessions |-> {}]
    /\ mentioned = [s \in Sessions |-> {}]
    /\ carried = [s \in Sessions |-> FALSE]

Next ==
    \/ \E s \in Sessions : Step(s)
    \/ \E s \in Sessions, c \in Commands : Send(s, c)
    \/ \E s \in Sessions : Receive(s)
    \/ \E s \in Sessions : Hangup(s)
    \/ \E s \in Sessions : Accept(s)
    \/ \E st \in Statements, day \in {Unsupported} \cup Days : Learn(st, day)
    \/ Restart
    \/ NextDay

Spec == Init /\ [][Next]_vars

\* A session goes on: its steps wait for nothing but the read lock.
FairSpec == Spec /\ \A s \in Sessions : WF_vars(Step(s))
-----------------------------------------------------------------------------
(* Properties *)

Replies == [kind : {"Optneg"} \cup {Response[v] : v \in None .. Known}, reason : Matches \cup {Null}]

\* Every variable has its type.
TypeOK ==
    /\ stored \in [Statements -> Days \cup {Null, Unsupported}]
    /\ today \in Days
    /\ mta \in [Sessions -> Kinds \cup {"Open", "Closed", "Accepted"}]
    /\ awaiting \in [Sessions -> BOOLEAN]
    /\ input \in [Sessions -> Seq(Commands)]
    /\ output \in [Sessions -> Seq(Replies)]
    /\ task \in [Sessions -> [pc : {"reading", "looking up", "ended"}, todo : Seq(Entities)]]
    /\ statements \in [Sessions -> SUBSET Matches]
    /\ severity \in [Sessions -> None .. Known]
    /\ due \in [Sessions -> SUBSET Statements]
    /\ mentioned \in [Sessions -> SUBSET Entities]
    /\ carried \in [Sessions -> BOOLEAN]

\* A reply under way is the one the MTA waits for, and nothing it has sent is
\* left to read: commands and replies stay in step, whatever mixture of commands
\* with and without a reply has been sent.
InStep ==
    \A s \in Sessions :
        output[s] # <<>> => awaiting[s] /\ Len(output[s]) = 1 /\ input[s] = <<>>

\* A verdict that the MTA is about to receive.
IsVerdict(s) == mta[s] \in Asking /\ output[s] # <<>>

Gives(s, v) == Head(output[s]).kind = Response[v]

\* A verdict takes account of all that the MTA has told since the last message
\* ended and that was stored by then: it is not milder than the worst of it.
VerdictCoversTold ==
    \A s \in Sessions : IsVerdict(s) =>
        \E v \in None .. Known : Gives(s, v) /\ \A st \in due[s] : SeverityOf(st) <= v

\* It is that of a stored statement about something mentioned.
RestsOnTold(s) ==
    Head(output[s]).kind # Response[None] =>
        \E e \in mentioned[s] : \E st \in Found(e) : Gives(s, SeverityOf(st))

\* A refusal comes with its reason, a match of that severity.
RefusalHasReason(s) ==
    Gives(s, Tempfail) \/ Gives(s, Reject) =>
        LET reason == Head(output[s]).reason
        IN  reason # Null /\ reason.entity \in mentioned[s] /\ Gives(s, SeverityOf(reason.statement))

\* A verdict rests on nothing else, nor does its reason: nothing of an earlier
\* message counts, be it ended or aborted - but where a message was accepted, the
\* next one is accepted with it, as nothing resets the filter in between.  No
\* refusal ever rests on an earlier message.
VerdictRestsOnTold ==
    \A s \in Sessions : IsVerdict(s) =>
        \/ RestsOnTold(s) /\ RefusalHasReason(s)
        \/ carried[s] /\ Gives(s, Known)

\* Every command that waits for a reply gets one, or the connection ends.
EveryCommandAnswered ==
    \A s \in Sessions : awaiting[s] ~> (output[s] # <<>> \/ mta[s] = "Closed")
=============================================================================
