------------------------------- MODULE Process -------------------------------
(***************************************************************************)
(* The tasks of one process (src/main.rs, run_milter in src/milter) and    *)
(* what they share: the reader of typed lines and the network loop a       *)
(* bounded channel, the loop and the sessions of mail servers the lock of  *)
(* the storage.  The loop is the only one to write.                        *)
(*                                                                         *)
(* A handler is the list of locks it takes, each given back before the     *)
(* next; what it does with them is in Storage, ReputationNet and Milter.   *)
(* Lines are told apart by their numbers.                                  *)
(***************************************************************************)
EXTENDS Naturals, Sequences, FiniteSets

CONSTANTS
    Sessions,   \* bound: the connections of mail servers there may be at a time
    InputSize,  \* capacity of the channel, where a sender may add one more (5)
    MaxLines    \* bound: how many lines are typed

VARIABLES
    typed,     \* how many lines have been typed
    stdin,     \* those that have not been read
    eof,       \* has the input been closed?
    reader,    \* the main task: "reading", or "parked" until the loop takes a line
    input,     \* the channel
    loop,      \* the network loop: "select", "line", "message", "gone"
    line,      \* the line it handles, 0 for none
    needs,     \* the locks its handler has still to take
    handled,   \* history: the lines handled
    listener,  \* does the milter accept connections?
    session,   \* "none", "idle", "waiting" for the lock, "looking" with it
    writer,    \* the lock: "none", "waiting" for readers to go, "writing"
    reading,   \* and whether the loop reads
    process    \* "running" or "ended"

loop_vars == <<loop, line, needs, handled, writer, reading>>
milter_vars == <<listener, session>>
vars == <<typed, stdin, eof, reader, input, loop_vars, milter_vars, process>>

ASSUME ProcessAssumption ==
    /\ InputSize \in Nat
    /\ MaxLines \in Nat
    /\ IsFiniteSet(Sessions)

-----------------------------------------------------------------------------
(* The locks that handlers take *)

\* Bound: no more than two, where a query or an answer may take as many as there
\* are statements.

\* A statement is persisted, then signed, or the known templates are listed if
\* it is refused; a query reads for the statements and for the opinions on each;
\* "!sync" reads unless its infos are cached; other lines are only complained of.
LineNeeds ==
    {<<"write", "write">>, <<"write", "read">>, <<"read">>, <<"read", "read">>, <<"write">>, <<>>}

\* Broadcasts, announcements, requests and answers, that take the lock once for
\* each statement in them.
MessageNeeds ==
    {<<"write">>, <<"read">>, <<"read", "read">>, <<"write", "write">>, <<>>}

-----------------------------------------------------------------------------
(* Lines: input_reader *)

Running == process = "running"

Type ==
    /\ ~eof
    /\ typed < MaxLines
    /\ typed' = typed + 1
    /\ stdin' = Append(stdin, typed + 1)
    /\ UNCHANGED <<eof, reader, input, loop_vars, milter_vars, process>>

Close ==
    /\ ~eof
    /\ eof' = TRUE
    /\ UNCHANGED <<typed, stdin, reader, input, loop_vars, milter_vars, process>>

\* Mutant of SendLine: the channel takes any number of lines.
SendLineUnbounded ==
    /\ Running /\ reader = "reading" /\ stdin # <<>> /\ loop # "gone"
    /\ stdin' = Tail(stdin)
    /\ input' = Append(input, Head(stdin))
    /\ UNCHANGED <<typed, eof, reader, loop_vars, milter_vars, process>>

\* Mutant of SendLine: a line is dropped when the channel is full.
SendLineOrDrop ==
    /\ Running /\ reader = "reading" /\ stdin # <<>> /\ loop # "gone"
    /\ stdin' = Tail(stdin)
    /\ input' = IF Len(input) < InputSize THEN Append(input, Head(stdin)) ELSE input
    /\ UNCHANGED <<typed, eof, reader, loop_vars, milter_vars, process>>

\* Having filled the channel the reader waits for the loop.
SendLine ==
    /\ Running /\ reader = "reading" /\ stdin # <<>> /\ loop # "gone"
    /\ stdin' = Tail(stdin)
    /\ input' = Append(input, Head(stdin))
    /\ reader' = IF Len(input') > InputSize THEN "parked" ELSE "reading"
    /\ UNCHANGED <<typed, eof, loop_vars, milter_vars, process>>

\* expect("could send"): nobody receives any more, and the main task panics.
SendFails ==
    /\ Running /\ reader = "reading" /\ stdin # <<>> /\ loop = "gone"
    /\ stdin' = Tail(stdin)
    /\ process' = "ended"
    /\ UNCHANGED <<typed, eof, reader, input, loop_vars, milter_vars>>

\* The main task returns, which ends all others wherever they are.
ReadEnd ==
    /\ Running /\ reader = "reading" /\ stdin = <<>> /\ eof
    /\ process' = "ended"
    /\ UNCHANGED <<typed, stdin, eof, reader, input, loop_vars, milter_vars>>

\* result?: a line that is not UTF-8, or cannot be read, has the same effect.
ReadFails ==
    /\ Running /\ reader = "reading" /\ stdin # <<>>
    /\ stdin' = Tail(stdin)
    /\ process' = "ended"
    /\ UNCHANGED <<typed, eof, reader, input, loop_vars, milter_vars>>

ReaderStep == SendLine \/ SendFails \/ ReadEnd \/ ReadFails

-----------------------------------------------------------------------------
(* The network loop *)

TakeLine ==
    /\ Running /\ loop = "select" /\ input # <<>>
    /\ line' = Head(input)
    /\ input' = Tail(input)
    /\ reader' = "reading"
    /\ loop' = "line"
    /\ needs' \in LineNeeds
    /\ UNCHANGED <<typed, stdin, eof, handled, writer, reading, milter_vars, process>>

TakeMessage ==
    /\ Running /\ loop = "select"
    /\ loop' = "message"
    /\ needs' \in MessageNeeds
    /\ UNCHANGED <<typed, stdin, eof, reader, input, line, handled, writer, reading, milter_vars, process>>

Handling == Running /\ loop \in {"line", "message"}

Holding == writer = "writing" \/ reading

Waits(lock) == Handling /\ ~Holding /\ writer = "none" /\ needs # <<>> /\ Head(needs) = lock

Lock ==
    /\ \/ Waits("write") /\ writer' = "waiting" /\ UNCHANGED reading
       \/ Waits("read") /\ reading' = TRUE /\ UNCHANGED writer
    /\ UNCHANGED <<typed, stdin, eof, reader, input, loop, line, needs, handled, milter_vars, process>>

\* The lock of async-std (external): who waits to write keeps new readers out,
\* and gets it when none is left.
Write ==
    /\ Handling
    /\ writer = "waiting"
    /\ ~reading
    /\ \A s \in Sessions : session[s] # "looking"
    /\ writer' = "writing"
    /\ UNCHANGED <<typed, stdin, eof, reader, input, loop, line, needs, handled, reading, milter_vars, process>>

\* Mutant of Unlock: the first guard lives on while the handler waits for the next.
UnlockLate ==
    /\ Handling /\ Holding
    /\ Len(needs) = 1
    /\ writer' = "none"
    /\ reading' = FALSE
    /\ needs' = Tail(needs)
    /\ UNCHANGED <<typed, stdin, eof, reader, input, loop, line, handled, milter_vars, process>>

Unlock ==
    /\ Handling /\ Holding
    /\ writer' = "none"
    /\ reading' = FALSE
    /\ needs' = Tail(needs)
    /\ UNCHANGED <<typed, stdin, eof, reader, input, loop, line, handled, milter_vars, process>>

Finish ==
    /\ Handling /\ ~Holding /\ needs = <<>>
    /\ loop' = "select"
    /\ line' = 0
    /\ handled' = IF loop = "line" THEN Append(handled, line) ELSE handled
    /\ UNCHANGED <<typed, stdin, eof, reader, input, needs, writer, reading, milter_vars, process>>

\* Mutant of Panic: the lock stays as it is.
PanicHolding ==
    /\ Running /\ loop # "gone"
    /\ loop' = "gone"
    /\ reader' = "reading"
    /\ input' = <<>>
    /\ line' = 0
    /\ needs' = <<>>
    /\ UNCHANGED <<typed, stdin, eof, handled, writer, reading, milter_vars, process>>

\* The loop panics, in a handler or on an event of the swarm: its lock is given
\* back, its channel closed, and a reader that waits woken.
Panic ==
    /\ Running /\ loop # "gone"
    /\ loop' = "gone"
    /\ reader' = "reading"
    /\ input' = <<>>
    /\ line' = 0
    /\ needs' = <<>>
    /\ writer' = "none"
    /\ reading' = FALSE
    /\ UNCHANGED <<typed, stdin, eof, handled, milter_vars, process>>

HandlerStep == Lock \/ Write \/ Unlock \/ Finish

-----------------------------------------------------------------------------
(* Sessions *)

others == <<typed, stdin, eof, reader, input, loop_vars, process>>

To(s, state) == session' = [session EXCEPT ![s] = state]

Accept(s) ==
    /\ Running /\ listener /\ session[s] = "none"
    /\ To(s, "idle")
    /\ UNCHANGED <<listener, others>>

\* stream?, peer_addr()?: the first connection that fails is the last.
AcceptFails ==
    /\ Running /\ listener
    /\ listener' = FALSE
    /\ UNCHANGED <<session, others>>

LookUp(s) ==
    /\ Running /\ session[s] = "idle"
    /\ To(s, "waiting")
    /\ UNCHANGED <<listener, others>>

Read(s) ==
    /\ Running /\ session[s] = "waiting"
    /\ writer = "none"
    /\ To(s, "looking")
    /\ UNCHANGED <<listener, others>>

Answer(s) ==
    /\ Running /\ session[s] = "looking"
    /\ To(s, "idle")
    /\ UNCHANGED <<listener, others>>

Hangup(s) ==
    /\ Running /\ session[s] = "idle"
    /\ To(s, "none")
    /\ UNCHANGED <<listener, others>>

LookUpStep(s) == Read(s) \/ Answer(s)

Init ==
    /\ typed = 0
    /\ stdin = <<>>
    /\ eof = FALSE
    /\ reader = "reading"
    /\ input = <<>>
    /\ loop = "select"
    /\ line = 0
    /\ needs = <<>>
    /\ handled = <<>>
    /\ listener \in BOOLEAN
    /\ session = [s \in Sessions |-> "none"]
    /\ writer = "none"
    /\ reading = FALSE
    /\ process = "running"

Next ==
    \/ Type
    \/ Close
    \/ ReaderStep
    \/ TakeLine
    \/ TakeMessage
    \/ HandlerStep
    \/ Panic
    \/ AcceptFails
    \/ \E s \in Sessions : Accept(s) \/ LookUp(s) \/ LookUpStep(s) \/ Hangup(s)

Spec == Init /\ [][Next]_vars

\* Tasks go on where they can.  select! picks at random among what is ready, so
\* that a line is not passed over for ever; nothing is assumed of users, peers
\* and mail servers.
FairSpec ==
    /\ Spec
    /\ WF_vars(ReaderStep)
    /\ SF_vars(TakeLine)
    /\ WF_vars(HandlerStep)
    /\ \A s \in Sessions : WF_vars(LookUpStep(s))

-----------------------------------------------------------------------------
(* Properties *)

\* Lines that have been read and not handled wait in the channel and in the
\* hands of the loop: no more of them are lost when the process ends, and where
\* the loop is slow the others wait in the input.
FewUnderWay ==
    LET read == typed - Len(stdin)
    IN  Running /\ loop # "gone" => read - Len(handled) <= InputSize + 2

\* The lines typed that are still to come: in hand, in the channel, unread.  With
\* the process all go that it has read.
Waiting ==
    IF Running THEN (IF line = 0 THEN <<>> ELSE <<line>>) \o input \o stdin ELSE stdin

Lines ==
    INSTANCE LineQueue WITH queue <- Waiting, open <- Running /\ loop # "gone"

\* What is typed is handled in order, each line once and none passed over by the
\* reader, the channel or the loop; lines are lost only when the loop or the process
\* has ended (input_reader, network_loop).
ImplementsLineQueue == Lines!Spec

\* Every line is handled, however sessions and messages keep the loop busy: none
\* waits for a lock that another who waits for it holds.  A process whose loop is
\* gone does not go on taking lines, but ends with the next one (input_reader).
AllHandled ==
    \A l \in 1 .. MaxLines :
        typed >= l ~> (Len(handled) >= l \/ ~Running \/ (loop = "gone" /\ stdin = <<>>))

\* A look-up gets the lock in the end, unless writers keep coming: also after
\* the loop has panicked with the lock in its hands.
LookUpsEnd ==
    \/ []<>(writer = "none") /\ []<>(writer # "none")
    \/ \A s \in Sessions : session[s] = "waiting" ~> (session[s] = "idle" \/ ~Running)
=============================================================================
