--------------------------- MODULE CommandChannel ---------------------------
(***************************************************************************)
(* What a connection of the mail server promises the filter, without       *)
(* bytes: commands are handled in the order in which they were sent, each  *)
(* once and as a whole.  Any number of the last ones may get lost with the *)
(* connection, and one that is not understood ends the session.            *)
(***************************************************************************)
EXTENDS Naturals, Sequences

CONSTANTS
    Commands,       \* what may be sent
    Understood(_),  \* what the filter takes a command for
    Refused         \* what it takes it for if it does not understand it

VARIABLES queue, handled, open

Init == queue = <<>> /\ handled = <<>> /\ open = TRUE

Send(c) == queue' = Append(queue, c) /\ UNCHANGED <<handled, open>>

\* The connection ends, and with it what has not arrived.
Lose ==
    /\ \E n \in 0 .. Len(queue) : queue' = SubSeq(queue, 1, n)
    /\ UNCHANGED <<handled, open>>

Handle ==
    /\ open
    /\ queue # <<>>
    /\ queue' = Tail(queue)
    /\ Understood(Head(queue)) # Refused
    /\ handled' = Append(handled, Understood(Head(queue)))
    /\ open' \in BOOLEAN

End ==
    /\ open
    /\ queue = <<>> \/ Understood(Head(queue)) = Refused
    /\ open' = FALSE
    /\ UNCHANGED <<queue, handled>>

Next == (\E c \in Commands : Send(c)) \/ Lose \/ Handle \/ End

Spec == Init /\ [][Next]_<<queue, handled, open>>
=============================================================================
