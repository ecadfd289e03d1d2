----------------------------- MODULE LineQueue -----------------------------
(***************************************************************************)
(* What the process promises whoever types: the lines are handled in the   *)
(* order in which they were typed, each once and none passed over, for as  *)
(* long as it handles any.  Only afterwards may lines be lost.             *)
(***************************************************************************)
EXTENDS Naturals, Sequences

CONSTANT MaxLines  \* bound: how many lines are typed

VARIABLES
    typed,    \* how many have been typed
    queue,    \* those that wait to be handled
    handled,  \* those that have been
    open      \* is any line handled from now on?

Init == typed = 0 /\ queue = <<>> /\ handled = <<>> /\ open = TRUE

\* Lines are their numbers: the next in order, and no other, joins the queue.
Type ==
    /\ typed < MaxLines
    /\ typed' = typed + 1
    /\ queue' = Append(queue, typed + 1)
    /\ UNCHANGED <<handled, open>>

Handle ==
    /\ open
    /\ queue # <<>>
    /\ queue' = Tail(queue)
    /\ handled' = Append(handled, Head(queue))
    /\ UNCHANGED <<typed, open>>

\* Nobody handles lines any more, and some of those that waited are dropped.
End ==
    /\ open' = FALSE
    /\ \E n \in 0 .. Len(queue) : queue' = SubSeq(queue, n + 1, Len(queue))
    /\ UNCHANGED <<typed, handled>>

Next == Type \/ Handle \/ End

Spec == Init /\ [][Next]_<<typed, queue, handled, open>>
=============================================================================
