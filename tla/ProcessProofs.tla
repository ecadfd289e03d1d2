---------------------------- MODULE ProcessProofs ----------------------------
(***************************************************************************)
(* Proofs about Process, for any number of sessions and lines and any size *)
(* of the channel.                                                         *)
(***************************************************************************)
EXTENDS Process, SequenceTheorems, TLAPS

LineSet == 1 .. MaxLines

InHands == IF line = 0 THEN <<>> ELSE <<line>>

Typing ==
    /\ typed \in 0 .. MaxLines
    /\ stdin \in Seq(LineSet)
    /\ input \in Seq(LineSet)
    /\ handled \in Seq(LineSet)
    /\ line \in 0 .. MaxLines
    /\ loop \in {"select", "line", "message", "gone"}

\* A line is in hand just while the loop handles one.
LineInHand == (loop = "line") <=> (line # 0)

\* The reader stops when it has filled the channel.
ChannelBounded ==
    /\ Len(input) <= InputSize + 1
    /\ reader = "reading" => Len(input) <= InputSize

InHand == IF line = 0 THEN 0 ELSE 1

\* While there are reader and loop, every line that has been typed is in one place.
AllCounted ==
    Running /\ loop # "gone" =>
        typed = Len(handled) + InHand + Len(input) + Len(stdin)

LinesKept == Typing /\ LineInHand /\ ChannelBounded /\ AllCounted

-----------------------------------------------------------------------------

\* What the first of a sequence of lines leaves.
LEMMA TakenFromFront ==
  ASSUME NEW s \in Seq(LineSet), s # <<>>
  PROVE  /\ Head(s) \in LineSet /\ Tail(s) \in Seq(LineSet)
         /\ Len(s) \in Nat \ {0} /\ Len(Tail(s)) = Len(s) - 1
         /\ <<Head(s)>> \o Tail(s) = s
  BY HeadTailProperties, LenProperties, EmptySeq

LEMMA PutBehind ==
  ASSUME NEW s \in Seq(LineSet), NEW l \in LineSet
  PROVE  Append(s, l) \in Seq(LineSet) /\ Len(Append(s, l)) = Len(s) + 1
  BY AppendProperties

LEMMA LinesKeptInitially == Init => LinesKept
  BY ProcessAssumption
     DEF Init, LinesKept, Typing, LineInHand, ChannelBounded, AllCounted, InHand, LineSet

LEMMA LinesKeptByStep == LinesKept /\ [Next]_vars => LinesKept'
  <1> SUFFICES ASSUME LinesKept, [Next]_vars
               PROVE  LinesKept'
    OBVIOUS
  <1> USE DEF LinesKept, Typing, LineInHand, ChannelBounded, AllCounted, Running
  <1>0. /\ InputSize \in Nat /\ MaxLines \in Nat
        /\ Len(stdin) \in Nat /\ Len(input) \in Nat /\ Len(handled) \in Nat
        /\ InHand \in Nat /\ typed \in Nat
    BY ProcessAssumption, LenProperties DEF InHand
  <1>1. CASE Type
    <2>1. typed + 1 \in LineSet
      BY <1>0, <1>1 DEF Type, LineSet
    <2>2. stdin' \in Seq(LineSet) /\ Len(stdin') = Len(stdin) + 1
      BY <1>1, <2>1, PutBehind DEF Type
    <2>3. typed' \in 0 .. MaxLines /\ typed' = typed + 1
      BY <1>0, <1>1 DEF Type
    <2>4. input' = input /\ handled' = handled /\ line' = line /\ loop' = loop /\ reader' = reader
          /\ process' = process
      BY <1>1 DEF Type, loop_vars
    <2>5. Typing' /\ LineInHand' /\ ChannelBounded'
      BY <2>2, <2>3, <2>4
    <2>6. AllCounted'
      <3>1. InHand' = InHand
        BY <2>4 DEF InHand
      <3> QED BY <1>0, <2>2, <2>3, <2>4, <3>1
    <2> QED BY <2>5, <2>6
  <1>2. CASE Close
    BY <1>2 DEF Close, loop_vars, InHand
  <1>3. CASE SendLine
    <2>1. /\ Head(stdin) \in LineSet /\ stdin' \in Seq(LineSet)
          /\ Len(stdin') = Len(stdin) - 1
      BY <1>3, TakenFromFront DEF SendLine
    <2>2. input' \in Seq(LineSet) /\ Len(input') = Len(input) + 1
      BY <1>3, <2>1, PutBehind DEF SendLine
    <2>3. ChannelBounded'
      BY <1>0, <1>3, <2>2 DEF SendLine
    <2>4. typed' = typed /\ handled' = handled /\ line' = line /\ loop' = loop /\ process' = process
      BY <1>3 DEF SendLine, loop_vars
    <2>5. Typing' /\ LineInHand'
      BY <2>1, <2>2, <2>4
    <2>6. AllCounted'
      <3>1. InHand' = InHand
        BY <2>4 DEF InHand
      <3> QED BY <1>0, <2>1, <2>2, <2>4, <3>1
    <2> QED BY <2>3, <2>5, <2>6
  <1>4. CASE SendFails
    <2>1. stdin' \in Seq(LineSet)
      BY <1>4, TakenFromFront DEF SendFails
    <2> QED BY <1>4, <2>1 DEF SendFails, loop_vars, InHand
  <1>5. CASE ReadEnd
    BY <1>5 DEF ReadEnd, loop_vars, InHand
  <1>15. CASE ReadFails
    <2>1. stdin' \in Seq(LineSet)
      BY <1>15, TakenFromFront DEF ReadFails
    <2> QED BY <1>15, <2>1 DEF ReadFails, loop_vars, InHand
  <1>6. CASE TakeLine
    <2>1. /\ line' \in LineSet /\ input' \in Seq(LineSet)
          /\ Len(input') = Len(input) - 1 /\ Len(input) # 0
      BY <1>6, TakenFromFront DEF TakeLine
    <2>2. line' \in 0 .. MaxLines /\ line' # 0
      BY <1>0, <2>1 DEF LineSet
    <2>3. InHand = 0 /\ InHand' = 1
      BY <1>6, <2>2 DEF TakeLine, InHand
    <2> QED BY <1>0, <1>6, <2>1, <2>2, <2>3 DEF TakeLine
  <1>7. CASE TakeMessage
    BY <1>7 DEF TakeMessage, InHand
  <1>8. CASE Lock
    BY <1>8 DEF Lock, InHand
  <1>9. CASE Write
    BY <1>9 DEF Write, InHand
  <1>10. CASE Unlock
    BY <1>10 DEF Unlock, InHand
  <1>11. CASE Finish
    <2>1. CASE loop = "line"
      <3>1. line \in LineSet
        BY <1>0, <2>1 DEF LineSet
      <3>2. handled' \in Seq(LineSet) /\ Len(handled') = Len(handled) + 1
        BY <1>11, <2>1, <3>1, PutBehind DEF Finish
      <3>3. line' = 0 /\ loop' = "select" /\ typed' = typed /\ process' = process
          /\ stdin' = stdin /\ input' = input /\ reader' = reader
        BY <1>11 DEF Finish
      <3>4. Typing' /\ LineInHand' /\ ChannelBounded'
        BY <1>0, <3>2, <3>3
      <3>5. AllCounted'
        <4>1. InHand = 1 /\ InHand' = 0
          BY <2>1, <3>3 DEF InHand
        <4> QED BY <1>0, <2>1, <3>2, <3>3, <4>1
      <3> QED BY <3>4, <3>5
    <2>2. CASE loop # "line"
      <3>1. line' = line /\ handled' = handled /\ loop' = "select"
        BY <1>11, <2>2 DEF Finish
      <3>2. InHand' = InHand
        BY <3>1 DEF InHand
      <3>3. typed' = typed /\ stdin' = stdin /\ input' = input /\ reader' = reader
        BY <1>11 DEF Finish
      <3>4. AllCounted'
        BY <1>11, <3>1, <3>2, <3>3 DEF Finish, Handling
      <3> QED BY <2>2, <3>1, <3>3, <3>4
    <2> QED BY <2>1, <2>2
  <1>12. CASE Panic
    <2>1. input' = <<>> /\ Len(input') = 0 /\ input' \in Seq(LineSet)
      BY <1>12 DEF Panic
    <2> QED BY <1>0, <1>12, <2>1 DEF Panic, InHand
  <1>13. CASE AcceptFails \/ \E s \in Sessions : Accept(s) \/ LookUp(s) \/ LookUpStep(s) \/ Hangup(s)
    <2>1. UNCHANGED others
      BY <1>13 DEF AcceptFails, Accept, LookUp, LookUpStep, Read, Answer, Hangup
    <2> QED BY <2>1 DEF others, loop_vars, InHand
  <1>14. CASE UNCHANGED vars
    BY <1>14 DEF vars, loop_vars, InHand
  <1> QED
    BY <1>1, <1>2, <1>3, <1>4, <1>5, <1>6, <1>7, <1>8, <1>9, <1>10, <1>11, <1>12, <1>13, <1>14, <1>15
       DEF Next, ReaderStep, HandlerStep

LEMMA AlwaysLinesKept == Spec => []LinesKept
  BY LinesKeptInitially, LinesKeptByStep, PTL DEF Spec

\* What is lost with the process is at most what the channel, the sender and the
\* loop's hands hold; all else has been handled or not been read.
THEOREM FewAlwaysUnderWay == Spec => []FewUnderWay
  <1>1. LinesKept => FewUnderWay
    <2> SUFFICES ASSUME LinesKept, Running, loop # "gone"
                 PROVE  typed - Len(stdin) - Len(handled) <= InputSize + 2
      BY DEF FewUnderWay
    <2>1. /\ InputSize \in Nat /\ typed \in Nat
          /\ Len(stdin) \in Nat /\ Len(input) \in Nat /\ Len(handled) \in Nat
          /\ InHand \in {0, 1}
      BY ProcessAssumption, LenProperties DEF LinesKept, Typing, InHand
    <2> QED BY <2>1 DEF LinesKept, AllCounted, ChannelBounded
  <1> QED BY <1>1, AlwaysLinesKept, PTL

-----------------------------------------------------------------------------
(* The lines that wait are a queue *)

\* What waits are lines, those of a running process in three places.
LEMMA WaitingTyped ==
  ASSUME LinesKept
  PROVE  /\ Waiting \in Seq(LineSet)
         /\ InHands \in Seq(LineSet) /\ input \in Seq(LineSet) /\ stdin \in Seq(LineSet)
         /\ Waiting = IF Running THEN InHands \o input \o stdin ELSE stdin
  <1>1. MaxLines \in Nat /\ line \in 0 .. MaxLines
        /\ input \in Seq(LineSet) /\ stdin \in Seq(LineSet)
    BY ProcessAssumption DEF LinesKept, Typing
  <1>2. InHands \in Seq(LineSet)
    <2>1. CASE line = 0
      BY <2>1 DEF InHands
    <2>2. CASE line # 0
      <3>1. line \in LineSet
        BY <1>1, <2>2 DEF LineSet
      <3> QED BY <2>2, <3>1 DEF InHands
    <2> QED BY <2>1, <2>2
  <1>3. InHands \o input \o stdin \in Seq(LineSet)
    BY <1>1, <1>2, ConcatProperties
  <1> QED BY <1>1, <1>2, <1>3 DEF Waiting, InHands

\* Dropping the first lines of a sequence leaves the others.
LEMMA EndDrops ==
  ASSUME NEW s \in Seq(LineSet), NEW t \in Seq(LineSet)
  PROVE  \E n \in 0 .. Len(s \o t) : t = SubSeq(s \o t, n + 1, Len(s \o t))
  <1>1. Len(s) \in Nat /\ Len(t) \in Nat /\ s \o t \in Seq(LineSet)
        /\ Len(s \o t) = Len(s) + Len(t)
    BY ConcatProperties, LenProperties
  <1>2. t = SubSeq(s \o t, Len(s) + 1, Len(s \o t))
    <2> DEFINE u == SubSeq(s \o t, Len(s) + 1, Len(s) + Len(t))
    <2>1. u \in Seq(LineSet) /\ Len(u) = Len(t)
          /\ \A i \in 1 .. Len(t) : u[i] = (s \o t)[Len(s) + i]
      BY <1>1
    <2>2. \A i \in 1 .. Len(t) : (s \o t)[Len(s) + i] = t[i]
      BY <1>1
    <2>3. \A i \in 1 .. Len(t) : u[i] = t[i]
      BY <2>1, <2>2
    <2> QED BY <1>1, <2>1, <2>3, SeqEqual
  <1> QED BY <1>1, <1>2

\* All that was read goes, and perhaps the first of the lines that were not.
LEMMA EndStep ==
  ASSUME LinesKept, Running,
         NEW left \in Seq(LineSet),
         left = stdin \/ (stdin # <<>> /\ left = Tail(stdin)),
         Waiting' = left, typed' = typed, handled' = handled,
         ~(Running' /\ loop' # "gone")
  PROVE  Lines!End
  <1>1. PICK gone \in Seq(LineSet) : Waiting = gone \o left
    <2>1. PICK before \in Seq(LineSet) : Waiting = before \o stdin
      <3>1. InHands \o input \in Seq(LineSet)
        BY WaitingTyped, ConcatProperties
      <3> QED BY <3>1, WaitingTyped
    <2>0. stdin \in Seq(LineSet)
      BY WaitingTyped
    <2>2. CASE left = stdin
      BY <2>1, <2>2
    <2>3. CASE stdin # <<>> /\ left = Tail(stdin)
      <3>1. PICK one \in Seq(LineSet) : stdin = one \o left
        <4>1. Head(stdin) \in LineSet /\ stdin = <<Head(stdin)>> \o left
          BY <2>0, <2>3, TakenFromFront
        <4>2. <<Head(stdin)>> \in Seq(LineSet)
          BY <4>1
        <4> QED BY <4>1, <4>2
      <3>2. before \o (one \o left) = (before \o one) \o left
        BY ConcatAssociative
      <3> QED BY <2>1, <3>1, <3>2, ConcatProperties
    <2> QED BY <2>2, <2>3
  <1>2. \E n \in 0 .. Len(Waiting) : left = SubSeq(Waiting, n + 1, Len(Waiting))
    BY <1>1, EndDrops
  <1> QED BY <1>2 DEF Lines!End

LEMMA QueueInitially == Init => Lines!Init
  <1> SUFFICES ASSUME Init
               PROVE  Lines!Init
    OBVIOUS
  <1>1. <<>> \o <<>> \o <<>> = <<>>
    OBVIOUS
  <1> QED BY <1>1 DEF Init, Lines!Init, Waiting, Running

\* A step that moves lines from one place to the next, or none at all, is none of the
\* queue's.
LEMMA Unmoved ==
  ASSUME UNCHANGED <<typed, stdin, input, line, loop, handled, process>>
  PROVE  UNCHANGED <<typed, Waiting, handled, Running /\ loop # "gone">>
  BY DEF Waiting, Running

LEMMA TypeStep ==
  ASSUME LinesKept, Type
  PROVE  Lines!Type
  <1>0. /\ typed \in Nat /\ MaxLines \in Nat /\ typed + 1 \in LineSet
        /\ stdin \in Seq(LineSet)
    BY ProcessAssumption DEF LinesKept, Typing, Type, LineSet
  <1>1. Waiting' = Append(Waiting, typed + 1)
    <2>1. PICK before \in Seq(LineSet) : before = InHands \o input
      BY WaitingTyped, ConcatProperties
    <2>2. before \o Append(stdin, typed + 1) = Append(before \o stdin, typed + 1)
      BY <1>0, <2>1
    <2>3. /\ stdin' = Append(stdin, typed + 1) /\ Running' = Running
          /\ (InHands \o input)' = InHands \o input
      BY DEF Type, Running, InHands, loop_vars
    <2>4. /\ Waiting = IF Running THEN InHands \o input \o stdin ELSE stdin
          /\ Waiting' = IF Running' THEN (InHands \o input)' \o stdin' ELSE stdin'
      BY DEF Waiting, InHands
    <2> QED BY <2>1, <2>2, <2>3, <2>4
  <1>2. UNCHANGED <<handled, Running /\ loop # "gone">>
    BY DEF Type, Running, loop_vars
  <1> QED BY <1>1, <1>2 DEF Lines!Type, Type

LEMMA SendLineStep ==
  ASSUME LinesKept, SendLine
  PROVE  UNCHANGED <<typed, Waiting, handled, Running /\ loop # "gone">>
  <1>1. /\ InHands \in Seq(LineSet) /\ input \in Seq(LineSet) /\ stdin \in Seq(LineSet)
        /\ Waiting = InHands \o input \o stdin
    BY WaitingTyped DEF SendLine
  <1>2. PICK one \in LineSet, rest \in Seq(LineSet) :
          /\ one = Head(stdin) /\ rest = Tail(stdin) /\ stdin = <<one>> \o rest
    BY <1>1, TakenFromFront DEF SendLine
  <1>3. (InHands \o Append(input, one)) \o rest = InHands \o input \o (<<one>> \o rest)
    <2>1. PICK hands \in Seq(LineSet), sent \in Seq(LineSet) :
            hands = InHands /\ sent = input
      BY <1>1
    <2>2. (hands \o Append(sent, one)) \o rest = (hands \o sent) \o (<<one>> \o rest)
      <3>1. Append(sent, one) = sent \o <<one>>
        BY <2>1
      <3>2. <<one>> \in Seq(LineSet)
        OBVIOUS
      <3>3. hands \o (sent \o <<one>>) = (hands \o sent) \o <<one>>
        BY <2>1, <3>2, ConcatAssociative
      <3>4. hands \o sent \in Seq(LineSet)
        BY <2>1, ConcatProperties
      <3>5. ((hands \o sent) \o <<one>>) \o rest = (hands \o sent) \o (<<one>> \o rest)
        BY <1>2, <3>2, <3>4, ConcatAssociative
      <3> QED BY <3>1, <3>3, <3>5
    <2> QED BY <2>1, <2>2
  <1>4. Waiting' = InHands \o Append(input, one) \o rest
    BY <1>2 DEF Waiting, InHands, SendLine, Running, loop_vars
  <1>5. UNCHANGED <<typed, handled, loop, Running>>
    BY DEF SendLine, Running, loop_vars
  <1> QED BY <1>1, <1>2, <1>3, <1>4, <1>5

LEMMA TakeLineStep ==
  ASSUME LinesKept, TakeLine
  PROVE  UNCHANGED <<typed, Waiting, handled, Running /\ loop # "gone">>
  <1>1. line = 0 /\ Running /\ Running' /\ input \in Seq(LineSet) /\ input # <<>>
    BY DEF TakeLine, LinesKept, LineInHand, Typing, Running
  <1>2. /\ Head(input) \in LineSet /\ <<Head(input)>> \o Tail(input) = input
    BY <1>1, TakenFromFront
  <1>3. line' # 0 /\ line' = Head(input) /\ input' = Tail(input) /\ stdin' = stdin
    BY <1>2, ProcessAssumption DEF TakeLine, LineSet
  <1>4. Waiting' = (<<Head(input)>> \o Tail(input)) \o stdin
    BY <1>1, <1>3 DEF Waiting
  <1>5. Waiting = <<>> \o input \o stdin /\ <<>> \o input = input
    BY <1>1 DEF Waiting
  <1>6. Waiting' = Waiting
    BY <1>2, <1>4, <1>5
  <1> QED BY <1>1, <1>6 DEF TakeLine

LEMMA FinishStep ==
  ASSUME LinesKept, Finish
  PROVE  \/ Lines!Handle
         \/ UNCHANGED <<typed, Waiting, handled, Running /\ loop # "gone">>
  <1>0. Running /\ Running' /\ loop # "gone" /\ loop' = "select" /\ line' = 0
        /\ UNCHANGED <<typed, stdin, input>>
    BY DEF Finish, Handling, Running
  <1>1. CASE loop = "line"
    <2>1. line \in LineSet /\ line # 0
      BY <1>1, ProcessAssumption DEF LinesKept, LineInHand, Typing, LineSet
    <2>2. PICK rest \in Seq(LineSet) : rest = input \o stdin
      BY ConcatProperties DEF LinesKept, Typing
    <2>3. Waiting = <<line>> \o rest
      <3>1. <<line>> \in Seq(LineSet) /\ input \in Seq(LineSet) /\ stdin \in Seq(LineSet)
        BY <2>1 DEF LinesKept, Typing
      <3>2. (<<line>> \o input) \o stdin = <<line>> \o (input \o stdin)
        BY <3>1, ConcatAssociative
      <3> QED BY <1>0, <2>1, <2>2, <3>2 DEF Waiting
    <2>4. Waiting' = rest
      <3>1. Waiting' = <<>> \o input \o stdin
        BY <1>0 DEF Waiting
      <3> QED BY <2>2, <3>1, ConcatEmptySeq DEF LinesKept, Typing
    <2>5. <<line>> \o rest # <<>> /\ Head(<<line>> \o rest) = line /\ Tail(<<line>> \o rest) = rest
      BY <2>1, <2>2
    <2>6. handled' = Append(handled, line)
      BY <1>1 DEF Finish
    <2> QED BY <1>0, <2>3, <2>4, <2>5, <2>6 DEF Lines!Handle
  <1>2. CASE loop # "line"
    <2>1. line = 0 /\ handled' = handled
      BY <1>2 DEF LinesKept, LineInHand, Finish
    <2> QED BY <1>0, <2>1 DEF Waiting
  <1> QED BY <1>1, <1>2

\* Whichever of the two tasks ends, what it has read goes with it.
LEMMA LosingStep ==
  ASSUME LinesKept, SendFails \/ ReadEnd \/ ReadFails \/ Panic
  PROVE  Lines!End
  <1>0. stdin \in Seq(LineSet) /\ input \in Seq(LineSet) /\ Running
    BY DEF LinesKept, Typing, SendFails, ReadEnd, ReadFails, Panic
  <1>1. CASE SendFails \/ ReadFails
    <2>1. /\ Tail(stdin) \in Seq(LineSet) /\ stdin # <<>>
          /\ Waiting' = Tail(stdin) /\ ~Running' /\ UNCHANGED <<typed, handled>>
      BY <1>0, <1>1, TakenFromFront DEF SendFails, ReadFails, Waiting, Running, loop_vars
    <2> QED BY <1>0, <2>1, EndStep
  <1>2. CASE ReadEnd
    <2>1. Waiting' = stdin /\ ~Running' /\ UNCHANGED <<typed, handled>>
      BY <1>2 DEF ReadEnd, Waiting, Running, loop_vars
    <2> QED BY <1>0, <2>1, EndStep
  <1>3. CASE Panic
    <2>1. /\ Waiting' = <<>> \o <<>> \o stdin /\ loop' = "gone"
          /\ UNCHANGED <<typed, handled>>
      BY <1>3 DEF Panic, Waiting, Running
    <2>2. <<>> \o <<>> \o stdin = stdin
      BY <1>0
    <2> QED BY <1>0, <2>1, <2>2, EndStep
  <1> QED BY <1>1, <1>2, <1>3

\* Every line typed is handled in its turn, once, by the reader, the channel and the
\* loop; and lines are lost only when the loop or the process has ended.
THEOREM ProcessImplementsLineQueue == Spec => ImplementsLineQueue
  <1>1. ASSUME LinesKept, [Next]_vars
        PROVE  [Lines!Next]_<<typed, Waiting, handled, Running /\ loop # "gone">>
    <2>1. CASE Type
      BY <1>1, <2>1, TypeStep DEF Lines!Next
    <2>2. CASE SendLine
      BY <1>1, <2>2, SendLineStep
    <2>3. CASE TakeLine
      BY <1>1, <2>3, TakeLineStep
    <2>4. CASE Finish
      BY <1>1, <2>4, FinishStep DEF Lines!Next
    <2>5. CASE SendFails \/ ReadEnd \/ ReadFails \/ Panic
      BY <1>1, <2>5, LosingStep DEF Lines!Next
    <2>6. CASE Close
      BY <2>6, Unmoved DEF Close, loop_vars
    <2>7. CASE TakeMessage
      <3>1. Running' = Running /\ Waiting' = Waiting
        BY <2>7 DEF TakeMessage, Waiting, Running
      <3> QED BY <2>7, <3>1 DEF TakeMessage
    <2>8. CASE Lock \/ Write \/ Unlock
      BY <2>8, Unmoved DEF Lock, Write, Unlock
    <2>9. CASE AcceptFails \/ \E s \in Sessions : Accept(s) \/ LookUp(s) \/ LookUpStep(s) \/ Hangup(s)
      <3>1. UNCHANGED others
        BY <2>9 DEF AcceptFails, Accept, LookUp, LookUpStep, Read, Answer, Hangup
      <3> QED BY <3>1, Unmoved DEF others, loop_vars
    <2>10. CASE UNCHANGED vars
      BY <2>10, Unmoved DEF vars, loop_vars
    <2> QED
      BY <1>1, <2>1, <2>2, <2>3, <2>4, <2>5, <2>6, <2>7, <2>8, <2>9, <2>10
         DEF Next, ReaderStep, HandlerStep
  <1>2. LinesKept /\ [Next]_vars => [Lines!Next]_<<typed, Waiting, handled, Running /\ loop # "gone">>
    BY <1>1
  <1> QED
    BY <1>2, QueueInitially, AlwaysLinesKept, PTL
       DEF Spec, ImplementsLineQueue, Lines!Spec
=============================================================================
