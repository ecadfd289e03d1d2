------------------------------- MODULE Packets -------------------------------
(***************************************************************************)
(* The bytes between the mail server (MTA) and a session of the filter     *)
(* (src/milter/packet.rs, and reading and writing in mod.rs): a packet is  *)
(* its length in four bytes and as many bytes of data, a letter and the    *)
(* fields of a command or response.  A read gets any number of the bytes   *)
(* it wants, and the connection may break between any two of them.         *)
(*                                                                         *)
(* Bytes are numbers; the meaning of strings is left to Milter.            *)
(***************************************************************************)
EXTENDS Naturals, SequencesExt, FiniteSetsExt

CONSTANTS
    Scripts,   \* bound: the sequences of commands the MTA may send
    Reasons    \* what refusals may give as a reason: set of strings of bytes

VARIABLES
    sent,      \* history: the commands the MTA has sent
    wire,      \* bytes sent and not yet read
    closed,    \* has the MTA's end of the connection been closed?
    part,      \* what the session reads: "length" or "data"
    want,      \* how many bytes that is
    got,       \* those it has read
    ended,     \* has the session ended?
    handled,   \* history: the commands handled
    output,    \* history: the bytes written
    responses  \* history: the responses given

vars == <<sent, wire, closed, part, want, got, ended, handled, output, responses>>

-----------------------------------------------------------------------------
(* Numbers and strings *)

Byte == 0 .. 255
Weights == <<1, 256, 256 * 256, 256 * 256 * 256>>

BigEndian(n, size) == [i \in 1 .. size |-> (n \div Weights[size - i + 1]) % 256]

Number(bytes) ==
    LET value[i \in 0 .. Len(bytes)] == IF i = 0 THEN 0 ELSE 256 * value[i - 1] + bytes[i]
    IN  value[Len(bytes)]

\* Does it fit into four bytes?
IsU32(n) == n \in Nat /\ n \div Weights[4] < 256

ZerosFrom(bytes, p) == {i \in p .. Len(bytes) : bytes[i] = 0}

\* Where a string ends that starts at a position: at a zero or behind the bytes.
StringEnd(bytes, p) == Min(ZerosFrom(bytes, p) \cup {Len(bytes) + 1})

UpToZero(bytes) == SubSeq(bytes, 1, StringEnd(bytes, 1) - 1)

\* The strings that zeros end.
Strings(bytes) ==
    LET count == Cardinality(ZerosFrom(bytes, 1))
        end[n \in 0 .. count] == IF n = 0 THEN 0 ELSE StringEnd(bytes, end[n - 1] + 1)
    IN  [n \in 1 .. count |-> SubSeq(bytes, end[n - 1] + 1, end[n] - 1)]

-----------------------------------------------------------------------------
(* Commands: a letter, and fields of the types that Layout tells *)

Letters ==
    [Optneg |-> 79, Macro |-> 68, Connect |-> 67, Helo |-> 72, Mail |-> 77, Rcpt |-> 82,
     Header |-> 76, Eoh |-> 78, Body |-> 66, BodyEob |-> 69, Quit |-> 81, Abort |-> 65,
     Disconnect |-> 75, Data |-> 84, Unknown |-> 85]

Kinds == DOMAIN Letters

Layout(kind) ==
    CASE kind = "Optneg"             -> <<"u32", "u32", "u32">>
      [] kind = "Macro"              -> <<"u8", "pairs">>
      [] kind = "Connect"            -> <<"string", "u8", "u16", "string">>
      [] kind = "Helo"               -> <<"string">>
      [] kind \in {"Mail", "Rcpt"}   -> <<"strings">>
      [] kind = "Header"             -> <<"string", "string">>
      [] kind = "Body"               -> <<"body">>
      [] OTHER                       -> <<>>

Command(kind, fields) == [kind |-> kind, fields |-> fields]
Refused == Command("refused", <<>>)

Size(type) == CASE type = "u8" -> 1 [] type = "u16" -> 2 [] type = "u32" -> 4

\* After a field at a position, 0 if there is none or no position: a parser takes as
\* many strings or pairs of strings as there are.
FieldEnd(type, data, p) ==
    LET zeros == ZerosFrom(data, p)
        pairs == IF Cardinality(zeros) % 2 = 0 THEN zeros ELSE zeros \ {Max(zeros)}
    IN  IF p = 0 THEN 0
        ELSE CASE type \in {"u8", "u16", "u32"} -> IF p + Size(type) > Len(data) + 1 THEN 0 ELSE p + Size(type)
               [] type = "string"  -> IF zeros = {} THEN 0 ELSE Min(zeros) + 1
               [] type = "strings" -> IF zeros = {} THEN 0 ELSE Max(zeros) + 1
               [] type = "pairs"   -> Max(pairs \cup {p - 1}) + 1
               [] type = "body"    -> Len(data) + 1

FieldValue(type, bytes) ==
    CASE type \in {"u8", "u16", "u32"}    -> Number(bytes)
      [] type \in {"string", "body"}      -> UpToZero(bytes)
      [] type \in {"strings", "pairs"}    -> Strings(bytes)

\* Where the fields of some types start in a packet, each where the one before
\* ends, and where the last one ends; 0 from the first on that is not there.
FieldStarts(types, data) ==
    LET start[k \in 0 .. Len(types)] ==
            IF k = 0 THEN 2 ELSE FieldEnd(types[k], data, start[k - 1])
    IN  start

\* Command::parse.  Bytes after the last field are ignored.
Parse(data) ==
    LET kinds == {k \in Kinds : data # <<>> /\ data[1] = Letters[k]}
        kind  == CHOOSE k \in kinds : TRUE
        types == Layout(kind)
        start == FieldStarts(types, data)
        field(k) == FieldValue(types[k], SubSeq(data, start[k - 1], start[k] - 1))
    IN  IF kinds = {} \/ start[Len(types)] = 0 THEN Refused
        ELSE Command(kind, [k \in 1 .. Len(types) |-> field(k)])

\* The MTA (external): each field in bytes, strings with a zero at the end.
\* Of a client whose address it does not know ("U") it tells no more.
UnknownFamily == 85

Zero(s) == Append(s, 0)

PutField(type, field) ==
    CASE type \in {"u8", "u16", "u32"}   -> BigEndian(field, Size(type))
      [] type = "string"                 -> Zero(field)
      [] type \in {"strings", "pairs"}   -> FlattenSeq([i \in DOMAIN field |-> Zero(field[i])])
      [] type = "body"                   -> field

Payload(c) ==
    LET known == IF c.kind = "Connect" /\ c.fields[2] = UnknownFamily THEN 2 ELSE Len(c.fields)
    IN  <<Letters[c.kind]>> \o FlattenSeq([i \in 1 .. known |-> PutField(Layout(c.kind)[i], c.fields[i])])

Packet(data) == BigEndian(Len(data), 4) \o data

\* What the MTA may send: fields of the types that their command has, with
\* strings that no zero ends early, in a packet whose length can be told.
Text == Seq(Byte \ {0})

IsField(type, v) ==
    CASE type = "u8"      -> v \in Byte
      [] type = "u16"     -> v \in Nat /\ v \div 256 < 256
      [] type = "u32"     -> IsU32(v)
      [] type = "string"  -> v \in Text
      [] type = "strings" -> v \in Seq(Text) \ {<<>>}
      [] type = "pairs"   -> v \in Seq(Text) /\ Len(v) % 2 = 0
      [] type = "body"    -> v \in Seq(Byte)

IsCommand(c) ==
    LET types == Layout(c.kind)
    IN  /\ c.kind \in Kinds
        /\ c = Command(c.kind, [k \in DOMAIN types |-> c.fields[k]])
        /\ \A k \in DOMAIN types : IsField(types[k], c.fields[k])
        /\ IsU32(Len(Payload(c)))

ASSUME PacketsAssumption ==
    /\ \A script \in Scripts : /\ script \in Seq(Range(script))
                               /\ \A c \in Range(script) : IsCommand(c)
    /\ \A reason \in Reasons : reason \in Text /\ IsU32(Len(reason) + 6)

\* The data of the packets that are complete in a stream of bytes: each begins where
\* the one before ends, and takes four bytes at least.
Frames(bytes) ==
    LET length(p) == Number(SubSeq(bytes, p + 1, p + 4))
        behind == Len(bytes) + 1
        after == [p \in 0 .. behind |->
                     IF p + 4 > Len(bytes) THEN behind ELSE Min({p + 4 + length(p), behind})]
        end[n \in 0 .. Len(bytes) \div 4] == IF n = 0 THEN 0 ELSE after[end[n - 1]]
    IN  [n \in {m \in 1 .. Len(bytes) \div 4 : end[m] < behind} |->
            SubSeq(bytes, end[n - 1] + 5, end[n])]

-----------------------------------------------------------------------------
(* Responses *)

MILTER_VERSION == 6
SMFIF_QUARANTINE == 32

ResponseLetters ==
    [Optneg |-> 79, Accept |-> 97, Continue |-> 99, Quarantine |-> 113, Replycode |-> 121]

\* Of the actions offered quarantine is taken, of the protocol nothing.
Negotiated(fields) ==
    Command("Optneg", <<Min({fields[1], MILTER_VERSION}),
                        SMFIF_QUARANTINE * ((fields[2] \div SMFIF_QUARANTINE) % 2), 0>>)

\* Three digits, a space and the reason.
Replycode(code, reason) ==
    Command("Replycode", <<[i \in 1 .. 3 |-> 48 + ((code \div <<100, 10, 1>>[i]) % 10)] \o <<32>> \o reason>>)

\* Which verdict it is, Milter is about.
Verdicts ==
    {Command("Continue", <<>>), Command("Accept", <<>>)}
    \cup {Command("Quarantine", <<reason>>) : reason \in Reasons}
    \cup {Replycode(code, reason) : code \in {457, 554}, reason \in Reasons}

ResponsesTo(c) ==
    CASE c.kind = "Optneg"                     -> {Negotiated(c.fields)}
      [] c.kind \in {"Macro", "Quit", "Abort"} -> {}
      [] c.kind \in {"Rcpt", "Eoh"}            -> Verdicts
      [] OTHER                                 -> {Command("Continue", <<>>)}

\* Mutant of Data: the length counts itself.
DataCounted(r) ==
    LET data == <<ResponseLetters[r.kind]>> \o
                CASE r.kind = "Optneg" -> FlattenSeq([i \in 1 .. 3 |-> BigEndian(r.fields[i], 4)])
                  [] r.kind \in {"Quarantine", "Replycode"} -> Zero(r.fields[1])
                  [] OTHER -> <<>>
    IN  BigEndian(Len(data) + 4, 4) \o data

\* Response::data.
Data(r) ==
    LET data == <<ResponseLetters[r.kind]>> \o
                CASE r.kind = "Optneg" -> FlattenSeq([i \in 1 .. 3 |-> BigEndian(r.fields[i], 4)])
                  [] r.kind \in {"Quarantine", "Replycode"} -> Zero(r.fields[1])
                  [] OTHER -> <<>>
    IN  BigEndian(Len(data), 4) \o data

\* What the MTA (external) takes the data of a packet for.
Reply(data) ==
    LET kinds == {k \in DOMAIN ResponseLetters : data # <<>> /\ data[1] = ResponseLetters[k]}
        kind == CHOOSE k \in kinds : TRUE
        number(i) == Number(SubSeq(data, 4 * i - 2, 4 * i + 1))
    IN  CASE kinds = {} -> Refused
          [] kind = "Optneg" -> Command(kind, [i \in 1 .. 3 |-> number(i)])
          [] kind \in {"Quarantine", "Replycode"} -> Command(kind, <<UpToZero(Tail(data))>>)
          [] OTHER -> Command(kind, <<>>)

-----------------------------------------------------------------------------
(* The MTA and the connection *)

Init ==
    /\ sent = <<>>
    /\ wire = <<>>
    /\ closed = FALSE
    /\ part = "length"
    /\ want = 4
    /\ got = <<>>
    /\ ended = FALSE
    /\ handled = <<>>
    /\ output = <<>>
    /\ responses = <<>>

session == <<part, want, got, ended, handled, output, responses>>

Offered == UNION {Range(script) : script \in Scripts}

Send(c) ==
    /\ ~closed
    /\ \E script \in Scripts : IsPrefix(Append(sent, c), script)
    /\ sent' = Append(sent, c)
    /\ wire' = wire \o Packet(Payload(c))
    /\ UNCHANGED <<closed, session>>

\* The connection ends, and any last part of what is under way does not arrive.
Close ==
    /\ ~closed
    /\ closed' = TRUE
    /\ \E n \in 0 .. Len(wire) : wire' = SubSeq(wire, 1, n)
    /\ UNCHANGED <<sent, session>>

-----------------------------------------------------------------------------
(* The session: read_command, handle_command, write_response *)

\* read_exact gets some of the bytes it still wants.
Read ==
    /\ ~ended
    /\ \E n \in 1 .. Min({want - Len(got), Len(wire)}) :
          /\ got' = got \o SubSeq(wire, 1, n)
          /\ wire' = SubSeq(wire, n + 1, Len(wire))
    /\ UNCHANGED <<sent, closed, part, want, ended, handled, output, responses>>

\* Mutant of ReadLength: data that are there are taken to be all.
ReadLengthShort ==
    /\ ~ended
    /\ part = "length"
    /\ Len(got) = want
    /\ part' = "data"
    /\ want' = Min({Number(got), Len(wire)})
    /\ got' = <<>>
    /\ UNCHANGED <<sent, wire, closed, ended, handled, output, responses>>

ReadLength ==
    /\ ~ended
    /\ part = "length"
    /\ Len(got) = want
    /\ part' = "data"
    /\ want' = Number(got)
    /\ got' = <<>>
    /\ UNCHANGED <<sent, wire, closed, ended, handled, output, responses>>

HasData == ~ended /\ part = "data" /\ Len(got) = want

\* Nothing can be written after a Quit, which closes this end, and perhaps not
\* when nobody is there to read it.
WriteFails == closed \/ \E i \in DOMAIN handled : handled[i].kind = "Quit"
WriteWorks == \A i \in DOMAIN handled : handled[i].kind # "Quit"

Respond(c) ==
    \/ /\ ResponsesTo(c) = {}
       /\ ended' \in {FALSE, c.kind = "Quit" /\ WriteFails}
       /\ UNCHANGED <<output, responses>>
    \/ /\ WriteWorks
       /\ \E r \in ResponsesTo(c) :
             /\ output' = output \o Data(r)
             /\ responses' = Append(responses, r)
       /\ UNCHANGED ended
    \/ /\ WriteFails
       /\ ResponsesTo(c) # {}
       /\ ended' = TRUE
       /\ UNCHANGED <<output, responses>>

NextLength == part' = "length" /\ want' = 4

HandleCommand ==
    /\ HasData
    /\ \E c \in {Parse(got)} \ {Refused} :
          /\ handled' = Append(handled, c)
          /\ Respond(c)
    /\ NextLength
    /\ got' = <<>>
    /\ UNCHANGED <<sent, wire, closed>>

\* "invalid milter format"
RefuseCommand ==
    /\ HasData
    /\ Parse(got) = Refused
    /\ ended' = TRUE
    /\ UNCHANGED <<sent, wire, closed, part, want, got, handled, output, responses>>

\* Mutant of ReadEnd: the end is only seen between two packets.
ReadEndBetween ==
    /\ ~ended
    /\ closed
    /\ wire = <<>>
    /\ part = "length" /\ got = <<>>
    /\ ended' = TRUE
    /\ UNCHANGED <<sent, wire, closed, part, want, got, handled, output, responses>>

\* The bytes wanted do not come any more.
ReadEnd ==
    /\ ~ended
    /\ closed
    /\ wire = <<>>
    /\ Len(got) < want
    /\ ended' = TRUE
    /\ UNCHANGED <<sent, wire, closed, part, want, got, handled, output, responses>>

Step == Read \/ ReadLength \/ HandleCommand \/ RefuseCommand \/ ReadEnd

Next == (\E c \in Offered : Send(c)) \/ Close \/ Step

Spec == Init /\ [][Next]_vars

\* Bytes sent arrive, and the session waits for nothing else.
FairSpec == Spec /\ WF_vars(Step)

-----------------------------------------------------------------------------
(* Properties *)

\* What has been read of the packet being read, and what is to come.
Remaining == (IF part = "data" THEN BigEndian(want, 4) ELSE <<>>) \o got \o wire

\* The command the filter takes a command for: a body ends at a zero, and of
\* a client without address no Connect is understood.
Understood(c) ==
    CASE c.kind = "Connect" /\ c.fields[2] = UnknownFamily -> Refused
      [] c.kind = "Body"                                    -> Command("Body", <<UpToZero(c.fields[1])>>)
      [] OTHER                                              -> c

\* Read byte by byte, in pieces of any size, and cut off anywhere, the
\* connection is a channel of commands: each is handled as it was sent, in order,
\* and never a part of one (read_command, Command::parse).
Channel ==
    INSTANCE CommandChannel
        WITH Commands <- Offered,
             queue <- SubSeq(sent, Len(handled) + 1, Len(handled) + Len(Frames(Remaining))),
             open <- ~ended

ImplementsChannel == Channel!Spec

\* What the MTA reads from the connection are the responses that were given, one
\* for each command that has one: Response::data counts and ends its texts right.
ResponsesRead ==
    LET read == Frames(output)
    IN  /\ FlattenSeq([i \in DOMAIN read |-> Packet(read[i])]) = output
        /\ [i \in DOMAIN read |-> Reply(read[i])] = responses

\* A session waits neither for bytes that are not to come nor for a mail server
\* that is gone: all that has been sent is handled, unless the session ends, and it
\* does not outlive its connection.
SessionProceeds ==
    /\ \A n \in 1 .. Max({Len(script) : script \in Scripts}) :
          Len(sent) >= n ~> (Len(handled) >= n \/ ended)
    /\ closed ~> ended
=============================================================================
