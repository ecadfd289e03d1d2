------------------------------ MODULE TextForms ------------------------------
(***************************************************************************)
(* How statements are read and written (src/model/parser.rs, the Display   *)
(* and FromStr of the model types): a line typed by the user becomes a     *)
(* statement, its entities become texts in a row of the database and the   *)
(* statement and its opinion texts in a message to the peers, and both are *)
(* read again.                                                             *)
(*                                                                         *)
(* A text is a sequence of words; all characters of a word are of one      *)
(* class, so a parser that takes the longest run takes whole words.  A     *)
(* parser maps a text and a position in it to a reading: the position      *)
(* after what it has read and the entity found there.  What libraries do   *)
(* with a text (numbers, addresses, keys, digests, dates) is tables.       *)
(***************************************************************************)
EXTENDS Naturals, SequencesExt, FiniteSetsExt

CONSTANTS
    Lines,       \* the lines a user may type: set of texts
    Letters,     \* words of letters
    Digits,      \* words of decimal digits
    Hexadecimal, \* those of both that have only hexadecimal digits
    TypeNames,   \* words of letters that name a type of entity
    Numbers,     \* digits that are a number of 32 bits, to how it is written
    Addresses4,  \* texts that are an IPv4 range, to how it is written
    Addresses6,  \* the same for IPv6
    Keys,        \* base64 texts that are a public key
    Calendar,    \* dates in three parts that exist
    Digest(_),   \* base64 text of the hash of an address
    Opinion      \* the opinion on a typed statement

\* What is_a of localpart takes besides letters and digits, and other marks and
\* fixed words that parsers look for.  Backquote and bar go by their names, and any
\* character that no parser takes by "other".
LocalMarks == {".", "!", "#", "$", "%", "&", "'", "*", "+", "-", "/", "=", "?", "^", "_", "backquote", "{", "bar", "}", "~"}
Marks == LocalMarks \cup {"@", ",", "(", ")", ":", ";", " ", "secp256k1:", "!sync ", "other"}

ASSUME WordAssumption ==
    /\ Letters \cap Digits = {}
    /\ (Letters \cup Digits) \cap Marks = {}
    /\ Digits \subseteq Hexadecimal
    /\ Hexadecimal \subseteq Letters \cup Digits
    /\ TypeNames \subseteq Letters
    /\ "AS" \in Letters \ Hexadecimal

VARIABLES
    line,   \* what the user types
    fate,   \* what became of it: "typed", "refused", "stored", or "dead", the loop ended
    stored, \* the statement stored and published, None before
    row,    \* its entities' texts in the database
    back,   \* the statement read from the row: None, Unreadable or a statement
    heard   \* what a peer reads from the message, likewise with the opinion

vars == <<line, fate, stored, row, back, heard>>

None == [text |-> "none"]
Unreadable == [text |-> "unreadable"]

-----------------------------------------------------------------------------
(* Parser combinators: positions, 0 for a failure, after which all fail *)

Alphanumeric == Letters \cup Digits

\* Mutant of Local: a comma may be in an address.
LocalWithComma == Alphanumeric \cup LocalMarks \cup {","}

Local == Alphanumeric \cup LocalMarks

\* Mutant of Base64: the other alphabet, for file names.
Base64ForFiles == Alphanumeric \cup {"-", "_"}

Base64 == Alphanumeric \cup {".", "/", "+"}

\* After one word of a class, and after the longest run of them, which may be empty.
One(t, i, class) == IF i \in DOMAIN t /\ t[i] \in class THEN i + 1 ELSE 0
Tag(t, i, word) == One(t, i, {word})
Run(t, i, class) ==
    IF i = 0 THEN 0 ELSE Min({j \in i .. Len(t) : t[j] \notin class} \cup {Len(t) + 1})
Run1(t, i, class) == Run(t, One(t, i, class), class)

\* As many items as there are, none of them empty: after each position one that starts there.
Many0(i, item) ==
    LET end[j \in DOMAIN item] == IF item[j] = 0 THEN j ELSE end[item[j]] IN end[i]

Positions(t) == 0 .. Len(t) + 1

-----------------------------------------------------------------------------
(* The entities: readings *)

NoEntity == [next |-> 0, kind |-> "none", text |-> <<>>]
Panic == [NoEntity EXCEPT !.kind = "panic"]

Reading(i, kind, text) == [next |-> i, kind |-> kind, text |-> text]

\* What was recognized from i up to j is the entity's text.
Recognized(t, i, j, kind) ==
    IF j = 0 THEN NoEntity ELSE Reading(j, kind, SubSeq(t, i, j - 1))

\* map_res: the text recognized must convert, and is then as the library writes it.
Converted(t, i, j, kind, table) ==
    IF j = 0 \/ SubSeq(t, i, j - 1) \notin DOMAIN table THEN NoEntity
    ELSE Reading(j, kind, table[SubSeq(t, i, j - 1)])

Label(t, i) == Run(t, Run1(t, i, Alphanumeric), Alphanumeric \cup {"-"})
LabelsAndDots(t) == [j \in Positions(t) |-> Tag(t, Label(t, j), ".")]

DomainEnd(t, i) == Run1(t, Many0(i, LabelsAndDots(t)), Letters)
EMailEnd(t, i) == DomainEnd(t, Tag(t, Run1(t, i, Local), "@"))
Base64End(t, i) == Run(t, Run1(t, i, Base64), {"="})

domain(t, i) == Recognized(t, i, DomainEnd(t, i), "Domain")
email(t, i) == Recognized(t, i, EMailEnd(t, i), "EMail")

hash_value(t, i) ==
    LET at == Tag(t, i, "#")
    IN  CASE at = 0 -> NoEntity
          [] at # 0 /\ EMailEnd(t, at) # 0 ->
                Reading(EMailEnd(t, at), "HashValue", Digest(SubSeq(t, at, EMailEnd(t, at) - 1)))
          [] OTHER -> Recognized(t, at, Base64End(t, at), "HashValue")

asn(t, i) ==
    LET at == Tag(t, i, "AS")
        number == Converted(t, at, Run1(t, at, Digits), "AS", Numbers)
    IN  IF at = 0 \/ number = NoEntity THEN NoEntity
        ELSE [number EXCEPT !.text = <<"AS">> \o @]

\* A slash and digits after the address, if there are.
PrefixEnd(t, i) ==
    LET prefix == Run1(t, Tag(t, i, "/"), Digits)
    IN  IF prefix = 0 THEN i ELSE prefix

DigitsAndDot(t, i) == Tag(t, Run1(t, i, Digits), ".")

IPv4End(t, i) ==
    PrefixEnd(t, Run1(t, DigitsAndDot(t, DigitsAndDot(t, DigitsAndDot(t, i))), Digits))
IPv6End(t, i) == PrefixEnd(t, Run1(t, Run1(t, i, Hexadecimal), Hexadecimal \cup {":"}))

ipv4(t, i) == Converted(t, i, IPv4End(t, i), "IPv4", Addresses4)
ipv6(t, i) == Converted(t, i, IPv6End(t, i), "IPv6", Addresses6)

NameEnd(t, i) == Run(t, Run1(t, i, Letters), Letters \cup {"_"})

\* Types separated by bars and commas, in parentheses.
TypeEnd(t, i) == One(t, i, TypeNames)
Between == {"bar", ","}
MoreTypes(t) == [j \in Positions(t) |-> TypeEnd(t, One(t, j, Between))]
TemplateEnd(t, i) ==
    Tag(t, Many0(TypeEnd(t, Tag(t, NameEnd(t, i), "(")), MoreTypes(t)), ")")

template(t, i) == Recognized(t, i, TemplateEnd(t, i), "Template")

\* The text of a key of the right form must be a key: from_str(..).expect(..).
signer(t, i) ==
    LET at == Tag(t, i, "secp256k1:")
        end == Base64End(t, at)
    IN  IF end # 0 /\ SubSeq(t, at, end - 1) \notin Keys THEN Panic
        ELSE Recognized(t, i, end, "Signer")

\* The first alternative that reads something; no later one is tried after it.
entity(t, i) ==
    LET readings == <<email(t, i), hash_value(t, i), template(t, i), asn(t, i), signer(t, i),
                      domain(t, i), ipv4(t, i), ipv6(t, i)>>
        read == {k \in DOMAIN readings : readings[k] # NoEntity}
    IN  IF read = {} THEN NoEntity ELSE readings[Min(read)]

EntityText(e) == IF e.kind = "HashValue" THEN <<"#">> \o e.text ELSE e.text

EntityOf(reading) == [kind |-> reading.kind, text |-> reading.text]

\* Entity::from_str: all of the text is read.
ReadEntity(t) == IF entity(t, 1).next = Len(t) + 1 THEN EntityOf(entity(t, 1)) ELSE Unreadable

hash_emails(s) ==
    LET hashed(e) == IF e.kind = "EMail" THEN [kind |-> "HashValue", text |-> Digest(e.text)] ELSE e
    IN  [s EXCEPT !.entities = [i \in DOMAIN @ |-> hashed(@[i])]]

-----------------------------------------------------------------------------
(* Statements: the standard form, and the form with spaces *)

\* What stands before, between and behind the entities, in the standard form and
\* in the one with spaces.
Opening(form) == IF form = "standard" THEN "(" ELSE " "
Separator(form) == IF form = "standard" THEN "," ELSE " "

\* After one of these; there may be more than one space.
After(t, i, mark) == IF mark = " " THEN Run1(t, i, {" "}) ELSE Tag(t, i, mark)

\* Readings of entities from i, each after the first behind a separator.  The
\* list stops before a separator that no entity follows, and at a panic.
EntityList(t, i, form) ==
    LET list[j \in 0 .. Len(t) + 1] ==
            LET e == entity(t, j)
            IN  IF j = 0 \/ e = NoEntity THEN <<>>
                ELSE <<e>> \o list[After(t, e.next, Separator(form))]
    IN  list[i]

\* The statement of a name and entities that are all of the text, or how that fails.
Assembled(t, list, close) ==
    CASE list # <<>> /\ Last(list) = Panic -> Panic
      [] list # <<>> /\ Last(list) # Panic /\ SubSeq(t, Last(list).next, Len(t)) = close ->
            [name |-> SubSeq(t, 1, NameEnd(t, 1) - 1),
             entities |-> [i \in DOMAIN list |-> EntityOf(list[i])]]
      [] OTHER -> Unreadable

Reads(t, form) ==
    Assembled(t, EntityList(t, After(t, NameEnd(t, 1), Opening(form)), form),
              IF form = "standard" THEN <<")">> ELSE <<>>)

\* Statement::from_str.  A name is followed by a parenthesis or by a space, so
\* only one of the forms can apply.
ReadStatement(t) ==
    Reads(t, IF Tag(t, NameEnd(t, 1), "(") # 0 THEN "standard" ELSE "spaced")

\* The texts of a statement: in the form it is written in, and as one may type it.
Joined(texts, separator) ==
    LET joined[n \in 1 .. Len(texts)] ==
            IF n = 1 THEN texts[1] ELSE joined[n - 1] \o <<separator>> \o texts[n]
    IN  joined[Len(texts)]

Texts(s) == [i \in DOMAIN s.entities |-> EntityText(s.entities[i])]

StatementText(s) == s.name \o <<"(">> \o Joined(Texts(s), ",") \o <<")">>
SpacedText(s) == s.name \o <<" ">> \o Joined(Texts(s), " ")

-----------------------------------------------------------------------------
(* Opinions and dates: parts of a text *)

\* What is between the separators, before the first and after the last.
Split(t, separator) ==
    LET mark[n \in 0 .. Len(t) + 1] ==
            IF n = 0 THEN 0
            ELSE Min({j \in mark[n - 1] + 1 .. Len(t) : t[j] = separator} \cup {Len(t) + 1})
    IN  [n \in {m \in 1 .. Len(t) + 1 : mark[m - 1] <= Len(t)} |-> SubSeq(t, mark[n - 1] + 1, mark[n] - 1)]

\* Mutant of OpinionText: two of the numbers swapped.
SwappedText(o) ==
    Joined(<<o.valid, o.date, o.serial, o.certainty, <<>>, <<"secp256k1:">> \o o.signer, o.signature>>, ";")

\* The comment is empty: nothing gives an opinion another one.
OpinionText(o) ==
    Joined(<<o.date, o.valid, o.serial, o.certainty, <<>>, <<"secp256k1:">> \o o.signer, o.signature>>, ";")

IsKey(t) == t # <<>> /\ Head(t) = "secp256k1:" /\ Tail(t) \in Keys

ReadOpinion(t) ==
    LET parts == Split(t, ";")
    IN  CASE Len(parts) # 7 \/ (\E k \in 1 .. 4 : parts[k] \notin DOMAIN Numbers) -> Unreadable
          [] Len(parts) = 7 /\ (\A k \in 1 .. 4 : parts[k] \in DOMAIN Numbers) /\ ~IsKey(parts[6]) -> Panic
          [] OTHER -> [date |-> Numbers[parts[1]], valid |-> Numbers[parts[2]],
                       serial |-> Numbers[parts[3]], certainty |-> Numbers[parts[4]],
                       signer |-> Tail(parts[6]), signature |-> parts[7]]

\* Three numbers must be a day of the calendar; of any other number of parts
\* the first is the number of a day.
ReadDate(t) ==
    LET parts == Split(t, "-")
    IN  CASE \E k \in (IF Len(parts) = 3 THEN 1 .. 3 ELSE {1}) : parts[k] \notin DOMAIN Numbers -> Unreadable
          [] Len(parts) = 3 /\ t \notin Calendar -> Panic
          [] OTHER -> [day |-> t]

-----------------------------------------------------------------------------
(* What is assumed of libraries: what they write they can read *)

Text == Seq(Alphanumeric \cup Marks)

\* Letters, digits and two marks, and padding.
IsBase64(t) ==
    /\ t \in Text
    /\ \E n \in 1 .. Len(t) : \A i \in 1 .. Len(t) :
          t[i] \in IF i <= n THEN Alphanumeric \cup {"+", "/"} ELSE {"="}

\* So written, a text is converted to itself.
Converts(table, t) == t \in DOMAIN table /\ table[t] = t

IsWrittenNumber(t) ==
    t \in Text /\ t # <<>> /\ Range(t) \subseteq Digits /\ Converts(Numbers, t)

\* Four numbers between dots, and a fifth behind a slash, or not.
IsWritten4(t) ==
    /\ t \in Text /\ Len(t) \in {7, 9} /\ Converts(Addresses4, t)
    /\ \A i \in 1 .. Len(t) :
          t[i] \in CASE i \in {2, 4, 6} -> {"."} [] i = 8 -> {"/"} [] OTHER -> Digits

\* An IPv6 range may be written in a way that the parser does not take.
IsWritten6(t) ==
    /\ t \in Text /\ Range(t) \subseteq Hexadecimal \cup {":", ".", "/"} /\ ":" \in Range(t)
    /\ t \in DOMAIN Addresses6 => Addresses6[t] = t

Hashable(t) ==
    \A i \in 1 .. Len(t) : \A j \in i .. Len(t) : IsBase64(Digest(SubSeq(t, i, j)))

IsOpinion(o) ==
    /\ o = [date |-> o.date, valid |-> o.valid, serial |-> o.serial, certainty |-> o.certainty,
            signer |-> o.signer, signature |-> o.signature]
    /\ {o.date, o.valid, o.serial, o.certainty} \subseteq {n \in Range(Numbers) : IsWrittenNumber(n)}
    /\ o.signer \in Keys
    /\ \A t \in {o.signer, o.signature} : t \in Text /\ ";" \notin Range(t)

ASSUME TextAssumption ==
    /\ \A t \in Lines : t \in Text /\ Hashable(t)
    /\ \A n \in Range(Numbers) : IsWrittenNumber(n)
    /\ \A a \in Range(Addresses4) : IsWritten4(a)
    /\ \A a \in Range(Addresses6) : IsWritten6(a)
    /\ IsOpinion(Opinion)

-----------------------------------------------------------------------------
(* The life of a line *)

Init ==
    /\ line \in Lines
    /\ fate = "typed"
    /\ stored = None
    /\ row = <<>>
    /\ back = None
    /\ heard = None

\* "!sync" with a date, or "?" with an entity: what is read is only looked up.
Ask ==
    /\ fate = "typed"
    /\ line[1] \in {"!sync ", "?"}
    /\ LET asked == IF line[1] = "?" THEN entity(Tail(line), 1) ELSE ReadDate(Tail(line))
       IN  fate' = IF asked = Panic THEN "dead" ELSE "answered"
    /\ UNCHANGED <<line, stored, row, back, heard>>

\* What does not read is refused.
Refuse ==
    /\ fate = "typed"
    /\ line[1] \notin {"!sync ", "?"}
    /\ \E failure \in {Unreadable, Panic} :
          /\ ReadStatement(line) = failure
          /\ fate' = IF failure = Panic THEN "dead" ELSE "refused"
    /\ UNCHANGED <<line, stored, row, back, heard>>

\* The statement gets a row, with addresses hashed or not as the templates
\* known require, and columns for the texts of four entities.
Store ==
    /\ fate = "typed"
    /\ line[1] \notin {"!sync ", "?"}
    /\ \E said \in {ReadStatement(line)} \ {Unreadable, Panic} : \E s \in {said, hash_emails(said)} :
          /\ stored' = s
          /\ row' = SubSeq(Texts(s), 1, Min({4, Len(s.entities)}))
    /\ fate' = "stored"
    /\ UNCHANGED <<line, back, heard>>

\* A look-up, a list or an answer to a peer converts the row.
Get ==
    /\ fate = "stored"
    /\ back = None
    /\ LET entities == [i \in DOMAIN row |-> ReadEntity(row[i])]
       IN  back' = IF \E i \in DOMAIN row : entities[i] = Unreadable THEN Unreadable
                   ELSE [name |-> stored.name, entities |-> entities]
    /\ UNCHANGED <<line, fate, stored, row, heard>>

\* A peer reads the message the statement was published in.
Hear ==
    /\ fate = "stored"
    /\ heard = None
    /\ LET statement == ReadStatement(StatementText(stored))
           opinion == ReadOpinion(OpinionText(Opinion))
       IN  heard' = IF {statement, opinion} \cap {Unreadable, Panic} # {} THEN Unreadable
                    ELSE [statement |-> statement, opinion |-> opinion]
    /\ UNCHANGED <<line, fate, stored, row, back>>

Next == Ask \/ Refuse \/ Store \/ Get \/ Hear

Spec == Init /\ [][Next]_vars

-----------------------------------------------------------------------------
(* Properties *)

\* "retrieve an existing record by id" (repository.rs): a row that can be read at
\* all is read as the statement that was stored, every entity of the same kind,
\* although entities are kept as mere texts (Display and FromStr of Entity) -
\* up to the fourth entity, behind which they are lost (persist).
ReadBackAsStored ==
    back \notin {None, Unreadable}
    => back = [stored EXCEPT !.entities = SubSeq(@, 1, Min({4, Len(@)}))]

\* A message that can be read at all is read by the peer as the statement and
\* the opinion that were published (Display and FromStr of Statement, Opinion).
HeardAsSaid ==
    heard \notin {None, Unreadable} => heard.statement = stored /\ heard.opinion = Opinion

\* The one text form there is keeps what it stands for, in rows and in messages.
ReadAsMeant == ReadBackAsStored /\ HeardAsSaid

\* No text of a stored entity but that of an IPv6 range fails to read: the
\* order in which entity() tries its alternatives hides none of the others.
OthersReadable ==
    Unreadable \in {back, heard} => \E i \in DOMAIN stored.entities : stored.entities[i].kind = "IPv6"

\* "standard form, and optionally human-typeable form with spaces" (parser.rs):
\* both forms of a statement say the same, whichever was typed.
FormsAgree == stored # None => ReadStatement(SpacedText(stored)) = ReadStatement(StatementText(stored))

\* from_str(..).expect("network message"): what a node publishes its peers can read.
MessagesReadable == heard # Unreadable
=============================================================================
