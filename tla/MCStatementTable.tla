-------------------------- MODULE MCStatementTable --------------------------
(* A small instance of StatementTable for TLC. *)
EXTENDS StatementTable

MCOctetsOf == [IPv4 |-> 1, IPv6 |-> 2]

com == Domain(<<"com">>)
example == Domain(<<"example", "com">>)
user == EMail("user", <<"mail", "example", "com">>)
net == Range4(0, 1)      \* 0 to 7: the second digit runs full and the first counts up
sub == Range4(6, 3)      \* 6 and 7
net6 == Range6(0, 0)     \* all addresses of the other family

spammer == Template("spammer", <<{"HashValue", "IPv4", "IPv6", "Domain"}>>)
dynamic == Template("dynamic", <<{"AS", "IPv4"}>>)
asn == Template("asn", <<{"IPv4"}, {"AS"}>>)
abuse == Template("abuse", <<{"Domain"}, {"EMail"}, {"Domain"}, {"Domain"}>>)

MCTemplates == {RootTemplate, spammer, dynamic, asn, abuse}

Say(n, es) == [name |-> n, entities |-> es]

MCStatements ==
    {TemplateStatement(t) : t \in MCTemplates \ {RootTemplate}} \cup
    {Say("spammer", <<user>>), Say("spammer", <<com>>), Say("spammer", <<example>>),
     Say("spammer", <<net>>), Say("spammer", <<net6>>), Say("dynamic", <<AS(1)>>),
     Say("asn", <<sub, AS(1)>>), Say("asn", <<sub, AS(2)>>),
     Say("abuse", <<example, user, com, example>>), Say("abuse", <<example, user, com, com>>)}

Old(s) == [RowOf(s) EXCEPT !.min = Null, !.max = Null]

\* Some templates, and a range stored before there were columns for it.
Rows == <<RowOf(TemplateStatement(spammer)), RowOf(TemplateStatement(asn)),
          RowOf(TemplateStatement(abuse)), Old(Say("spammer", <<net>>))>>

MCDatabases == {[i \in Ids |-> IF i \in DOMAIN Rows THEN Rows[i] ELSE Null]}

MCQueries ==
    {user, example, Domain(<<"mail", "example", "com">>), com, AS(1),
     Range4(3, 4), Range4(6, 4), Range4(8, 4), net, Range6(1, 8)}

MCEntitySet ==
    LET said == UNION {Range(s.entities) : s \in MCStatements} \cup MCTemplates \cup MCQueries
    IN  said \cup {hash_emails(e) : e \in said}
=============================================================================
