---------------------------- MODULE MCTextForms ----------------------------
(* A small instance of TextForms for TLC. *)
EXTENDS TextForms

MCLetters == {"fe", "com", "user", "a", "spammer", "AS", "Domain", "key", "date", "hash"}
MCDigits == {"0", "1", "4", "30", "80", "00042", "42", "99999999999"}
MCHexadecimal == {"fe", "a", "0", "1", "4", "30", "80", "42", "00042", "99999999999"}
MCTypeNames == {"AS", "Domain"}

Same(ts) == [t \in ts |-> t]

MCNumbers == Same({<<d>> : d \in {"0", "1", "4", "30", "80", "42"}}) @@ (<<"00042">> :> <<"42">>)

MCAddresses4 ==
    Same({<<"80", ".", "1", ".", "0", ".", "0">>, <<"80", ".", "0", ".", "0", ".", "0", "/", "30">>})

\* As the library writes them: leading zeros dropped, the longest run of zeros too.
MCAddresses6 ==
    Same({<<"1", ":", ":", "1">>, <<"1", ":", ":", "/", "80">>}) @@
    (<<"0", ":", ":", "1">> :> <<":", ":", "1">>) @@
    (<<"0", "fe", ":", ":", "1">> :> <<"fe", ":", ":", "1">>)

MCKeys == {<<"key">>, <<"key", "/", "1">>}
MCCalendar == {<<"42", "-", "4", "-", "30">>, <<"42", "-", "4", "-", "1">>}

\* Letters and digits for every word of an address.
MCDigest(t) == <<"hash">> \o [i \in DOMAIN t |-> IF t[i] \in Alphanumeric THEN t[i] ELSE "/"] \o <<"=">>

MCOpinion == [date |-> <<"80">>, valid |-> <<"30">>, serial |-> <<"0">>, certainty |-> <<"4">>,
              signer |-> <<"key">>, signature |-> <<"key", "=">>]

-----------------------------------------------------------------------------
Address == <<"user", "@", "a", ".", "com">>

\* A text of every kind and form, some of them not an entity.
EntityTexts ==
    {<<"a", ".", "com">>, <<"1", "a", "-", "80", ".", "user", ".", "com">>, <<"a", ".">>,
     Address, <<"user", ".", "a", "+", "1", "@", "com">>, <<"#">> \o Address, <<"@", "com">>,
     <<"#", "hash", "=", "=">>, <<"#", "1", "/", "a">>, <<"#", "=">>,
     <<"AS", "42">>, <<"AS", "00042">>, <<"AS", "99999999999">>, <<"AS">>,
     <<"a", "(", "AS", ")">>, <<"a", "_", "user", "(", "Domain", "bar", "AS", ",", "AS", ")">>,
     <<"a", "(", "AS", ",", ")">>, <<"a", "(", "user", ")">>,
     <<"secp256k1:", "key">>, <<"secp256k1:", "key", "/", "1">>, <<"secp256k1:", "=">>,
     <<"80", ".", "80", ".", "80", ".", "80">>, <<"80", ".", "1", ".", "0">>}
    \cup DOMAIN MCAddresses4 \cup DOMAIN MCAddresses6

\* All texts of up to three words of an alphabet.
ShortTexts == BoundedSeq({"fe", "user", "AS", "80", ".", "-", "@", "#", "=", ":", "/"}, 3)

\* Texts that end the event loop: a key that is none, a day that is none.
FatalTexts == {<<"spammer", "(", "secp256k1:", "user", ")">>, <<"?", "secp256k1:", "user">>,
               <<"!sync ", "42", "-", "4", "-", "80">>}

Forms(name, texts) ==
    {name \o <<"(">> \o Joined(texts, ",") \o <<")">>, name \o <<" ">> \o Joined(texts, " ")}

Name == <<"spammer">>

AskedLines ==
    {<<"?">> \o t : t \in EntityTexts} \cup
    {<<"!sync ">> \o t : t \in MCCalendar \cup {<<"80">>, <<"42", "-", "4">>, <<"user">>, <<"4", "-", "-", "1">>}}

MCLines ==
    UNION {Forms(Name, <<t>>) : t \in EntityTexts \cup ShortTexts}
    \cup UNION {Forms(<<"a", "_", "_", "user">>, <<t, u>>) : t, u \in EntityTexts}
    \cup UNION {Forms(Name, <<t, u, t, u>>) : t, u \in {Address, <<"AS", "42">>, <<"a", "(", "AS", ")">>}}
    \cup {Name, Name \o <<" ", " ", "com">>, Name \o <<"(", "com", ",", "com">>, <<"_", "(", "com", ")">>}
    \cup Forms(Name, [i \in 1 .. 5 |-> IF i = 5 THEN <<"com">> ELSE <<"AS", "42">>])
    \cup AskedLines \cup FatalTexts
=============================================================================
