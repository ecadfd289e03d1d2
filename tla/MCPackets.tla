----------------------------- MODULE MCPackets -----------------------------
(* A small instance of Packets for TLC. *)
EXTENDS Packets

A == <<65>>
Empty == <<>>

\* Commands of every layout, texts that are empty, a client without address,
\* a body with a zero in it, and commands after a Quit.
MCScripts ==
    {<<Command("Optneg", <<2, 33, 7>>), Command("Macro", <<67, <<A, Empty>>>>), Command("Eoh", Empty)>>,
     <<Command("Optneg", <<256, 31, 0>>), Command("Connect", <<A, 52, 300, A>>)>>,
     <<Command("Connect", <<A, UnknownFamily, 0, Empty>>), Command("Abort", Empty)>>,
     <<Command("Mail", <<<<Empty, A>>>>), Command("Rcpt", <<<<A>>>>), Command("Header", <<A, Empty>>)>>,
     <<Command("Body", <<<<65, 0, 66>>>>), Command("BodyEob", Empty), Command("Quit", Empty)>>,
     <<Command("Quit", Empty), Command("Helo", <<A>>), Command("Data", Empty)>>}

MCReasons == {A}
=============================================================================
