-------------------------- MODULE MCReputationNet ---------------------------
(* A small instance of ReputationNet for TLC. *)
EXTENDS ReputationNet

CONSTANTS template, spammer, host, alice, bob,
          typed, synced, connected, restarted, lost

Signed(n, s) == [statement |-> s, signer |-> n, date |-> 0, valid |-> OwnValid, serial |-> 0]
Listed == Signed(alice, [name |-> spammer, about |-> host])
Added == Signed(alice, Template(spammer))

\* Both start empty; both know the template that alice has added; alice has
\* added it and used it before bob has come to know.
MCDatabases ==
    {[n \in Nodes |-> {}],
     [n \in Nodes |-> {Added}],
     [n \in Nodes |-> IF n = alice THEN {Added, Listed} ELSE {}]}

MCLimits ==
    [typed |-> typed, synced |-> synced, connected |-> connected,
     restarted |-> restarted, lost |-> lost]
=============================================================================
