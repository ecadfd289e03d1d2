------------------------------ MODULE MCMilter ------------------------------
(* A small instance of Milter for TLC. *)
EXTENDS Milter

CONSTANTS s1, host, sender, spam, dialup, friend

Mcname == [st \in Statements |->
    CASE st = spam -> "spammer" [] st = dialup -> "dynamic" [] st = friend -> "known"]

\* The host is on a dialup network that a spammer uses; the sender may be known.
MCConcerning == [e \in Entities |-> IF e = host THEN {spam, dialup} \cap Statements ELSE {friend} \cap Statements]

MCMentionLists == {<<host>>, <<sender, host>>}
=============================================================================
