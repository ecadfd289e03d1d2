----------------------------- MODULE MCStorage ------------------------------
(* A small instance of Storage for TLC. *)
EXTENDS Storage

CONSTANTS root, signer, spammer, host, own1, own2, peer

MCTemplates == {spammer}
MCInputs == {TemplateStatement(spammer), [name |-> spammer, entity |-> host]}

Says(k, d, v, n) == [signer |-> k, date |-> d, valid |-> v, serial |-> n]
MCBatches ==
    {<<>>, <<Says(peer, 0, 0, 0)>>, <<Says(peer, 1, 1, 0), Says(own1, 0, 1, 1)>>}
=============================================================================
