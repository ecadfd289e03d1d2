----------------------------- MODULE MCListing -----------------------------
(* A small instance of Listing for TLC. *)
EXTENDS Listing

CONSTANTS host, net, alice, bob

\* Two names, a statement of two signers, an opinion renewed the day after.
On(name, about, signer, date) ==
    [statement |-> [name |-> name, about |-> about], signer |-> signer, date |-> date]

MCTexts ==
    <<On(2, host, bob, 1), On(1, net, alice, 1), On(2, host, alice, 2),
      On(2, net, bob, 1), On(2, host, alice, 1)>>

MCOpinions == Range(MCTexts)

MCsignature == [o \in MCOpinions |-> CHOOSE i \in DOMAIN MCTexts : MCTexts[i] = o]
=============================================================================
