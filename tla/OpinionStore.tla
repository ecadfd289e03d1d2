---------------------------- MODULE OpinionStore ----------------------------
(***************************************************************************)
(* What the opinion store promises, with no tables, row ids, caches or     *)
(* start-up: it holds at most one opinion of a signer on a statement; an   *)
(* opinion makes room only for one that overrides it, and disappears only  *)
(* once it has expired.                                                    *)
(***************************************************************************)
EXTENDS Opinions

CONSTANTS Statements, Signers

VARIABLES
    held,    \* the opinions held
    today

vars == <<held, today>>

HeldOpinions == [statement : Statements, signer : Signers,
                 date : Dates, valid : Valids, serial : Serials]

SameSubject(o, p) == o.statement = p.statement /\ o.signer = p.signer

TypeOK ==
    /\ held \subseteq HeldOpinions
    /\ today \in Nat

Init ==
    /\ held = {}
    /\ today \in Nat

Accept(o) ==
    /\ \A p \in held : SameSubject(o, p) => Supersedes(o, p)
    /\ held' = {p \in held : ~SameSubject(o, p)} \cup {o}
    /\ UNCHANGED today

Expire ==
    /\ held' = {o \in held : ~Expired(o, today)}
    /\ UNCHANGED today

NextDay ==
    /\ today' = today + 1
    /\ UNCHANGED held

Next ==
    \/ \E o \in HeldOpinions \cap held' : Accept(o)   \* what is accepted is held
    \/ Expire
    \/ NextDay

Spec == Init /\ [][Next]_vars
=============================================================================
