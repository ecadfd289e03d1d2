------------------------------ MODULE Opinions ------------------------------
(***************************************************************************)
(* Versions of an opinion (src/model/opinion.rs): what a signer says about *)
(* a statement on some day, the order in which one version overrides       *)
(* another, and how long it counts.  Certainty, comment and signature are  *)
(* payload that no decision of the store reads, and are left out.          *)
(***************************************************************************)
EXTENDS Naturals

CONSTANTS
    Dates,    \* days since the epoch (u32 in the code)
    Valids,   \* validity spans in days (u16)
    Serials   \* serial numbers within a day (u8)

ASSUME VersionAssumption ==
    /\ Dates \subseteq Nat
    /\ Valids \subseteq Nat
    /\ Serials \subseteq Nat

Versions == [date : Dates, valid : Valids, serial : Serials]

\* The version of a record that has the fields of a version among others.
VersionOf(r) == [date |-> r.date, valid |-> r.valid, serial |-> r.serial]

\* Does the version v override w?
Supersedes(v, w) ==
    \/ w.date < v.date
    \/ w.date = v.date /\ w.serial < v.serial

\* The last day on which the version counts, that day included.
LastDate(v) == v.date + v.valid

Expired(v, day) == LastDate(v) < day
=============================================================================
