------------------------------ MODULE Entities ------------------------------
(***************************************************************************)
(* What statements are about (src/model/entity.rs, statement.rs): entities *)
(* of several types, the keys under which statements about an entity are   *)
(* looked up, and the text forms of address ranges that the database       *)
(* compares.  Any other text form stands for its entity.                   *)
(*                                                                         *)
(* A range of addresses is its first address and the length of its prefix, *)
(* a domain the sequence of its labels, the top level being the last.      *)
(***************************************************************************)
EXTENDS Naturals, SequencesExt

CONSTANTS
    Null,       \* no value
    DigitBits,  \* bits of a hexadecimal digit, two of which are an octet (4)
    OctetsOf    \* octets of an address, by type ([IPv4 |-> 4, IPv6 |-> 16])

ASSUME EntityAssumption ==
    /\ DigitBits \in Nat \ {0}
    /\ OctetsOf \in [{"IPv4", "IPv6"} -> Nat \ {0}]

Range4(first, length) == [kind |-> "IPv4", first |-> first, length |-> length]
Range6(first, length) == [kind |-> "IPv6", first |-> first, length |-> length]
Domain(labels) == [kind |-> "Domain", labels |-> labels, dot |-> FALSE]
EMail(local, labels) == [kind |-> "EMail", local |-> local, labels |-> labels]
AS(number) == [kind |-> "AS", number |-> number]
Template(name, types) == [kind |-> "Template", name |-> name, types |-> types]
HashValue(e) == [kind |-> "HashValue", of |-> e]

\* The template that is in every database: the one of templates itself.
RootTemplate == Template("template", <<{"Template"}>>)

hash_emails(e) == IF e.kind = "EMail" THEN HashValue(e) ELSE e

-----------------------------------------------------------------------------
(* Templates *)

\* Mutant of matches_template: the types are not looked at.
MatchesArity(s, t) == s.name = t.name /\ Len(s.entities) = Len(t.types)

matches_template(s, t) ==
    /\ s.name = t.name
    /\ Len(s.entities) = Len(t.types)
    /\ \A i \in DOMAIN t.types : s.entities[i].kind \in t.types[i]

-----------------------------------------------------------------------------
(* Look-up keys *)

\* The domain of an e-mail address, or the domain above a domain of several
\* labels.  A top-level domain so found is written with a dot at its end.
SuperDomain(e) ==
    IF e.kind = "EMail" THEN Domain(e.labels)
    ELSE [Domain(Tail(e.labels)) EXCEPT !.dot = e.dot \/ Len(e.labels) = 2]

\* There is no domain above one of one label, with a dot or without.
DomainKeys(d) ==
    LET key[i \in DOMAIN d.labels] == IF i = 1 THEN d ELSE SuperDomain(key[i - 1])
    IN  {key[i] : i \in DOMAIN d.labels}

all_lookup_keys(e) ==
    CASE e.kind = "EMail"  -> {e, hash_emails(e)} \cup DomainKeys(SuperDomain(e))
      [] e.kind = "Domain" -> DomainKeys(e)
      [] OTHER             -> {e}

-----------------------------------------------------------------------------
(* Address ranges *)

IsRange(e) == e.kind \in {"IPv4", "IPv6"}

PowerOfTwo[n \in Nat] == IF n = 0 THEN 1 ELSE 2 * PowerOfTwo[n - 1]

OctetBits == 2 * DigitBits
AddressBits(kind) == OctetBits * OctetsOf[kind]

\* The last address of a range: all bits that follow the prefix are set.
last_address(e) == e.first + PowerOfTwo[AddressBits(e.kind) - e.length] - 1

\* Mutant of HexOctet: no leading zero.
HexShort(b) ==
    IF b < PowerOfTwo[DigitBits] THEN <<b>>
    ELSE <<b \div PowerOfTwo[DigitBits], b % PowerOfTwo[DigitBits]>>

\* Two digits, "{:02X}".
HexOctet(b) == <<b \div PowerOfTwo[DigitBits], b % PowerOfTwo[DigitBits]>>

AddressText(kind, a) ==
    LET n == OctetsOf[kind]
        octet(i) == (a \div PowerOfTwo[OctetBits * (n - i)]) % PowerOfTwo[OctetBits]
    IN  <<IF kind = "IPv4" THEN 4 ELSE 6>> \o FlattenSeq([i \in 1 .. n |-> HexOctet(octet(i))])

NoRange == [min |-> Null, max |-> Null]

cidr_minmax(e) ==
    IF IsRange(e)
    THEN [min |-> AddressText(e.kind, e.first), max |-> AddressText(e.kind, last_address(e))]
    ELSE NoRange

\* How the database compares texts.
TextLeq(s, t) ==
    \/ IsPrefix(s, t)
    \/ \E i \in DOMAIN s \cap DOMAIN t :
          SubSeq(s, 1, i - 1) = SubSeq(t, 1, i - 1) /\ s[i] < t[i]

-----------------------------------------------------------------------------
(* What the parser makes *)

\* An entity that was read from a text: a range lies within the addresses of
\* its type, and a domain has no dot at its end.
IsParsed(e) ==
    /\ IsRange(e) => /\ e.first \in Nat
                     /\ e.length \in 0 .. AddressBits(e.kind)
                     /\ last_address(e) < PowerOfTwo[AddressBits(e.kind)]
    /\ e.kind \in {"Domain", "EMail"} => e.labels \in Seq(STRING) \ {<<>>}
    /\ e.kind = "Domain" => e = Domain(e.labels)

-----------------------------------------------------------------------------
(* What looking up is for: a statement on e concerns q *)

Below(d, e) == e.kind = "Domain" /\ ~e.dot /\ IsSuffix(e.labels, d)

IsAbout(e, q) ==
    \/ e = q
    \/ q.kind = "EMail" /\ (e = HashValue(q) \/ Below(q.labels, e))
    \/ q.kind = "Domain" /\ Below(q.labels, e)
    \/ IsRange(q) /\ e.kind = q.kind /\ e.first <= q.first /\ last_address(q) <= last_address(e)
=============================================================================
